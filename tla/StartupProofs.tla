----------------------------- MODULE StartupProofs -----------------------------
(***************************************************************************)
(* Proofs about what main does before and while the windows run.           *)
(*                                                                         *)
(* Windows, for every set of widths and every GLUT: after startup the      *)
(* objects, the menu and the canvas's context are in place, nothing that   *)
(* changed stays undrawn, and a GLUT that announces every size never       *)
(* leaves the panel in the canvas's projection.                            *)
(*                                                                         *)
(* PermutationFiles, for files of any length and content: what is kept of  *)
(* each file is what it holds, in its order, but for what the gzip test    *)
(* took.                                                                   *)
(***************************************************************************)
EXTENDS Windows, PermutationFiles, FiniteSetTheorems, WellFoundedInduction, TLAPS

\* What main has set up when it has come so far.
SetUpInv ==
    /\ active_control => ~nocontrols
    /\ pc \in {"window", "panel", "load"} => ~data_panel_visible
    /\ pc \notin {"window", "ended"} => object["canvas"] = "canvas"
    /\ pc \notin {"window", "panel", "ended"} => object["panel"] = "panel"
    /\ pc \in {"reshape", "running"} /\ ~nocontrols => object["controls"] = "controls"
    /\ pc \in {"register_with_glui", "controls", "reshape", "running"} =>
          menu_window = "canvas" /\ context["canvas"] = "canvas"

\* A window not drawn since it changed will be.
DrawnInv ==
    pc # "ended" => \A w \in stale :
        w \in posted \/ (w = "panel" /\ (~data_panel_visible \/ "canvas" \in posted))

\* The panel's context is its own, or its reshape callback is yet to come.
ContextInv ==
    (announcing = "always" /\ data_panel_visible /\ context["panel"] # "panel")
        => "panel" \in resized

WindowsInv == TypeOK /\ SetUpInv /\ DrawnInv /\ ContextInv

----------------------------------------------------------------------------
\* One reshape of the canvas, whatever window was current.
LEMMA ReshapeType ==
    ASSUME TypeOK, NEW window \in WindowSet, NEW w \in Widths, NEW visible \in BOOLEAN,
           Reshape(window, w, visible)
    PROVE  /\ context' \in [WindowSet -> WindowSet \cup {None}]
           /\ context'["canvas"] = "canvas"
           /\ window # "panel" => context'["panel"] = context["panel"]
           /\ {stored', panel_width'} \subseteq Widths
  BY DEF TypeOK, Reshape, WindowSet, CurrentAfterReshape

\* A reshape of the canvas has GLUT announce the panel's size, or nothing.
LEMMA AnnouncedType ==
    ASSUME NEW window \in WindowSet, NEW w, NEW visible \in BOOLEAN
    PROVE  /\ ReshapeAnnounces(window, w, visible) \subseteq {"panel"}
           /\ visible /\ announcing = "always" => "panel" \in ReshapeAnnounces(window, w, visible)
  BY DEF ReshapeAnnounces, Announced, WindowToResize

\* Showing or hiding the panel.
LEMMA ShowOrHideType ==
    ASSUME TypeOK, NEW visible \in BOOLEAN, ShowOrHide(visible)
    PROVE  /\ data_panel_visible' = visible
           /\ context' \in [WindowSet -> WindowSet \cup {None}]
           /\ context'["canvas"] = "canvas"
           /\ {stored', panel_width'} \subseteq Widths
           /\ resized' \subseteq resized \cup {"panel"}
           /\ visible /\ announcing = "always" => "panel" \in resized'
           /\ current' = "canvas"
<1>1. "panel" \in WindowSet /\ stored \in Widths
  BY DEF TypeOK, WindowSet
<1>2. Reshape("panel", stored, visible)
  BY DEF ShowOrHide, InReshape
<1>3. resized' = resized \cup ReshapeAnnounces("panel", stored, visible)
  BY DEF ShowOrHide, InReshape
<1> QED
  BY <1>1, <1>2, <1>3, ReshapeType, AnnouncedType DEF ShowOrHide, CurrentAfterReshape

\* What GLUI's reshape callback leaves of the contexts.
LEMMA GluiReshapeType ==
    ASSUME TypeOK, NEW window \in WindowSet, NEW w \in Widths, NEW pending \in SUBSET resized,
           GluiReshape(window, w, pending)
    PROVE  /\ data_panel_visible' = data_panel_visible
           /\ context' \in [WindowSet -> WindowSet \cup {None}]
           /\ context'["canvas"] = "canvas"
           /\ window # "panel" => context'["panel"] = context["panel"]
           /\ {stored', panel_width'} \subseteq Widths
           /\ pending \subseteq resized'
           /\ data_panel_visible /\ announcing = "always" => "panel" \in resized'
           /\ resized' \subseteq pending \cup {"panel"} \cup Controls
           /\ current' \in WindowSet
<1>1. Reshape(window, w, data_panel_visible) /\ data_panel_visible \in BOOLEAN
  BY DEF GluiReshape, TypeOK
<1>2. UNION {Announced(c, stored # w) : c \in Controls} \subseteq Controls
  BY DEF Announced
<1> QED
  BY <1>1, <1>2, ReshapeType, AnnouncedType DEF GluiReshape, WindowSet, CurrentAfterReshape

----------------------------------------------------------------------------
\* main.
LEMMA InitWindowsInv == Init => WindowsInv
  BY WidthsAssumption, AnnouncingAssumption
  DEF Init, WindowsInv, TypeOK, SetUpInv, DrawnInv, ContextInv, WindowSet, None

\* main, up to the loop.
LEMMA StartStep == WindowsInv /\ Start => WindowsInv'
<1> SUFFICES ASSUME WindowsInv, Start
             PROVE  WindowsInv'
  OBVIOUS
<1> USE DEF WindowsInv
<1>1. CASE CreateCanvas
  BY <1>1 DEF CreateCanvas, Created, TypeOK, SetUpInv, DrawnInv, ContextInv, WindowSet, options
<1>2. CASE CreatePanel
  BY <1>2 DEF CreatePanel, Created, TypeOK, SetUpInv, DrawnInv, ContextInv, WindowSet, options
<1>3. CASE Load
  BY <1>3 DEF Load, InitWindow, TypeOK, SetUpInv, DrawnInv, ContextInv, WindowSet, options,
     setup, layout
<1>4. CASE PostConstructor
  BY <1>4, ShowOrHideType DEF PostConstructor, InitWindow, TypeOK, SetUpInv, DrawnInv,
     ContextInv, WindowSet, options
<1>5. CASE RegisterWithGlui
  BY <1>5 DEF RegisterWithGlui, TypeOK, SetUpInv, DrawnInv, ContextInv, WindowSet, options,
     drawing, layout
<1>6. CASE CreateControls
  BY <1>6 DEF CreateControls, Created, Controls, TypeOK, SetUpInv, DrawnInv, ContextInv,
     WindowSet, options
<1>7. CASE FirstReshape
  <2>1. CASE current \in through_glui
    <3>1. GluiReshape(current, FirstWidth, resized) /\ current \in WindowSet
      BY <1>7, <2>1 DEF FirstReshape, TypeOK
    <3>2. /\ data_panel_visible' = data_panel_visible
          /\ context' \in [WindowSet -> WindowSet \cup {None}]
          /\ context'["canvas"] = "canvas" 
          /\ {stored', panel_width'} \subseteq Widths
          /\ resized' \subseteq resized \cup {"panel"} \cup Controls
          /\ data_panel_visible /\ announcing = "always" => "panel" \in resized'
          /\ current' \in WindowSet
      BY <3>1, GluiReshapeType, WidthsAssumption
    <3> QED
      BY <1>7, <2>1, <3>2
      DEF FirstReshape, Controls, TypeOK, SetUpInv, DrawnInv, ContextInv, WindowSet, options,
          setup
  <2>2. CASE current \notin through_glui
    BY <1>7, <2>2 DEF FirstReshape, TypeOK, SetUpInv, DrawnInv, ContextInv, WindowSet, options,
       setup, layout
  <2> QED
    BY <2>1, <2>2
<1> QED
  BY <1>1, <1>2, <1>3, <1>4, <1>5, <1>6, <1>7 DEF Start

----------------------------------------------------------------------------
\* glutMainLoop.
LEMMA LoopStep == WindowsInv /\ Loop => WindowsInv'
<1> SUFFICES ASSUME WindowsInv, Loop
             PROVE  WindowsInv'
  OBVIOUS
<1> USE DEF WindowsInv, Running, EventFor, Posts, Alters
<1>1. CASE ReshapeCanvas
  <2>1. /\ GluiReshape("canvas", width, resized \ {"canvas"})
        /\ "canvas" \in WindowSet /\ width \in Widths
    BY <1>1 DEF ReshapeCanvas, TypeOK, WindowSet
  <2>2. /\ data_panel_visible' = data_panel_visible
        /\ context' \in [WindowSet -> WindowSet \cup {None}]
        /\ context'["canvas"] = "canvas" 
        /\ {stored', panel_width'} \subseteq Widths
        /\ resized' \subseteq resized \cup {"panel"} \cup Controls
        /\ data_panel_visible /\ announcing = "always" => "panel" \in resized'
        /\ current' \in WindowSet
    BY <2>1, GluiReshapeType
  <2> QED
    BY <1>1, <2>2
    DEF ReshapeCanvas, Controls, TypeOK, SetUpInv, DrawnInv, ContextInv, WindowSet, options,
        setup
<1>2. CASE ReshapeInside
  BY <1>2 DEF ReshapeInside, TypeOK, SetUpInv, DrawnInv, ContextInv, WindowSet, options, setup
<1>3. CASE Display
  BY <1>3 DEF Display, TypeOK, SetUpInv, DrawnInv, ContextInv, WindowSet, options, setup,
     layout
<1>4. CASE DisplayInside
  BY <1>4 DEF DisplayInside, TypeOK, SetUpInv, DrawnInv, ContextInv, WindowSet, options, setup,
     layout
<1> QED
  BY <1>1, <1>2, <1>3, <1>4 DEF Loop

----------------------------------------------------------------------------
\* The user.
LEMMA UserStep == WindowsInv /\ User => WindowsInv'
<1> SUFFICES ASSUME WindowsInv, User
             PROVE  WindowsInv'
  OBVIOUS
<1> USE DEF WindowsInv, Running, EventFor, Posts, Alters
<1>1. CASE UserResizes
  BY <1>1 DEF UserResizes, TypeOK, SetUpInv, DrawnInv, ContextInv, WindowSet, options, setup,
     drawing
<1>2. CASE Click
  BY <1>2 DEF Click, TypeOK, SetUpInv, DrawnInv, ContextInv, WindowSet, options, setup, layout
<1>3. CASE Drag
  BY <1>3 DEF Drag, TypeOK, SetUpInv, DrawnInv, ContextInv, WindowSet, options, setup, layout
<1>4. CASE SpecialKey
  BY <1>4 DEF SpecialKey, TypeOK, SetUpInv, DrawnInv, ContextInv, WindowSet, options, setup,
     layout
<1>5. CASE PanelInput
  BY <1>5 DEF PanelInput, TypeOK, SetUpInv, DrawnInv, ContextInv, WindowSet, options, setup,
     drawing, layout
<1>6. CASE UseControl
  BY <1>6 DEF UseControl, PostedByControl, TypeOK, SetUpInv, DrawnInv, ContextInv, WindowSet,
     options, setup, layout
<1>7. CASE MenuToggle
  BY <1>7, ShowOrHideType DEF MenuToggle, CurrentAfterReshape, TypeOK, SetUpInv, DrawnInv,
     ContextInv, WindowSet, options, setup
<1>8. CASE MenuAspect
  <2>1. /\ Reshape(menu_window, stored, data_panel_visible)
        /\ menu_window = "canvas" /\ menu_window \in WindowSet /\ stored \in Widths
    BY <1>8 DEF MenuAspect, SetUpInv, TypeOK, WindowSet
  <2>2. /\ context' \in [WindowSet -> WindowSet \cup {None}]
        /\ context'["canvas"] = "canvas" /\ context'["panel"] = context["panel"]
        /\ {stored', panel_width'} \subseteq Widths
    BY <2>1, ReshapeType DEF TypeOK
  <2>3. /\ resized \subseteq resized' /\ resized' \subseteq resized \cup {"panel"}
        /\ data_panel_visible /\ announcing = "always" => "panel" \in resized'
    BY <1>8, <2>1, AnnouncedType DEF MenuAspect, TypeOK
  <2> QED
    BY <1>8, <2>2, <2>3
    DEF MenuAspect, CurrentAfterReshape, TypeOK, SetUpInv, DrawnInv, ContextInv, WindowSet,
        options, setup
<1>9. CASE MenuColors
  BY <1>9 DEF MenuColors, TypeOK, SetUpInv, DrawnInv, ContextInv, WindowSet, options, setup,
     layout
<1>10. CASE MenuExit
  BY <1>10 DEF MenuExit, TypeOK, SetUpInv, DrawnInv, ContextInv, WindowSet, options, setup,
     drawing, layout
<1> QED
  BY <1>1, <1>2, <1>3, <1>4, <1>5, <1>6, <1>7, <1>8, <1>9, <1>10 DEF User

----------------------------------------------------------------------------
\* The four parts hold together in every state.
THEOREM WindowsHold == Spec => []WindowsInv
<1>1. WindowsInv /\ UNCHANGED vars => WindowsInv'
  BY DEF vars, options, setup, drawing, layout, WindowsInv, TypeOK, SetUpInv, DrawnInv,
         ContextInv, Controls
<1>2. WindowsInv /\ [Next]_vars => WindowsInv'
  BY <1>1, StartStep, LoopStep, UserStep DEF Next
<1> QED
  BY InitWindowsInv, <1>2, PTL DEF Spec

\* Type correctness: no callback acts on a window that does not exist, and a
\* program started without controls never posts them.
THEOREM TypeCorrect == Spec => []TypeOK
<1>1. WindowsInv => TypeOK
  BY DEF WindowsInv
<1> QED
  BY WindowsHold, <1>1, PTL

\* When the loop runs, every window's callbacks find their object, the menu is
\* on the canvas, and the canvas has its own context.
THEOREM StartsRight == Spec => []StartedRight
<1>1. WindowsInv => StartedRight
  BY DEF WindowsInv, SetUpInv, StartedRight, Running, Controls
<1> QED
  BY WindowsHold, <1>1, PTL

\* No handler posts the wrong window: what changed is drawn again.
THEOREM NothingStaysStale == Spec => []NothingStale
<1>1. WindowsInv => NothingStale
  BY DEF WindowsInv, DrawnInv, NothingStale, Running
<1> QED
  BY WindowsHold, <1>1, PTL

\* Under a GLUT that announces every size the panel is drawn in its own
\* projection, however often it was hidden and shown.
THEOREM PanelKeepsItsContext == Spec => []PanelHasItsContext
<1>1. WindowsInv => PanelHasItsContext
  BY DEF WindowsInv, ContextInv, PanelHasItsContext, AtRest
<1> QED
  BY WindowsHold, <1>1, PTL

----------------------------------------------------------------------------
\* Lines and numbers.

\* A text whose first character the test has taken is a text still, and an
\* empty file stays as it is.
LEMMA WithoutFirstType ==
    ASSUME NEW L \in Seq(Seq(Nat)), Len(L) > 0
    PROVE  /\ WithoutFirst(L) \in Seq(Seq(Nat)) /\ Len(WithoutFirst(L)) > 0
           /\ L[1] = Blank /\ Len(L) = 1 => WithoutFirst(L) = L
<1>1. L[1] \in Seq(Nat) /\ Head(L) = L[1] /\ Tail(L) \in Seq(Seq(Nat)) /\ Len(Tail(L)) = Len(L) - 1
  OBVIOUS
<1>2. ASSUME L[1] # Blank
      PROVE  WithoutFirst(L) \in Seq(Seq(Nat)) /\ Len(WithoutFirst(L)) > 0
  <2> DEFINE h == Tail(L[1])
             T == Tail(L)
  <2>1. h \in Seq(Nat)
    BY <1>1, <1>2 DEF Blank
  <2>2. WithoutFirst(L) = <<h>> \o T
    BY <1>1, <1>2, Zenon DEF WithoutFirst
  <2>3. T \in Seq(Seq(Nat)) /\ Len(T) \in Nat
    BY <1>1
  <2> HIDE DEF h, T
  <2>4. <<h>> \in Seq(Seq(Nat)) /\ Len(<<h>>) = 1
    BY <2>1
  <2>5. QED
    BY <2>2, <2>3, <2>4
<1>3. ASSUME L[1] = Blank, Len(L) > 1
      PROVE  WithoutFirst(L) \in Seq(Seq(Nat)) /\ Len(WithoutFirst(L)) > 0
  <2>1. WithoutFirst(L) = Tail(L)
    BY <1>1, <1>3, Zenon DEF WithoutFirst
  <2>2. Len(Tail(L)) > 0
    BY <1>1, <1>3
  <2>3. QED
    BY <1>1, <2>1, <2>2, Zenon
<1>4. ASSUME L[1] = Blank, ~(Len(L) > 1)
      PROVE  WithoutFirst(L) = L
  BY <1>1, <1>4 DEF WithoutFirst
<1>5. Len(L) = 1 => ~(Len(L) > 1)
  OBVIOUS
<1>6. QED
  BY <1>2, <1>3, <1>4, <1>5, Zenon

\* The numbers up to a line can be counted.
LEMMA NumbersCounted ==
    ASSUME NEW L, NEW m \in Int
    PROVE  IsFiniteSet(NumbersTo(L, m)) /\ Cardinality(NumbersTo(L, m)) \in Nat
<1>1. IsFiniteSet(1 .. m)
  BY FS_Interval
<1>2. NumbersTo(L, m) \in SUBSET (1 .. m)
  BY DEF NumbersTo
<1>3. QED
  BY <1>1, <1>2, FS_Subset, FS_CardinalityType

\* Between one number and the next there are blank lines.
LEMMA NextNumber ==
    ASSUME NEW L, NEW p \in Nat, NEW q \in Nat, p < q, L[q] # Blank,
           \A l \in (p + 1) .. (q - 1) : L[l] = Blank
    PROVE  Cardinality(NumbersTo(L, q)) = Cardinality(NumbersTo(L, p)) + 1
<1>1. NumbersTo(L, q) = NumbersTo(L, p) \cup {q} /\ q \notin NumbersTo(L, p)
  <2>1. ASSUME NEW l PROVE l \in NumbersTo(L, q) <=> l \in NumbersTo(L, p) \cup {q}
    <3>1. l \in 1 .. q <=> l \in 1 .. p \/ l \in (p + 1) .. (q - 1) \/ l = q
      OBVIOUS
    <3>2. QED
      BY <3>1 DEF NumbersTo
  <2>2. QED
    BY <2>1 DEF NumbersTo
<1>2. IsFiniteSet(NumbersTo(L, p))
  BY NumbersCounted
<1> HIDE DEF NumbersTo
<1>3. QED
  BY <1>1, <1>2, FS_AddElement

\* Blank lines hold no number.
LEMMA NoMoreNumbers ==
    ASSUME NEW L, NEW p \in Nat, NEW q \in Nat, p <= q,
           \A l \in (p + 1) .. q : L[l] = Blank
    PROVE  NumbersTo(L, q) = NumbersTo(L, p)
  BY DEF NumbersTo

\* A number has one place among the numbers.
LEMMA OneNth ==
    ASSUME NEW L \in Seq(Seq(Nat)), NEW m, NEW n \in Nat, IsNth(L, m, n)
    PROVE  NumberAt(L, n) = Head(L[m])
<1>1. ASSUME NEW p \in Nat, NEW q \in Nat, p < q, L[q] # Blank
      PROVE  Cardinality(NumbersTo(L, p)) < Cardinality(NumbersTo(L, q))
  <2>1. NumbersTo(L, p) \cup {q} \in SUBSET NumbersTo(L, q) /\ q \notin NumbersTo(L, p)
    BY <1>1 DEF NumbersTo
  <2>2. Cardinality(NumbersTo(L, p) \cup {q}) = Cardinality(NumbersTo(L, p)) + 1
    <3>1. IsFiniteSet(NumbersTo(L, p)) /\ q \notin NumbersTo(L, p)
      BY <2>1, NumbersCounted
    <3>2. QED
      BY <3>1, FS_AddElement
  <2>3. Cardinality(NumbersTo(L, p) \cup {q}) <= Cardinality(NumbersTo(L, q))
    BY <2>1, NumbersCounted, FS_Subset
  <2>4. QED
    BY <2>2, <2>3, NumbersCounted
<1>2. ASSUME NEW l, IsNth(L, l, n)
      PROVE  l = m
  <2>1. /\ l \in 1 .. Len(L) /\ L[l] # Blank /\ Cardinality(NumbersTo(L, l)) = n
        /\ m \in 1 .. Len(L) /\ L[m] # Blank /\ Cardinality(NumbersTo(L, m)) = n
    BY <1>2 DEF IsNth
  <2>2. l \in Nat /\ m \in Nat
    BY <2>1
  <2>3. ~(l < m) /\ ~(m < l)
    BY <1>1, <2>1, <2>2
  <2>4. QED
    BY <2>2, <2>3
<1>3. m \in 1 .. Len(L)
  BY DEF IsNth
<1>4. (CHOOSE l \in 1 .. Len(L) : IsNth(L, l, n)) = m
  BY <1>2, <1>3
<1>5. QED
  BY <1>4 DEF NumberAt

\* A set of numbers has a least one, and Min names it.
LEMMA LeastNumber ==
    ASSUME NEW S, S \subseteq Nat, S # {}
    PROVE  Min(S) \in S /\ \A y \in S : Min(S) <= y
<1>1. PICK m \in S : \A n \in S : ~ (<<n, m>> \in OpToRel(<, Nat))
  BY NatLessThanWellFounded, WFMin
<1>2. \A n \in S : <<n, m>> \in Nat \X Nat
  OBVIOUS
<1>3. \A n \in S : ~ (n < m)
  BY <1>1, <1>2 DEF OpToRel
<1>4. \A n \in S : m <= n
  BY <1>3
<1>5. QED
  BY <1>4 DEF Min

----------------------------------------------------------------------------
\* The invariant.

\* What a text is once d of its characters, or none, are gone; d is delivered.
Remains(f, d) == IF d = 0 THEN f.lines ELSE WithoutFirst(WithoutFirst(f.lines))

\* Vector v has the numbers of L at its first n places, as far as L has them.
FilledFrom(v, L, n) ==
    \A x \in 0 .. (n - 1) :
        x < Cardinality(NumbersTo(L, Len(L))) =>
            \E m \in 1 .. Len(L) : IsNth(L, m, x + 1) /\ v[x] = Head(L[m])

\* Where main has come, and what it has found on the way.
Both == Missing \notin {session.rperm, session.cperm}

OrderInv ==
    /\ session \in Sessions
    /\ delivered \in {0, HeaderSize} /\ file \in Labels
    /\ file \in {"permutations?", "labels?"} => ~opened
    /\ file = "permutations?" => ~rperm_loaded /\ ~cperm_loaded
    /\ file \notin {"permutations?", "refused"} \/ rperm_loaded \/ cperm_loaded => Both
    /\ rperm_loaded => file \notin {"permutations?", "rperm"}
    /\ cperm_loaded => file \notin {"permutations?", "rperm", "cperm"}

FlagsInv ==
    /\ opened \in BOOLEAN /\ judged \in BOOLEAN /\ fails \in BOOLEAN
    /\ rperm_loaded \in BOOLEAN /\ cperm_loaded \in BOOLEAN

\* What is in the stream of an opened file, and how far it has been read.
StreamInv ==
    /\ ifs \in Seq(Seq(Nat)) /\ used \in 0 .. Len(ifs) /\ r \in Nat
    /\ Reading /\ opened =>
          /\ IsFile(session[file])
          /\ session[file].kind = "text" => ifs = Remains(session[file], delivered)
          /\ session[file].kind = "gzip" /\ delivered # 0 => judged
    /\ file \in {"rperm", "cperm"} /\ opened /\ session[file].kind = "text" =>
          /\ ~fails => Cardinality(NumbersTo(ifs, used)) = r
          /\ fails => Cardinality(NumbersTo(ifs, Len(ifs))) < r

\* The rows' vector holds the file's numbers as far as they are read.
RowsHave(n) ==
    /\ irperm \in [0 .. (session.nrows - 1) -> Int]
    /\ session.rperm.kind = "text" =>
          FilledFrom(irperm, Remains(session.rperm, delivered), n)
RowsInv ==
    /\ file = "rperm" /\ opened => r \in 0 .. session.nrows /\ RowsHave(r)
    /\ rperm_loaded => RowsHave(session.nrows)

\* So does the columns', and the other vector has the place each is named last.
NamedBefore(n, p) == {c \in 0 .. (n - 1) : icperm[c] = p}
ColumnsHave(n) ==
    /\ icperm \in [0 .. (session.ncols - 1) -> 0 .. (session.ncols - 1)]
    /\ cperm \in [0 .. (session.ncols - 1) -> 0 .. (session.ncols - 1)]
    /\ session.cperm.kind = "text" =>
          FilledFrom(icperm, Remains(session.cperm, delivered), n)
    /\ \A p \in 0 .. (session.ncols - 1) :
          cperm[p] = IF NamedBefore(n, p) = {} THEN 0 ELSE Max(NamedBefore(n, p))
ColumnsInv ==
    /\ file = "cperm" /\ opened => r \in 0 .. session.ncols /\ ColumnsHave(r)
    /\ cperm_loaded => ColumnsHave(session.ncols)
    /\ WritesInVector

\* The labels of a file that has been read.
LabelsFrom(j) ==
    /\ session[j] = NoFile => labels[j] = <<>>
    /\ session[j].kind = "gzip" /\ delivered # 0 => labels[j] = session[j].lines
    /\ session[j].kind = "text" => labels[j] = Remains(session[j], delivered)
LabelsInv ==
    /\ DOMAIN labels = {"rlabel", "clabel"}
    /\ ReadingLabels => r \in 0 .. Len(Content) /\ labels[file] = SubSeq(Content, 1, r)
    /\ file \in {"clabel", "ready"} => LabelsFrom("rlabel")
    /\ file = "ready" => LabelsFrom("clabel")
    /\ file \notin {"clabel", "ready", "rlabel"} => labels["rlabel"] = <<>>
    /\ file = "rlabel" /\ ~opened => labels["rlabel"] = <<>>
    /\ file \notin {"clabel", "ready"} => labels["clabel"] = <<>>
    /\ file = "clabel" /\ ~opened => labels["clabel"] = <<>>

FilesInv == OrderInv /\ FlagsInv /\ StreamInv /\ RowsInv /\ ColumnsInv /\ LabelsInv

----------------------------------------------------------------------------
\* What a session may be.
LEMMA Sizes ==
    session \in Sessions =>
        /\ session.nrows \in Nat \ {0} /\ session.ncols \in Nat \ {0}
        /\ \A j \in {"rperm", "cperm", "rlabel", "clabel"} :
              \/ session[j] \in {NoFile, Missing}
              \/ session[j] \in Texts /\ Len(session[j].lines) > 0
  BY SessionsAssumption

\* What is left of a text.
LEMMA RemainsType ==
    ASSUME NEW f \in Texts, Len(f.lines) > 0, NEW d
    PROVE  Remains(f, d) \in Seq(Seq(Nat)) /\ Len(Remains(f, d)) > 0
<1>1. f.lines \in Seq(Seq(Nat))
  BY DEF Texts
<1>2. WithoutFirst(f.lines) \in Seq(Seq(Nat)) /\ Len(WithoutFirst(f.lines)) > 0
  BY <1>1, WithoutFirstType
<1>3. /\ WithoutFirst(WithoutFirst(f.lines)) \in Seq(Seq(Nat))
      /\ Len(WithoutFirst(WithoutFirst(f.lines))) > 0
  BY <1>2, WithoutFirstType
<1>4. QED
  BY <1>1, <1>3 DEF Remains

\* main has read nothing yet.
LEMMA FilesInvInit == FilesInit => FilesInv
<1> SUFFICES ASSUME FilesInit
             PROVE  FilesInv
  OBVIOUS
<1>1. /\ session \in Sessions /\ delivered \in {0, HeaderSize} /\ file = "permutations?"
      /\ ifs = <<>> /\ used = 0 /\ r = 0 /\ labels = [rlabel |-> <<>>, clabel |-> <<>>]
  BY DEF FilesInit
<1>2. ~opened /\ ~rperm_loaded /\ ~cperm_loaded
  BY DEF FilesInit
<1>3. FlagsInv
  BY Zenon DEF FilesInit, FlagsInv
<1>4. OrderInv
  BY <1>1, <1>2 DEF OrderInv, Labels
<1>5. StreamInv
  BY <1>1, <1>2 DEF StreamInv
<1>6. RowsInv /\ ColumnsInv
  BY <1>1, <1>2 DEF RowsInv, ColumnsInv, WritesInVector
<1>7. LabelsInv
  BY <1>1, <1>2 DEF LabelsInv, ReadingLabels
<1>8. QED
  BY <1>3, <1>4, <1>5, <1>6, <1>7 DEF FilesInv

\* What is a flag stays one.
LEMMA FlagsStep == FilesInv /\ [FilesNext]_filevars => FlagsInv'
<1> SUFFICES ASSUME FlagsInv, [FilesNext]_filevars
             PROVE  FlagsInv'
  BY DEF FilesInv
<1> USE DEF FlagsInv
<1>1. CASE CheckPermutations \/ CheckLabels
  BY <1>1, Zenon DEF CheckPermutations, CheckLabels, CheckFiles, stream, permutations
<1>2. CASE NotAsked \/ Open
  BY <1>2, Zenon DEF NotAsked, GoesOn, permutations, Open, Judgements
<1>3. CASE ReadRow \/ ReadColumn
  BY <1>3, Zenon DEF ReadRow, ReadColumn, StreamReads, HasNumber
<1>4. CASE RowsRead \/ ColumnsRead
  BY <1>4, Zenon DEF RowsRead, ColumnsRead, GoesOn
<1>5. CASE ReadLabel \/ LabelsRead
  BY <1>5, Zenon DEF ReadLabel, LabelsRead, GoesOn, permutations
<1>6. CASE LabelsStuck \/ UNCHANGED filevars
  BY <1>6, Zenon DEF LabelsStuck, filevars, stream, permutations
<1>7. QED
  BY <1>1, <1>2, <1>3, <1>4, <1>5, <1>6 DEF FilesNext

\* main takes the files in order, and goes on only with both of a pair.
LEMMA OrderStep == FilesInv /\ [FilesNext]_filevars => OrderInv'
<1> SUFFICES ASSUME OrderInv, StreamInv, [FilesNext]_filevars
             PROVE  OrderInv'
  BY DEF FilesInv
<1> USE DEF OrderInv, Both
<1>1. CASE CheckPermutations \/ CheckLabels
  BY <1>1 DEF CheckPermutations, CheckLabels, CheckFiles, Exists, stream, permutations, Labels
<1>2. CASE NotAsked
  BY <1>2 DEF NotAsked, GoesOn, After, Reading, permutations, Labels
<1>3. CASE Open
  <2>1. /\ file \in {"rperm", "cperm", "rlabel", "clabel"}
        /\ UNCHANGED <<session, delivered, file, rperm_loaded, cperm_loaded>>
    BY <1>3 DEF Open, Reading, After
  <2>2. QED
    BY <2>1
<1>4. CASE ReadRow \/ ReadColumn
  <2>1. /\ file \in {"rperm", "cperm"} /\ file' \in {file, "undefined"}
        /\ UNCHANGED <<session, delivered, rperm_loaded, cperm_loaded>>
    BY <1>4 DEF ReadRow, ReadColumn
  <2>2. QED
    BY <2>1 DEF Labels
<1>5. CASE RowsRead
  BY <1>5 DEF RowsRead, GoesOn, After, Labels
<1>6. CASE ColumnsRead
  BY <1>6 DEF ColumnsRead, GoesOn, After, Labels
<1>7. CASE ReadLabel
  BY <1>7 DEF ReadLabel, permutations
<1>8. CASE LabelsRead
  BY <1>8 DEF LabelsRead, ReadingLabels, GoesOn, After, permutations, Labels
<1>9. CASE LabelsStuck \/ UNCHANGED filevars
  BY <1>9 DEF LabelsStuck, filevars, stream, permutations
<1>10. QED
  BY <1>1, <1>2, <1>3, <1>4, <1>5, <1>6, <1>7, <1>8, <1>9 DEF FilesNext

----------------------------------------------------------------------------
\* Reading numbers.

\* The number that operator >> takes is the next one.
LEMMA NextAhead ==
    ASSUME ifs \in Seq(Seq(Nat)), used \in 0 .. Len(ifs), NumbersAhead # {}
    PROVE  LET q == Min(NumbersAhead)
           IN  /\ q \in 1 .. Len(ifs) /\ Head(ifs[q]) \in Nat
               /\ IsNth(ifs, q, Cardinality(NumbersTo(ifs, used)) + 1)
<1> DEFINE q == Min(NumbersAhead)
<1>1. NumbersAhead \subseteq Nat /\ Len(ifs) \in Nat /\ used \in Nat
  BY DEF NumbersAhead
<1>2. q \in NumbersAhead /\ \A y \in NumbersAhead : q <= y
  BY <1>1, LeastNumber
<1> HIDE DEF q
<1>3. q \in (used + 1) .. Len(ifs) /\ ifs[q] # Blank
  BY <1>2 DEF NumbersAhead
<1>4. q \in Nat /\ q \in 1 .. Len(ifs) /\ used < q
  BY <1>1, <1>3
<1>5. \A l \in (used + 1) .. (q - 1) : ifs[l] = Blank
  <2> SUFFICES ASSUME NEW l \in (used + 1) .. (q - 1), ifs[l] # Blank
               PROVE  FALSE
    OBVIOUS
  <2>1. l \in NumbersAhead /\ ~(q <= l)
    BY <1>1, <1>3 DEF NumbersAhead
  <2>2. QED
    BY <1>2, <2>1
<1>6. Cardinality(NumbersTo(ifs, q)) = Cardinality(NumbersTo(ifs, used)) + 1
  BY <1>1, <1>3, <1>4, <1>5, NextNumber
<1>7. Head(ifs[q]) \in Nat
  <2>1. ifs[q] \in Seq(Nat) /\ ifs[q] # <<>>
    BY <1>3, <1>4 DEF Blank
  <2>2. QED
    BY <2>1
<1>8. QED
  BY <1>3, <1>4, <1>6, <1>7 DEF IsNth, q

\* The r-th value read is the file's r-th number, if it has so many.
LEMMA ReadsNext ==
    ASSUME StreamInv, file \in {"rperm", "cperm"}, opened, session[file].kind = "text",
           r < Cardinality(NumbersTo(ifs, Len(ifs))), NEW p \in ValuesRead
    PROVE  \E m \in 1 .. Len(ifs) : IsNth(ifs, m, r + 1) /\ p = Head(ifs[m])
<1>1. /\ ifs \in Seq(Seq(Nat)) /\ used \in 0 .. Len(ifs) /\ r \in Nat
      /\ ~fails => Cardinality(NumbersTo(ifs, used)) = r
      /\ fails => Cardinality(NumbersTo(ifs, Len(ifs))) < r
      /\ Len(ifs) \in Nat
  BY DEF StreamInv
<1>2. Cardinality(NumbersTo(ifs, Len(ifs))) \in Nat
  BY <1>1, NumbersCounted
<1>3. ~fails
  BY <1>1, <1>2
<1>4. NumbersAhead # {}
  <2> SUFFICES ASSUME NumbersAhead = {}
               PROVE  FALSE
    OBVIOUS
  <2>1. \A l \in (used + 1) .. Len(ifs) : ifs[l] = Blank
    BY DEF NumbersAhead
  <2>2. NumbersTo(ifs, Len(ifs)) = NumbersTo(ifs, used)
    BY <1>1, <2>1, NoMoreNumbers
  <2>3. QED
    BY <1>1, <1>2, <1>3, <2>2
<1>5. p = Head(ifs[Min(NumbersAhead)])
  BY <1>3, <1>4 DEF ValuesRead, HasNumber
<1>6. QED
  BY <1>1, <1>3, <1>4, <1>5, NextAhead

\* Written at place r, it leaves the vector filled one place further.
LEMMA FillsNext ==
    ASSUME StreamInv, file \in {"rperm", "cperm"}, opened, session[file].kind = "text",
           NEW p \in ValuesRead, NEW n \in Nat, r < n,
           NEW v, DOMAIN v = 0 .. (n - 1), FilledFrom(v, ifs, r)
    PROVE  FilledFrom([v EXCEPT ![r] = p], ifs, r + 1)
<1> DEFINE u == [v EXCEPT ![r] = p]
           len == Cardinality(NumbersTo(ifs, Len(ifs)))
<1>1. r \in Nat /\ r \in DOMAIN v
  BY DEF StreamInv
<1>2. u[r] = p /\ \A x \in 0 .. (r - 1) : u[x] = v[x]
  BY <1>1
<1>3. ASSUME NEW x \in 0 .. ((r + 1) - 1), x < len
      PROVE  \E m \in 1 .. Len(ifs) : IsNth(ifs, m, x + 1) /\ u[x] = Head(ifs[m])
  <2> HIDE DEF u
  <2>1. CASE x = r
    BY <1>2, <1>3, <2>1, ReadsNext
  <2>2. CASE x # r
    <3>1. x \in 0 .. (r - 1)
      BY <1>1, <2>2
    <3>2. QED
      BY <1>2, <1>3, <3>1 DEF FilledFrom
  <2>3. QED
    BY <2>1, <2>2
<1>4. QED
  BY <1>3 DEF FilledFrom

\* Each number taken moves the stream to the next.
LEMMA StreamReadsStep ==
    ASSUME StreamInv, file \in {"rperm", "cperm"}, opened, StreamReads, ifs' = ifs
    PROVE  /\ used' \in 0 .. Len(ifs) /\ r' = r + 1 /\ r' \in Nat
           /\ session[file].kind = "text" =>
                 /\ ~fails' => Cardinality(NumbersTo(ifs, used')) = r'
                 /\ fails' => Cardinality(NumbersTo(ifs, Len(ifs))) < r'
<1>1. /\ ifs \in Seq(Seq(Nat)) /\ used \in 0 .. Len(ifs) /\ r \in Nat /\ Len(ifs) \in Nat
      /\ r' = r + 1
  BY DEF StreamInv, StreamReads
<1>2. CASE HasNumber
  <2>1. ~fails' /\ ~fails /\ used' = Min(NumbersAhead) /\ NumbersAhead # {}
        /\ session[file].kind = "text"
    BY <1>2 DEF StreamReads, HasNumber
  <2>2. Cardinality(NumbersTo(ifs, used)) = r
    BY <2>1 DEF StreamInv
  <2>3. used' \in 1 .. Len(ifs) /\ IsNth(ifs, used', r + 1)
    BY <1>1, <2>1, <2>2, NextAhead
  <2>4. QED
    BY <1>1, <2>1, <2>3 DEF IsNth
<1>3. CASE ~HasNumber
  <2>1. fails' /\ used' = used
    BY <1>3 DEF StreamReads
  <2>2. ASSUME session[file].kind = "text"
        PROVE  Cardinality(NumbersTo(ifs, Len(ifs))) < r'
    <3>1. ~(r < Cardinality(NumbersTo(ifs, Len(ifs))))
      <4> SUFFICES ASSUME r < Cardinality(NumbersTo(ifs, Len(ifs)))
                   PROVE  FALSE
        OBVIOUS
      <4>1. Cardinality(NumbersTo(ifs, Len(ifs))) \in Nat
        BY <1>1, NumbersCounted
      <4>2. ~fails
        BY <1>1, <2>2, <4>1 DEF StreamInv
      <4>3. NumbersAhead = {} /\ Cardinality(NumbersTo(ifs, used)) = r
        BY <1>3, <2>2, <4>2 DEF HasNumber, StreamInv
      <4>4. \A l \in (used + 1) .. Len(ifs) : ifs[l] = Blank
        BY <4>3 DEF NumbersAhead
      <4>5. used \in Nat /\ used <= Len(ifs)
        BY <1>1
      <4>6. NumbersTo(ifs, Len(ifs)) = NumbersTo(ifs, used)
        BY <1>1, <4>4, <4>5, NoMoreNumbers
      <4>7. QED
        BY <1>1, <4>3, <4>6
    <3>2. Cardinality(NumbersTo(ifs, Len(ifs))) \in Nat
      BY <1>1, NumbersCounted
    <3>3. QED
      BY <1>1, <3>1, <3>2
  <2>3. QED
    BY <1>1, <2>1, <2>2
<1>4. QED
  BY <1>2, <1>3

\* The test leaves what Remains says; reading changes only the place.
LEMMA StreamStep == FilesInv /\ [FilesNext]_filevars => StreamInv'
<1> SUFFICES ASSUME OrderInv, StreamInv, [FilesNext]_filevars
             PROVE  StreamInv'
  BY DEF FilesInv
<1>1. /\ ifs \in Seq(Seq(Nat)) /\ used \in 0 .. Len(ifs) /\ r \in Nat
      /\ session \in Sessions /\ delivered \in {0, HeaderSize}
  BY DEF StreamInv, OrderInv
<1>2. CASE CheckPermutations \/ CheckLabels
  <2>1. ~opened /\ opened' = opened /\ UNCHANGED <<ifs, used, r>>
    BY <1>2 DEF CheckPermutations, CheckLabels, CheckFiles, stream, OrderInv
  <2>2. QED
    BY <1>1, <2>1 DEF StreamInv
<1>3. CASE NotAsked \/ RowsRead \/ ColumnsRead \/ LabelsRead
  <2>1. ~opened' /\ UNCHANGED <<ifs, used, r>>
    BY <1>3 DEF NotAsked, RowsRead, ColumnsRead, LabelsRead, GoesOn
  <2>2. QED
    BY <1>1, <2>1 DEF StreamInv
<1>4. CASE Open
  <2> DEFINE f == session[file]
  <2>1. /\ IsFile(f) /\ file \in {"rperm", "cperm", "rlabel", "clabel"}
        /\ opened' /\ r' = 0 /\ used' = 0 /\ ~fails'
        /\ UNCHANGED <<session, delivered, file>>
    BY <1>4 DEF Open, Reading, After
  <2>2. judged' \in Judgements(f) /\ ifs' = AfterTest(f.lines, judged')
    BY <1>4 DEF Open
  <2>3. f \in Texts /\ Len(f.lines) > 0
    BY <1>1, <2>1, Sizes DEF IsFile, NoFile, Missing
  <2>4. f.lines \in Seq(Seq(Nat))
    BY <2>3 DEF Texts
  <2> HIDE DEF f
  <2>5. ifs' = f.lines \/ ifs' = Remains(f, delivered)
    BY <2>2 DEF AfterTest, Remains
  <2>6. ifs' \in Seq(Seq(Nat)) /\ Len(ifs') > 0
    BY <2>3, <2>4, <2>5, RemainsType
  <2>7. f.kind = "text" => ifs' = Remains(f, delivered)
    <3> SUFFICES ASSUME f.kind = "text"
                 PROVE  ifs' = Remains(f, delivered)
      OBVIOUS
    <3>1. CASE delivered = 0
      BY <2>2, <3>1 DEF AfterTest, Remains
    <3>2. CASE delivered # 0 /\ ~judged'
      BY <2>2, <3>2 DEF AfterTest, Remains
    <3>3. CASE delivered # 0 /\ judged'
      <4>1. IsEmpty(f.lines)
        BY <2>2, <3>3 DEF Judgements
      <4>2. f.lines[1] = Blank /\ Len(f.lines) = 1
        BY <4>1 DEF IsEmpty, Blank
      <4>3. WithoutFirst(f.lines) = f.lines
        BY <2>4, <4>2, WithoutFirstType
      <4>4. QED
        BY <2>2, <3>3, <4>3 DEF AfterTest, Remains
    <3>4. QED
      BY <3>1, <3>2, <3>3
  <2>8. f.kind = "gzip" /\ delivered # 0 => judged'
    BY <2>2 DEF Judgements
  <2>9. Cardinality(NumbersTo(ifs', used')) = r'
    BY <2>1, FS_EmptySet DEF NumbersTo
  <2>10. QED
    BY <2>1, <2>6, <2>7, <2>8, <2>9 DEF StreamInv, f
<1>5. CASE ReadRow \/ ReadColumn
  <2>1. /\ StreamReads /\ file \in {"rperm", "cperm"} /\ opened
        /\ file' = file \/ file' = "undefined"
        /\ UNCHANGED <<session, delivered, opened, judged, ifs>>
    BY <1>5 DEF ReadRow, ReadColumn
  <2>2. /\ used' \in 0 .. Len(ifs) /\ r' = r + 1 /\ r' \in Nat
        /\ session[file].kind = "text" =>
              /\ ~fails' => Cardinality(NumbersTo(ifs, used')) = r'
              /\ fails' => Cardinality(NumbersTo(ifs, Len(ifs))) < r'
    BY <2>1, StreamReadsStep
  <2>3. QED
    BY <1>1, <2>1, <2>2 DEF StreamInv, Reading, After
<1>6. CASE ReadLabel
  BY <1>1, <1>6 DEF ReadLabel, ReadingLabels, StreamInv, Reading, After
<1>7. CASE LabelsStuck \/ UNCHANGED filevars
  BY <1>1, <1>7 DEF LabelsStuck, filevars, stream, StreamInv, Reading, After
<1>8. QED
  BY <1>2, <1>3, <1>4, <1>5, <1>6, <1>7 DEF FilesNext

----------------------------------------------------------------------------
\* The vectors of the rows and the columns.

\* What may be read is a whole number.
LEMMA ValuesAreWhole ==
    ASSUME StreamInv, NEW p \in ValuesRead
    PROVE  p \in Int
<1>1. CASE HasNumber
  <2>1. ifs \in Seq(Seq(Nat)) /\ used \in 0 .. Len(ifs) /\ NumbersAhead # {}
    BY <1>1 DEF StreamInv, HasNumber
  <2>2. Head(ifs[Min(NumbersAhead)]) \in Nat
    BY <2>1, NextAhead
  <2>3. QED
    BY <1>1, <2>2 DEF ValuesRead
<1>2. CASE ~HasNumber
  BY <1>2, GarbageAssumption DEF ValuesRead
<1>3. QED
  BY <1>1, <1>2

\* Nothing is filled at first.
LEMMA NothingFilled == \A v, L : FilledFrom(v, L, 0)
  BY DEF FilledFrom

\* The rows' vector is filled number by number, and then kept.
LEMMA RowsStep == FilesInv /\ [FilesNext]_filevars => RowsInv'
<1> SUFFICES ASSUME FilesInv, [FilesNext]_filevars
             PROVE  RowsInv'
  OBVIOUS
<1>1. /\ OrderInv /\ StreamInv /\ RowsInv /\ session \in Sessions
      /\ session.nrows \in Nat \ {0} /\ r \in Nat
  BY Sizes DEF FilesInv, OrderInv, StreamInv
<1> DEFINE L == Remains(session.rperm, delivered)
           n == session.nrows
<1>2. CASE ReadRow
  <2>1. /\ file = "rperm" /\ opened /\ r < n /\ r' = r + 1
        /\ UNCHANGED <<session, delivered, file, opened, rperm_loaded>>
    BY <1>2 DEF ReadRow, StreamReads
  <2>2. PICK p \in ValuesRead : irperm' = [irperm EXCEPT ![r] = p]
    BY <1>2 DEF ReadRow
  <2>3. ~rperm_loaded /\ RowsHave(r)
    BY <1>1, <2>1 DEF OrderInv, RowsInv
  <2>4. irperm \in [0 .. (n - 1) -> Int] /\ irperm' \in [0 .. (n - 1) -> Int]
    <3>1. p \in Int /\ irperm \in [0 .. (n - 1) -> Int]
      BY <1>1, <2>3, ValuesAreWhole DEF RowsHave
    <3>2. QED
      BY <2>2, <3>1
  <2>5. session.rperm.kind = "text" => FilledFrom(irperm', L, r + 1)
    <3> SUFFICES ASSUME session.rperm.kind = "text"
                 PROVE  FilledFrom(irperm', L, r + 1)
      OBVIOUS
    <3>1. session[file].kind = "text" /\ ifs = L
      BY <1>1, <2>1 DEF StreamInv, Reading, After
    <3>2. FilledFrom(irperm, ifs, r) /\ DOMAIN irperm = 0 .. (n - 1)
      BY <2>3, <2>4, <3>1 DEF RowsHave
    <3>3. QED
      BY <1>1, <2>1, <2>2, <3>1, <3>2, FillsNext
  <2>6. r' \in 0 .. n
    BY <1>1, <2>1
  <2>7. QED
    BY <2>1, <2>3, <2>4, <2>5, <2>6 DEF RowsInv, RowsHave
<1>3. CASE Open
  <2>1. /\ opened' /\ r' = 0 /\ (file = "rperm" => irperm' = Zeros(n))
        /\ (file # "rperm" => irperm' = irperm)
        /\ UNCHANGED <<session, delivered, file, rperm_loaded>>
    BY <1>3 DEF Open
  <2>2. CASE file = "rperm"
    <3>1. ~rperm_loaded
      BY <1>1, <2>2 DEF OrderInv
    <3>2. irperm' \in [0 .. (n - 1) -> Int]
      BY <2>1, <2>2 DEF Zeros
    <3>3. FilledFrom(irperm', L, 0)
      BY NothingFilled
    <3>4. QED
      BY <1>1, <2>1, <3>1, <3>2, <3>3 DEF RowsInv, RowsHave
  <2>3. CASE file # "rperm"
    BY <1>1, <2>1, <2>3 DEF RowsInv, RowsHave
  <2>4. QED
    BY <2>2, <2>3
<1>4. CASE RowsRead
  <2>1. /\ file = "rperm" /\ opened /\ r = n /\ ~opened'
        /\ UNCHANGED <<session, delivered, irperm>>
    BY <1>4 DEF RowsRead, GoesOn
  <2>2. QED
    BY <1>1, <2>1 DEF RowsInv, RowsHave
<1>5. CASE CheckPermutations \/ CheckLabels \/ NotAsked \/ ColumnsRead \/ LabelsRead
  <2>1. ~opened' /\ UNCHANGED <<session, delivered, irperm, rperm_loaded>>
    BY <1>1, <1>5 DEF CheckPermutations, CheckLabels, CheckFiles, NotAsked, ColumnsRead,
       LabelsRead, GoesOn, stream, permutations, OrderInv
  <2>2. QED
    BY <1>1, <2>1 DEF RowsInv, RowsHave
<1>6. CASE ReadColumn \/ ReadLabel
  <2>1. file' # "rperm" /\ UNCHANGED <<session, delivered, irperm, rperm_loaded>>
    BY <1>6 DEF ReadColumn, ReadLabel, ReadingLabels, permutations
  <2>2. QED
    BY <1>1, <2>1 DEF RowsInv, RowsHave
<1>7. CASE LabelsStuck \/ UNCHANGED filevars
  BY <1>1, <1>7 DEF LabelsStuck, filevars, stream, permutations, RowsInv, RowsHave
<1>8. QED
  BY <1>2, <1>3, <1>4, <1>5, <1>6, <1>7 DEF FilesNext

\* The number last read is the greatest of those that name its place.
LEMMA GreatestIsLast ==
    ASSUME NEW n \in Nat, NEW S \in SUBSET (0 .. n), n \in S
    PROVE  Max(S) = n
<1>1. \A y \in S : n >= y
  OBVIOUS
<1>2. \A x \in S : (\A y \in S : x >= y) => x = n
  OBVIOUS
<1>3. QED
  BY <1>1, <1>2 DEF Max

\* What is said of the columns stays true while nobody writes them.
LEMMA ColumnsKept ==
    ASSUME UNCHANGED <<session, delivered, icperm, cperm>>, NEW n, ColumnsHave(n)
    PROVE  ColumnsHave(n)'
  BY DEF ColumnsHave, NamedBefore

\* So are the columns' two; a number outside ends the run.
LEMMA ColumnsStep == FilesInv /\ [FilesNext]_filevars => ColumnsInv'
<1> SUFFICES ASSUME FilesInv, [FilesNext]_filevars
             PROVE  ColumnsInv'
  OBVIOUS
<1> DEFINE L == Remains(session.cperm, delivered)
           n == session.ncols
           Places == 0 .. (n - 1)
<1>1. /\ OrderInv /\ StreamInv /\ ColumnsInv /\ session \in Sessions
      /\ n \in Nat \ {0} /\ r \in Nat
  BY Sizes DEF FilesInv, OrderInv, StreamInv
<1>2. CASE ReadColumn
  <2>1. /\ file = "cperm" /\ opened /\ r < n /\ r' = r + 1 /\ ~cperm_loaded
        /\ UNCHANGED <<session, delivered, opened, cperm_loaded>>
    BY <1>1, <1>2 DEF ReadColumn, StreamReads, OrderInv
  <2>2. PICK p \in ValuesRead :
           /\ icperm' = [icperm EXCEPT ![r] = p]
           /\ IF Fits(p) THEN cperm' = Placed(p) /\ UNCHANGED file
              ELSE file' = "undefined" /\ UNCHANGED cperm
    BY <1>2 DEF ReadColumn
  <2>3. /\ ColumnsHave(r) /\ p \in Int /\ r \in Places
        /\ icperm \in [Places -> Places] /\ cperm \in [Places -> Places]
    BY <1>1, <2>1, ValuesAreWhole DEF ColumnsInv, ColumnsHave
  <2>4. session.cperm.kind = "text" =>
           /\ session[file].kind = "text" /\ ifs = L /\ FilledFrom(icperm, ifs, r)
    BY <1>1, <2>1, <2>3 DEF StreamInv, Reading, After, ColumnsHave
  <2>5. CASE Fits(p)
    <3>1. p \in Places /\ cperm' = [cperm EXCEPT ![p] = r] /\ file' = file
      BY <2>2, <2>3, <2>5 DEF Fits, Placed
    <3>2. icperm' \in [Places -> Places] /\ cperm' \in [Places -> Places]
      BY <2>2, <2>3, <3>1
    <3>3. icperm'[r] = p /\ \A c \in 0 .. (r - 1) : icperm'[c] = icperm[c]
      BY <1>1, <2>1, <2>2, <2>3
    <3> DEFINE Named(q) == {c \in 0 .. r : icperm'[c] = q}
    <3>4. Max(Named(p)) = r /\ Named(p) # {}
      <4>1. r \in Nat /\ Named(p) \subseteq 0 .. r /\ r \in Named(p)
        BY <1>1, <3>3
      <4>2. QED
        BY <4>1, GreatestIsLast
    <3>5. ASSUME NEW q \in Places, q # p
          PROVE  Named(q) = NamedBefore(r, q)
      BY <1>1, <3>3, <3>5 DEF NamedBefore
    <3>6. ASSUME NEW q \in Places
          PROVE  cperm'[q] = IF Named(q) = {} THEN 0 ELSE Max(Named(q))
      <4> HIDE DEF Named
      <4>1. CASE q = p
        BY <2>3, <3>1, <3>4, <4>1
      <4>2. CASE q # p
        BY <2>3, <3>1, <3>5, <3>6, <4>2 DEF ColumnsHave
      <4>3. QED
        BY <4>1, <4>2
    <3>7. ASSUME NEW q
          PROVE  NamedBefore(r, q)' = Named(q)
      <4>1. r' - 1 = r
        BY <1>1, <2>1
      <4>2. QED
        BY <4>1 DEF NamedBefore
    <3>8. session.cperm.kind = "text" => FilledFrom(icperm', L, r + 1)
      <4> SUFFICES ASSUME session.cperm.kind = "text"
                   PROVE  FilledFrom(icperm', L, r + 1)
        OBVIOUS
      <4>1. DOMAIN icperm = 0 .. (n - 1)
        BY <2>3
      <4>2. QED
        BY <1>1, <2>1, <2>2, <2>4, <4>1, FillsNext
    <3>9. ColumnsHave(r)'
      <4> HIDE DEF Named
      <4>1. QED
        BY <2>1, <3>2, <3>6, <3>7, <3>8 DEF ColumnsHave
    <3>10. r' \in 0 .. n
      BY <1>1, <2>1
    <3>11. QED
      BY <2>1, <3>1, <3>9, <3>10 DEF ColumnsInv, WritesInVector
  <2>6. CASE ~Fits(p)
    <3>1. file' = "undefined" /\ p \notin Places
      BY <2>2, <2>3, <2>6 DEF Fits
    <3>2. ASSUME Enough(session.cperm, n)
          PROVE  \E k \in 1 .. n : NumberAt(TextLeft(session.cperm), k) >= n
      <4>1. /\ session.cperm.kind = "text" /\ TextLeft(session.cperm) = L
            /\ Cardinality(NumbersTo(L, Len(L))) >= n
        BY <3>2 DEF Enough, HowMany, TextLeft, Remains
      <4>2. ifs = L /\ L \in Seq(Seq(Nat)) /\ session[file].kind = "text"
        BY <1>1, <2>4, <4>1 DEF StreamInv
      <4> HIDE DEF L
      <4>3. Cardinality(NumbersTo(ifs, Len(ifs))) \in Nat
        BY <4>2, NumbersCounted
      <4>4. r < Cardinality(NumbersTo(ifs, Len(ifs)))
        BY <1>1, <2>1, <4>1, <4>2, <4>3
      <4>5. PICK m \in 1 .. Len(ifs) : IsNth(ifs, m, r + 1) /\ p = Head(ifs[m])
        BY <1>1, <2>1, <4>2, <4>4, ReadsNext
      <4>6. NumberAt(L, r + 1) = p
        <5>1. r + 1 \in Nat /\ ifs \in Seq(Seq(Nat))
          BY <1>1, <4>2
        <5>2. NumberAt(ifs, r + 1) = Head(ifs[m])
          BY <4>5, <5>1, OneNth
        <5>3. QED
          BY <4>2, <4>5, <5>2
      <4>7. ifs[m] \in Seq(Nat) /\ ifs[m] # <<>>
        BY <4>2, <4>5 DEF IsNth, Blank
      <4>8. p \in Nat
        BY <4>5, <4>7
      <4>9. p >= n /\ r + 1 \in 1 .. n
        BY <1>1, <2>1, <3>1, <4>8
      <4>10. QED
        BY <4>1, <4>6, <4>9
    <3>3. WritesInVector'
      <4>1. session' = session /\ delivered' = delivered
        BY <2>1
      <4>2. QED
        BY <3>2, <4>1 DEF WritesInVector, Enough, TextLeft
    <3>4. QED
      BY <2>1, <3>1, <3>3 DEF ColumnsInv
  <2>7. QED
    BY <2>5, <2>6
<1>3. CASE Open
  <2>1. /\ opened' /\ r' = 0 /\ file \in {"rperm", "cperm", "rlabel", "clabel"}
        /\ (file = "cperm" => icperm' = Zeros(n) /\ cperm' = Zeros(n))
        /\ (file # "cperm" => icperm' = icperm /\ cperm' = cperm)
        /\ UNCHANGED <<session, delivered, file, cperm_loaded>>
    BY <1>3 DEF Open, PlacesForColumns, Reading, After
  <2>2. CASE file = "cperm"
    <3>1. ~cperm_loaded
      BY <1>1, <2>2 DEF OrderInv
    <3>2. /\ icperm' \in [Places -> Places] /\ cperm' \in [Places -> Places]
          /\ \A p \in Places : cperm'[p] = 0
      BY <1>1, <2>1, <2>2 DEF Zeros
    <3>3. FilledFrom(icperm', L, 0)
      BY NothingFilled
    <3>4. \A p : NamedBefore(r, p)' = {}
      BY <2>1 DEF NamedBefore
    <3>5. ColumnsHave(r)'
      BY <2>1, <3>2, <3>3, <3>4 DEF ColumnsHave
    <3>6. QED
      BY <1>1, <2>1, <3>1, <3>5 DEF ColumnsInv, WritesInVector
  <2>3. CASE file # "cperm"
    <3>1. cperm_loaded => ColumnsHave(n)'
      BY <1>1, <2>1, <2>3, ColumnsKept DEF ColumnsInv
    <3>2. file' # "cperm" /\ WritesInVector'
      BY <1>1, <2>1, <2>3 DEF WritesInVector
    <3>3. QED
      BY <2>1, <3>1, <3>2 DEF ColumnsInv
  <2>4. QED
    BY <2>2, <2>3
<1>4. CASE ColumnsRead
  <2>1. /\ file = "cperm" /\ opened /\ r = n /\ ~opened' /\ file' = "labels?"
        /\ UNCHANGED <<session, delivered, icperm, cperm>>
    BY <1>4 DEF ColumnsRead, GoesOn, After
  <2>2. ColumnsHave(n)
    BY <1>1, <2>1 DEF ColumnsInv
  <2>3. ColumnsHave(n)'
    BY <2>1, <2>2 DEF ColumnsHave, NamedBefore
  <2>4. QED
    BY <2>1, <2>3 DEF ColumnsInv, WritesInVector
<1>5. CASE CheckPermutations \/ CheckLabels \/ NotAsked \/ RowsRead \/ LabelsRead
  <2>1. /\ ~opened' /\ file' # "undefined"
        /\ UNCHANGED <<session, delivered, icperm, cperm, cperm_loaded>>
    BY <1>1, <1>5 DEF CheckPermutations, CheckLabels, CheckFiles, NotAsked, RowsRead,
       LabelsRead, Reading, ReadingLabels, After, GoesOn, stream, permutations, OrderInv
  <2>2. cperm_loaded => ColumnsHave(n)'
    BY <1>1, <2>1, ColumnsKept DEF ColumnsInv
  <2>3. QED
    BY <2>1, <2>2 DEF ColumnsInv, WritesInVector
<1>6. CASE ReadRow \/ ReadLabel
  <2>1. /\ file' = file /\ file' \notin {"cperm", "undefined"}
        /\ UNCHANGED <<session, delivered, icperm, cperm, cperm_loaded>>
    BY <1>6 DEF ReadRow, ReadLabel, ReadingLabels, permutations
  <2>2. cperm_loaded => ColumnsHave(n)'
    BY <1>1, <2>1, ColumnsKept DEF ColumnsInv
  <2>3. QED
    BY <2>1, <2>2 DEF ColumnsInv, WritesInVector
<1>7. CASE LabelsStuck \/ UNCHANGED filevars
  <2>1. UNCHANGED <<session, delivered, file, opened, r, icperm, cperm, cperm_loaded>>
    BY <1>7 DEF LabelsStuck, filevars, stream, permutations
  <2>2. cperm_loaded => ColumnsHave(n)'
    BY <1>1, <2>1, ColumnsKept DEF ColumnsInv
  <2>3. file = "cperm" /\ opened => r \in 0 .. n /\ ColumnsHave(r)'
    BY <1>1, <2>1, ColumnsKept DEF ColumnsInv
  <2>4. WritesInVector'
    BY <1>1, <2>1 DEF ColumnsInv, WritesInVector, Enough, TextLeft
  <2>5. QED
    BY <2>1, <2>2, <2>3, <2>4 DEF ColumnsInv
<1>8. QED
  BY <1>2, <1>3, <1>4, <1>5, <1>6, <1>7 DEF FilesNext

----------------------------------------------------------------------------
\* The labels.

\* What the lines of an opened file come from.
LEMMA ContentIs ==
    ASSUME OrderInv, FlagsInv, StreamInv, ReadingLabels
    PROVE  /\ Content \in Seq(Seq(Nat))
           /\ session[file] # NoFile
           /\ Content # Unreadable =>
                 /\ session[file].kind = "text" => Content = Remains(session[file], delivered)
                 /\ session[file].kind = "gzip" /\ delivered # 0 =>
                       Content = session[file].lines
<1> DEFINE f == session[file]
<1>1. /\ file \in {"rlabel", "clabel"} /\ opened /\ session \in Sessions
      /\ ifs \in Seq(Seq(Nat)) /\ IsFile(f)
      /\ f.kind = "text" => ifs = Remains(f, delivered)
      /\ f.kind = "gzip" /\ delivered # 0 => judged
  BY DEF ReadingLabels, StreamInv, OrderInv, Reading, After
<1>2. f \in Texts /\ f.lines \in Seq(Seq(Nat)) /\ f # NoFile
  BY <1>1, Sizes DEF IsFile, NoFile, Missing, Texts
<1>3. f.kind \in {"text", "gzip"}
  BY <1>1 DEF IsFile
<1> HIDE DEF f
<1>4. CASE judged /\ f.kind = "gzip"
  <2>1. Content = f.lines
    BY <1>4 DEF Content, f
  <2>2. QED
    BY <1>2, <1>4, <2>1 DEF f
<1>5. CASE judged /\ f.kind = "text"
  <2>1. Content = Unreadable
    BY <1>5 DEF Content, f
  <2>2. QED
    BY <1>2, <1>5, <2>1 DEF f, Unreadable
<1>6. CASE ~judged /\ f.kind = "gzip"
  <2>1. Content = <<Blank>>
    BY <1>6 DEF Content, f
  <2>2. Content \in Seq(Seq(Nat))
    BY <2>1 DEF Blank
  <2>3. QED
    BY <1>1, <1>2, <1>6, <2>2 DEF f
<1>7. CASE ~judged /\ f.kind = "text"
  <2>1. Content = ifs
    BY <1>7 DEF Content, f
  <2>2. QED
    BY <1>1, <1>2, <1>7, <2>1 DEF f
<1>8. QED
  BY <1>3, <1>4, <1>5, <1>6, <1>7

\* What has been read of the labels' files is what they hold.
LEMMA LabelsStep == FilesInv /\ [FilesNext]_filevars => LabelsInv'
<1> SUFFICES ASSUME FilesInv, [FilesNext]_filevars
             PROVE  LabelsInv'
  OBVIOUS
<1>1. /\ OrderInv /\ FlagsInv /\ StreamInv /\ LabelsInv /\ session \in Sessions
      /\ DOMAIN labels = {"rlabel", "clabel"}
  BY DEF FilesInv, OrderInv, LabelsInv
<1>2. CASE CheckPermutations \/ CheckLabels
  <2>1. /\ ~opened /\ ~opened' /\ file \in {"permutations?", "labels?"}
        /\ file' \in {"rperm", "rlabel", "refused"}
        /\ UNCHANGED <<session, delivered, labels>>
    BY <1>1, <1>2 DEF CheckPermutations, CheckLabels, CheckFiles, stream, OrderInv
  <2>2. QED
    BY <1>1, <2>1 DEF LabelsInv, ReadingLabels
<1>3. CASE NotAsked
  <2>1. /\ file \in {"rperm", "cperm", "rlabel", "clabel"} /\ file' = After[file]
        /\ ~opened /\ ~opened' /\ session[file] = NoFile
        /\ UNCHANGED <<session, delivered, labels>>
    BY <1>3 DEF NotAsked, Reading, GoesOn, After
  <2>2. NoFile.kind = "none"
    BY DEF NoFile
  <2>3. CASE file = "rperm" \/ file = "cperm"
    BY <1>1, <2>1, <2>3 DEF LabelsInv, ReadingLabels, After
  <2>4. CASE file = "rlabel"
    BY <1>1, <2>1, <2>2, <2>4 DEF LabelsInv, LabelsFrom, ReadingLabels, After
  <2>5. CASE file = "clabel"
    BY <1>1, <2>1, <2>2, <2>5 DEF LabelsInv, LabelsFrom, ReadingLabels, After
  <2>6. QED
    BY <2>1, <2>3, <2>4, <2>5
<1>4. CASE Open
  <2>1. /\ file \in {"rperm", "cperm", "rlabel", "clabel"} /\ ~opened /\ opened' /\ r' = 0
        /\ UNCHANGED <<session, delivered, file, labels>>
    BY <1>4 DEF Open, Reading, After
  <2>2. CASE file \in {"rlabel", "clabel"}
    <3>1. OrderInv' /\ FlagsInv' /\ StreamInv'
      BY OrderStep, FlagsStep, StreamStep
    <3>2. ReadingLabels'
      BY <2>1, <2>2 DEF ReadingLabels
    <3>3. Content' \in Seq(Seq(Nat))
      <4>1. (OrderInv /\ FlagsInv /\ StreamInv /\ ReadingLabels => Content \in Seq(Seq(Nat)))'
        BY ContentIs, PTL
      <4>2. QED
        BY <3>1, <3>2, <4>1
    <3>4. labels[file] = <<>>
      BY <1>1, <2>1, <2>2 DEF LabelsInv
    <3>5. r' \in 0 .. Len(Content') /\ labels'[file'] = SubSeq(Content', 1, r')
      BY <2>1, <3>3, <3>4
    <3>6. QED
      BY <1>1, <2>1, <2>2, <3>5 DEF LabelsInv, LabelsFrom
  <2>3. CASE file \notin {"rlabel", "clabel"}
    BY <1>1, <2>1, <2>3 DEF LabelsInv, LabelsFrom, ReadingLabels
  <2>4. QED
    BY <2>2, <2>3
<1>5. CASE ReadRow \/ ReadColumn \/ RowsRead \/ ColumnsRead
  <2>1. /\ file \in {"rperm", "cperm"} /\ file' \in {"rperm", "cperm", "labels?", "undefined"}
        /\ UNCHANGED <<session, delivered, labels>>
    BY <1>5 DEF ReadRow, ReadColumn, RowsRead, ColumnsRead, GoesOn, After
  <2>2. QED
    BY <1>1, <2>1 DEF LabelsInv, ReadingLabels
<1>6. CASE ReadLabel
  <2>1. /\ ReadingLabels /\ r < Len(Content) /\ r' = r + 1
        /\ labels' = [labels EXCEPT ![file] = Append(@, Content[r + 1])]
        /\ file \in {"rlabel", "clabel"} /\ opened
        /\ UNCHANGED <<session, delivered, file, opened, judged, ifs>>
    BY <1>6 DEF ReadLabel, LastLine, ReadingLabels
  <2>2. Content' = Content
    BY <2>1, Zenon DEF Content
  <2>3. Content \in Seq(Seq(Nat))
    BY <1>1, <2>1, ContentIs
  <2>4. r \in 0 .. Len(Content) /\ labels[file] = SubSeq(Content, 1, r)
    BY <1>1, <2>1 DEF LabelsInv
  <2>5. /\ labels'[file] = Append(SubSeq(Content, 1, r), Content[r + 1])
        /\ DOMAIN labels' = DOMAIN labels
        /\ \A j \in {"rlabel", "clabel"} : j # file => labels'[j] = labels[j]
    BY <1>1, <2>1, <2>4
  <2>6. r' \in 0 .. Len(Content) /\ labels'[file] = SubSeq(Content, 1, r')
    <3> HIDE DEF Content
    <3>1. Append(SubSeq(Content, 1, r), Content[r + 1]) = SubSeq(Content, 1, r + 1)
      BY <2>1, <2>3, <2>4
    <3>2. QED
      BY <2>1, <2>3, <2>4, <2>5, <3>1
  <2>7. QED
    BY <1>1, <2>1, <2>2, <2>5, <2>6 DEF LabelsInv, LabelsFrom, ReadingLabels
<1>7. CASE LabelsRead
  <2>1. /\ ReadingLabels /\ Content # Unreadable /\ r = Len(Content) /\ ~opened'
        /\ file \in {"rlabel", "clabel"} /\ file' = After[file]
        /\ UNCHANGED <<session, delivered, labels>>
    BY <1>7 DEF LabelsRead, LastLine, GoesOn, ReadingLabels
  <2>2. labels[file] = Content
    <3>1. Content \in Seq(Seq(Nat)) /\ labels[file] = SubSeq(Content, 1, r)
      BY <1>1, <2>1, ContentIs DEF LabelsInv
    <3>2. QED
      BY <2>1, <3>1
  <2>3. LabelsFrom(file)
    BY <1>1, <2>1, <2>2, ContentIs DEF LabelsFrom
  <2>4. QED
    BY <1>1, <2>1, <2>3 DEF LabelsInv, LabelsFrom, ReadingLabels, After
<1>8. CASE LabelsStuck \/ UNCHANGED filevars
  <2>1. UNCHANGED <<session, delivered, file, opened, judged, ifs, r, labels>>
    BY <1>8 DEF LabelsStuck, filevars, stream, permutations
  <2>2. Content' = Content
    BY <2>1, Zenon DEF Content
  <2>3. QED
    BY <1>1, <2>1, <2>2 DEF LabelsInv, LabelsFrom, ReadingLabels
<1>9. QED
  BY <1>2, <1>3, <1>4, <1>5, <1>6, <1>7, <1>8 DEF FilesNext

----------------------------------------------------------------------------
\* What the invariant says of the properties.

\* All of it holds in every state.
THEOREM FilesHold == FilesSpec => []FilesInv
<1>1. FilesInv /\ [FilesNext]_filevars => FilesInv'
  BY FlagsStep, OrderStep, StreamStep, RowsStep, ColumnsStep, LabelsStep DEF FilesInv
<1>2. QED
  BY FilesInvInit, <1>1, PTL DEF FilesSpec

\* Type correctness: the streams are never read past their end, and what is
\* kept of the columns' file are places of columns.
THEOREM FilesTypeCorrect == FilesSpec => []FilesTypeOK
<1>1. FilesInv => FilesTypeOK
  <2> SUFFICES ASSUME OrderInv, FlagsInv, StreamInv, RowsInv, ColumnsInv, LabelsInv
               PROVE  FilesTypeOK
    BY DEF FilesInv
  <2>1. /\ opened \in BOOLEAN /\ judged \in BOOLEAN /\ fails \in BOOLEAN
        /\ rperm_loaded \in BOOLEAN /\ cperm_loaded \in BOOLEAN
    BY Zenon DEF FlagsInv
  <2>2. /\ delivered \in {0, HeaderSize} /\ file \in Labels
        /\ ifs \in Seq(Seq(Nat)) /\ used \in 0 .. Len(ifs) /\ r \in Nat
        /\ rperm_loaded => irperm \in [0 .. (session.nrows - 1) -> Int]
        /\ cperm_loaded =>
              /\ icperm \in [0 .. (session.ncols - 1) -> 0 .. (session.ncols - 1)]
              /\ cperm \in [0 .. (session.ncols - 1) -> 0 .. (session.ncols - 1)]
        /\ DOMAIN labels = {"rlabel", "clabel"}
    BY DEF OrderInv, StreamInv, RowsInv, RowsHave, ColumnsInv, ColumnsHave, LabelsInv
  <2>3. QED
    BY <2>1, <2>2, Zenon DEF FilesTypeOK
<1>2. QED
  BY FilesHold, <1>1, PTL

\* A permutation is read only when both files are there: main does not go on
\* with one of them.
THEOREM BothOrNone == FilesSpec => []AllOrNothing
<1>1. FilesInv => AllOrNothing
  BY DEF FilesInv, OrderInv, AllOrNothing, Both
<1>2. QED
  BY FilesHold, <1>1, PTL

\* Whatever numbers the file holds, cperm has every column that is named where
\* it is named last, and 0 elsewhere.
THEOREM VectorsNameEachOther == FilesSpec => []VectorsAgree
<1>1. FilesInv => VectorsAgree
  BY DEF FilesInv, ColumnsInv, ColumnsHave, NamedBefore, VectorsAgree
<1>2. QED
  BY FilesHold, <1>1, PTL

\* cperm is written outside only for a file that is too short or names a
\* column that is not there: no number is skipped or read twice.
THEOREM ColumnsFitVector == FilesSpec => []WritesInVector
<1>1. FilesInv => WritesInVector
  BY DEF FilesInv, ColumnsInv
<1>2. QED
  BY FilesHold, <1>1, PTL

\* A vector that is filled from a text has its numbers in their order.
LEMMA FilledInOrder ==
    ASSUME NEW L \in Seq(Seq(Nat)), NEW n \in Nat, NEW v, FilledFrom(v, L, n),
           Cardinality(NumbersTo(L, Len(L))) >= n, NEW x \in 0 .. (n - 1)
    PROVE  v[x] = NumberAt(L, x + 1)
<1>1. x \in Nat /\ x + 1 \in Nat /\ x < n
  OBVIOUS
<1>2. Cardinality(NumbersTo(L, Len(L))) \in Nat
  BY NumbersCounted
<1>3. x < Cardinality(NumbersTo(L, Len(L)))
  BY <1>1, <1>2
<1>4. PICK m \in 1 .. Len(L) : IsNth(L, m, x + 1) /\ v[x] = Head(L[m])
  BY <1>3 DEF FilledFrom
<1>5. QED
  BY <1>1, <1>4, OneNth

\* A file of the command line, and what the test leaves of it.
LEMMA TextType ==
    ASSUME session \in Sessions, NEW j \in {"rperm", "cperm", "rlabel", "clabel"},
           session[j].kind = "text"
    PROVE  /\ session[j].lines \in Seq(Seq(Nat)) /\ Len(session[j].lines) > 0
           /\ Remains(session[j], delivered) \in Seq(Seq(Nat))
<1>1. session[j] \in Texts /\ Len(session[j].lines) > 0
  BY Sizes DEF NoFile, Missing
<1>2. QED
  BY <1>1, RemainsType DEF Texts

\* One file for rows and columns of a square matrix gives them one order.
THEOREM OneFileOneOrder == FilesSpec => []BothFromOneFile
<1>1. FilesInv => BothFromOneFile
  <2> SUFFICES ASSUME FilesInv, rperm_loaded, cperm_loaded,
                      session.rperm = session.cperm, session.nrows = session.ncols,
                      Enough(session.rperm, session.nrows)
               PROVE  irperm = icperm
    BY DEF BothFromOneFile
  <2> DEFINE L == Remains(session.rperm, delivered)
             n == session.nrows
  <2>1. session \in Sessions /\ n \in Nat /\ RowsHave(n) /\ ColumnsHave(n)
    BY Sizes DEF FilesInv, OrderInv, RowsInv, ColumnsInv
  <2>2. /\ session.rperm.kind = "text" /\ session.cperm.kind = "text"
        /\ Cardinality(NumbersTo(L, Len(L))) >= n
    BY DEF Enough, HowMany, TextLeft, Remains
  <2>3. L \in Seq(Seq(Nat))
    BY <2>1, <2>2, TextType
  <2>4. FilledFrom(irperm, L, n) /\ FilledFrom(icperm, L, n)
    BY <2>1, <2>2 DEF RowsHave, ColumnsHave
  <2>5. /\ irperm \in [0 .. (n - 1) -> Int]
        /\ icperm \in [0 .. (n - 1) -> 0 .. (n - 1)]
    BY <2>1 DEF RowsHave, ColumnsHave
  <2> HIDE DEF L, n
  <2>6. \A x \in 0 .. (n - 1) : irperm[x] = NumberAt(L, x + 1) /\ icperm[x] = NumberAt(L, x + 1)
    BY <2>1, <2>2, <2>3, <2>4, FilledInOrder
  <2>7. \A x \in 0 .. (n - 1) : irperm[x] = icperm[x]
    BY <2>6
  <2>8. irperm = [x \in 0 .. (n - 1) |-> irperm[x]] /\ icperm = [x \in 0 .. (n - 1) |-> icperm[x]]
    BY <2>5
  <2>9. QED
    BY <2>7, <2>8, Zenon
<1>2. QED
  BY FilesHold, <1>1, PTL

\* The rows are in the order of the numbers that the gzip test has left, as far
\* as there are any, for files of any length.
THEOREM RowsFollowWhatIsLeft == FilesSpec => []RowsFollowRest
<1>1. FilesInv => RowsFollowRest
  <2> SUFFICES ASSUME FilesInv, rperm_loaded, session.rperm.kind = "text",
                      NEW x \in 0 .. (session.nrows - 1),
                      x < HowMany(TextLeft(session.rperm))
               PROVE  irperm[x] = NumberAt(TextLeft(session.rperm), x + 1)
    BY DEF RowsFollowRest
  <2> DEFINE L == Remains(session.rperm, delivered)
             n == session.nrows
  <2>1. L = TextLeft(session.rperm)
    BY DEF Remains, TextLeft
  <2>2. session \in Sessions /\ n \in Nat /\ RowsHave(n)
    BY Sizes DEF FilesInv, OrderInv, RowsInv
  <2>3. L \in Seq(Seq(Nat)) /\ FilledFrom(irperm, L, n)
    BY <2>2, TextType DEF RowsHave
  <2>4. x \in 0 .. (n - 1) /\ x < HowMany(L) /\ x + 1 \in Nat
    BY <2>1, <2>2
  <2> HIDE DEF L, n
  <2>5. PICK m \in 1 .. Len(L) : IsNth(L, m, x + 1) /\ irperm[x] = Head(L[m])
    BY <2>3, <2>4 DEF FilledFrom, HowMany
  <2>6. NumberAt(L, x + 1) = Head(L[m])
    BY <2>3, <2>4, <2>5, OneNth
  <2>7. QED
    BY <2>1, <2>5, <2>6
<1>2. QED
  BY FilesHold, <1>1, PTL

\* A file's labels are the lines that the gzip test has left, or that it
\* decompresses to, each of them and in their order.
THEOREM LabelsFollowWhatIsLeft == FilesSpec => []LabelsFollowRest
<1>1. FilesInv => LabelsFollowRest
  <2> SUFFICES ASSUME FilesInv, file = "ready", NEW j \in {"rlabel", "clabel"}
               PROVE  /\ session[j] = NoFile => labels[j] = <<>>
                      /\ session[j].kind = "gzip" /\ delivered # 0 =>
                            labels[j] = session[j].lines
                      /\ session[j].kind = "text" => labels[j] = TextLeft(session[j])
    BY DEF LabelsFollowRest
  <2>1. LabelsFrom(j)
    BY DEF FilesInv, LabelsInv
  <2>2. Remains(session[j], delivered) = TextLeft(session[j])
    BY DEF Remains, TextLeft
  <2>3. QED
    BY <2>1, <2>2 DEF LabelsFrom
<1>2. QED
  BY FilesHold, <1>1, PTL

\* The four together, as the run checks them.
THEOREM FilesAreSafe == FilesSpec => []Inv
<1>1. QED
  BY FilesTypeCorrect, BothOrNone, ColumnsFitVector, OneFileOneOrder, PTL DEF Inv
================================================================================
