---------------------------- MODULE DrawingProofs ----------------------------
(***************************************************************************)
(* Proofs about what is drawn, for every matrix and every permutation      *)
(* file: where the entries are and which of them the panel tells of        *)
(* (MatrixView), and which colours they have (ColorIndex).  The two share  *)
(* the matrix only.                                                        *)
(***************************************************************************)
EXTENDS MatrixView, ColorIndex, WellFoundedInduction, TLAPS

----------------------------------------------------------------------------
\* Where the entries are, and the panel.

\* What is loaded belongs together, and the state follows the boxes.
LoadedInv ==
    /\ "rows" \in files => irperm \in [Rows -> Rows]
    /\ "columns" \in files => icperm \in [Columns -> Columns] /\ cperm = InverseOf(icperm)
    /\ checked \subseteq files
    /\ permutation_state = StateOf(checked)

\* A window with nothing posted shows the present state.
ShownInv ==
    /\ "canvas" \notin posted => picture = Drawn
    /\ ("canvas" \notin posted /\ data_panel_visible) => text = Inspected
    /\ (data_panel_visible /\ "panel" \notin posted) => panel = text

ViewInv == TypeOK /\ LoadedInv /\ ShownInv

----------------------------------------------------------------------------
LEMMA LeastOf ==
    ASSUME NEW T, T \subseteq Nat, T # {}
    PROVE  \E m \in T : \A k \in T : m <= k
<1>1. PICK m \in T : \A k \in T : ~(<<k, m>> \in OpToRel(<, Nat))
  BY NatLessThanWellFounded, WFMin
<1>2. \A k \in T : <<k, m>> \in Nat \X Nat
  OBVIOUS
<1>3. \A k \in T : ~(k < m)
  BY <1>1, <1>2 DEF OpToRel
<1> QED
  BY <1>3

\* Of the columns that a file maps to one, the last.
LEMMA LastExists ==
    ASSUME NEW f, NEW p, NEW b \in Columns, f[b] = p
    PROVE  /\ LastThatNames(f, Columns, p) \in Columns
           /\ f[LastThatNames(f, Columns, p)] = p
<1> DEFINE N == {c \in Columns : f[c] = p}
           T == {NCols - 1 - c : c \in N}
<1>1. \A c \in N : c \in Int /\ NCols - 1 - c \in T
  BY SizeAssumption DEF Columns
<1>2. T \subseteq Nat /\ T # {}
  BY SizeAssumption DEF Columns
<1>3. \A n \in T : \E c \in N : n = NCols - 1 - c
  OBVIOUS
<1> HIDE DEF N, T
<1>4. PICK n \in T : \A m \in T : n <= m
  BY <1>2, LeastOf
<1>5. PICK c \in N : n = NCols - 1 - c
  BY <1>3, <1>4
<1>6. \A d \in N : d <= c
  BY <1>1, <1>4, <1>5, SizeAssumption
<1>7. \E l \in Columns : f[l] = p /\ \A d \in Columns : f[d] = p => d <= l
  BY <1>5, <1>6 DEF N
<1> QED
  BY <1>7 DEF LastThatNames

\* The inverse of a vector of columns is one.
LEMMA InverseType ==
    ASSUME NEW f \in [Columns -> Columns]
    PROVE  InverseOf(f) \in [Columns -> Columns]
<1>1. ASSUME NEW p \in Columns, \E c \in Columns : f[c] = p
      PROVE  LastThatNames(f, Columns, p) \in Columns
  BY <1>1, LastExists
<1>2. 0 \in Columns
  BY SizeAssumption DEF Columns
<1> QED
  BY <1>1, <1>2 DEF InverseOf, Inverse

\* cperm undoes icperm, and icperm cperm, if the file names every column once.
LEMMA InverseOfPermutation ==
    ASSUME NEW f \in [Columns -> Columns], IsPermutation(f)
    PROVE  /\ \A p \in Columns : f[InverseOf(f)[p]] = p
           /\ \A c \in Columns : InverseOf(f)[f[c]] = c
<1>1. \A p \in Columns : \E c \in Columns : f[c] = p /\ \A d \in Columns : f[d] = p => d = c
  BY DEF IsPermutation
<1>2. ASSUME NEW p \in Columns
      PROVE  InverseOf(f)[p] \in Columns /\ f[InverseOf(f)[p]] = p
  <2>1. InverseOf(f)[p] = LastThatNames(f, Columns, p)
    BY <1>1 DEF InverseOf, Inverse
  <2> QED
    BY <1>1, <2>1, LastExists
<1>3. ASSUME NEW c \in Columns PROVE InverseOf(f)[f[c]] = c
  BY <1>1, <1>2
<1> QED
  BY <1>2, <1>3

\* What the permuting operators give, with what was loaded in order.
LEMMA Places ==
    TypeOK /\ LoadedInv =>
        /\ RowsPermuted => irperm \in [Rows -> Rows]
        /\ ColumnsPermuted => icperm \in [Columns -> Columns] /\ cperm = InverseOf(icperm)
        /\ \A y \in Rows : RowAt(y) \in Rows
        /\ \A x \in Columns : ColumnAt(x) \in Columns /\ PlaceOf(x) \in Columns
<1> SUFFICES ASSUME TypeOK, LoadedInv
             PROVE  /\ RowsPermuted => irperm \in [Rows -> Rows]
                    /\ ColumnsPermuted => /\ icperm \in [Columns -> Columns]
                                          /\ cperm = InverseOf(icperm)
                    /\ \A y \in Rows : RowAt(y) \in Rows
                    /\ \A x \in Columns : ColumnAt(x) \in Columns /\ PlaceOf(x) \in Columns
  OBVIOUS
<1>1. (RowsPermuted => "rows" \in files) /\ (ColumnsPermuted => "columns" \in files)
  BY DEF TypeOK, LoadedInv, StateOf, RowsPermuted, ColumnsPermuted
<1>2. RowsPermuted => irperm \in [Rows -> Rows]
  BY <1>1 DEF LoadedInv
<1>3. ColumnsPermuted => icperm \in [Columns -> Columns] /\ cperm = InverseOf(icperm)
  BY <1>1 DEF LoadedInv
<1>4. ColumnsPermuted => cperm \in [Columns -> Columns]
  BY <1>3, InverseType
<1> QED
  BY <1>2, <1>3, <1>4 DEF RowAt, ColumnAt, PlaceOf

\* For a column file that names every column once, the place where a column is
\* drawn and the column found at a place undo each other.
LEMMA PlacesUndo ==
    TypeOK /\ LoadedInv /\ IsPermutation(icperm) =>
        /\ \A j \in Columns : ColumnAt(PlaceOf(j)) = j
        /\ \A x \in Columns : PlaceOf(ColumnAt(x)) = x
<1> SUFFICES ASSUME TypeOK, LoadedInv, IsPermutation(icperm)
             PROVE  /\ \A j \in Columns : ColumnAt(PlaceOf(j)) = j
                    /\ \A x \in Columns : PlaceOf(ColumnAt(x)) = x
  OBVIOUS
<1>1. CASE ColumnsPermuted
  <2>1. icperm \in [Columns -> Columns] /\ cperm = InverseOf(icperm)
    BY <1>1, Places
  <2>2. /\ \A p \in Columns : icperm[cperm[p]] = p
        /\ \A c \in Columns : cperm[icperm[c]] = c
    BY <2>1, InverseOfPermutation
  <2> QED
    BY <1>1, <2>2 DEF ColumnAt, PlaceOf
<1>2. CASE ~ColumnsPermuted
  BY <1>2 DEF ColumnAt, PlaceOf
<1> QED
  BY <1>1, <1>2

\* A point of the picture: an entry of the matrix, at its place.
LEMMA DrawnPoints ==
    TypeOK /\ LoadedInv =>
        /\ \A d \in Drawn :
              /\ d.col \in Columns /\ d.y \in Rows /\ d.x = PlaceOf(d.col) /\ d.row = RowAt(d.y)
              /\ <<d.row, d.col>> \in DOMAIN matrix
              /\ d = [x |-> d.x, y |-> d.y, row |-> d.row, col |-> d.col]
              /\ d \in [x : Columns, y : Rows, row : Rows, col : Columns]
        /\ \A y \in Rows, j \in Columns : <<RowAt(y), j>> \in DOMAIN matrix =>
              [x |-> PlaceOf(j), y |-> y, row |-> RowAt(y), col |-> j] \in Drawn
<1> SUFFICES ASSUME TypeOK, LoadedInv
             PROVE  /\ \A d \in Drawn :
                          /\ d.col \in Columns /\ d.y \in Rows
                          /\ d.x = PlaceOf(d.col) /\ d.row = RowAt(d.y)
                          /\ <<d.row, d.col>> \in DOMAIN matrix
                          /\ d = [x |-> d.x, y |-> d.y, row |-> d.row, col |-> d.col]
                          /\ d \in [x : Columns, y : Rows, row : Rows, col : Columns]
                    /\ \A y \in Rows, j \in Columns : <<RowAt(y), j>> \in DOMAIN matrix =>
                          [x |-> PlaceOf(j), y |-> y, row |-> RowAt(y), col |-> j] \in Drawn
  OBVIOUS
<1>1. ASSUME NEW d \in Drawn
      PROVE  /\ d.col \in Columns /\ d.y \in Rows
             /\ d.x = PlaceOf(d.col) /\ d.row = RowAt(d.y)
             /\ <<d.row, d.col>> \in DOMAIN matrix
             /\ d = [x |-> d.x, y |-> d.y, row |-> d.row, col |-> d.col]
             /\ d \in [x : Columns, y : Rows, row : Rows, col : Columns]
  <2>1. PICK e \in Rows \X Columns :
            /\ <<RowAt(e[1]), e[2]>> \in DOMAIN matrix
            /\ d = [x |-> PlaceOf(e[2]), y |-> e[1], row |-> RowAt(e[1]), col |-> e[2]]
    BY DEF Drawn
  <2>2. e[1] \in Rows /\ e[2] \in Columns
    OBVIOUS
  <2>3. RowAt(e[1]) \in Rows /\ PlaceOf(e[2]) \in Columns
    BY <2>2, Places
  <2> QED
    BY <2>1, <2>2, <2>3
<1>2. ASSUME NEW y \in Rows, NEW j \in Columns, <<RowAt(y), j>> \in DOMAIN matrix
      PROVE  [x |-> PlaceOf(j), y |-> y, row |-> RowAt(y), col |-> j] \in Drawn
  <2>1. PICK e \in Rows \X Columns : e[1] = y /\ e[2] = j
    <3>1. <<y, j>> \in Rows \X Columns /\ <<y, j>>[1] = y /\ <<y, j>>[2] = j
      OBVIOUS
    <3> QED
      BY <3>1
  <2>2. e \in {d \in Rows \X Columns : <<RowAt(d[1]), d[2]>> \in DOMAIN matrix}
    BY <1>2, <2>1
  <2>3. [x |-> PlaceOf(e[2]), y |-> e[1], row |-> RowAt(e[1]), col |-> e[2]] \in Drawn
    BY <2>2 DEF Drawn
  <2> QED
    BY <2>1, <2>3
<1> QED
  BY <1>1, <1>2

LEMMA InspectedType == TypeOK /\ LoadedInv => Inspected \in Text
<1> SUFFICES ASSUME TypeOK, LoadedInv PROVE Inspected \in Text
  OBVIOUS
<1>1. RowAt(cursor.y) \in Rows /\ ColumnAt(cursor.x) \in Columns
  BY Places DEF TypeOK
<1>2. RowAt(cursor.y) \in Int /\ ColumnAt(cursor.x) \in Int
  BY <1>1, SizeAssumption DEF Rows, Columns
<1>3. matrix_value(RowAt(cursor.y), ColumnAt(cursor.x)) \in Int
  BY MatricesAssumption DEF TypeOK, matrix_value
<1> QED
  BY <1>2, <1>3 DEF Inspected, Text

----------------------------------------------------------------------------
LEMMA InitViewInv == Init => ViewInv
<1> SUFFICES ASSUME Init PROVE ViewInv
  OBVIOUS
<1>1. "columns" \in files => icperm \in [Columns -> Columns] /\ cperm = InverseOf(icperm)
  BY FilesAssumption DEF Init
<1>2. "rows" \in files => irperm \in [Rows -> Rows]
  BY FilesAssumption DEF Init
<1>3. cperm \in [Columns -> Columns] \cup {Empty}
  <2>1. "columns" \in files => cperm \in [Columns -> Columns]
    BY <1>1, InverseType
  <2> QED
    BY <2>1 DEF Init
<1>4. cursor \in [x : Columns, y : Rows]
  BY SizeAssumption DEF Init, Rows, Columns
<1>5. TypeOK
  BY <1>3, <1>4, LeftoverAssumption DEF Init, TypeOK
<1>6. LoadedInv
  BY <1>1, <1>2 DEF Init, LoadedInv, StateOf
<1>7. ShownInv
  BY DEF Init, ShownInv
<1> QED
  BY <1>5, <1>6, <1>7 DEF ViewInv

\* The operators read the permutations, the state and, for the panel, the
\* cursor; a step that keeps these keeps what they give.
LEMMA SameView ==
    UNCHANGED <<loaded, permutation_state>> =>
        Drawn' = Drawn /\ (cursor' = cursor => Inspected' = Inspected)
  BY DEF loaded, Drawn, Inspected, RowAt, ColumnAt, PlaceOf, RowsPermuted, ColumnsPermuted,
     matrix_value

\* The same for what was loaded.
LEMMA SameLoaded ==
    LoadedInv /\ UNCHANGED <<loaded, checked, permutation_state>> => LoadedInv'
  BY DEF LoadedInv, loaded

LEMMA DisplayStep == ViewInv /\ Display => ViewInv'
<1> SUFFICES ASSUME ViewInv, Display PROVE ViewInv'
  OBVIOUS
<1> USE DEF ViewInv
<1>1. UNCHANGED <<loaded, checked, permutation_state, data_panel_visible, cursor, panel>>
      /\ picture' = Drawn
  BY DEF Display
<1>2. \/ data_panel_visible /\ text' = Inspected
         /\ posted' = (posted \ {"canvas"}) \cup {"panel"}
      \/ ~data_panel_visible /\ posted' = posted \ {"canvas"} /\ text' = text
  BY DEF Display, UpdatedWindow
<1>3. TypeOK'
  <2>1. picture' \subseteq [x : Columns, y : Rows, row : Rows, col : Columns]
    BY <1>1, DrawnPoints
  <2>2. text' \in Text
    BY <1>2, InspectedType DEF TypeOK
  <2>3. posted' \subseteq {"canvas", "panel"}
    BY <1>2 DEF TypeOK
  <2> QED
    BY <1>1, <2>1, <2>2, <2>3 DEF TypeOK, loaded
<1>4. LoadedInv'
  BY <1>1, SameLoaded
<1>5. ShownInv'
  <2>1. Drawn' = Drawn /\ Inspected' = Inspected
    BY <1>1, SameView
  <2> QED
    BY <1>1, <1>2, <2>1 DEF ShownInv
<1> QED
  BY <1>3, <1>4, <1>5

LEMMA DisplayPanelStep == ViewInv /\ DisplayPanel => ViewInv'
<1> SUFFICES ASSUME ViewInv, DisplayPanel PROVE ViewInv'
  OBVIOUS
<1> USE DEF ViewInv
<1>1. /\ UNCHANGED <<loaded, checked, permutation_state, data_panel_visible, cursor, text, picture>>
      /\ panel' = text /\ posted' = posted \ {"panel"}
  BY DEF DisplayPanel
<1>2. TypeOK'
  BY <1>1 DEF TypeOK, loaded
<1>3. LoadedInv'
  BY <1>1, SameLoaded
<1>4. ShownInv'
  BY <1>1, SameView DEF ShownInv
<1> QED
  BY <1>2, <1>3, <1>4

\* Every handler posts a redisplay of the canvas, or changes nothing it shows.
LEMMA HandlerStep == ViewInv /\ Handler => ViewInv'
<1> SUFFICES ASSUME ViewInv, Handler PROVE ViewInv'
  OBVIOUS
<1> USE DEF ViewInv
<1>1. CASE MoveCursor
  <2>1. /\ UNCHANGED <<loaded, checked, permutation_state, data_panel_visible, text,
                   picture, panel>>
        /\ posted' = posted \cup {"canvas"}
        /\ cursor' \in [x : Columns, y : Rows]
    BY <1>1 DEF MoveCursor
  <2>2. TypeOK'
    BY <2>1 DEF TypeOK, loaded
  <2> QED
    BY <2>1, <2>2, SameLoaded DEF ShownInv
<1>2. CASE CheckBox
  <2>1. /\ UNCHANGED <<loaded, data_panel_visible, cursor, text, picture, panel>>
        /\ posted' = posted \cup {"canvas"} /\ permutation_state' = StateOf(checked')
        /\ \E box \in files :
              checked' = IF box \in checked THEN checked \ {box} ELSE checked \cup {box}
    BY <1>2 DEF CheckBox, Boxes
  <2>2. checked' \subseteq files
    BY <2>1 DEF LoadedInv
  <2>3. permutation_state' \in {"none", "row", "column", "row_column"}
    BY <2>1 DEF StateOf
  <2>4. TypeOK'
    BY <2>1, <2>2, <2>3 DEF TypeOK, loaded
  <2>5. LoadedInv'
    BY <2>1, <2>2 DEF LoadedInv, loaded, StateOf
  <2> QED
    BY <2>1, <2>4, <2>5 DEF ShownInv
<1>3. CASE ShowPanel
  <2>1. /\ UNCHANGED <<loaded, checked, permutation_state, cursor, text, picture, panel>>
        /\ posted' = posted \cup {"canvas", "panel"} /\ data_panel_visible' = TRUE
    BY <1>3 DEF ShowPanel, PostedByShow
  <2>2. TypeOK'
    BY <2>1 DEF TypeOK, loaded
  <2> QED
    BY <2>1, <2>2, SameLoaded DEF ShownInv
<1>4. CASE HidePanel
  <2>1. /\ UNCHANGED <<loaded, checked, permutation_state, cursor, text, picture, panel>>
        /\ posted' = posted \cup {"canvas"} /\ data_panel_visible' = FALSE
    BY <1>4 DEF HidePanel
  <2>2. TypeOK'
    BY <2>1 DEF TypeOK, loaded
  <2> QED
    BY <2>1, <2>2, SameLoaded DEF ShownInv
<1>5. CASE Expose
  <2>1. /\ UNCHANGED <<loaded, checked, permutation_state, data_panel_visible, cursor, text,
                       picture, panel>>
        /\ posted \subseteq posted' /\ posted' \subseteq {"canvas", "panel"}
    BY <1>5 DEF Expose, TypeOK
  <2>2. TypeOK'
    BY <2>1 DEF TypeOK, loaded
  <2> QED
    BY <2>1, <2>2, SameLoaded, SameView DEF ShownInv
<1> QED
  BY <1>1, <1>2, <1>3, <1>4, <1>5 DEF Handler

\* The inductive invariant: a window with nothing posted is up to date.
THEOREM ViewHolds == Spec => []ViewInv
<1>1. ASSUME ViewInv, UNCHANGED vars PROVE ViewInv'
  <2>1. UNCHANGED <<loaded, checked, permutation_state, data_panel_visible, cursor, text,
                    picture, panel, posted>>
    BY <1>1 DEF vars, loaded
  <2>2. TypeOK' /\ LoadedInv'
    BY <1>1, <2>1, SameLoaded DEF ViewInv, TypeOK, loaded
  <2> QED
    BY <1>1, <2>1, <2>2, SameView DEF ViewInv, ShownInv
<1>2. ViewInv /\ [Next]_vars => ViewInv'
  BY <1>1, DisplayStep, DisplayPanelStep, HandlerStep DEF Next
<1> QED
  BY InitViewInv, <1>2, PTL DEF Spec

\* Every vector is indexed inside its bounds, and the panel's text is numbers.
THEOREM TypeCorrect == Spec => []TypeOK
<1>1. ViewInv => TypeOK
  BY DEF ViewInv
<1> QED
  BY ViewHolds, <1>1, PTL

\* No permutation is used without its file.
THEOREM UsesWhatIsLoaded == Spec => []LoadedBeforeUse
<1>1. ViewInv => LoadedBeforeUse
  BY DEF ViewInv, TypeOK, LoadedInv, LoadedBeforeUse, StateOf, RowsPermuted, ColumnsPermuted
<1> QED
  BY ViewHolds, <1>1, PTL

\* At rest the panel tells of the entry drawn under the cursor.
THEOREM PanelTellsTruth == Spec => []PanelAgrees
<1>1. ASSUME ViewInv, AtRest, data_panel_visible, IsPermutation(icperm),
             NEW under, under = {d \in picture : d.x = cursor.x /\ d.y = cursor.y}
      PROVE  /\ \A d \in under : d.row = panel.row /\ d.col = panel.col
             /\ under # {} => panel.val = matrix[<<panel.row, panel.col>>]
             /\ under = {} => panel.val = 0
  <2> USE DEF ViewInv
  <2> DEFINE r == RowAt(cursor.y)
             c == ColumnAt(cursor.x)
  <2>1. picture = Drawn /\ panel = Inspected
    BY <1>1 DEF ShownInv, AtRest
  <2>2. panel.row = r /\ panel.col = c /\ panel.val = matrix_value(r, c)
    BY <2>1 DEF Inspected
  <2>3. cursor.x \in Columns /\ cursor.y \in Rows
    BY <1>1 DEF TypeOK
  <2>4. ASSUME NEW d \in under PROVE d.row = r /\ d.col = c
    BY <1>1, <2>1, DrawnPoints, PlacesUndo
  <2>5. ASSUME NEW d \in under PROVE <<r, c>> \in DOMAIN matrix
    BY <1>1, <2>1, <2>4, DrawnPoints
  <2>6. ASSUME <<r, c>> \in DOMAIN matrix PROVE under # {}
    <3>1. c \in Columns /\ PlaceOf(c) = cursor.x
      BY <1>1, <2>3, Places, PlacesUndo
    <3>2. [x |-> cursor.x, y |-> cursor.y, row |-> r, col |-> c] \in Drawn
      BY <1>1, <2>3, <2>6, <3>1, DrawnPoints
    <3> QED
      BY <1>1, <2>1, <3>2
  <2> QED
    BY <2>2, <2>4, <2>5, <2>6 DEF matrix_value
<1>2. ViewInv => PanelAgrees
  BY <1>1 DEF PanelAgrees
<1> QED
  BY ViewHolds, <1>2, PTL

\* Permuting by files that name everything once hides and doubles no entry.
THEOREM PictureIsComplete == Spec => []NothingHidden
<1>1. ASSUME ViewInv, "canvas" \notin posted, IsPermutation(irperm), IsPermutation(icperm)
      PROVE  /\ \A e \in DOMAIN matrix : \E d \in picture : <<d.row, d.col>> = e
             /\ \A d, f \in picture :
                   (d.x = f.x /\ d.y = f.y) \/ (d.row = f.row /\ d.col = f.col) => d = f
  <2> USE DEF ViewInv
  <2>1. picture = Drawn
    BY <1>1 DEF ShownInv
  <2>2. \A i \in Rows : \E y \in Rows : RowAt(y) = i /\ \A z \in Rows : RowAt(z) = i => z = y
    BY <1>1, Places DEF RowAt, IsPermutation
  <2>3. ASSUME NEW e \in DOMAIN matrix PROVE \E d \in picture : <<d.row, d.col>> = e
    <3>1. e \in Rows \X Columns
      BY <1>1, MatricesAssumption DEF TypeOK
    <3>2. PICK y \in Rows : RowAt(y) = e[1]
      BY <2>2, <3>1
    <3>3. e = <<e[1], e[2]>> /\ e[2] \in Columns
      BY <3>1
    <3>4. [x |-> PlaceOf(e[2]), y |-> y, row |-> RowAt(y), col |-> e[2]] \in Drawn
      BY <1>1, <3>2, <3>3, DrawnPoints
    <3> QED
      BY <2>1, <3>2, <3>3, <3>4
  <2>4. ASSUME NEW d \in picture, NEW f \in picture, d.x = f.x, d.y = f.y PROVE d = f
    <3>1. d.row = f.row
      BY <1>1, <2>1, <2>4, DrawnPoints
    <3>2. d.col = f.col
      <4>1. /\ d.col \in Columns /\ f.col \in Columns
            /\ d.x = PlaceOf(d.col) /\ f.x = PlaceOf(f.col)
        BY <1>1, <2>1, DrawnPoints
      <4>2. d.col = ColumnAt(d.x) /\ f.col = ColumnAt(f.x)
        BY <1>1, <4>1, PlacesUndo
      <4> QED
        BY <2>4, <4>2
    <3> QED
      BY <1>1, <2>1, <2>4, <3>1, <3>2, DrawnPoints
  <2>5. ASSUME NEW d \in picture, NEW f \in picture, d.row = f.row, d.col = f.col PROVE d = f
    <3>1. d.x = f.x
      BY <1>1, <2>1, <2>5, DrawnPoints
    <3>2. d.y = f.y
      <4>1. d.y \in Rows /\ f.y \in Rows /\ RowAt(d.y) = d.row /\ RowAt(f.y) = d.row
        BY <1>1, <2>1, <2>5, DrawnPoints
      <4>2. d.row \in Rows
        BY <1>1, <4>1, Places
      <4> QED
        BY <2>2, <4>1, <4>2
    <3> QED
      BY <1>1, <2>1, <2>5, <3>1, <3>2, DrawnPoints
  <2> QED
    BY <2>3, <2>4, <2>5
<1>2. ViewInv => NothingHidden
  BY <1>1 DEF NothingHidden
<1> QED
  BY ViewHolds, <1>2, PTL

----------------------------------------------------------------------------
\* The colours: arithmetic.

LEMMA Division ==
    ASSUME NEW n \in Int, NEW d \in Nat \ {0}
    PROVE  n \div d \in Int /\ (n \div d) * d <= n /\ n < (n \div d) * d + d
OBVIOUS

LEMMA QuotientIs ==
    ASSUME NEW n \in Int, NEW d \in Nat \ {0}, NEW q \in Int, q * d <= n, n < q * d + d
    PROVE  n \div d = q
OBVIOUS

LEMMA ScaleUp ==
    ASSUME NEW x \in Int, NEW y \in Int, NEW k \in Nat, x <= y
    PROVE  x * k <= y * k
OBVIOUS

LEMMA ProductGrows ==
    ASSUME NEW x \in Nat, NEW y \in Nat, NEW u \in Nat, NEW v \in Nat, x <= u, y <= v
    PROVE  x * y <= u * v
OBVIOUS

LEMMA QuotientGrows ==
    ASSUME NEW m \in Int, NEW n \in Int, NEW d \in Nat \ {0}, m <= n
    PROVE  m \div d <= n \div d
<1>1. /\ m \div d \in Int /\ n \div d \in Int
      /\ (m \div d) * d <= m /\ n < (n \div d) * d + d
  BY Division
<1> DEFINE p == m \div d
           q == n \div d
<1> HIDE DEF p, q
<1>2. p \in Int /\ q \in Int /\ p * d < (q + 1) * d
  BY <1>1 DEF p, q
<1>3. p < q + 1
  <2> SUFFICES ASSUME q + 1 <= p PROVE FALSE
    BY <1>2
  <2>1. (q + 1) * d <= p * d
    BY <1>2, ScaleUp
  <2> QED
    BY <1>2, <2>1
<1> QED
  BY <1>2, <1>3 DEF p, q

\* The largest number whose square, weighted, stays below a square.
RootOf(top, n) ==
    CHOOSE i \in 0 .. top : i * i * n <= top * top /\ top * top < (i + 1) * (i + 1) * n

LEMMA RootExists ==
    ASSUME NEW top \in Nat, NEW n \in Nat \ {0}
    PROVE  /\ RootOf(top, n) \in 0 .. top
           /\ RootOf(top, n) * RootOf(top, n) * n <= top * top
           /\ top * top < (RootOf(top, n) + 1) * (RootOf(top, n) + 1) * n
<1> DEFINE Above(i) == top * top < (i + 1) * (i + 1) * n
           T == {i \in Nat : Above(i)}
<1>1. top \in T
  <2>1. (top + 1) * (top + 1) \in Nat /\ top * top < (top + 1) * (top + 1)
    OBVIOUS
  <2>2. (top + 1) * (top + 1) <= (top + 1) * (top + 1) * n
    BY <2>1
  <2> QED
    BY <2>1, <2>2
<1>2. PICK i \in T : \A j \in T : i <= j
  <2>1. T \subseteq Nat /\ T # {}
    BY <1>1
  <2> HIDE DEF T
  <2> QED
    BY <2>1, LeastOf
<1>3. i \in Nat /\ i <= top /\ Above(i)
  BY <1>1, <1>2
<1>4. i * i * n <= top * top
  <2>1. CASE i = 0
    BY <2>1
  <2>2. CASE i # 0
    <3>1. i - 1 \in Nat /\ i - 1 \notin T
      BY <1>2, <1>3, <2>2
    <3>2. ~Above(i - 1)
      BY <3>1
    <3>3. (i - 1) + 1 = i
      BY <1>3
    <3>4. i * i * n \in Int
      BY <1>3
    <3> QED
      BY <3>2, <3>3, <3>4
  <2> QED
    BY <2>1, <2>2
<1>5. i \in 0 .. top /\ i * i * n <= top * top /\ top * top < (i + 1) * (i + 1) * n
  BY <1>3, <1>4
<1> QED
  BY <1>5, Zenon DEF RootOf

LEMMA SquaresGrow ==
    ASSUME NEW x \in Nat, NEW y \in Nat, NEW n \in Nat, x <= y
    PROVE  x * x * n <= y * y * n
<1>1. x * x \in Nat /\ y * y \in Nat /\ x * x <= y * y
  BY ProductGrows
<1> QED
  BY <1>1, ScaleUp

LEMMA RootGrows ==
    ASSUME NEW s \in Nat, NEW t \in Nat, NEW n \in Nat \ {0}, s <= t
    PROVE  RootOf(s, n) <= RootOf(t, n)
<1> DEFINE p == RootOf(s, n)
           q == RootOf(t, n)
<1>1. /\ p \in Nat /\ q \in Nat
      /\ p * p * n <= s * s /\ t * t < (q + 1) * (q + 1) * n
  <2>1. p \in 0 .. s /\ p * p * n <= s * s
    BY RootExists
  <2>2. q \in 0 .. t /\ t * t < (q + 1) * (q + 1) * n
    BY RootExists
  <2> HIDE DEF p, q
  <2> QED
    BY <2>1, <2>2
<1> HIDE DEF p, q
<1>2. s * s <= t * t /\ s * s \in Nat /\ t * t \in Nat
  BY ProductGrows
<1>3. p * p * n < (q + 1) * (q + 1) * n
  BY <1>1, <1>2
<1>4. p < q + 1
  <2> SUFFICES ASSUME q + 1 <= p PROVE FALSE
    BY <1>1
  <2>1. (q + 1) * (q + 1) * n <= p * p * n
    BY <1>1, SquaresGrow
  <2> QED
    BY <1>1, <1>3, <2>1
<1> QED
  BY <1>1, <1>4 DEF p, q

\* A root divided by enough stays below the factor.
LEMMA RootBelow ==
    ASSUME NEW v \in Nat, NEW k \in Nat, NEW n \in Nat \ {0}, v * v <= n
    PROVE  RootOf(v * k, n) \in 0 .. k
<1> DEFINE p == RootOf(v * k, n)
<1>1. v * k \in Nat
  OBVIOUS
<1>2. p \in 0 .. (v * k) /\ p * p * n <= (v * k) * (v * k)
  BY <1>1, RootExists
<1> HIDE DEF p
<1>3. p \in Nat
  BY <1>1, <1>2
<1>4. CASE v = 0
  BY <1>2, <1>4 DEF p
<1>5. CASE v # 0
  <2>1. ~(k + 1 <= p)
    <3> SUFFICES ASSUME k + 1 <= p PROVE FALSE
      OBVIOUS
    <3>1. (k + 1) * (k + 1) <= p * p
      BY <1>3, ProductGrows
    <3>2. (k + 1) * (k + 1) * (v * v) <= p * p * n
      BY <1>3, <3>1, ProductGrows
    <3>3. (k + 1) * (k + 1) * (v * v) <= (v * k) * (v * k)
      BY <1>1, <1>2, <1>3, <3>2
    <3>4. (v * k) * (v * k) = k * k * (v * v)
      OBVIOUS
    <3>5. k * k * (v * v) < (k + 1) * (k + 1) * (v * v)
      <4>1. v * v \in Nat \ {0} /\ k * k < (k + 1) * (k + 1)
        BY <1>5
      <4> QED
        BY <4>1
    <3> QED
      BY <3>3, <3>4, <3>5
  <2> QED
    BY <1>3, <2>1 DEF p
<1> QED
  BY <1>4, <1>5

LEMMA SquareRoots ==
    ASSUME NEW x \in Nat, NEW y \in Nat, x * x = y * y
    PROVE  x = y
<1>1. CASE x < y
  <2>1. x * x <= x * y /\ x * y < y * y
    BY <1>1
  <2> QED
    BY <2>1
<1>2. CASE y < x
  <2>1. y * y <= y * x /\ y * x < x * x
    BY <1>2
  <2> QED
    BY <2>1
<1> QED
  BY <1>1, <1>2

\* The root of a weighted square; and a root of less than that is smaller.
LEMMA WholeRoots ==
    ASSUME NEW s \in Nat, NEW t \in Nat, NEW n \in Nat \ {0}, NEW i \in Nat,
           i * i * n = t * t
    PROVE  /\ RootOf(t, n) = i
           /\ s < t => RootOf(s, n) <= i - 1
<1> DEFINE p == RootOf(s, n)
           q == RootOf(t, n)
<1>1. /\ p \in Nat /\ p * p * n <= s * s
      /\ q \in Nat /\ q * q * n <= t * t /\ t * t < (q + 1) * (q + 1) * n
  <2>1. p \in 0 .. s /\ p * p * n <= s * s
    BY RootExists
  <2>2. q \in 0 .. t /\ q * q * n <= t * t /\ t * t < (q + 1) * (q + 1) * n
    BY RootExists
  <2> HIDE DEF p, q
  <2> QED
    BY <2>1, <2>2
<1> HIDE DEF p, q
<1>2. q + 1 <= i => (q + 1) * (q + 1) * n <= i * i * n
  BY <1>1, SquaresGrow
<1>3. i + 1 <= q => i * i * n < q * q * n
  <2> SUFFICES ASSUME i + 1 <= q PROVE i * i * n < q * q * n
    OBVIOUS
  <2>1. (i + 1) * (i + 1) * n <= q * q * n
    BY <1>1, SquaresGrow
  <2>2. i * i < (i + 1) * (i + 1) /\ i * i \in Nat /\ (i + 1) * (i + 1) \in Nat
    OBVIOUS
  <2>3. i * i * n < (i + 1) * (i + 1) * n
    BY <2>2
  <2> QED
    BY <1>1, <2>1, <2>3
<1>4. q = i
  <2> DEFINE a == i * i * n
             b == q * q * n
             c == (q + 1) * (q + 1) * n
             d == t * t
  <2>1. a \in Int /\ b \in Int /\ c \in Int /\ d \in Int
    BY <1>1
  <2>2. a = d /\ b <= d /\ d < c /\ (q + 1 <= i => c <= a) /\ (i + 1 <= q => a < b)
    BY <1>1, <1>2, <1>3
  <2> HIDE DEF a, b, c, d
  <2> QED
    BY <1>1, <2>1, <2>2
<1>5. s < t => p <= i - 1
  <2> SUFFICES ASSUME s < t, i <= p PROVE FALSE
    BY <1>1
  <2>1. i * i * n <= p * p * n
    BY <1>1, SquaresGrow
  <2>2. s * s < t * t
    <3>1. s * s <= s * t /\ s * t < t * t
      OBVIOUS
    <3> QED
      BY <3>1
  <2> DEFINE a == p * p * n
             b == t * t
             c == s * s
  <2>3. a \in Int /\ b \in Int /\ c \in Int /\ b <= a /\ a <= c /\ c < b
    BY <1>1, <2>1, <2>2
  <2> HIDE DEF a, b, c
  <2> QED
    BY <2>3
<1> QED
  BY <1>4, <1>5 DEF p, q

\* What is lost to rounding is lost from a whole number that is not 0.
LEMMA RoundingFacts ==
    ASSUME NEW s
    PROVE  /\ Lost(s) \in {0, 1}
           /\ Lost(s) = 1 =>
                 /\ s.range # 1 \/ s.rows # 1 \/ s.columns # 1
                 /\ \E i \in Nat \ {0} :
                       i * i * (s.range * s.range * s.rows * s.columns)
                           = s.value * (MapSize - 1) * (s.value * (MapSize - 1))
<1>1. ASSUME NEW m \in Int PROVE 1 .. m \subseteq Nat \ {0}
  OBVIOUS
<1>2. CASE s \in FallsShort
  <2>1. /\ s \in Scalings /\ (s.range # 1 \/ s.rows # 1 \/ s.columns # 1)
        /\ \E i \in 1 .. s.value * (MapSize - 1) :
              i * i * (s.range * s.range * s.rows * s.columns)
                  = s.value * (MapSize - 1) * (s.value * (MapSize - 1))
    BY <1>2, RoundingAssumption
  <2>2. s.value * (MapSize - 1) \in Int
    BY <2>1, MapSizeAssumption DEF Scalings
  <2>3. 1 .. s.value * (MapSize - 1) \subseteq Nat \ {0}
    BY <1>1, <2>2
  <2> QED
    BY <2>1, <2>3, Zenon DEF Lost
<1>3. CASE s \notin FallsShort
  BY <1>3 DEF Lost
<1> QED
  BY <1>2, <1>3

----------------------------------------------------------------------------
\* The statistics.

LEMMA MatrixType ==
    ASSUME matrix \in Matrices, NEW e \in DOMAIN matrix
    PROVE  e \in Rows \X Columns /\ e[1] \in Rows /\ e[2] \in Columns /\ matrix[e] \in Int
<1>1. DOMAIN matrix \subseteq Rows \X Columns /\ matrix \in [DOMAIN matrix -> Int]
  BY MatricesAssumption
<1>2. e \in Rows \X Columns
  BY <1>1
<1> QED
  BY <1>1, <1>2

\* What the loop knows of the entries it has passed.
StatsInv ==
    /\ stats_ready => seen = DOMAIN matrix
    /\ \A e \in seen : /\ matrix[e] <= max_val /\ min_val <= matrix[e]
                       /\ matrix[e] * matrix[e] <= rnorm[e[1]]
                       /\ matrix[e] * matrix[e] <= cnorm[e[2]]
    /\ max_val = Smallest \/ \E e \in seen : matrix[e] = max_val

RangeInv == ColorTypeOK /\ StatsInv

LEMMA ColorInitInv == ColorInit => RangeInv
<1> SUFFICES ASSUME ColorInit PROVE RangeInv
  OBVIOUS
<1>1. ColorTypeOK
  <2>1. matrix \in Matrices /\ seen \subseteq DOMAIN matrix
    BY DEF ColorInit
  <2>2. stats_ready \in BOOLEAN /\ colormap_invert \in BOOLEAN
    BY Zenon DEF ColorInit
  <2>3. /\ max_val \in Nat /\ min_val \in Int
        /\ rnorm \in [Rows -> Nat] /\ cnorm \in [Columns -> Nat]
        /\ norm_boxes \subseteq {"rows", "columns"}
        /\ normalization_state \in {"none", "row", "column", "row_column"}
    BY DEF ColorInit, Smallest
  <2> QED
    BY <2>1, <2>2, <2>3 DEF ColorTypeOK
<1>2. StatsInv
  BY DEF ColorInit, StatsInv
<1> QED
  BY <1>1, <1>2 DEF RangeInv

LEMMA CountStep == RangeInv /\ CountEntry => RangeInv'
<1> SUFFICES ASSUME RangeInv, CountEntry PROVE RangeInv'
  OBVIOUS
<1>1. PICK e \in DOMAIN matrix :
         /\ seen' = seen \cup {e}
         /\ max_val' = Larger(max_val, matrix[e])
         /\ min_val' = IF seen = {} THEN matrix[e] ELSE Smaller(min_val, matrix[e])
         /\ rnorm' = [rnorm EXCEPT ![e[1]] = @ + matrix[e] * matrix[e]]
         /\ cnorm' = [cnorm EXCEPT ![e[2]] = @ + matrix[e] * matrix[e]]
  BY Zenon DEF CountEntry
<1>2. /\ ~stats_ready
      /\ UNCHANGED <<matrix, stats_ready, norm_boxes, normalization_state, colormap_invert>>
  BY DEF CountEntry
<1>3. /\ matrix \in Matrices /\ seen \subseteq DOMAIN matrix
      /\ max_val \in Nat /\ min_val \in Int
      /\ rnorm \in [Rows -> Nat] /\ cnorm \in [Columns -> Nat]
  BY DEF RangeInv, ColorTypeOK
<1> DEFINE val == matrix[e]
           square == val * val
<1>4. e[1] \in Rows /\ e[2] \in Columns /\ val \in Int
  BY <1>3, MatrixType
<1>5. square \in Nat
  <2> HIDE DEF val
  <2> QED
    BY <1>4
<1>6. /\ max_val' \in Nat /\ val <= max_val' /\ max_val <= max_val'
      /\ max_val' = max_val \/ max_val' = val
  BY <1>1, <1>3, <1>4 DEF Larger
<1>7. min_val' \in Int /\ min_val' <= val /\ (seen # {} => min_val' <= min_val)
  BY <1>1, <1>3, <1>4 DEF Smaller
<1> HIDE DEF val
<1>8. /\ rnorm' \in [Rows -> Nat] /\ cnorm' \in [Columns -> Nat]
      /\ square <= rnorm'[e[1]] /\ square <= cnorm'[e[2]]
      /\ \A r \in Rows : rnorm[r] <= rnorm'[r]
      /\ \A c \in Columns : cnorm[c] <= cnorm'[c]
  <2> HIDE DEF square
  <2>1. /\ rnorm' = [rnorm EXCEPT ![e[1]] = @ + square]
        /\ cnorm' = [cnorm EXCEPT ![e[2]] = @ + square]
    BY <1>1 DEF square, val
  <2> QED
    BY <1>3, <1>4, <1>5, <2>1
<1>9. ColorTypeOK'
  BY <1>1, <1>2, <1>3, <1>6, <1>7, <1>8 DEF RangeInv, ColorTypeOK
<1>10. ASSUME NEW f \in seen'
       PROVE  /\ matrix[f] <= max_val' /\ min_val' <= matrix[f]
              /\ matrix[f] * matrix[f] <= rnorm'[f[1]]
              /\ matrix[f] * matrix[f] <= cnorm'[f[2]]
  <2>1. CASE f = e
    BY <1>6, <1>7, <1>8, <2>1 DEF val, square
  <2>2. CASE f # e
    <3>1. f \in seen /\ f \in DOMAIN matrix
      BY <1>1, <1>3, <2>2
    <3>2. f[1] \in Rows /\ f[2] \in Columns /\ matrix[f] \in Int
      BY <1>3, <3>1, MatrixType
    <3>3. /\ matrix[f] <= max_val /\ min_val <= matrix[f]
          /\ matrix[f] * matrix[f] <= rnorm[f[1]]
          /\ matrix[f] * matrix[f] <= cnorm[f[2]]
      BY <3>1 DEF RangeInv, StatsInv
    <3>4. matrix[f] <= max_val' /\ min_val' <= matrix[f]
      BY <1>3, <1>6, <1>7, <3>1, <3>2, <3>3
    <3>5. /\ rnorm[f[1]] \in Nat /\ rnorm'[f[1]] \in Nat /\ rnorm[f[1]] <= rnorm'[f[1]]
          /\ cnorm[f[2]] \in Nat /\ cnorm'[f[2]] \in Nat /\ cnorm[f[2]] <= cnorm'[f[2]]
      BY <1>3, <1>8, <3>2
    <3>6. matrix[f] * matrix[f] \in Int
      BY <3>2
    <3> QED
      BY <3>3, <3>4, <3>5, <3>6
  <2> QED
    BY <2>1, <2>2
<1>11. max_val' = Smallest \/ \E f \in seen' : matrix[f] = max_val'
  BY <1>1, <1>6 DEF RangeInv, StatsInv, val
<1> QED
  BY <1>2, <1>9, <1>10, <1>11 DEF RangeInv, StatsInv

LEMMA ColorStep == RangeInv /\ [ColorNext]_colorvars => RangeInv'
<1> SUFFICES ASSUME RangeInv, [ColorNext]_colorvars PROVE RangeInv'
  OBVIOUS
<1> USE DEF RangeInv, ColorTypeOK, StatsInv
<1>1. CASE CountEntry
  BY <1>1, CountStep
<1>2. CASE StatsDone
  BY <1>2 DEF StatsDone
<1>3. CASE NormBox
  <2>1. PICK box \in {"rows", "columns"} :
           norm_boxes' = IF box \in norm_boxes THEN norm_boxes \ {box}
                                               ELSE norm_boxes \cup {box}
    BY <1>3 DEF NormBox
  <2>2. norm_boxes' \subseteq {"rows", "columns"}
    BY <2>1
  <2>3. normalization_state' \in {"none", "row", "column", "row_column"}
    BY <1>3, Zenon DEF NormBox, StateOf
  <2>4. UNCHANGED <<matrix, seen, stats_ready, max_val, min_val, rnorm, cnorm,
                    colormap_invert>>
    BY <1>3 DEF NormBox, stats
  <2> QED
    BY <2>2, <2>3, <2>4
<1>4. CASE InvertColormap
  BY <1>4 DEF InvertColormap, stats
<1>5. CASE UNCHANGED colorvars
  BY <1>5 DEF colorvars, stats
<1> QED
  BY <1>1, <1>2, <1>3, <1>4, <1>5 DEF ColorNext

LEMMA RangeHolds == ColorSpec => []RangeInv
BY ColorInitInv, ColorStep, PTL DEF ColorSpec

----------------------------------------------------------------------------
\* The places in the colormap.

LEMMA EntryFacts ==
    ASSUME RangeInv, stats_ready, NEW e \in DOMAIN matrix
    PROVE  /\ matrix[e] \in Int /\ max_val \in Nat /\ min_val \in Int
           /\ min_val <= matrix[e] /\ matrix[e] <= max_val
           /\ rnorm[e[1]] \in Nat /\ cnorm[e[2]] \in Nat
           /\ matrix[e] * matrix[e] <= rnorm[e[1]]
           /\ matrix[e] * matrix[e] <= cnorm[e[2]]
<1>1. matrix \in Matrices /\ e \in seen
  BY DEF RangeInv, ColorTypeOK, StatsInv
<1>2. e[1] \in Rows /\ e[2] \in Columns /\ matrix[e] \in Int
  BY <1>1, MatrixType
<1> QED
  BY <1>1, <1>2 DEF RangeInv, ColorTypeOK, StatsInv

\* A norm is at least the value, so that what it is divided by is too.
LEMMA NormAtLeastValue ==
    ASSUME RangeInv, stats_ready, NEW e \in DOMAIN matrix
    PROVE  /\ NormSquare(e) \in Nat
           /\ (normalization_state # "none" /\ Defined(e)) =>
                 Size(matrix[e]) * Size(matrix[e]) <= NormSquare(e)
<1> DEFINE v == Size(matrix[e])
           r == rnorm[e[1]]
           c == cnorm[e[2]]
<1>1. v \in Nat /\ r \in Nat /\ c \in Nat /\ v * v <= r /\ v * v <= c
  <2>1. /\ matrix[e] \in Int /\ r \in Nat /\ c \in Nat
        /\ matrix[e] * matrix[e] <= r /\ matrix[e] * matrix[e] <= c
    BY EntryFacts
  <2>2. v \in Nat /\ v * v = matrix[e] * matrix[e]
    <3> DEFINE x == matrix[e]
    <3>1. x \in Int
      BY <2>1
    <3> HIDE DEF x
    <3>2. (-x) * (-x) = x * x
      BY <3>1
    <3> QED
      BY <3>1, <3>2 DEF Size, x
  <2> QED
    BY <2>1, <2>2
<1>2. NormSquare(e) = (IF normalization_state \in {"row", "row_column"} THEN r ELSE 1)
                      * (IF normalization_state \in {"column", "row_column"} THEN c ELSE 1)
  BY DEF NormSquare, RowSquare, ColumnSquare
<1>3. normalization_state \in {"none", "row", "column", "row_column"}
  BY DEF RangeInv, ColorTypeOK
<1> HIDE DEF v, r, c
<1>4. CASE normalization_state = "none"
  BY <1>1, <1>2, <1>4
<1>5. CASE normalization_state = "row"
  BY <1>1, <1>2, <1>5 DEF v
<1>6. CASE normalization_state = "column"
  BY <1>1, <1>2, <1>6 DEF v
<1>7. CASE normalization_state = "row_column"
  <2>1. NormSquare(e) = r * c /\ r * c \in Nat
    BY <1>1, <1>2, <1>7
  <2>2. CASE v = 0
    BY <1>1, <2>1, <2>2 DEF v
  <2>3. CASE v # 0
    <3>1. v * v \in Nat \ {0}
      BY <1>1, <2>3
    <3>2. v * v <= r * 1 /\ r * 1 <= r * c
      BY <1>1, <3>1
    <3> QED
      BY <1>1, <2>1, <3>1, <3>2 DEF v
  <2> QED
    BY <2>2, <2>3
<1> QED
  BY <1>3, <1>4, <1>5, <1>6, <1>7

\* The range the unscaled values are compared with has the value in it.
LEMMA RangeFacts ==
    ASSUME RangeInv, stats_ready, NEW e \in DOMAIN matrix
    PROVE  /\ Lowest \in Int /\ max_val - Lowest \in Nat
           /\ matrix[e] - Lowest \in Nat /\ matrix[e] - Lowest <= max_val - Lowest
           /\ max_val > Smallest => Lowest < max_val
<1>1. /\ matrix[e] \in Int /\ max_val \in Nat /\ min_val \in Int
      /\ min_val <= matrix[e] /\ matrix[e] <= max_val
  BY EntryFacts
<1> QED
  BY <1>1 DEF Lowest, AllEqual, Smallest

LEMMA WholeQuotient ==
    ASSUME NEW t \in Nat, NEW d \in Nat \ {0}, NEW i \in Nat \ {0},
           i * i * (d * d * 1 * 1) = t * t
    PROVE  i * d = t /\ t \div d = i
<1>1. i * d \in Nat /\ (i * d) * (i * d) = t * t
  OBVIOUS
<1>2. i * d = t
  BY <1>1, SquareRoots
<1>3. i * d <= t /\ t < i * d + d
  BY <1>1, <1>2
<1> QED
  BY <1>1, <1>2, <1>3, QuotientIs

\* Rounding takes one from a quotient that is whole, and not 0.
LEMMA LostFromWhole ==
    ASSUME NEW n \in Nat, NEW d \in Nat \ {0},
           Lost([value |-> n, range |-> d, rows |-> 1, columns |-> 1]) = 1
    PROVE  \E i \in Nat \ {0} :
              d # 1 /\ i * d = n * (MapSize - 1) /\ (n * (MapSize - 1)) \div d = i
<1> DEFINE s == [value |-> n, range |-> d, rows |-> 1, columns |-> 1]
           t == n * (MapSize - 1)
<1>1. /\ s.value = n /\ s.range = d /\ s.rows = 1 /\ s.columns = 1
      /\ Lost(s) = 1
  OBVIOUS
<1> HIDE DEF s
<1>2. /\ s.range # 1 \/ s.rows # 1 \/ s.columns # 1
      /\ \E i \in Nat \ {0} :
            i * i * (s.range * s.range * s.rows * s.columns)
                = s.value * (MapSize - 1) * (s.value * (MapSize - 1))
  BY <1>1, RoundingFacts, Zenon
<1>3. PICK i \in Nat \ {0} : i * i * (d * d * 1 * 1) = t * t
  BY <1>1, <1>2, Zenon
<1>4. t \in Nat
  BY MapSizeAssumption
<1> HIDE DEF t
<1>5. i * d = t /\ t \div d = i
  BY <1>3, <1>4, WholeQuotient
<1> QED
  BY <1>1, <1>2, <1>5 DEF t

\* The place is a quotient, or one less where the quotient is whole.
LEMMA RangedParts ==
    ASSUME RangeInv, stats_ready, NEW e \in DOMAIN matrix,
           NEW n, n = matrix[e] - Lowest,
           NEW d, d = max_val - Lowest, d # 0,
           NEW k, k = MapSize - 1,
           NEW q, q = (n * k) \div d,
           NEW l, l = Lost([value |-> n, range |-> d, rows |-> 1, columns |-> 1])
    PROVE  /\ Ranged(e) = q - l /\ q \in Int /\ l \in {0, 1}
           /\ q * d <= n * k /\ n * k < q * d + d
           /\ l = 1 => q * d = n * k /\ 1 <= q /\ d # 1
<1>1. /\ n \in Nat /\ d \in Nat \ {0} /\ k \in Nat
      /\ max_val \in Int /\ Lowest \in Int
  BY RangeFacts, EntryFacts, MapSizeAssumption
<1>2. Ranged(e) = q - l
  <2>1. max_val # Lowest
    BY <1>1
  <2> QED
    BY <2>1, Zenon DEF Ranged, RangeScaling
<1>3. n * k \in Int
  BY <1>1
<1>4. q \in Int /\ q * d <= n * k /\ n * k < q * d + d
  BY <1>1, <1>3, Division
<1>5. l \in {0, 1}
  BY RoundingFacts
<1>6. l = 1 => q * d = n * k /\ 1 <= q /\ d # 1
  <2> SUFFICES ASSUME l = 1 PROVE q * d = n * k /\ 1 <= q /\ d # 1
    OBVIOUS
  <2>1. \E i \in Nat \ {0} : d # 1 /\ i * d = n * k /\ (n * k) \div d = i
    BY <1>1, LostFromWhole, Zenon
  <2> QED
    BY <2>1
<1> QED
  BY <1>2, <1>4, <1>5, <1>6

LEMMA RangedFacts ==
    ASSUME RangeInv, stats_ready, NEW e \in DOMAIN matrix
    PROVE  /\ Ranged(e) \in 0 .. (MapSize - 1)
           /\ (max_val > Smallest /\ matrix[e] = max_val) =>
                 /\ Ranged(e) \in {MapSize - 2, MapSize - 1}
                 /\ max_val - Lowest = 1 => Ranged(e) = MapSize - 1
           /\ matrix[e] = Lowest => Ranged(e) = 0
<1> DEFINE n == matrix[e] - Lowest
           d == max_val - Lowest
           k == MapSize - 1
<1>1. /\ n \in Nat /\ d \in Nat /\ k \in Nat /\ n <= d
      /\ matrix[e] \in Int /\ max_val \in Nat /\ Lowest \in Int
      /\ max_val > Smallest => Lowest < max_val
  BY RangeFacts, EntryFacts, MapSizeAssumption
<1>2. /\ max_val = Lowest <=> d = 0
      /\ matrix[e] = max_val <=> n = d
      /\ matrix[e] = Lowest <=> n = 0
      /\ max_val > Smallest => d # 0
      /\ MapSize - 2 = k - 1
  BY <1>1, MapSizeAssumption
<1>3. CASE d = 0
  <2>1. Ranged(e) = 0
    BY <1>2, <1>3 DEF Ranged
  <2> QED
    BY <1>1, <1>2, <1>3, <2>1
<1>4. CASE d # 0
  <2> DEFINE q == (n * k) \div d
             l == Lost([value |-> n, range |-> d, rows |-> 1, columns |-> 1])
  <2>1. /\ Ranged(e) = q - l /\ q \in Int /\ l \in {0, 1}
        /\ q * d <= n * k /\ n * k < q * d + d
        /\ l = 1 => q * d = n * k /\ 1 <= q /\ d # 1
    BY <1>4, RangedParts
  <2> HIDE DEF q, l, n, d, k
  <2>2. n * k \in Nat /\ d \in Nat \ {0}
    BY <1>1, <1>4
  <2>3. q >= 0
    <3> SUFFICES ASSUME q + 1 <= 0 PROVE FALSE
      BY <2>1
    <3>1. (q + 1) * d <= 0 * d
      BY <2>1, <2>2, ScaleUp
    <3> QED
      BY <2>1, <2>2, <3>1
  <2>4. q <= k
    <3> SUFFICES ASSUME k + 1 <= q PROVE FALSE
      BY <1>1, <2>1
    <3>1. (k + 1) * d <= q * d
      BY <1>1, <2>1, <2>2, ScaleUp
    <3>2. n * k <= d * k
      BY <1>1, ScaleUp
    <3> QED
      BY <1>1, <2>1, <2>2, <3>1, <3>2
  <2>5. n = d => q = k
    <3> SUFFICES ASSUME n = d PROVE q = k
      OBVIOUS
    <3>1. k * d <= n * k /\ n * k < k * d + d
      BY <1>1, <2>2
    <3> QED
      BY <1>1, <2>2, <3>1, QuotientIs DEF q
  <2>6. n = 0 => q = 0
    <3> SUFFICES ASSUME n = 0 PROVE q = 0
      OBVIOUS
    <3>1. 0 * d <= n * k /\ n * k < 0 * d + d
      BY <1>1, <2>2
    <3> QED
      BY <1>1, <2>2, <3>1, QuotientIs DEF q
  <2>7. /\ Ranged(e) \in 0 .. k
        /\ n = d => Ranged(e) \in {k - 1, k} /\ (d = 1 => Ranged(e) = k)
        /\ n = 0 => Ranged(e) = 0
    BY <1>1, <2>1, <2>3, <2>4, <2>5, <2>6
  <2> QED
    BY <1>2, <2>7 DEF d, k
<1> QED
  BY <1>3, <1>4

\* The same value has the same place; a larger one that loses a place to
\* rounding was more than a place ahead.
LEMMA RangedGrows ==
    ASSUME RangeInv, stats_ready, NEW e \in DOMAIN matrix, NEW f \in DOMAIN matrix,
           matrix[e] <= matrix[f]
    PROVE  Ranged(e) <= Ranged(f)
<1> DEFINE m == matrix[e] - Lowest
           n == matrix[f] - Lowest
           d == max_val - Lowest
           k == MapSize - 1
<1>1. /\ m \in Nat /\ n \in Nat /\ d \in Nat /\ k \in Nat /\ m <= n
      /\ max_val = Lowest <=> d = 0
      /\ m = n => matrix[e] = matrix[f]
  <2>1. /\ m \in Nat /\ d \in Nat /\ matrix[e] \in Int /\ Lowest \in Int /\ max_val \in Int
    BY RangeFacts, EntryFacts
  <2>2. n \in Nat /\ matrix[f] \in Int
    BY RangeFacts, EntryFacts
  <2> QED
    BY <2>1, <2>2, MapSizeAssumption
<1>2. CASE d = 0
  BY <1>1, <1>2 DEF Ranged
<1>3. CASE matrix[e] = matrix[f]
  <2>1. Ranged(e) = Ranged(f)
    BY <1>3, Zenon DEF Ranged, RangeScaling
  <2>2. Ranged(e) \in Int
    BY RangedFacts
  <2> QED
    BY <2>1, <2>2
<1>4. CASE d # 0 /\ matrix[e] # matrix[f]
  <2> DEFINE p == (m * k) \div d
             q == (n * k) \div d
             j == Lost([value |-> m, range |-> d, rows |-> 1, columns |-> 1])
             l == Lost([value |-> n, range |-> d, rows |-> 1, columns |-> 1])
  <2>1. Ranged(e) = p - j /\ p \in Int /\ j \in {0, 1} /\ p * d <= m * k
    BY <1>4, RangedParts
  <2>2. /\ Ranged(f) = q - l /\ q \in Int /\ l \in {0, 1}
        /\ l = 1 => q * d = n * k /\ 1 <= q
    BY <1>4, RangedParts
  <2>3. m < n
    BY <1>1, <1>4
  <2>4. p <= q
    <3>1. m * k <= n * k /\ m * k \in Int /\ n * k \in Int /\ d \in Nat \ {0}
      BY <1>1, <1>4, ScaleUp
    <3> QED
      BY <3>1, QuotientGrows
  <2> HIDE DEF m, n, d, k, p, q, j, l
  <2>5. l = 1 => p + 1 <= q
    <3> SUFFICES ASSUME l = 1, q <= p PROVE FALSE
      BY <2>1, <2>2
    <3>1. q * d <= p * d
      BY <1>1, <2>1, <2>2, ScaleUp
    <3>2. n * k <= m * k
      BY <1>1, <2>1, <2>2, <3>1
    <3>3. k # 0
      <4>1. 1 * d <= q * d
        BY <1>1, <2>2, ScaleUp
      <4> QED
        BY <1>1, <1>4, <2>2, <4>1
    <3>4. m * k < n * k
      BY <1>1, <2>3, <3>3
    <3> QED
      BY <1>1, <3>2, <3>4
  <2> QED
    BY <2>1, <2>2, <2>4, <2>5
<1> QED
  BY <1>2, <1>3, <1>4

\* Rounding takes one from a root that is whole, and not 0.
LEMMA LostFromRoot ==
    ASSUME NEW v \in Nat, NEW a \in Nat, NEW b \in Nat,
           Lost([value |-> v, range |-> 1, rows |-> a, columns |-> b]) = 1
    PROVE  \E i \in Nat \ {0} :
              i * i * (a * b) = v * (MapSize - 1) * (v * (MapSize - 1))
<1> DEFINE s == [value |-> v, range |-> 1, rows |-> a, columns |-> b]
<1>1. /\ s.value = v /\ s.range = 1 /\ s.rows = a /\ s.columns = b
      /\ Lost(s) = 1
  OBVIOUS
<1> HIDE DEF s
<1>2. \E i \in Nat \ {0} :
         i * i * (s.range * s.range * s.rows * s.columns)
             = s.value * (MapSize - 1) * (s.value * (MapSize - 1))
  BY <1>1, RoundingFacts, Zenon
<1>3. 1 * 1 * a * b = a * b
  OBVIOUS
<1> QED
  BY <1>1, <1>2, <1>3, Zenon

\* The normed value is between the map's ends, on its side of zero.
LEMMA NormedFacts ==
    ASSUME RangeInv, stats_ready, NEW e \in DOMAIN matrix,
           normalization_state # "none", Defined(e)
    PROVE  /\ NormedSize(e) = RootOf(Top(e), NormSquare(e)) - Lost(NormScaling(e))
           /\ RootOf(Top(e), NormSquare(e)) \in 0 .. (MapSize - 1)
           /\ Lost(NormScaling(e)) \in {0, 1}
           /\ Lost(NormScaling(e)) = 1 =>
                 \E i \in Nat \ {0} : i * i * NormSquare(e) = Top(e) * Top(e)
           /\ NormedSize(e) \in 0 .. (MapSize - 1)
<1> DEFINE v == Size(matrix[e])
           n == NormSquare(e)
           k == MapSize - 1
           l == Lost(NormScaling(e))
           p == RootOf(Top(e), n)
<1>1. n \in Nat \ {0} /\ v * v <= n
  BY NormAtLeastValue DEF Defined
<1>2. v \in Nat /\ k \in Nat
  BY EntryFacts, MapSizeAssumption DEF Size
<1>3. NormedSize(e) = p - l
  BY Zenon DEF NormedSize, WholeRoot, RootOf
<1>4. Top(e) = v * k
  BY DEF Top
<1>5. l \in {0, 1}
  BY RoundingFacts
<1>6. l = 1 => \E i \in Nat \ {0} : i * i * n = Top(e) * Top(e)
  <2> SUFFICES ASSUME l = 1 PROVE \E i \in Nat \ {0} : i * i * n = Top(e) * Top(e)
    OBVIOUS
  <2>1. RowSquare(e) \in Nat /\ ColumnSquare(e) \in Nat
    BY EntryFacts DEF RowSquare, ColumnSquare
  <2>2. Lost([value |-> v, range |-> 1, rows |-> RowSquare(e), columns |-> ColumnSquare(e)]) = 1
    BY Zenon DEF NormScaling
  <2>3. \E i \in Nat \ {0} : i * i * (RowSquare(e) * ColumnSquare(e)) = v * k * (v * k)
    BY <1>2, <2>1, <2>2, LostFromRoot, Zenon
  <2> QED
    BY <1>4, <2>3, Zenon DEF NormSquare
<1>7. p \in 0 .. k
  <2> HIDE DEF v, n, k
  <2>1. RootOf(v * k, n) \in 0 .. k
    BY <1>1, <1>2, RootBelow
  <2> QED
    BY <1>4, <2>1
<1>8. l = 1 => 1 <= p
  <2> SUFFICES ASSUME l = 1 PROVE 1 <= p
    OBVIOUS
  <2>1. PICK i \in Nat \ {0} : i * i * n = Top(e) * Top(e)
    BY <1>6
  <2> DEFINE t == Top(e)
  <2>2. t \in Nat
    BY <1>2, <1>4
  <2> HIDE DEF t, n
  <2>3. RootOf(t, n) = i
    BY <1>1, <2>1, <2>2, WholeRoots DEF t
  <2> QED
    BY <2>3 DEF t
<1>9. NormedSize(e) \in 0 .. k
  <2> HIDE DEF p, l, k
  <2> QED
    BY <1>2, <1>3, <1>5, <1>7, <1>8
<1> QED
  BY <1>3, <1>5, <1>6, <1>7, <1>9

\* Of two values with the same norms, the larger one is no closer to 0 after
\* rounding: it loses a place only from a whole root, and a smaller value's
\* root is then smaller.
LEMMA NormedSizeGrows ==
    ASSUME RangeInv, stats_ready, NEW e \in DOMAIN matrix, NEW f \in DOMAIN matrix,
           normalization_state # "none", Defined(e),
           RowSquare(e) = RowSquare(f), ColumnSquare(e) = ColumnSquare(f),
           Size(matrix[e]) <= Size(matrix[f])
    PROVE  NormedSize(e) <= NormedSize(f)
<1>1. NormSquare(e) = NormSquare(f) /\ Defined(f)
  BY DEF NormSquare, Defined
<1> DEFINE n == NormSquare(f)
           s == Top(e)
           t == Top(f)
           p == RootOf(s, n)
           q == RootOf(t, n)
           j == Lost(NormScaling(e))
           l == Lost(NormScaling(f))
<1>2. NormedSize(e) = p - j /\ p \in 0 .. (MapSize - 1) /\ j \in {0, 1}
  BY <1>1, NormedFacts
<1>3. /\ NormedSize(f) = q - l /\ q \in 0 .. (MapSize - 1) /\ l \in {0, 1}
      /\ l = 1 => \E i \in Nat \ {0} : i * i * n = t * t
  BY <1>1, NormedFacts
<1>4. n \in Nat \ {0}
  BY <1>1, NormAtLeastValue DEF Defined
<1>5. /\ s \in Nat /\ t \in Nat /\ s <= t
      /\ MapSize - 1 # 0 /\ Size(matrix[e]) # Size(matrix[f]) => s < t
      /\ MapSize - 1 = 0 => t = 0
  <2> DEFINE x == Size(matrix[e])
             y == Size(matrix[f])
             k == MapSize - 1
  <2>1. x \in Nat /\ y \in Nat /\ k \in Nat
    BY EntryFacts, MapSizeAssumption DEF Size
  <2>2. s = x * k /\ t = y * k /\ x <= y
    BY DEF Top
  <2> HIDE DEF x, y, k, s, t
  <2>3. x * k <= y * k
    BY <2>1, <2>2, ScaleUp
  <2>4. k # 0 /\ x # y => x * k < y * k
    BY <2>1, <2>2
  <2>5. s \in Nat /\ t \in Nat /\ s <= t /\ (k # 0 /\ x # y => s < t) /\ (k = 0 => t = 0)
    BY <2>1, <2>2, <2>3, <2>4
  <2> QED
    BY <2>5 DEF x, y, k
<1>6. CASE Size(matrix[e]) = Size(matrix[f])
  <2>1. NormedSize(e) = NormedSize(f)
    BY <1>1, <1>6, Zenon DEF NormedSize, WholeRoot, NormScaling, Top
  <2>2. NormedSize(e) \in 0 .. (MapSize - 1)
    BY NormedFacts
  <2> QED
    BY <2>1, <2>2
<1>7. CASE Size(matrix[e]) # Size(matrix[f]) /\ l = 1
  <2>1. PICK i \in Nat \ {0} : i * i * n = t * t
    BY <1>3, <1>7
  <2> HIDE DEF n, s, t, p, q, j, l
  <2>2. MapSize - 1 # 0
    <3> SUFFICES ASSUME MapSize - 1 = 0 PROVE FALSE
      OBVIOUS
    <3>1. t = 0
      BY <1>5
    <3>2. i * i \in Nat \ {0}
      OBVIOUS
    <3>3. i * i * n \in Nat \ {0}
      BY <1>4, <3>2
    <3> QED
      BY <2>1, <3>1, <3>3
  <2>3. s < t
    BY <1>5, <1>7, <2>2
  <2>4. RootOf(t, n) = i /\ RootOf(s, n) <= i - 1
    BY <1>4, <1>5, <2>1, <2>3, WholeRoots
  <2> QED
    BY <1>2, <1>3, <1>7, <2>4 DEF p, q
<1>8. CASE l = 0
  <2>1. p <= q
    <3> HIDE DEF n, s, t
    <3> QED
      BY <1>4, <1>5, RootGrows
  <2> HIDE DEF p, q, j, l
  <2> QED
    BY <1>2, <1>3, <1>8, <2>1
<1> QED
  BY <1>3, <1>6, <1>7, <1>8

LEMMA NormedGrows ==
    ASSUME RangeInv, stats_ready, NEW e \in DOMAIN matrix, NEW f \in DOMAIN matrix,
           normalization_state # "none", Defined(e),
           RowSquare(e) = RowSquare(f), ColumnSquare(e) = ColumnSquare(f),
           matrix[e] <= matrix[f]
    PROVE  Normed(e) <= Normed(f)
<1>1. Defined(f)
  BY DEF Defined, NormSquare
<1>2. NormedSize(e) \in Nat /\ NormedSize(f) \in Nat
  <2>1. NormedSize(e) \in 0 .. (MapSize - 1) /\ NormedSize(f) \in 0 .. (MapSize - 1)
    BY <1>1, NormedFacts
  <2> QED
    BY <2>1, MapSizeAssumption
<1>3. matrix[e] \in Int /\ matrix[f] \in Int
  BY EntryFacts
<1>4. CASE matrix[e] >= 0
  <2>1. Size(matrix[e]) <= Size(matrix[f]) /\ matrix[f] >= 0
    BY <1>3, <1>4 DEF Size
  <2>2. NormedSize(e) <= NormedSize(f)
    BY <2>1, NormedSizeGrows
  <2> QED
    BY <1>2, <1>3, <1>4, <2>1, <2>2 DEF Normed
<1>5. CASE matrix[f] < 0
  <2>1. Size(matrix[f]) <= Size(matrix[e]) /\ matrix[e] < 0
    BY <1>3, <1>5 DEF Size
  <2>2. NormedSize(f) <= NormedSize(e)
    BY <1>1, <2>1, NormedSizeGrows
  <2> QED
    BY <1>2, <1>3, <1>5, <2>1, <2>2 DEF Normed
<1>6. CASE matrix[e] < 0 /\ matrix[f] >= 0
  BY <1>2, <1>3, <1>6 DEF Normed
<1> QED
  BY <1>3, <1>4, <1>5, <1>6

----------------------------------------------------------------------------
\* The colour drawn for an entry is one of the map, for every matrix of whole
\* numbers and every size of the map: without norms always, with norms for
\* every value that is not negative and has one; and the statistics are what
\* their types allow.
THEOREM ColorsStayInMap == ColorSpec => []ColorInv
<1>1. RangeInv => ColorsInMap
  <2> SUFFICES ASSUME RangeInv, stats_ready, NEW e \in DOMAIN matrix,
                      normalization_state = "none" \/ (matrix[e] >= 0 /\ Defined(e))
               PROVE  InMap(e)
    BY DEF ColorsInMap
  <2>1. Place(e) \in 0 .. (MapSize - 1)
    <3>1. CASE normalization_state = "none"
      BY <3>1, RangedFacts DEF Place
    <3>2. CASE normalization_state # "none"
      <4>1. NormedSize(e) \in 0 .. (MapSize - 1) /\ matrix[e] >= 0 /\ matrix[e] \in Int
        BY <3>2, NormedFacts, EntryFacts
      <4> QED
        BY <3>2, <4>1 DEF Place, Normed
    <3> QED
      BY <3>1, <3>2
  <2>2. Inverted(Place(e)) \in 0 .. (MapSize - 1)
    <3> DEFINE p == Place(e)
    <3> HIDE DEF p
    <3>1. p \in 0 .. (MapSize - 1)
      BY <2>1 DEF p
    <3>2. Inverted(p) \in 0 .. (MapSize - 1)
      BY <3>1, MapSizeAssumption DEF Inverted
    <3> QED
      BY <3>2 DEF p
  <2> QED
    BY <2>1, <2>2 DEF InMap, colormap_entry
<1>2. RangeInv => ColorInv
  BY <1>1 DEF RangeInv, ColorInv
<1> QED
  BY <1>2, RangeHolds, PTL

\* A larger value gets no lower colour, with norms or without; the least of
\* different values has the map's first colour, the greatest its last or, where
\* rounding loses a place, the one before.  For every matrix, size of the map
\* and set of scalings that fall short.
THEOREM ColorsGrowWithValues == ColorSpec => []ColorsFollowValues
<1>1. ASSUME RangeInv, stats_ready, NEW e \in DOMAIN matrix, NEW f \in DOMAIN matrix,
             RowSquare(e) = RowSquare(f), ColumnSquare(e) = ColumnSquare(f),
             Defined(e), matrix[e] <= matrix[f]
      PROVE  Place(e) <= Place(f)
  <2>1. CASE normalization_state = "none"
    BY <1>1, <2>1, RangedGrows DEF Place
  <2>2. CASE normalization_state # "none"
    BY <1>1, <2>2, NormedGrows DEF Place
  <2> QED
    BY <2>1, <2>2
<1>2. ASSUME RangeInv, stats_ready, NEW e \in DOMAIN matrix,
             normalization_state = "none", max_val > Smallest
      PROVE  /\ matrix[e] = max_val => Place(e) \in {MapSize - 2, MapSize - 1}
             /\ AllEqual => Place(e) = MapSize - 1
             /\ (matrix[e] = min_val /\ min_val < max_val) => Place(e) = 0
  <2>1. /\ min_val < max_val => Lowest = min_val
        /\ AllEqual => matrix[e] = max_val /\ max_val - Lowest = 1
    BY <1>2, EntryFacts DEF Lowest, AllEqual
  <2>2. /\ matrix[e] = max_val => Ranged(e) \in {MapSize - 2, MapSize - 1}
        /\ (matrix[e] = max_val /\ max_val - Lowest = 1) => Ranged(e) = MapSize - 1
        /\ matrix[e] = Lowest => Ranged(e) = 0
    BY <1>2, RangedFacts
  <2> QED
    BY <1>2, <2>1, <2>2 DEF Place
<1>3. RangeInv => ColorsFollowValues
  BY <1>1, <1>2 DEF ColorsFollowValues
<1> QED
  BY <1>3, RangeHolds, PTL

===============================================================================
