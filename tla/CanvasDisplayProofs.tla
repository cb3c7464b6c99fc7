------------------------- MODULE CanvasDisplayProofs -------------------------
(***************************************************************************)
(* What CanvasDisplay promises for every matrix height, stripe height, set *)
(* of views and set of looks.                                              *)
(***************************************************************************)
EXTENDS CanvasDisplay, TLAPS

----------------------------------------------------------------------------
\* Arithmetic of the stripes.

\* A session shows a matrix with rows.
LEMMA RowsType ==
    ASSUME session \in Sessions
    PROVE  NRows \in Nat \ {0}
BY SessionsAssumption DEF NRows

\* A view has integer bounds, and far is a Boolean.
LEMMA ViewType ==
    ASSUME session \in Sessions, NEW w \in Views
    PROVE  w.r1 \in Int /\ w.r2 \in Int /\ w.far \in BOOLEAN
BY SessionsAssumption DEF Views

\* The session stays what it is.
LEMMA SameSession ==
    ASSUME session' = session
    PROVE  NRows' = NRows /\ Views' = Views /\ SwapKind' = SwapKind
BY DEF NRows, Views, SwapKind

\* Stripe f + 1 starts Chunk rows below stripe f.
LEMMA StripeStep ==
    ASSUME session \in Sessions, NEW w \in Views, NEW f \in Nat
    PROVE  /\ StripeStart(w, f) \in Int
           /\ StripeStart(w, f + 1) = StripeStart(w, f) + Chunk
           /\ StripeStart(w, 0) = Larger(w.r1, 0)
           /\ Chunk * (f + 1) = Chunk * f + Chunk
           /\ Chunk * f \in Nat
<1>1. w.r1 \in Int
  BY ViewType
<1>2. Chunk * f \in Nat /\ Chunk * (f + 1) = Chunk * f + Chunk /\ Chunk * 0 = 0
  BY ChunkAssumption
<1>3. QED
  BY <1>1, <1>2, ChunkAssumption DEF StripeStart, Larger

\* While stripes are left, the next one starts where this one ended, inside
\* the matrix, and nothing of the matrix lies between them.
LEMMA StripesMeet ==
    ASSUME session \in Sessions, NEW w \in Views, NEW f \in Nat, StripesLeft(w, f)
    PROVE  /\ IsStriped(w)
           /\ StripeEnd(w, f) = StripeStart(w, f + 1)
           /\ StripeStart(w, f + 1) < SweepEnd(w)
           /\ Chunk * (f + 1) < NRows
<1>1. w.r1 \in Int /\ w.r2 \in Int
  BY ViewType
<1>2. /\ StripeStart(w, f) \in Int
      /\ StripeStart(w, f + 1) = StripeStart(w, f) + Chunk
      /\ Chunk * (f + 1) = Chunk * f + Chunk
      /\ Chunk * f \in Nat
  BY StripeStep
<1>3. SweepEnd(w) \in Int /\ SweepEnd(w) <= NRows
  BY <1>1, RowsType DEF SweepEnd, Smaller
<1>4. StripeStart(w, f) >= Chunk * f
  BY <1>1, <1>2, ChunkAssumption DEF StripeStart, Larger
<1>5. StripeEnd(w, f) # SweepEnd(w)
  BY DEF StripesLeft
<1>6. StripeEnd(w, f) = StripeStart(w, f) + Chunk /\ StripeEnd(w, f) < SweepEnd(w)
  BY <1>2, <1>3, <1>5, ChunkAssumption DEF StripeEnd, Smaller
<1>7. StripeEnd(w, f) >= Chunk * (f + 1)
  BY <1>2, <1>4, <1>6, ChunkAssumption
<1>8. QED
  BY <1>2, <1>3, <1>6, <1>7, ChunkAssumption, RowsType DEF StripesLeft

\* Two bands of display rows that meet make one.
LEMMA BandsJoin ==
    ASSUME session \in Sessions, NEW a \in Int, NEW b \in Int, NEW c \in Int,
           a <= b, b <= c, 0 <= a, b <= NRows
    PROVE  DrawnRows(a, b) \cup DrawnRows(b, c) = DrawnRows(a, c)
BY RowsType DEF DrawnRows, Larger, Smaller

LEMMA InkUnion ==
    ASSUME NEW A, NEW B, NEW w, NEW k
    PROVE  Ink(A, w, k) \cup Ink(B, w, k) = Ink(A \cup B, w, k)
BY DEF Ink

LEMMA DrawnRowsAreRows ==
    ASSUME session \in Sessions, NEW a \in Int, NEW b \in Int
    PROVE  DrawnRows(a, b) \subseteq Int
BY RowsType DEF DrawnRows, Larger, Smaller

LEMMA PaintedType ==
    ASSUME session \in Sessions, NEW w \in Views, NEW f \in Nat, NEW k \in Looks
    PROVE  Ink(PaintedBy(w, f), w, k) \subseteq Int \X Views \X Looks
<1>1. w.r1 \in Int /\ w.r2 \in Int
  BY ViewType
<1>2. StripeStart(w, f) \in Int
  BY StripeStep
<1>3. StripeEnd(w, f) \in Int
  BY <1>1, <1>2, ChunkAssumption, RowsType DEF StripeEnd, SweepEnd, Smaller
<1>4. PaintedBy(w, f) \subseteq Int
  BY <1>1, <1>2, <1>3, DrawnRowsAreRows, RowsType DEF PaintedBy
<1>5. QED
  BY <1>4 DEF Ink

\* Steps that leave session and view alone leave alone what is drawn of them.
LEMMA SameDrawing ==
    ASSUME session' = session, view' = view
    PROVE  /\ StripesLeft(view, frame)' <=> StripesLeft(view, frame')
           /\ IsStriped(view)' <=> IsStriped(view)
           /\ Picture(view, look)' = Picture(view, look')
           /\ Ink(DrawnRows(Larger(view.r1, 0), StripeEnd(view, frame)), view, look)'
                = Ink(DrawnRows(Larger(view.r1, 0), StripeEnd(view, frame')), view, look')
BY SameSession DEF StripesLeft, IsStriped, Picture, PaintedBy, Ink, DrawnRows, StripeEnd,
                   StripeStart, SweepEnd

----------------------------------------------------------------------------
\* Type correctness: the variables of the display loop keep their types under
\* every handler and every call of display().
THEOREM TypeCorrect == Spec => []TypeOK
<1>1. Init => TypeOK
  <2> SUFFICES ASSUME Init
               PROVE  TypeOK
    OBVIOUS
  <2>1. frame \in Nat
    BY DEF Init
  <2>2. QED
    BY <2>1, Zenon DEF Init, TypeOK
<1>2. TypeOK /\ [Next]_vars => TypeOK'
  <2> SUFFICES ASSUME TypeOK, [Next]_vars
               PROVE  TypeOK'
    OBVIOUS
  <2>1. CASE Display
    <3>1. NextFrame \in Nat
      BY DEF NextFrame, TypeOK
    <3>2. CanvasToDrawOn \subseteq Int \X Views \X Looks
      BY DEF CanvasToDrawOn, TypeOK
    <3>3. Ink(PaintedBy(view, NextFrame), view, look) \subseteq Int \X Views \X Looks
      BY <3>1, PaintedType DEF TypeOK
    <3>4. front' \subseteq Int \X Views \X Looks /\ back' \subseteq Int \X Views \X Looks
      BY <2>1, <3>2, <3>3 DEF Display, BackAfterSwap, TypeOK
    <3> Views' = Views /\ session' \in Sessions
      BY <2>1, SameSession DEF Display, TypeOK
    <3>5. display_finished' \in BOOLEAN /\ redisplay' \in BOOLEAN
      BY <2>1 DEF Display, Reposted, StripesLeft
    <3>6. frame' \in Nat /\ mixed' \in BOOLEAN /\ view' \in Views /\ look' \in Looks
      BY <2>1, <3>1 DEF Display, TypeOK
    <3>7. QED
      BY <3>4, <3>5, <3>6 DEF TypeOK
  <2>2. ASSUME NEW w \in Views, NEW k \in Looks, StartsOver(w, k)
        PROVE  TypeOK'
    BY <2>2, SameSession DEF TypeOK, StartsOver
  <2>3. ASSUME NEW w \in Views, NEW k \in Looks, CarriesOn(w, k)
        PROVE  TypeOK'
    BY <2>3, SameSession DEF TypeOK, CarriesOn
  <2>4. CASE UNCHANGED vars
    BY <2>4, SameSession DEF TypeOK, vars
  <2>5. CASE Handler
    <3>1. view \in Views /\ look \in Looks
      BY DEF TypeOK
    <3>2. QED
      BY <2>2, <2>3, <2>5, <3>1
      DEF Handler, MotionView, MotionCursor, MenuLayout, MenuColors, MenuColormap,
          SpecialKey, MouseClick, GluiCallback, Reshape, Expose
  <2>6. QED
    BY <2>1, <2>4, <2>5 DEF Next
<1>3. QED
  BY <1>1, <1>2, PTL DEF Spec

----------------------------------------------------------------------------
\* Every handler is one of the two kinds.
LEMMA HandlerCases ==
    ASSUME TypeOK, Handler
    PROVE  \E w \in Views, k \in Looks : StartsOver(w, k) \/ CarriesOn(w, k)
<1>1. view \in Views /\ look \in Looks
  BY DEF TypeOK
<1>2. QED
  BY <1>1
  DEF Handler, MotionView, MotionCursor, MenuLayout, MenuColors, MenuColormap,
      SpecialKey, MouseClick, GluiCallback, Reshape, Expose

\* Scheduling: besides the two properties, a sweep that no handler disturbed is
\* unfinished exactly while it has a stripe left.
SweepInv ==
    /\ TypeOK
    /\ SweepScheduled
    /\ FrameInMatrix
    /\ (~display_finished /\ ~mixed) => StripesLeft(view, frame)

LEMMA InitSweepInv ==
    ASSUME Init
    PROVE  SweepInv
<1>1. frame \in Nat
  BY DEF Init
<1>2. TypeOK
  BY <1>1, Zenon DEF Init, TypeOK
<1>3. QED
  BY <1>2, Zenon DEF Init, SweepInv, SweepScheduled, FrameInMatrix

LEMMA SweepStep ==
    ASSUME SweepInv, TypeOK', [Next]_vars
    PROVE  SweepInv'
<1>0. TypeOK /\ session \in Sessions
  BY DEF SweepInv, TypeOK
<1>1. CASE Display
  <2>1. NextFrame \in Nat /\ view \in Views
    BY <1>0 DEF NextFrame, TypeOK
  <2>2. /\ frame' = NextFrame
        /\ session' = session /\ view' = view
        /\ display_finished' = ~StripesLeft(view, NextFrame)
        /\ redisplay' = StripesLeft(view, NextFrame)
    BY <1>1 DEF Display, Reposted
  <2>3. SweepScheduled'
    BY <2>2 DEF SweepScheduled
  <2>4. FrameInMatrix'
    BY <1>0, <2>1, <2>2, StripesMeet, SameSession DEF FrameInMatrix
  <2>5. ~display_finished' => StripesLeft(view, frame)'
    BY <2>2, SameDrawing
  <2>6. QED
    BY <2>3, <2>4, <2>5 DEF SweepInv
<1>2. ASSUME NEW w \in Views, NEW k \in Looks, StartsOver(w, k)
      PROVE  SweepInv'
  BY <1>2 DEF SweepInv, StartsOver, SweepScheduled, FrameInMatrix
<1>3. ASSUME NEW w \in Views, NEW k \in Looks, CarriesOn(w, k)
      PROVE  SweepInv'
  <2>1. /\ redisplay' /\ frame' = frame /\ display_finished' = display_finished
        /\ session' = session
    BY <1>3 DEF CarriesOn
  <2>2. (~display_finished /\ ~mixed') => ~mixed /\ view' = view
    BY <1>3 DEF CarriesOn
  <2>3. SweepScheduled' /\ FrameInMatrix'
    BY <2>1, SameSession DEF SweepInv, SweepScheduled, FrameInMatrix
  <2>4. (~display_finished' /\ ~mixed') => StripesLeft(view, frame)'
    BY <2>1, <2>2, SameDrawing DEF SweepInv
  <2>5. QED
    BY <2>3, <2>4 DEF SweepInv
<1>4. CASE UNCHANGED vars
  <2>1. UNCHANGED <<session, display_finished, frame, redisplay, view, mixed>>
    BY <1>4 DEF vars
  <2>2. QED
    BY <2>1, SameDrawing, SameSession DEF SweepInv, SweepScheduled, FrameInMatrix
<1>5. QED
  BY <1>0, <1>1, <1>2, <1>3, <1>4, HandlerCases DEF Next

\* Scheduling of the sweep, whatever handlers run between two calls of
\* display().
THEOREM SweepHolds == Spec => []SweepInv
<1>1. Init => SweepInv
  BY InitSweepInv
<1>2. SweepInv /\ TypeOK' /\ [Next]_vars => SweepInv'
  BY SweepStep
<1>3. QED
  BY <1>1, <1>2, TypeCorrect, PTL DEF Spec

\* An unfinished sweep has its next call of display() posted.
THEOREM SweepIsScheduled == Spec => []SweepScheduled
<1>1. SweepInv => SweepScheduled
  BY DEF SweepInv
<1> QED
  BY SweepHolds, <1>1, PTL

\* The next stripe of an unfinished sweep begins inside the matrix, although
\* handlers may have resized or moved the view under it.
THEOREM FrameStaysInMatrix == Spec => []FrameInMatrix
<1>1. SweepInv => FrameInMatrix
  BY DEF SweepInv
<1> QED
  BY SweepHolds, <1>1, PTL

----------------------------------------------------------------------------
\* The rows a striped drawing has painted up to and including stripe f.
Swept(w, f) == DrawnRows(Larger(w.r1, 0), StripeEnd(w, f))

\* The first stripe of a sweep, and each stripe after it, extend what has been
\* swept downwards without a gap.
LEMMA SweptGrows ==
    ASSUME session \in Sessions, NEW w \in Views, NEW f \in Nat, IsStriped(w)
    PROVE  /\ PaintedBy(w, 0) = Swept(w, 0)
           /\ StripesLeft(w, f) => Swept(w, f) \cup PaintedBy(w, f + 1) = Swept(w, f + 1)
<1>1. w.r1 \in Int /\ w.r2 \in Int
  BY ViewType
<1>2. StripeStart(w, 0) = Larger(w.r1, 0)
  BY StripeStep
<1>3. PaintedBy(w, 0) = Swept(w, 0)
  BY <1>2 DEF PaintedBy, Swept, IsStriped
<1>4. ASSUME StripesLeft(w, f)
      PROVE  Swept(w, f) \cup PaintedBy(w, f + 1) = Swept(w, f + 1)
  <2> DEFINE a == Larger(w.r1, 0)
             b == StripeStart(w, f + 1)
             c == StripeEnd(w, f + 1)
  <2>1. StripeEnd(w, f) = b /\ b < SweepEnd(w)
    BY <1>4, StripesMeet
  <2>2. a \in Int /\ 0 <= a
    BY <1>1 DEF Larger
  <2>3. /\ b \in Int
        /\ Chunk * (f + 1) \in Nat
    BY StripeStep
  <2>4. a <= b
    BY <2>2, <2>3 DEF StripeStart
  <2>5. SweepEnd(w) \in Int /\ SweepEnd(w) <= NRows
    BY <1>1, RowsType DEF SweepEnd, Smaller
  <2>6. c \in Int /\ b <= c
    BY <2>1, <2>3, <2>5, ChunkAssumption DEF StripeEnd, Smaller
  <2>7. b <= NRows
    BY <2>1, <2>3, <2>5, RowsType
  <2>8. DrawnRows(a, b) \cup DrawnRows(b, c) = DrawnRows(a, c)
    BY <2>2, <2>3, <2>4, <2>6, <2>7, BandsJoin
  <2>9. PaintedBy(w, f + 1) = DrawnRows(b, c)
    BY DEF PaintedBy, IsStriped
  <2>10. Swept(w, f) = DrawnRows(a, b) /\ Swept(w, f + 1) = DrawnRows(a, c)
    BY <2>1 DEF Swept
  <2>11. QED
    BY <2>8, <2>9, <2>10
<1>5. QED
  BY <1>3, <1>4

----------------------------------------------------------------------------
\* What the buffers hold.  With a copying swap they never differ; whatever the
\* swap does, the stripes of an undisturbed sweep are in one of the two.
StripesKept ==
    (~display_finished /\ ~mixed) =>
        Ink(Swept(view, frame), view, look) \subseteq (front \cup back)

PictureInv ==
    /\ SweepInv
    /\ SwapKind = "copy" => back = front
    /\ SweepIsPrefix
    /\ WholePicture
    /\ StripesKept
    /\ NoStripeLost
    /\ OneFrameWhole

\* One call of display(): it extends an undisturbed sweep, and when no stripe
\* is left the picture is there.
LEMMA DisplayPaints ==
    ASSUME PictureInv, TypeOK', Display
    PROVE  PictureInv'
<1> DEFINE ink == Ink(PaintedBy(view, NextFrame), view, look)
<1>1. /\ TypeOK
      /\ session \in Sessions
      /\ view \in Views
      /\ frame \in Nat
      /\ session' = session
      /\ view' = view
      /\ look' = look
  BY DEF PictureInv, SweepInv, TypeOK, Display
<1>2. /\ frame' = NextFrame
      /\ NextFrame \in Nat
      /\ display_finished' = ~StripesLeft(view, NextFrame)
      /\ front' = CanvasToDrawOn \cup ink
      /\ back' = IF SwapKind = "copy" THEN front' ELSE front
      /\ mixed' = (~display_finished /\ mixed)
  BY <1>1 DEF Display, BackAfterSwap, NextFrame
<1>3. SwapKind' = SwapKind
  BY <1>1, SameSession
<1>4. SweepInv'
  BY SweepStep DEF PictureInv, Next
<1>5. ASSUME display_finished
      PROVE  NextFrame = 0 /\ front' = ink
  <2>1. NextFrame = 0 /\ CanvasToDrawOn = {}
    BY <1>5 DEF NextFrame, CanvasToDrawOn
  <2>2. QED
    BY <1>2, <2>1
<1>6. ASSUME ~display_finished, ~mixed'
      PROVE  /\ NextFrame = frame + 1
             /\ IsStriped(view)
             /\ front' = back \cup ink
             /\ Ink(Swept(view, frame), view, look) \cup ink
                  = Ink(Swept(view, NextFrame), view, look)
             /\ Ink(Swept(view, frame), view, look) \subseteq (front \cup back)
             /\ SwapKind = "copy" => Ink(Swept(view, frame), view, look) = back
  <2>1. ~mixed /\ NextFrame = frame + 1 /\ CanvasToDrawOn = back
    BY <1>2, <1>6 DEF NextFrame, CanvasToDrawOn
  <2>2. StripesLeft(view, frame)
    BY <1>6, <2>1 DEF PictureInv, SweepInv
  <2>3. IsStriped(view)
    BY <2>2 DEF StripesLeft
  <2>4. Swept(view, frame) \cup PaintedBy(view, frame + 1) = Swept(view, frame + 1)
    BY <1>1, <2>2, <2>3, SweptGrows
  <2>5. Ink(Swept(view, frame), view, look) \cup ink = Ink(Swept(view, NextFrame), view, look)
    BY <2>1, <2>4, InkUnion
  <2>6. Ink(Swept(view, frame), view, look) \subseteq (front \cup back)
    BY <1>6, <2>1 DEF PictureInv, StripesKept
  <2>7. SwapKind = "copy" => Ink(Swept(view, frame), view, look) = back
    BY <1>6, <2>1 DEF PictureInv, SweepIsPrefix, Swept
  <2>8. QED
    BY <1>2, <2>1, <2>3, <2>5, <2>6, <2>7
\* Where stripes are painted, they are all in the buffers, and in the front
\* one if the swap copies or there was one stripe only.
<1>7. ASSUME ~mixed', IsStriped(view)
      PROVE  /\ Ink(Swept(view, NextFrame), view, look) \subseteq (front' \cup back')
             /\ (SwapKind = "copy" \/ NextFrame = 0)
                    => front' = Ink(Swept(view, NextFrame), view, look)
  <2>1. CASE display_finished
    <3>1. PaintedBy(view, 0) = Swept(view, 0)
      BY <1>1, <1>7, SweptGrows
    <3>2. QED
      BY <1>5, <2>1, <3>1
  <2>2. CASE ~display_finished
    <3>1. NextFrame # 0
      BY <1>1, <1>6, <1>7, <2>2
    <3>2. QED
      BY <1>2, <1>6, <1>7, <2>2, <3>1
  <2>3. QED
    BY <2>1, <2>2
\* Anything else is painted at once.
<1>8. ASSUME ~mixed', ~IsStriped(view)
      PROVE  front' = Picture(view, look)
  <2>1. display_finished
    BY <1>6, <1>8
  <2>2. Picture(view, look) = Ink(PaintedBy(view, 0), view, look)
    BY <1>8 DEF Picture
  <2>3. QED
    BY <1>5, <2>1, <2>2
<1>9. ASSUME IsStriped(view), ~StripesLeft(view, NextFrame)
      PROVE  Picture(view, look) = Ink(Swept(view, NextFrame), view, look)
  <2>1. StripeEnd(view, NextFrame) = SweepEnd(view)
    BY <1>9 DEF StripesLeft
  <2>2. QED
    BY <1>9, <2>1 DEF Picture, Swept
\* The properties speak of the state after the step.
<1>10. /\ Picture(view, look)' = Picture(view, look)
       /\ Ink(Swept(view, frame), view, look)' = Ink(Swept(view, NextFrame), view, look)
  BY <1>1, <1>2, SameDrawing DEF Swept
<1>11. SweepIsPrefix'
  <2> SUFFICES ASSUME SwapKind = "copy", ~display_finished', ~mixed'
               PROVE  front' = Ink(Swept(view, frame), view, look)'
    BY <1>3 DEF SweepIsPrefix, Swept
  <2>1. IsStriped(view)
    BY <1>2 DEF StripesLeft
  <2>2. QED
    BY <1>7, <1>10, <2>1
<1>12. StripesKept'
  <2> SUFFICES ASSUME ~display_finished', ~mixed'
               PROVE  Ink(Swept(view, frame), view, look)' \subseteq (front' \cup back')
    BY DEF StripesKept
  <2>1. IsStriped(view)
    BY <1>2 DEF StripesLeft
  <2>2. QED
    BY <1>7, <1>10, <2>1
<1>13. ASSUME display_finished', ~mixed'
       PROVE  /\ Picture(view, look) \subseteq (front' \cup back')
              /\ (SwapKind = "copy" \/ NextFrame = 0) => front' = Picture(view, look)
  <2>1. ~StripesLeft(view, NextFrame)
    BY <1>2, <1>13
  <2>2. CASE IsStriped(view)
    BY <1>7, <1>9, <1>13, <2>1, <2>2
  <2>3. QED
    BY <1>8, <1>13, <2>2
<1>14. WholePicture' /\ NoStripeLost' /\ OneFrameWhole'
  BY <1>2, <1>3, <1>10, <1>13 DEF WholePicture, NoStripeLost, OneFrameWhole, Settled
<1>15. SwapKind' = "copy" => back' = front'
  BY <1>2, <1>3
<1>16. QED
  BY <1>4, <1>11, <1>12, <1>14, <1>15 DEF PictureInv

\* The handlers paint nothing.
LEMMA HandlerPaints ==
    ASSUME PictureInv, TypeOK', Handler
    PROVE  PictureInv'
<1>1. TypeOK
  BY DEF PictureInv, SweepInv
<1>2. SweepInv'
  BY SweepStep DEF PictureInv, Next
<1>3. ASSUME NEW w \in Views, NEW k \in Looks, StartsOver(w, k)
      PROVE  PictureInv'
  <2>1. /\ session' = session /\ redisplay' /\ display_finished'
        /\ front' = front /\ back' = back
    BY <1>3 DEF StartsOver
  <2>2. QED
    BY <1>2, <2>1, SameSession DEF PictureInv, SweepIsPrefix, WholePicture, StripesKept,
       NoStripeLost, OneFrameWhole, Settled
<1>4. ASSUME NEW w \in Views, NEW k \in Looks, CarriesOn(w, k)
      PROVE  PictureInv'
  <2>1. /\ session' = session
        /\ redisplay'
        /\ frame' = frame
        /\ display_finished' = display_finished
        /\ front' = front
        /\ back' = back
    BY <1>4 DEF CarriesOn
  <2>2. (~display_finished /\ ~mixed') => ~mixed /\ view' = view /\ look' = look
    BY <1>4 DEF CarriesOn
  <2>3. (~display_finished' /\ ~mixed') =>
           Ink(Swept(view, frame), view, look)' = Ink(Swept(view, frame), view, look)
    BY <2>1, <2>2, SameDrawing DEF Swept
  <2>4. SweepIsPrefix' /\ StripesKept'
    BY <2>1, <2>2, <2>3, SameSession DEF PictureInv, SweepIsPrefix, StripesKept, Swept
  <2>5. WholePicture' /\ NoStripeLost' /\ OneFrameWhole'
    BY <2>1 DEF WholePicture, NoStripeLost, OneFrameWhole, Settled
  <2>6. QED
    BY <1>2, <2>1, <2>4, <2>5, SameSession DEF PictureInv
<1>5. QED
  BY <1>1, <1>3, <1>4, HandlerCases

THEOREM PictureHolds == Spec => []PictureInv
<1>1. Init => PictureInv
  <2> SUFFICES ASSUME Init
               PROVE  PictureInv
    OBVIOUS
  <2>1. SweepInv
    BY InitSweepInv
  <2>2. QED
    BY <2>1, Zenon DEF Init, PictureInv, SweepIsPrefix, WholePicture, StripesKept,
                       NoStripeLost, OneFrameWhole, Settled
<1>2. PictureInv /\ TypeOK' /\ [Next]_vars => PictureInv'
  <2> SUFFICES ASSUME PictureInv, TypeOK', [Next]_vars
               PROVE  PictureInv'
    OBVIOUS
  <2>1. CASE UNCHANGED vars
    <3>1. UNCHANGED <<session, display_finished, frame, redisplay, view, look, front, back,
                      mixed>>
      BY <2>1 DEF vars
    <3>2. SweepInv'
      BY SweepStep DEF PictureInv
    <3>3. QED
      BY <3>1, <3>2, SameDrawing, SameSession DEF PictureInv, SweepIsPrefix, WholePicture,
         StripesKept, Swept, NoStripeLost, OneFrameWhole, Settled
  <2>2. QED
    BY <2>1, DisplayPaints, HandlerPaints DEF Next
<1>3. QED
  BY <1>1, <1>2, TypeCorrect, PTL DEF Spec

\* Completeness of the picture: where the buffer swap keeps the back buffer,
\* the window at rest shows exactly the picture of the present view and
\* settings, unless a handler changed one inside the sweep without starting it
\* over.
THEOREM PictureIsWhole == Spec => []WholePicture
<1>1. PictureInv => WholePicture
  BY DEF PictureInv
<1> QED
  BY PictureHolds, <1>1, PTL

\* With such a swap, and until the sweep is over, the window shows a gapless part
\* of that picture from the top.
THEOREM SweepShowsPrefix == Spec => []SweepIsPrefix
<1>1. PictureInv => SweepIsPrefix
  BY DEF PictureInv
<1> QED
  BY PictureHolds, <1>1, PTL

\* Whatever glutSwapBuffers does, the stripes of a sweep no handler interfered
\* with are all in one of the two buffers.
THEOREM StripesAreKept == Spec => []NoStripeLost
<1>1. PictureInv => NoStripeLost
  BY DEF PictureInv
<1> QED
  BY PictureHolds, <1>1, PTL

\* Whatever glutSwapBuffers does, a picture that took one call of display() is
\* in front.
THEOREM OneFrameIsWhole == Spec => []OneFrameWhole
<1>1. PictureInv => OneFrameWhole
  BY DEF PictureInv
<1> QED
  BY PictureHolds, <1>1, PTL
=============================================================================
