----------------------------- MODULE HandlerProofs -----------------------------
(***************************************************************************)
(* Proofs about the handlers of the main window: those that lay it out     *)
(* (PanelLayout), for every set of window sizes, height of the controls,   *)
(* margin, panel height and depth of stack; and those of the mouse and the *)
(* arrow keys (Interaction), for every size of matrix, set of pixels and   *)
(* set of places they may show.  The two share no state.                   *)
(***************************************************************************)
EXTENDS PanelLayout, Interaction, TLAPS

----------------------------------------------------------------------------
\* The layout.

\* What holds inside a call: it was made with the window's width and a height
\* the canvas may store, at least 4 * Offset when the event has room; a nested
\* reshape runs without a panel; whoever reaches the rest of reshape with a
\* panel has placed it and had room for it.
CallInv ==
    /\ height >= -PanelHeight /\ h >= -PanelHeight
    /\ pc # "idle" => w = window.w
    /\ pc # "idle" /\ RoomForEvent => h >= 4 * Offset
    /\ pc = "idle" => depth = 0
    /\ panel_shown <=> data_panel_visible
    /\ depth > 0 => ~data_panel_visible
    /\ (pc = "fit" /\ data_panel_visible) =>
          panel.w = window.w - 2 * Offset /\ panel.w >= 2 * Offset

LayoutInv == TypeOK /\ CallInv /\ AreaFitsWindow /\ PanelFits /\ OneNestedCall

LEMMA WindowSize == window \in [w : Widths, h : Heights] =>
                      window.w \in Nat \ {0} /\ window.h \in Nat \ {0}
  BY SizesAssumption

\* The viewport computation never yields a negative size.
LEMMA ViewportNat == window \in [w : Widths, h : Heights] =>
                       /\ ViewportWidth \in Nat
                       /\ ViewportHeight \in Nat
                       /\ DrawingHeight \in Int /\ DrawingHeight >= -PanelHeight
  BY WindowSize, SizesAssumption DEF ViewportWidth, ViewportHeight, DrawingHeight, AtLeastZero

\* The height a roomy window has stored between events is one that reshape takes.
LEMMA RoomStored == LayoutInv /\ pc = "idle" /\ RoomyWindow => height >= 4 * Offset
<1> SUFFICES ASSUME LayoutInv, pc = "idle", RoomyWindow PROVE height >= 4 * Offset
  OBVIOUS
<1>1. height = DrawingHeight /\ window.h \in Nat
  BY WindowSize DEF LayoutInv, TypeOK, AreaFitsWindow
<1>2. DrawingHeight >= 4 * Offset
  BY <1>1, SizesAssumption DEF RoomyWindow, DrawingHeight, ViewportHeight, AtLeastZero
<1> QED
  BY <1>1, <1>2

LEMMA InitLayoutInv == Init => LayoutInv
<1> SUFFICES ASSUME Init PROVE LayoutInv
  OBVIOUS
<1>1. window \in [w : Widths, h : Heights] /\ window.w \in Nat /\ window.h \in Nat
  BY SizesAssumption, WindowSize DEF Init
<1>2. TypeOK
  BY <1>1, SizesAssumption DEF Init, TypeOK, Smaller
<1>3. CallInv /\ AreaFitsWindow /\ PanelFits /\ OneNestedCall
  BY <1>1, SizesAssumption DEF Init, CallInv, AreaFitsWindow, PanelFits, OneNestedCall,
                               RoomForEvent, RoomyWindow
<1> QED
  BY <1>2, <1>3 DEF LayoutInv

\* hide_data_panel's two assignments, as the conjuncts of the invariant see them.
HiddenNext ==
    /\ panel_shown' \in BOOLEAN /\ data_panel_visible' \in BOOLEAN
    /\ ~data_panel_visible' /\ (panel_shown' <=> data_panel_visible')

\* An event starts a call: with the new size of the window, or with the size
\* stored, whose width is the window's.
LEMMA HandlerStep == LayoutInv /\ Handler => LayoutInv'
<1> SUFFICES ASSUME LayoutInv, Handler PROVE LayoutInv'
  OBVIOUS
<1> USE DEF LayoutInv, TypeOK, CallInv, AreaFitsWindow, PanelFits, OneNestedCall,
            RoomForEvent, RoomyWindow
<1>1. CASE Resize
  <2>1. PICK nw \in Widths, nh \in Heights :
            window' = [w |-> nw, h |-> nh] /\ Call(nw, nh)
    BY <1>1 DEF Resize
  <2>2. nw \in Nat /\ nh \in Nat
    BY SizesAssumption
  <2> QED
    BY <1>1, <2>1, <2>2, SizesAssumption DEF Resize, Call
<1>2. CASE MenuAspect
  BY <1>2, WindowSize, RoomStored DEF MenuAspect, Call, ViewportWidth
<1>3. CASE ShowPanel
  BY <1>3, WindowSize, RoomStored DEF ShowPanel, Call, ViewportWidth
<1>4. CASE HidePanel
  <2>1. /\ pc = "idle" /\ pc' = "reshape" /\ w' = width /\ h' = height
        /\ UNCHANGED <<window, width, height, panel, viewport, depth>>
    BY <1>4 DEF HidePanel, HideAndCall, Call
  <2>2. HiddenNext
    BY <1>4 DEF HidePanel, HideAndCall, HiddenNext
  <2> QED
    BY <2>1, <2>2, WindowSize, RoomStored DEF ViewportWidth, HiddenNext
<1> QED
  BY <1>1, <1>2, <1>3, <1>4 DEF Handler

\* reshape hides the panel: the nested call has the same arguments.
LEMMA HidesStep == LayoutInv /\ ReshapeHides => LayoutInv'
<1> SUFFICES ASSUME LayoutInv, ReshapeHides PROVE LayoutInv'
  OBVIOUS
<1> USE DEF LayoutInv, TypeOK, CallInv, AreaFitsWindow, PanelFits, OneNestedCall,
            RoomForEvent, RoomyWindow
<1>1. CASE depth = MaxDepth
  <2>1. MaxDepth > 0 /\ pc = "reshape"
    BY SizesAssumption DEF ReshapeHides
  <2>2. h < 4 * Offset
    BY <1>1, <2>1 DEF ReshapeHides, TooSmall
  <2> QED
    BY <1>1, <2>1, <2>2, SizesAssumption DEF ReshapeHides
<1>2. CASE depth # MaxDepth
  <2>1. /\ pc = "reshape" /\ pc' = "reshape" /\ w' = w /\ h' = h /\ depth' = depth + 1
        /\ width' = w /\ height' = h
        /\ UNCHANGED <<window, panel, viewport>>
    BY <1>2 DEF ReshapeHides, HideAndCall, Call
  <2>3. HiddenNext
    BY <1>2 DEF ReshapeHides, HideAndCall, HiddenNext
  <2>2. RoomForEvent => depth = 0
    BY SizesAssumption DEF ReshapeHides, TooSmall
  <2> QED
    BY <1>2, <2>1, <2>2, <2>3, SizesAssumption DEF HiddenNext
<1> QED
  BY <1>1, <1>2

\* reshape goes on: a panel gets the window's width less the margins.
LEMMA PlacesStep == LayoutInv /\ ReshapePlaces => LayoutInv'
<1> SUFFICES ASSUME LayoutInv, ReshapePlaces PROVE LayoutInv'
  OBVIOUS
<1> USE DEF LayoutInv, TypeOK, CallInv, AreaFitsWindow, PanelFits, OneNestedCall,
            RoomForEvent, RoomyWindow
<1>1. CASE data_panel_visible
  <2>1. panel' = [w |-> w - 2 * Offset, h |-> Smaller(h \div 2, PanelHeight)]
    BY <1>1 DEF ReshapePlaces
  <2>2. w >= 4 * Offset
    BY <1>1, SizesAssumption DEF ReshapePlaces, TooSmall
  <2>3. panel'.w \in Int /\ panel'.h \in Int
    BY <2>1, SizesAssumption DEF Smaller
  <2>4. panel'.w = window.w - 2 * Offset /\ panel'.w >= 2 * Offset
    BY <2>1, <2>2, SizesAssumption, WindowSize DEF ReshapePlaces
  <2> QED
    BY <2>3, <2>4, SizesAssumption DEF ReshapePlaces
<1>2. CASE ~data_panel_visible
  BY <1>2, SizesAssumption DEF ReshapePlaces
<1> QED
  BY <1>1, <1>2

\* The rest of reshape: everything is computed from the window again.
LEMMA FitStep == LayoutInv /\ Fit => LayoutInv'
<1> SUFFICES ASSUME LayoutInv, Fit PROVE LayoutInv'
  OBVIOUS
<1> USE DEF LayoutInv, TypeOK, CallInv, AreaFitsWindow, PanelFits, OneNestedCall,
            RoomForEvent, RoomyWindow
<1>1. /\ pc = "fit"
      /\ width' = ViewportWidth /\ height' = DrawingHeight
      /\ viewport' = [w |-> ViewportWidth, h |-> DrawingHeight]
      /\ UNCHANGED <<window, data_panel_visible, panel_shown, panel, w, h>>
  BY DEF Fit, StoresRest
<1>2. ViewportWidth' = ViewportWidth /\ DrawingHeight' = DrawingHeight
  BY <1>1 DEF ViewportWidth, DrawingHeight, ViewportHeight
<1>3. ViewportWidth \in Nat /\ DrawingHeight \in Int /\ DrawingHeight >= -PanelHeight
  BY ViewportNat
<1>4. CASE depth = 0
  BY <1>1, <1>2, <1>3, <1>4 DEF Fit
<1>5. CASE depth # 0
  BY <1>1, <1>2, <1>3, <1>5, SizesAssumption DEF Fit
<1> QED
  BY <1>4, <1>5

\* The invariant holds throughout.
THEOREM LayoutHolds == Spec => []LayoutInv
<1>1. LayoutInv /\ UNCHANGED vars => LayoutInv'
  BY DEF LayoutInv, TypeOK, CallInv, AreaFitsWindow, PanelFits, OneNestedCall,
         RoomForEvent, RoomyWindow, vars,
         ViewportWidth, DrawingHeight, ViewportHeight
<1>2. LayoutInv /\ [Next]_vars => LayoutInv'
  BY <1>1, HandlerStep, HidesStep, PlacesStep, FitStep DEF Next
<1> QED
  BY InitLayoutInv, <1>2, PTL DEF Spec

\* Type correctness of the layout.
THEOREM LayoutTypeCorrect == Spec => []TypeOK
<1>1. LayoutInv => TypeOK
  BY DEF LayoutInv
<1> QED
  BY LayoutHolds, <1>1, PTL

\* After every event the stored size and the viewport are what the window
\* leaves, however often the panel was toggled.
THEOREM LayoutAgrees == Spec => []AreaFitsWindow
<1>1. LayoutInv => AreaFitsWindow
  BY DEF LayoutInv
<1> QED
  BY LayoutHolds, <1>1, PTL

\* After every event a visible panel fits between the margins, and a panel is
\* shown exactly when the program takes it for visible, however often it was
\* hidden for lack of room.
THEOREM PanelFitsWindow == Spec => []PanelFits
<1>1. LayoutInv => PanelFits
  BY DEF LayoutInv
<1> QED
  BY LayoutHolds, <1>1, PTL

\* A resize to at least 4 * Offset, and every event in a window that leaves so
\* much beside controls and panel, takes at most one reshape inside another and
\* never overflows the stack: however often the panel was shown and hidden, the
\* stored height the menus reshape with is high enough.
THEOREM RecursionIsShallow == Spec => []OneNestedCall
<1>1. LayoutInv => OneNestedCall
  BY DEF LayoutInv
<1> QED
  BY LayoutHolds, <1>1, PTL

----------------------------------------------------------------------------
\* The mouse and the arrow keys.

\* Clipping: the cursor at an entry of the matrix, in half entries.
CursorPlaces == [x : 0 .. 2 * (NCols - 1), y : 0 .. 2 * (NRows - 1)]

\* bound_cursor takes any position into the matrix, because there is at least
\* one row and one column.
LEMMA BoundedInMatrix == \A p \in Point : Bounded(p) \in CursorPlaces
  BY SizeAssumption DEF Bounded, Clipped, CursorPlaces, Point

\* Differences and sums of points are points.
LEMMA PointArithmetic ==
  \A p, q \in Point : Plus(p, q) \in Point /\ Minus(p, q) \in Point
  BY DEF Plus, Minus, Point

\* What the actions keep together: the types, the place of the cursor, and the
\* agreement of the drags with buttons and pointer.
DragInv ==
    /\ MouseTypeOK
    /\ cursor \in CursorPlaces
    /\ DragNeedsButton
    /\ DragFromPointer
    /\ GripKept

LEMMA InitDragInv == MouseInit => DragInv
<1> SUFFICES ASSUME MouseInit PROVE DragInv
  OBVIOUS
<1>1. MouseTypeOK
  BY BoundsAssumption DEF MouseInit, MouseTypeOK, Origin, Point, Buttons
<1>2. cursor \in CursorPlaces
  BY SizeAssumption DEF MouseInit, Origin, CursorPlaces
<1>3. DragNeedsButton /\ DragFromPointer /\ GripKept
  BY DEF MouseInit, DragNeedsButton, DragFromPointer, GripKept
<1> QED
  BY <1>1, <1>2, <1>3 DEF DragInv

\* The cursor stays at an entry, by any of the three ways of placing it.
LEMMA CursorStep ==
    MouseTypeOK /\ cursor \in CursorPlaces /\ [MouseNext]_mousevars => cursor' \in CursorPlaces
<1> SUFFICES ASSUME MouseTypeOK, cursor \in CursorPlaces, [MouseNext]_mousevars
             PROVE  cursor' \in CursorPlaces
  OBVIOUS
<1>1. CASE PressCursor
  <2>1. PICK at \in World : cursor' = Bounded(Plus(at, [x |-> 1, y |-> 1]))
    BY <1>1 DEF PressCursor
  <2>2. Plus(at, [x |-> 1, y |-> 1]) \in Point
    BY PointsAssumption DEF Plus, Point
  <2> QED
    BY <2>1, <2>2, BoundedInMatrix
<1>2. CASE MotionCursor
  <2>1. PICK dx \in -2 .. 2, dy \in -2 .. 2 :
               cursor' = Bounded(Plus(cursor, [x |-> dx, y |-> dy]))
    BY <1>2 DEF MotionCursor, Along
  <2>2. Plus(cursor, [x |-> dx, y |-> dy]) \in Point
    BY SizeAssumption DEF Plus, Point, CursorPlaces
  <2> QED
    BY <2>1, <2>2, BoundedInMatrix
<1>3. CASE SpecialKey
  <2>1. PICK s \in Steps : cursor' = SetPosition(Plus(Entry(cursor), s))
    BY <1>3 DEF SpecialKey
  <2>2. Entry(cursor) \in Point /\ s \in Point
    BY SizeAssumption DEF Entry, Steps, Point, CursorPlaces
  <2>3. Plus(Entry(cursor), s) \in Point
    BY <2>2, PointArithmetic
  <2>4. \A e \in Point : [x |-> 2 * e.x, y |-> 2 * e.y] \in Point
    BY DEF Point
  <2> QED
    BY <2>1, <2>3, <2>4, BoundedInMatrix DEF SetPosition
<1>4. CASE cursor' = cursor
  BY <1>4
<1> QED
  BY <1>1, <1>2, <1>3, <1>4 DEF MouseNext, PressCanvas, Release, MotionPan, MotionZoom,
     MotionIdle, mousevars

LEMMA TypeStep == MouseTypeOK /\ cursor \in CursorPlaces /\ [MouseNext]_mousevars => MouseTypeOK'
<1> SUFFICES ASSUME MouseTypeOK, cursor \in CursorPlaces, [MouseNext]_mousevars
             PROVE  MouseTypeOK'
  OBVIOUS
<1>1. cursor' \in [x : Nat, y : Nat]
  BY CursorStep, SizeAssumption DEF CursorPlaces
<1>2. CASE PressCursor
  BY <1>1, <1>2, PointsAssumption, PointArithmetic
     DEF MouseTypeOK, PressCursor, Goes, CanvasBeginsAt, Point, Minus, Plus
<1>3. CASE PressCanvas
  <2>1. PICK button \in Buttons, mod \in Modifiers, p \in Pixels :
            /\ Goes(button, p)
            /\ mouse_state' = IF button # "left" THEN mouse_state
                              ELSE IF mod = "shift" THEN "zoom" ELSE "move"
            /\ mouse_begin' = p
            /\ UNCHANGED <<state, cursor, trans, zoom>>
    BY <1>3 DEF PressCanvas, CanvasBeginsAt
  <2>2. mouse_state' \in {"none", "move", "zoom"}
    BY <2>1 DEF MouseTypeOK
  <2>3. p \in Point /\ trans \in Point
    BY PointsAssumption DEF MouseTypeOK, Point
  <2>4. Minus(trans, p) \in Point
    BY <2>3, PointArithmetic
  <2> QED
    BY <1>1, <2>1, <2>2, <2>3, <2>4 DEF MouseTypeOK, Goes
<1>4. CASE Release
  BY <1>1, <1>4, PointsAssumption
     DEF MouseTypeOK, Release, CursorReleased, CanvasBeginsAt, Point
<1>5. CASE MotionCursor
  BY <1>1, <1>5, PointsAssumption
     DEF MouseTypeOK, MotionCursor, Moves, CanvasBeginsAt
<1>6. CASE MotionPan
  BY <1>1, <1>6, PointsAssumption
     DEF MouseTypeOK, MotionPan, Moves, InBounds, BeginsAtPixel, Plus, Minus, Point
<1>7. CASE MotionZoom
  BY <1>1, <1>7, PointsAssumption DEF MouseTypeOK, MotionZoom, Moves, Point
<1>8. CASE MotionIdle
  BY <1>1, <1>8 DEF MouseTypeOK, MotionIdle, Moves
<1>9. CASE SpecialKey
  BY <1>1, <1>9 DEF MouseTypeOK, SpecialKey
<1>10. CASE UNCHANGED mousevars
  BY <1>10 DEF MouseTypeOK, mousevars
<1> QED
  BY <1>2, <1>3, <1>4, <1>5, <1>6, <1>7, <1>8, <1>9, <1>10 DEF MouseNext

\* The drags: a press starts one with mouse_begin at the pointer, a motion
\* moves both along, a release ends both drags.
LEMMA DragStep ==
    DragInv /\ [MouseNext]_mousevars => (DragNeedsButton /\ DragFromPointer /\ GripKept)'
<1> SUFFICES ASSUME DragInv, [MouseNext]_mousevars
             PROVE  (DragNeedsButton /\ DragFromPointer /\ GripKept)'
  OBVIOUS
<1> USE DEF DragNeedsButton, DragFromPointer, GripKept
<1>1. CASE PressCursor
  BY <1>1 DEF PressCursor, Goes, CanvasBeginsAt
<1>2. CASE PressCanvas
  <2>1. mouse_begin' = pointer' /\ pressed' # {} /\ grip' = Minus(trans', pointer')
    BY <1>2 DEF PressCanvas, Goes, CanvasBeginsAt
  <2> QED
    BY <2>1
<1>3. CASE Release
  BY <1>3 DEF Release, CursorReleased, CanvasBeginsAt
<1>4. CASE MotionCursor
  <2>1. mouse_begin' = pointer' /\ pressed' # {} /\ state' = "moving"
    BY <1>4 DEF MotionCursor, Moves, CanvasBeginsAt
  <2> QED
    BY <2>1
<1>5. CASE MotionPan
  <2>1. PICK p \in Pixels : /\ Moves(p) /\ mouse_begin' = p
                            /\ trans' = Plus(trans, Minus(p, mouse_begin))
    BY <1>5 DEF MotionPan, BeginsAtPixel
  <2>2. mouse_begin = pointer /\ grip = Minus(trans, pointer)
    BY <1>5 DEF MotionPan, DragInv
  <2>3. Minus(Plus(trans, Minus(p, pointer)), p) = Minus(trans, pointer)
    BY PointsAssumption DEF DragInv, MouseTypeOK, Plus, Minus, Point
  <2>4. grip' = Minus(trans', pointer')
    BY <2>1, <2>2, <2>3 DEF Moves
  <2> QED
    BY <1>5, <2>1, <2>4 DEF Moves, MotionPan
<1>6. CASE MotionZoom
  BY <1>6 DEF MotionZoom, Moves, DragInv, MouseTypeOK, Point
<1>7. CASE MotionIdle
  BY <1>7 DEF MotionIdle, Moves
<1>8. CASE SpecialKey
  BY <1>8 DEF SpecialKey, DragInv
<1>9. CASE UNCHANGED mousevars
  BY <1>9 DEF mousevars, DragInv
<1> QED
  BY <1>1, <1>2, <1>3, <1>4, <1>5, <1>6, <1>7, <1>8, <1>9 DEF MouseNext

\* The invariant holds throughout.
THEOREM DragsAgree == MouseSpec => []DragInv
<1>1. DragInv /\ [MouseNext]_mousevars => DragInv'
  BY CursorStep, TypeStep, DragStep DEF DragInv
<1> QED
  BY InitDragInv, <1>1, PTL DEF MouseSpec

\* Type correctness of the mouse and key handlers.
THEOREM MouseTypeCorrect == MouseSpec => []MouseTypeOK
<1>1. DragInv => MouseTypeOK
  BY DEF DragInv
<1> QED
  BY DragsAgree, <1>1, PTL

\* The cursor is at a row and column of the matrix after any sequence of
\* clicks, drags and keys, in a matrix of any size.
THEOREM CursorStaysInMatrix == MouseSpec => []CursorInMatrix
<1>1. DragInv => CursorInMatrix
  BY SizeAssumption DEF DragInv, CursorPlaces, CursorInMatrix, Entry
<1> QED
  BY DragsAgree, <1>1, PTL

\* No drag outlives the buttons, in whatever order they are released.
THEOREM DragsNeedButtons == MouseSpec => []DragNeedsButton
<1>1. DragInv => DragNeedsButton
  BY DEF DragInv
<1> QED
  BY DragsAgree, <1>1, PTL

\* No move is counted twice or lost, also when one drag takes over from the
\* other.
THEOREM DragsStartFromPointer == MouseSpec => []DragFromPointer
<1>1. DragInv => DragFromPointer
  BY DEF DragInv
<1> QED
  BY DragsAgree, <1>1, PTL

\* A panned matrix sticks to the pointer.
THEOREM DragsFollowPointer == MouseSpec => []GripKept
<1>1. DragInv => GripKept
  BY DEF DragInv
<1> QED
  BY DragsAgree, <1>1, PTL

===============================================================================
