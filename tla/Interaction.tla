----------------------------- MODULE Interaction -----------------------------
(***************************************************************************)
(* Mouse and arrow keys: matrix_canvas::mouse_click, motion, special_key   *)
(* with the handlers of the data cursor and of glut_2d_canvas behind them. *)
(* Two drags have a state each, one in the cursor and one in the canvas;   *)
(* the cursor is asked first, both measure from the same mouse_begin, and  *)
(* different buttons start what any release ends.                          *)
(*                                                                         *)
(* Cursor positions are in half entries: a click puts the cursor half an   *)
(* entry past the pointer, and cutting off the fraction then gives the     *)
(* nearest entry.  Panning is counted in pixels at the zoom of the moment. *)
(***************************************************************************)
EXTENDS Integers

CONSTANTS
    NRows, NCols,      \* _m.nrows and _m.ncols
    Pixels,            \* positions of the pointer
    World,             \* where in the matrix a pixel may lie, in half entries
    MaxPan, MaxZoom    \* bounds of the instance: panned pixels, zoom steps

Point == [x : Int, y : Int]

ASSUME SizeAssumption == NRows \in Nat \ {0} /\ NCols \in Nat \ {0}
ASSUME PointsAssumption == Pixels \subseteq Point /\ World \subseteq Point
ASSUME BoundsAssumption == MaxPan \in Nat /\ MaxZoom \in Nat

VARIABLES
    mouse_state,  \* glut_2d_canvas: "none", "move" or "zoom"
    state,        \* matrix_data_cursor: "none" or "moving"
    cursor,       \* cursor_x, cursor_y
    mouse_begin,  \* mouse_begin_x, mouse_begin_y
    trans,        \* trans_x, trans_y
    zoom,         \* steps in (positive) or out
    pressed,      \* buttons held down
    pointer,      \* position last reported
    grip          \* history: trans - pointer when the last button went down

mousevars == <<mouse_state, state, cursor, mouse_begin, trans, zoom, pressed, pointer, grip>>

----------------------------------------------------------------------------
Plus(p, q) == [x |-> p.x + q.x, y |-> p.y + q.y]
Minus(p, q) == [x |-> p.x - q.x, y |-> p.y - q.y]
Origin == [x |-> 0, y |-> 0]

\* matrix_data_cursor::bound_cursor: the last row or column at most.
\* The variants named next to a definition are slips it must not contain; the
\* runs check that each breaks a property.
ClippedToCount(v, n) == IF v < 0 THEN 0 ELSE IF v > 2 * n THEN 2 * n ELSE v
Clipped(v, n) == IF v < 0 THEN 0 ELSE IF v > 2 * (n - 1) THEN 2 * (n - 1) ELSE v
Bounded(p) == [x |-> Clipped(p.x, NCols), y |-> Clipped(p.y, NRows)]

\* get_x and get_y: the entry a position within the matrix lies in.
Entry(p) == [x |-> p.x \div 2, y |-> p.y \div 2]

MouseInit ==
    /\ mouse_state = "none"
    /\ state = "none"
    /\ cursor = Origin
    /\ mouse_begin = Origin
    /\ trans = Origin
    /\ zoom = 0
    /\ pressed = {}
    /\ pointer \in Pixels
    /\ grip = Origin

----------------------------------------------------------------------------
\* A button goes down at pixel p.
Buttons == {"left", "middle", "wheel"}
Modifiers == {"plain", "shift", "ctrl"}

CanvasBeginsAt(p) == mouse_begin' = p

Goes(button, p) ==
    /\ button \notin pressed
    /\ pressed' = pressed \cup {button}
    /\ pointer' = p
    /\ grip' = Minus(trans, p)

ForCursor(button, mod) == button = "middle" \/ (button = "left" /\ mod = "ctrl")

\* matrix_data_cursor::mouse_click takes it: the cursor jumps to the pointer.
PressCursor ==
    \E button \in Buttons, mod \in Modifiers, p \in Pixels, at \in World :
        /\ ForCursor(button, mod)
        /\ Goes(button, p)
        /\ state' = "moving"
        /\ cursor' = Bounded(Plus(at, [x |-> 1, y |-> 1]))
        /\ CanvasBeginsAt(p)
        /\ UNCHANGED <<mouse_state, trans, zoom>>

\* It does not: glut_2d_canvas::mouse_click does.
PressCanvas ==
    \E button \in Buttons, mod \in Modifiers, p \in Pixels :
        /\ ~ForCursor(button, mod)
        /\ Goes(button, p)
        /\ mouse_state' = IF button # "left" THEN mouse_state
                          ELSE IF mod = "shift" THEN "zoom" ELSE "move"
        /\ CanvasBeginsAt(p)
        /\ UNCHANGED <<state, cursor, trans, zoom>>

\* A button goes up: the cursor forgets its drag and passes the event on, and
\* the canvas forgets its own.  Both do so for any button.
CursorKeepsState == state
CursorReleased == "none"

Release ==
    \E button \in pressed, p \in Pixels :
        /\ pressed' = pressed \ {button}
        /\ pointer' = p
        /\ state' = CursorReleased
        /\ mouse_state' = "none"
        /\ CanvasBeginsAt(p)
        /\ UNCHANGED <<cursor, trans, zoom, grip>>

----------------------------------------------------------------------------
\* matrix_canvas::motion: GLUT calls it while a button is held.
Moves(p) ==
    /\ pressed # {}
    /\ p # pointer
    /\ pointer' = p
    /\ UNCHANGED <<mouse_state, state, pressed, grip>>

\* How far a pixel move takes the cursor depends on the zoom: any distance in
\* the direction of the move.
Along(move) == {d \in -2 .. 2 : (d > 0 <=> move > 0) /\ (d < 0 <=> move < 0)}

MotionCursor ==
    /\ state = "moving"
    /\ \E p \in Pixels :
          LET move == Minus(p, mouse_begin)
          IN  /\ Moves(p)
              /\ \E dx \in Along(move.x), dy \in Along(move.y) :
                    cursor' = Bounded(Plus(cursor, [x |-> dx, y |-> dy]))
              /\ CanvasBeginsAt(p)
    /\ UNCHANGED <<trans, zoom>>

InBounds(p) == p.x \in -MaxPan .. MaxPan /\ p.y \in -MaxPan .. MaxPan

BeginsAtRow(p) == [mouse_begin EXCEPT !.y = p.y]
BeginsAtPixel(p) == p

MotionPan ==
    /\ state = "none"
    /\ mouse_state = "move"
    /\ \E p \in Pixels :
          /\ Moves(p)
          /\ trans' = Plus(trans, Minus(p, mouse_begin))
          /\ InBounds(trans')
          /\ mouse_begin' = BeginsAtPixel(p)
    /\ UNCHANGED <<cursor, zoom>>

\* Up magnifies; only the height of the pointer is remembered.
ZoomStep(p) == IF p.y < mouse_begin.y THEN 1 ELSE IF p.y > mouse_begin.y THEN -1 ELSE 0

MotionZoom ==
    /\ state = "none"
    /\ mouse_state = "zoom"
    /\ \E p \in Pixels :
          /\ Moves(p)
          /\ zoom' = zoom + ZoomStep(p)
          /\ zoom' \in -MaxZoom .. MaxZoom
          /\ mouse_begin' = [mouse_begin EXCEPT !.y = p.y]
    /\ UNCHANGED <<cursor, trans>>

\* A button is held that drags nothing.
MotionIdle ==
    /\ state = "none"
    /\ mouse_state = "none"
    /\ \E p \in Pixels : Moves(p)
    /\ UNCHANGED <<cursor, trans, zoom, mouse_begin>>

----------------------------------------------------------------------------
\* matrix_canvas::special_key: to the neighbouring entry.
Steps == {[x |-> 0, y |-> -1], [x |-> 0, y |-> 1], [x |-> -1, y |-> 0], [x |-> 1, y |-> 0]}

\* set_position takes whole entries.
SetPosition(e) == Bounded([x |-> 2 * e.x, y |-> 2 * e.y])

SpecialKey ==
    /\ \E s \in Steps : cursor' = SetPosition(Plus(Entry(cursor), s))
    /\ UNCHANGED <<mouse_state, state, mouse_begin, trans, zoom, pressed, pointer, grip>>

MouseNext ==
    \/ PressCursor \/ PressCanvas \/ Release
    \/ MotionCursor \/ MotionPan \/ MotionZoom \/ MotionIdle
    \/ SpecialKey

MouseSpec == MouseInit /\ [][MouseNext]_mousevars

----------------------------------------------------------------------------
\* Properties.

MouseTypeOK ==
    /\ mouse_state \in {"none", "move", "zoom"}
    /\ state \in {"none", "moving"}
    /\ cursor \in [x : Nat, y : Nat] /\ mouse_begin \in Point
    /\ trans \in [x : -MaxPan .. MaxPan, y : -MaxPan .. MaxPan]
    /\ zoom \in -MaxZoom .. MaxZoom
    /\ pressed \subseteq Buttons
    /\ pointer \in Pixels
    /\ grip \in Point

\* The cursor is at an entry of the matrix whatever placed it: the panel looks
\* up its row and column, and the permutations are indexed with them.
CursorInMatrix ==
    /\ Entry(cursor).x \in 0 .. (NCols - 1)
    /\ Entry(cursor).y \in 0 .. (NRows - 1)

\* No drag outlives the buttons: with two buttons down either may end both
\* drags, but none is left when the hand is off the mouse.
DragNeedsButton == (state = "moving" \/ mouse_state # "none") => pressed # {}

\* While something is dragged mouse_begin is the pointer's last position, in
\* the coordinates the drag looks at, so that no move is counted twice or lost
\* when one drag takes over from the other.
DragFromPointer ==
    /\ (state = "moving" \/ mouse_state = "move") => mouse_begin = pointer
    /\ mouse_state = "zoom" => mouse_begin.y = pointer.y

\* A panned matrix sticks to the pointer: the point that was under it when the
\* last button went down is under it as long as the drag goes on.
GripKept == (mouse_state = "move" /\ state = "none") => Minus(trans, pointer) = grip

=============================================================================
