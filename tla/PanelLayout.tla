----------------------------- MODULE PanelLayout -----------------------------
(***************************************************************************)
(* How the window is divided between the drawing area, the toolkit's       *)
(* controls at its bottom and the data panel, a subwindow: matrix_canvas's *)
(* reshape, show_data_panel and hide_data_panel, which call each other.    *)
(* reshape hides the panel when there is too little room, hiding the panel *)
(* reshapes, and the call that hid it goes on after that one returns.      *)
(*                                                                         *)
(* One step per call and per return.  Every frame on the stack is a        *)
(* reshape waiting for hide_data_panel to return, with the same rest to    *)
(* do, so the stack is its depth.                                          *)
(***************************************************************************)
EXTENDS Integers

CONSTANTS
    Widths, Heights,  \* sizes the user can give the window
    FirstWindow,      \* the size it opens with
    Controls,         \* height of the toolkit's subwindow, 0 with --nocontrols
    Offset,           \* p_offset, the margin around the panel
    PanelHeight,      \* p_height
    MaxDepth          \* calls that fit on the program's stack

ASSUME SizesAssumption ==
    /\ Widths \subseteq Nat \ {0} /\ Heights \subseteq Nat \ {0}
    /\ FirstWindow \in [w : Widths, h : Heights]
    /\ Controls \in Nat /\ Offset \in Nat \ {0} /\ PanelHeight \in Nat \ {0}
    /\ MaxDepth \in Nat \ {0}

VARIABLES
    window,              \* the size GLUT reports for the window
    width, height,       \* glut_2d_canvas::width and height
    data_panel_visible,
    panel_shown,         \* the subwindow is mapped
    panel,               \* size of the subwindow
    viewport,            \* size of the drawing area, from the last line of reshape
    pc,                  \* where the innermost call is
    w, h,                \* arguments of the innermost reshape
    depth                \* frames on the stack

vars == <<window, width, height, data_panel_visible, panel_shown, panel,
          viewport, pc, w, h, depth>>

----------------------------------------------------------------------------
Smaller(a, b) == IF a <= b THEN a ELSE b
AtLeastZero(n) == IF n >= 0 THEN n ELSE 0

\* GLUI_Master.get_viewport_area: the window less the controls.
ViewportWidth == window.w
ViewportHeight == AtLeastZero(window.h - Controls)

\* The test at the head of reshape: && binds tighter than ||.
\* The variants named next to a definition are slips it must not contain; the
\* runs check that each breaks a property.
TooSmallEitherWay == w < 4 * Offset \/ h < 4 * Offset
TooSmall == (data_panel_visible /\ w < 4 * Offset) \/ h < 4 * Offset

\* What reshape leaves for drawing.
DrawingHeight == ViewportHeight - (IF data_panel_visible THEN PanelHeight ELSE 0)

\* GLUT's first call of reshape, with the size of the window.  Before it
\* post_constructor has shown the panel and reshaped, when there were no
\* controls yet; main has called the reshape handler by hand, which this call
\* supersedes.
Init ==
    /\ window = FirstWindow
    /\ width = window.w
    /\ height = window.h - PanelHeight
    /\ data_panel_visible = TRUE
    /\ panel_shown = TRUE
    /\ panel = [w |-> window.w - 2 * Offset, h |-> Smaller(window.h \div 2, PanelHeight)]
    /\ viewport = [w |-> width, h |-> height]
    /\ pc = "reshape" /\ w = window.w /\ h = window.h /\ depth = 0

Call(neww, newh) ==
    /\ pc' = "reshape"
    /\ w' = neww
    /\ h' = newh

\* The user resizes the window and GLUT calls reshape with its size.
Resize ==
    /\ pc = "idle"
    /\ \E nw \in Widths, nh \in Heights :
          window' = [w |-> nw, h |-> nh] /\ Call(nw, nh)
    /\ UNCHANGED <<width, height, data_panel_visible, panel_shown, panel, viewport, depth>>

\* matrix_canvas::menu, an aspect ratio: reshape(width, height).
MenuAspect ==
    /\ pc = "idle"
    /\ Call(width, height)
    /\ UNCHANGED <<window, width, height, data_panel_visible, panel_shown, panel,
                   viewport, depth>>

\* matrix_canvas::menu, toggle cursor: show_data_panel or hide_data_panel.
ShowPanel ==
    /\ pc = "idle"
    /\ ~data_panel_visible
    /\ panel_shown' = TRUE
    /\ data_panel_visible' = TRUE
    /\ Call(width, height)
    /\ UNCHANGED <<window, width, height, panel, viewport, depth>>

\* hide_data_panel up to its call of reshape.
HideAndCall(neww, newh) ==
    /\ panel_shown' = FALSE
    /\ data_panel_visible' = FALSE
    /\ Call(neww, newh)

HidePanel ==
    /\ pc = "idle"
    /\ data_panel_visible
    /\ HideAndCall(width, height)
    /\ UNCHANGED <<window, width, height, panel, viewport, depth>>

\* reshape with too little room: glut_2d_canvas::reshape, which stores the
\* size, then hide_data_panel, which calls reshape with the size stored.
ReshapeHides ==
    /\ pc = "reshape"
    /\ TooSmall
    /\ width' = w /\ height' = h
    /\ IF depth = MaxDepth
         THEN pc' = "overflow" /\ UNCHANGED <<data_panel_visible, panel_shown, w, h, depth>>
         ELSE HideAndCall(w, h) /\ depth' = depth + 1
    /\ UNCHANGED <<window, panel, viewport>>

\* reshape with room for the panel, or without a panel.
ReshapePlaces ==
    /\ pc = "reshape"
    /\ ~TooSmall
    /\ width' = w /\ height' = h
    /\ panel' = IF data_panel_visible
                  THEN [w |-> w - 2 * Offset, h |-> Smaller(h \div 2, PanelHeight)]
                  ELSE panel
    /\ pc' = "fit"
    /\ UNCHANGED <<window, data_panel_visible, panel_shown, viewport, w, h, depth>>

\* The rest of reshape: the drawing area is what window, controls and panel
\* leave, whatever the arguments were.  Then it returns.
StoresTotal == ViewportHeight
StoresRest == DrawingHeight

Fit ==
    /\ pc = "fit"
    /\ width' = ViewportWidth
    /\ height' = StoresRest
    /\ viewport' = [w |-> ViewportWidth, h |-> DrawingHeight]
    /\ IF depth = 0 THEN pc' = "idle" /\ UNCHANGED depth
                    ELSE pc' = "fit" /\ depth' = depth - 1
    /\ UNCHANGED <<window, data_panel_visible, panel_shown, panel, w, h>>

Handler == Resize \/ MenuAspect \/ ShowPanel \/ HidePanel
Next == Handler \/ ReshapeHides \/ ReshapePlaces \/ Fit

Spec == Init /\ [][Next]_vars

\* A call goes on until it returns; the user need not do anything.
FairSpec == Spec /\ WF_vars(ReshapeHides \/ ReshapePlaces \/ Fit)

----------------------------------------------------------------------------
\* Properties.

TypeOK ==
    /\ window \in [w : Widths, h : Heights]
    /\ width \in Nat /\ height \in Int /\ height >= -PanelHeight
    /\ data_panel_visible \in BOOLEAN /\ panel_shown \in BOOLEAN
    /\ panel.w \in Int /\ panel.h \in Int
    /\ viewport.w \in Nat /\ viewport.h \in Int
    /\ pc \in {"idle", "reshape", "fit", "overflow"}
    /\ w \in Nat /\ h \in Int
    /\ depth \in 0 .. MaxDepth

\* Between two events the drawing area is what the window leaves beside the
\* controls and the panel, and the size the canvas has stored is that of the
\* area: menus that reshape with the stored size do not let it shrink from one
\* use to the next, however often the panel was toggled or hidden for lack of
\* room in between.
AreaFitsWindow ==
    pc = "idle" =>
        /\ width = ViewportWidth /\ height = DrawingHeight
        /\ viewport = [w |-> width, h |-> height]

\* Between two events a visible panel is mapped, and fits between the margins.
PanelFits ==
    pc = "idle" =>
        /\ panel_shown <=> data_panel_visible
        /\ data_panel_visible => panel.w = window.w - 2 * Offset /\ panel.w >= 2 * Offset

\* The height that leaves 4 * Offset beside the controls and the panel.
RoomyWindow == window.h >= Controls + PanelHeight + 4 * Offset

\* The call at work has room, told by the window alone: GLUT's call with the
\* size of a window of at least 4 * Offset, or any event in a roomy window.
RoomForEvent == (h = window.h /\ window.h >= 4 * Offset) \/ RoomyWindow

\* A call that has room takes at most one reshape inside another and never the
\* whole stack, at whatever width, and however the stored height came about
\* that a menu calls reshape with.
OneNestedCall == RoomForEvent => depth <= 1 /\ pc # "overflow"

\* Every event that has room is handled to the end: every resize of the window
\* to at least 4 * Offset, every menu's reshape in a roomy window.  What the
\* other windows do is said by the property that follows.
EventsEnd == (pc # "idle" /\ RoomForEvent) ~> pc = "idle"

\* reshape's comment: "if the window is too small, then hide it!"  A window of
\* any size leaves the program with a hidden panel, not without a stack.  The
\* code contradicts it: for windows below 4 * Offset, and for the menus in every
\* window that is not roomy, which reshape with the height that controls and
\* panel have left of it.
SmallWindowHidesPanel == pc # "overflow"

=============================================================================
