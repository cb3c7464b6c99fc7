-------------------------------- MODULE Windows --------------------------------
(***************************************************************************)
(* The windows of the program and what is done to whichever of them is     *)
(* current.  GLUT has one current window; glutPostRedisplay, the OpenGL    *)
(* projection and viewport, menus and callbacks all mean that window.      *)
(* GLUT makes a window current before it calls one of its callbacks, and a *)
(* callback may leave another one current.  main builds the canvas, the    *)
(* data panel inside it and GLUI's controls, and then only callbacks run.  *)
(*                                                                         *)
(* What a window shows is abstract: stale holds the windows not drawn      *)
(* since what they show was changed.  Heights are in PanelLayout, where    *)
(* the window too small for the panel is, too; sweeps in CanvasDisplay.    *)
(***************************************************************************)
EXTENDS FiniteSets, Naturals

CONSTANTS
    Widths,        \* of the main window
    FirstWidth,    \* what main gives glui_reshape_func before the loop
    Announcing     \* when GLUT tells a window its size, see Announced

ASSUME WidthsAssumption == FirstWidth \in Widths
ASSUME AnnouncingAssumption == Announcing \subseteq {"always", "changed"}

VARIABLES
    nocontrols, announcing,   \* the option, and what this GLUT does
    pc,             \* how far main has come
    current,        \* glutGetWindow()
    object,         \* gl_util_window_to_data
    through_glui,   \* windows whose callbacks GLUI calls
    menu_window,    \* the window the menu is attached to
    posted,         \* windows with a redisplay posted
    stale,
    resized,        \* windows with a reshape callback to come
    context,        \* whose projection and viewport a window's context has
    width, stored,  \* of the main window, and as reshape has stored it
    panel_width, data_panel_visible,
    active_control  \* a control of GLUI has the keyboard

options == <<nocontrols, announcing>>
setup == <<object, through_glui, menu_window>>
drawing == <<posted, stale>>
layout == <<resized, context, stored, panel_width, data_panel_visible>>
vars == <<options, pc, current, setup, drawing, layout, width, active_control>>

None == "none"
WindowSet == {"canvas", "panel", "controls"}
Controls == IF nocontrols THEN {} ELSE {"controls"}

\* GLUT calls a window's reshape callback after every glutReshapeWindow, or
\* only when the size differs.
Announced(w, differs) == IF announcing = "always" \/ differs THEN {w} ELSE {}

----------------------------------------------------------------------------
\* matrix_canvas::reshape(w, h), called with some window current:
\* glut_2d_canvas::reshape first sets up the context of that window, then the
\* panel is made current and resized if it is to be visible, then the canvas,
\* whose context is set up again.
\* The variants named next to a definition are slips it must not contain; the
\* runs check that each breaks a property.
PanelStaysCurrent == "panel"
CurrentAfterReshape == "canvas"

WhicheverIsCurrent(window) == window
WindowToResize(window) == "panel"

ReshapeAnnounces(window, w, visible) ==
    IF visible THEN Announced(WindowToResize(window), panel_width # w) ELSE {}

Reshape(window, w, visible) ==
    /\ context' = [context EXCEPT ![window] = "canvas", ![CurrentAfterReshape] = "canvas"]
    /\ stored' = w
    /\ panel_width' = IF visible THEN w ELSE panel_width

\* show_data_panel and hide_data_panel make the panel current and call reshape
\* with the stored size, data_panel_visible having been set.
BeforeItIsSet(visible) == data_panel_visible
InReshape(visible) == visible

ShowOrHide(visible) ==
    /\ data_panel_visible' = visible
    /\ Reshape("panel", stored, InReshape(visible))
    /\ resized' = resized \cup ReshapeAnnounces("panel", stored, InReshape(visible))
    /\ current' = CurrentAfterReshape

----------------------------------------------------------------------------
\* main.

Init ==
    /\ nocontrols \in BOOLEAN /\ announcing \in Announcing
    /\ pc = "window" /\ current = None
    /\ object = [w \in WindowSet |-> None] /\ through_glui = {} /\ menu_window = None
    /\ posted = {} /\ stale = {} /\ resized = {}
    /\ context = [w \in WindowSet |-> None]
    /\ width \in Widths /\ stored = width /\ panel_width = width
    /\ data_panel_visible = FALSE /\ active_control = FALSE

\* A new window is current; GLUT will tell it its size and have it drawn.
\* register_with_glut stores the object beside its class's callbacks.
Created(windows) ==
    /\ object' = [w \in WindowSet |-> IF w \in windows THEN w ELSE object[w]]
    /\ posted' = posted \cup windows
    /\ stale' = stale \cup windows
    /\ resized' = resized \cup windows
    /\ UNCHANGED <<options, through_glui, menu_window, context, stored, panel_width,
                   data_panel_visible, width, active_control>>

\* matrix_canvas's constructor: the base class's window, then the panel in it.
CreateCanvas ==
    /\ pc = "window" /\ pc' = "panel"
    /\ current' = "canvas"
    /\ Created({"canvas"})
CreatePanel ==
    /\ pc = "panel" /\ pc' = "load"
    /\ current' = "panel"
    /\ Created({"panel"})

\* init_window makes the canvas current, then posts and sets OpenGL state.
InitWindow == "canvas"

\* load_matrix, load_permutations and load_labels, any of which may end main.
Load ==
    /\ pc = "load"
    /\ \/ pc' = "ended" /\ UNCHANGED <<current, posted>>
       \/ /\ pc' = "post_constructor"
          /\ current' = InitWindow
          /\ posted' = posted \cup {InitWindow}
    /\ UNCHANGED <<options, setup, stale, layout, width, active_control>>

PostConstructor ==
    /\ pc = "post_constructor" /\ pc' = "register_with_glui"
    /\ menu_window' = InitWindow
    /\ ShowOrHide(TRUE)
    /\ posted' = posted \cup {InitWindow, "panel"}
    /\ stale' = stale \cup {"canvas", "panel"}
    /\ UNCHANGED <<options, object, through_glui, width, active_control>>

RegisterWithGlui ==
    /\ pc = "register_with_glui" /\ pc' = "controls"
    /\ object' = [object EXCEPT !["canvas"] = "canvas"]
    /\ current' = "canvas"
    /\ through_glui' = {"canvas"}
    /\ UNCHANGED <<options, menu_window, drawing, layout, width, active_control>>

\* create_glui_subwindow puts back the window that was current.
CreateControls ==
    /\ pc = "controls" /\ pc' = "reshape"
    /\ Created(Controls)
    /\ UNCHANGED current

\* glui_reshape_func passes a window's reshape on to its callback and then to
\* the controls inside it, which resize and post themselves and of which the
\* last stays current.
GluiReshape(window, w, pending) ==
    /\ Reshape(window, w, data_panel_visible)
    /\ UNCHANGED data_panel_visible
    /\ resized' = pending \cup ReshapeAnnounces(window, w, data_panel_visible)
                  \cup UNION {Announced(c, stored # w) : c \in Controls}
    /\ current' = IF nocontrols THEN CurrentAfterReshape ELSE "controls"

\* main calls it for whichever window is current.
FirstReshape ==
    /\ pc = "reshape" /\ pc' = "running"
    /\ IF current \in through_glui
         THEN GluiReshape(current, FirstWidth, resized) /\ posted' = posted \cup Controls
         ELSE UNCHANGED <<layout, current, posted>>
    /\ UNCHANGED <<options, setup, stale, width, active_control>>

Start ==
    \/ CreateCanvas \/ CreatePanel \/ Load \/ PostConstructor \/ RegisterWithGlui
    \/ CreateControls \/ FirstReshape

----------------------------------------------------------------------------
\* glutMainLoop: reshape and display callbacks.

Running == pc = "running"
EventFor(w) == current' = w
Alters(changed) == stale' = stale \cup changed
Posts(windows) == posted' = posted \cup windows

ReshapeCanvas ==
    /\ Running /\ "canvas" \in resized
    /\ GluiReshape("canvas", width, resized \ {"canvas"})
    /\ Posts({"canvas"} \cup Controls) /\ Alters({"canvas"} \cup Controls)
    /\ UNCHANGED <<options, pc, setup, width, active_control>>

\* matrix_data_panel::reshape, and GLUI's for the controls.
ReshapeInside ==
    /\ Running
    /\ \E w \in resized \ {"canvas"} :
          /\ EventFor(w)
          /\ context' = [context EXCEPT ![w] = w]
          /\ resized' = resized \ {w}
          /\ Posts({w}) /\ Alters({w})
    /\ UNCHANGED <<options, pc, setup, stored, panel_width, data_panel_visible, width,
                   active_control>>

\* draw() gives a visible panel its text and posts it.
Display ==
    /\ Running /\ "canvas" \in posted \ resized
    /\ EventFor("canvas")
    /\ LET told == IF data_panel_visible THEN {"panel"} ELSE {}
       IN  /\ posted' = (posted \ {"canvas"}) \cup told
           /\ stale' = (stale \ {"canvas"}) \cup told
    /\ UNCHANGED <<options, pc, setup, layout, width, active_control>>

DisplayInside ==
    /\ Running
    /\ \E w \in (posted \ resized) \ {"canvas"} :
          /\ w = "panel" => data_panel_visible
          /\ EventFor(w)
          /\ posted' = posted \ {w}
          /\ stale' = stale \ {w}
    /\ UNCHANGED <<options, pc, setup, layout, width, active_control>>

----------------------------------------------------------------------------
\* The user.

UserResizes ==
    /\ Running
    /\ \E w \in Widths \ {width} : width' = w
    /\ resized' = resized \cup {"canvas"}
    /\ UNCHANGED <<options, pc, current, setup, drawing, context, stored, panel_width,
                   data_panel_visible, active_control>>

\* A button or a drag over the canvas: a click takes the keyboard back from
\* the controls.
Click ==
    /\ Running /\ EventFor("canvas")
    /\ active_control' = FALSE
    /\ LET released == IF active_control THEN {"controls"} ELSE {}
       IN  Posts({"canvas"} \cup released) /\ Alters({"canvas"} \cup released)
    /\ UNCHANGED <<options, pc, setup, layout, width>>

Drag ==
    /\ Running /\ EventFor("canvas")
    /\ Posts({"canvas"}) /\ Alters({"canvas"})
    /\ UNCHANGED <<options, pc, setup, layout, width, active_control>>

\* An arrow key over the canvas moves the cursor, unless a control takes it.
SpecialKey ==
    /\ Running /\ EventFor("canvas")
    /\ IF active_control THEN Posts({"controls"}) /\ Alters({"controls"})
       ELSE Posts({"canvas"}) /\ Alters({"canvas"})
    /\ UNCHANGED <<options, pc, setup, layout, width, active_control>>

\* The panel's callbacks for keys and buttons are glut_window's empty ones.
PanelInput ==
    /\ Running /\ data_panel_visible /\ EventFor("panel")
    /\ UNCHANGED <<options, pc, setup, drawing, layout, width, active_control>>

\* A check box or the spinner: GLUI has the canvas redrawn for a live variable
\* and glui_callback for the spinner; execute_callback puts the window back.
OnlyControls == {"controls"}
PostedByControl == {"canvas", "controls"}

UseControl ==
    /\ Running /\ ~nocontrols /\ EventFor("controls")
    /\ active_control' = TRUE
    /\ Posts(PostedByControl) /\ Alters({"canvas", "controls"})
    /\ UNCHANGED <<options, pc, setup, layout, width>>

\* matrix_canvas::menu.
MenuToggle ==
    /\ Running
    /\ ShowOrHide(~data_panel_visible)
    /\ Posts({CurrentAfterReshape} \cup (IF data_panel_visible THEN {} ELSE {"panel"}))
    /\ Alters({"canvas"} \cup (IF data_panel_visible THEN {} ELSE {"panel"}))
    /\ UNCHANGED <<options, pc, setup, width, active_control>>

MenuAspect ==
    /\ Running
    /\ Reshape(menu_window, stored, data_panel_visible)
    /\ UNCHANGED data_panel_visible
    /\ resized' = resized \cup ReshapeAnnounces(menu_window, stored, data_panel_visible)
    /\ current' = CurrentAfterReshape
    /\ Posts({CurrentAfterReshape}) /\ Alters({"canvas"})
    /\ UNCHANGED <<options, pc, setup, width, active_control>>

\* The colours of the background are the panel's, too.
MenuColors ==
    /\ Running /\ EventFor(menu_window)
    /\ Posts({menu_window})
    /\ \/ Alters({"canvas"})
       \/ Alters({"canvas", "panel"})
    /\ UNCHANGED <<options, pc, setup, layout, width, active_control>>

MenuExit ==
    /\ Running
    /\ pc' = "ended"
    /\ UNCHANGED <<options, current, setup, drawing, layout, width, active_control>>

User ==
    \/ UserResizes \/ Click \/ Drag \/ SpecialKey \/ PanelInput \/ UseControl
    \/ MenuToggle \/ MenuAspect \/ MenuColors \/ MenuExit

Loop == ReshapeCanvas \/ ReshapeInside \/ Display \/ DisplayInside

Next == Start \/ Loop \/ User

Spec == Init /\ [][Next]_vars

\* main and GLUT's loop go on by themselves; nothing makes the user act.
FairSpec == Spec /\ WF_vars(Start) /\ WF_vars(Loop)

----------------------------------------------------------------------------
\* Properties.

TypeOK ==
    /\ nocontrols \in BOOLEAN /\ announcing \in Announcing
    /\ pc \in {"window", "panel", "load", "post_constructor", "register_with_glui", "controls",
               "reshape", "running", "ended"}
    /\ current \in WindowSet \cup {None}
    /\ object \in [WindowSet -> WindowSet \cup {None}]
    /\ through_glui \subseteq WindowSet
    /\ menu_window \in WindowSet \cup {None}
    /\ posted \subseteq WindowSet /\ stale \subseteq WindowSet /\ resized \subseteq WindowSet
    /\ context \in [WindowSet -> WindowSet \cup {None}]
    /\ {width, stored, panel_width} \subseteq Widths
    /\ data_panel_visible \in BOOLEAN /\ active_control \in BOOLEAN
    /\ "controls" \in posted \cup stale \cup resized => ~nocontrols

\* Once the loop runs every window's callbacks find the object of its own
\* class, and the menu pops up over the canvas.
StartedRight ==
    Running =>
        /\ menu_window = "canvas"
        /\ \A w \in {"canvas", "panel"} \cup Controls : object[w] = w
        /\ context["canvas"] = "canvas"

\* Whatever changes what a window shows has it drawn again: it is posted, or,
\* for the panel, hidden until it is, or posted by the canvas that is.  Most
\* handlers post whatever window they find or have left current.
NothingStale ==
    Running => \A w \in stale :
        w \in posted \/ (w = "panel" /\ (~data_panel_visible \/ "canvas" \in posted))

AtRest ==
    Running => resized = {} /\ (posted \subseteq {"panel"}) /\ (data_panel_visible => posted = {})

\* Showing and hiding the panel set up the panel's context as if it were the
\* canvas's.  A GLUT that announces every size has the panel set it up again
\* before it is drawn.  One that announces changes only does not, and the panel
\* that was hidden and comes back is drawn in the canvas's projection until the
\* main window changes its width.
PanelHasItsContext ==
    Running /\ AtRest /\ data_panel_visible /\ announcing = "always" => context["panel"] = "panel"

\* The windows do not resize and redraw each other for ever.
WindowsSettle == <>[][~User]_vars => <>[]AtRest

===============================================================================
