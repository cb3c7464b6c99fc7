---------------------------- MODULE CanvasDisplay ----------------------------
(***************************************************************************)
(* The display loop of the matrix window: glut_2d_canvas::display and      *)
(* matrix_canvas::draw, and every handler that can run between two calls   *)
(* of it.  A large matrix seen from far away is painted in stripes of      *)
(* Chunk rows, one stripe per call of display(); `display_finished' and    *)
(* `frame' carry the sweep from one call to the next, and a handler that   *)
(* wants the sweep to start over has to set display_finished back to true. *)
(* Some handlers do and some do not: that difference is the subject here.  *)
(*                                                                         *)
(* A buffer is the set of <<row, view, look>> the OpenGL commands have     *)
(* left in it since it was last cleared: which display row was painted,    *)
(* through which projection, and with which colours.  Columns are part of  *)
(* the view.  The size of the matrix and of a stripe are parameters.       *)
(***************************************************************************)
EXTENDS Integers

CONSTANTS
    Sessions,  \* what one run of the program is given, see SessionsAssumption
    Chunk,     \* the 16384 of draw(): rows per stripe, extent of a near view
    Looks      \* colours, permutation, normalisation, alpha, cursor cross

ASSUME ChunkAssumption == Chunk \in Nat \ {0}

\* A session of the program: the matrix it shows, the views handlers can make
\* visible, and what the platform's glutSwapBuffers does to the back buffer.
\* A view is what world_extents returns, floored, for the rows: r1 is the row
\* at the upper edge, r2 at the lower edge, and far says that the larger of
\* the two extents is at least Chunk.  A view that is not far spans at most
\* Chunk rows.  GLUT_DOUBLE leaves in the back buffer either a copy of what
\* was shown or the previous front buffer.
ASSUME SessionsAssumption ==
    \A s \in Sessions :
        /\ s.nrows \in Nat \ {0}
        /\ s.views \subseteq [r1 : Int, r2 : Int, far : BOOLEAN]
        /\ \A w \in s.views : w.r1 <= w.r2 /\ (~w.far => w.r2 - w.r1 <= Chunk)
        /\ s.swap \in {"copy", "exchange"}

VARIABLES
    session,           \* fixed when the program starts
    display_finished,  \* glut_2d_canvas::display_finished
    frame,             \* glut_2d_canvas::frame
    redisplay,         \* GLUT has a display() of this window to call
    view,              \* zoom, trans, aspect and window size together
    look,              \* the settings draw() reads that are not the view
    front,             \* what the window shows
    back,              \* the buffer draw() paints into
    mixed              \* history: settings changed inside the present sweep

vars == <<session, display_finished, frame, redisplay, view, look, front, back, mixed>>

NRows == session.nrows   \* _m.nrows
Views == session.views
SwapKind == session.swap

----------------------------------------------------------------------------
\* What one call of draw() paints.

Larger(a, b) == IF a >= b THEN a ELSE b
Smaller(a, b) == IF a <= b THEN a ELSE b

\* The loop of draw_matrix<>: display rows pi with max(0,a) <= pi < min(b,nrows).
DrawnRows(a, b) == Larger(0, a) .. (Smaller(b, NRows) - 1)

\* The third branch of draw(): too far for a partial, too tall for a full draw.
IsStriped(w) == w.far /\ NRows >= 2 * Chunk

\* The variants named next to a definition are slips it must not contain; the
\* runs check that each of them breaks the property it is listed under.
StripeStartWithGap(w, f) == Larger(w.r1, 0) + (Chunk + 1) * f
StripeStart(w, f) == Larger(w.r1, 0) + Chunk * f
SweepEnd(w) == Smaller(w.r2, NRows)
StripeEnd(w, f) == Smaller(StripeStart(w, f) + Chunk, SweepEnd(w))

\* Rows painted by draw() in the call numbered f of a sweep of view w.
PaintedBy(w, f) ==
    IF ~w.far THEN DrawnRows(w.r1, w.r2)
    ELSE IF ~IsStriped(w) THEN DrawnRows(0, NRows)
    ELSE DrawnRows(StripeStart(w, f), StripeEnd(w, f))

\* draw() sets display_finished to false: the sweep has a stripe left.
StripesLeftBelowView(w, f) == IsStriped(w) /\ StripeEnd(w, f) # w.r2
StripesLeft(w, f) == IsStriped(w) /\ StripeEnd(w, f) # SweepEnd(w)

Ink(rows, w, k) == {<<i, w, k>> : i \in rows}

\* Everything a finished drawing of view w in look k consists of.
Picture(w, k) ==
    Ink(IF IsStriped(w) THEN DrawnRows(Larger(w.r1, 0), SweepEnd(w))
                        ELSE PaintedBy(w, 0), w, k)

\* The back buffer after glutSwapBuffers showed ink.
BackAfterSwap(ink) == IF SwapKind = "copy" THEN ink ELSE front

----------------------------------------------------------------------------
Init ==
    /\ session \in Sessions
    /\ display_finished = TRUE
    /\ frame = 0
    /\ redisplay = TRUE
    /\ view \in Views
    /\ look \in Looks
    /\ front = {}
    /\ back = {}
    /\ mixed = FALSE

\* Lines of display() before draw(): a finished sweep starts at frame 0 on a
\* cleared buffer, an unfinished one goes on in the buffer as it is.
NextFrame == IF display_finished THEN 0 ELSE frame + 1

CanvasToDrawOn == IF display_finished THEN {} ELSE back

\* Lines of display() after draw(): one more display() while stripes are left.
NeverPosted(w, f) == FALSE
AlwaysPosted(w, f) == TRUE
Reposted(w, f) == StripesLeft(w, f)

\* glut_2d_canvas::display with matrix_canvas::draw inside it.
Display ==
    LET ink == CanvasToDrawOn \cup Ink(PaintedBy(view, NextFrame), view, look)
    IN  /\ redisplay
        /\ frame' = NextFrame
        /\ display_finished' = ~StripesLeft(view, NextFrame)
        /\ redisplay' = Reposted(view, NextFrame)
        /\ front' = ink
        /\ back' = BackAfterSwap(ink)
        /\ mixed' = (~display_finished /\ mixed)
        /\ UNCHANGED <<session, view, look>>

----------------------------------------------------------------------------
\* Handlers that start the sweep over: they set display_finished to true and
\* post a redisplay.

ForgetsToStartOver(newview, newlook) ==
    /\ redisplay' = TRUE
    /\ view' = newview
    /\ look' = newlook
    /\ UNCHANGED <<session, display_finished, frame, front, back, mixed>>
StartsOver(newview, newlook) ==
    /\ display_finished' = TRUE
    /\ redisplay' = TRUE
    /\ view' = newview
    /\ look' = newlook
    /\ UNCHANGED <<session, frame, front, back, mixed>>

\* matrix_canvas::motion, the drag pans or zooms (or, with no drag in
\* progress, changes nothing and still posts).
MotionView == \E w \in Views : StartsOver(w, look)

\* matrix_canvas::motion, the drag moves the data cursor.
MotionCursor == \E k \in Looks : StartsOver(view, k)

\* matrix_canvas::menu: aspect ratio, and the cursor toggle, which resizes
\* the drawing area through show_data_panel and hide_data_panel.
MenuLayout == \E w \in Views, k \in Looks : StartsOver(w, k)

\* matrix_canvas::menu: invert the colormap, background colours.
MenuColors == \E k \in Looks : StartsOver(view, k)

----------------------------------------------------------------------------
\* Handlers that post a redisplay and leave display_finished alone.

CarriesOn(newview, newlook) ==
    /\ redisplay' = TRUE
    /\ view' = newview
    /\ look' = newlook
    /\ mixed' = (mixed \/ (~display_finished /\ <<newview, newlook>> # <<view, look>>))
    /\ UNCHANGED <<session, display_finished, frame, front, back>>

\* matrix_canvas::menu, a colormap: set_colormap posts, update_screen stays false.
MenuColormap == \E k \in Looks : CarriesOn(view, k)

\* matrix_canvas::special_key: an arrow moves the cursor cross.
SpecialKey == \E k \in Looks : CarriesOn(view, k)

\* matrix_canvas::mouse_click: a button may place the cursor cross.
MouseClick == \E k \in Looks : CarriesOn(view, k)

\* glui_callback: alpha posts itself; for the check boxes the toolkit posts.
GluiCallback == \E k \in Looks : CarriesOn(view, k)

\* matrix_canvas::reshape, called by GLUT when the window size changes; GLUT
\* then calls display().
Reshape == \E w \in Views : CarriesOn(w, look)

\* GLUT asks for a display() because the window was uncovered.
Expose == CarriesOn(view, look)

Handler ==
    \/ MotionView \/ MotionCursor \/ MenuLayout \/ MenuColors
    \/ MenuColormap \/ SpecialKey \/ MouseClick \/ GluiCallback
    \/ Reshape \/ Expose

Next == Display \/ Handler

Spec == Init /\ [][Next]_vars

\* glutMainLoop calls display() whenever a redisplay is pending; nothing makes
\* the user act.
FairSpec == Spec /\ WF_vars(Display)

----------------------------------------------------------------------------
\* Properties.

TypeOK ==
    /\ session \in Sessions
    /\ display_finished \in BOOLEAN
    /\ frame \in Nat
    /\ redisplay \in BOOLEAN
    /\ view \in Views
    /\ look \in Looks
    /\ front \subseteq Int \X Views \X Looks
    /\ back \subseteq Int \X Views \X Looks
    /\ mixed \in BOOLEAN

\* Nothing is left to draw and nothing was asked for.
Settled == display_finished /\ ~redisplay

\* An unfinished sweep always has its next call of display() posted, whatever
\* handler ran in between: display() posts one when draw() reported stripes
\* left, and no handler withdraws it.
SweepScheduled == ~display_finished => redisplay

\* The stripe number cannot run away, even when handlers swap the view under
\* a running sweep: a sweep that goes on still has rows of the matrix below
\* the stripe it painted last (the guard r2 != r2end of draw()).
FrameInMatrix == ~display_finished => Chunk * (frame + 1) < NRows

\* A sweep no handler interfered with has painted the rows from the top of
\* the view down to the last stripe, all of them, and nothing of an earlier
\* view or look is shown.  Needs a back buffer that keeps what was shown.
SweepIsPrefix ==
    (SwapKind = "copy" /\ ~display_finished /\ ~mixed) =>
        front = Ink(DrawnRows(Larger(view.r1, 0), StripeEnd(view, frame)), view, look)

\* At rest the window shows exactly the picture of the present view and
\* settings, unless a handler of the second group changed one of them inside
\* the sweep that painted it.  Needs such a back buffer, too.
WholePicture ==
    (SwapKind = "copy" /\ Settled /\ ~mixed) => front = Picture(view, look)

\* Whatever the swap does to the back buffer, no stripe of an undisturbed
\* sweep is lost: it is in one of the two buffers.
NoStripeLost == (Settled /\ ~mixed) => Picture(view, look) \subseteq (front \cup back)

\* A picture that took one call of display() is whole whatever the swap does.
OneFrameWhole == (Settled /\ ~mixed /\ frame = 0) => front = Picture(view, look)

\* If the user lets go, drawing comes to rest: the sweep ends and the posted
\* redisplays run out.
ComesToRest == <>[][Display]_vars => <>[]Settled

=============================================================================
