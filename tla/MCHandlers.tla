------------------------------ MODULE MCHandlers ------------------------------
(***************************************************************************)
(* The handlers of the main window's events: PanelLayout's for its size    *)
(* and the menus that change it, Interaction's for mouse and arrow keys.   *)
(* GLUT calls one at a time, and they share no state: a user who keeps to  *)
(* the one kind or to the other meets all that either module can do.       *)
(***************************************************************************)
EXTENDS MCPanelLayout, MCInteraction

VARIABLE user    \* what the user does; no step changes it

handlervars == <<vars, mousevars, user>>

HandlersInit == Init /\ MouseInit /\ user \in {"resizes", "points"}

\* The steps of the call that is going on.
CallGoesOn ==
    /\ ReshapeHides \/ ReshapePlaces \/ Fit
    /\ UNCHANGED <<mousevars, user>>

Resizes == user = "resizes" /\ Handler /\ UNCHANGED <<mousevars, user>>
Points == user = "points" /\ pc = "idle" /\ MouseNext /\ UNCHANGED <<vars, user>>

HandlersNext == CallGoesOn \/ Resizes \/ Points

HandlersSpec ==
    HandlersInit /\ [][HandlersNext]_handlervars /\ WF_handlervars(CallGoesOn)
===============================================================================
