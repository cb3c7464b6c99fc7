------------------------------- MODULE MCWindows -------------------------------
(***************************************************************************)
(* Windows with two widths of the main window, the first of which is not   *)
(* what main gives glui_reshape_func, and both kinds of GLUT.              *)
(***************************************************************************)
EXTENDS Windows

MCWidths == {1, 2}
MCAnnouncing == {"always", "changed"}
===============================================================================
