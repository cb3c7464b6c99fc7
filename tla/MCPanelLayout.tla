---------------------------- MODULE MCPanelLayout ----------------------------
(***************************************************************************)
(* PanelLayout with the margin and the panel height of matrix_canvas.hpp,  *)
(* on windows around each of the limits.                                   *)
(***************************************************************************)
EXTENDS PanelLayout

MCOffset == 5
MCPanelHeight == 50
MCControls == 40

\* Below and above 4 * Offset.
MCWidths == {19, 20, 300}

\* Around 4 * Offset, and less than the controls; below, at and above the height
\* at which 4 * Offset are left beside controls and panel; enough for all.
MCHeights == {19, 20, 30, 109, 110, 111, 200}

MCFirstWindow == [w |-> 300, h |-> 200]
=============================================================================
