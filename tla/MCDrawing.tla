------------------------------- MODULE MCDrawing -------------------------------
(***************************************************************************)
(* One matrix loaded and drawn: ColorIndex's statistics first, then what   *)
(* MatrixView shows where and ColorIndex in which colour.  One user looks  *)
(* around, at a few matrices; another waits for the first picture and then *)
(* changes the colours, of many more.  What that posts is the redraw of a  *)
(* picture with every entry in its place, which MatrixView's Expose stands *)
(* for and which is left out here.                                         *)
(***************************************************************************)
EXTENDS MCMatrixView, MCColorIndex

MCMatrices == MCViewMatrices \cup MCColorMatrices

VARIABLE user    \* what the user does; no step changes it

shown == <<files, irperm, icperm, cperm, checked, permutation_state, data_panel_visible,
           cursor, text, picture, panel>>
colors == <<stats, norm_boxes, normalization_state, colormap_invert>>
drawingvars == <<matrix, shown, posted, colors, user>>

DrawingInit ==
    /\ Init /\ ColorInit
    /\ \/ user = "looks" /\ matrix \in MCViewMatrices
       \/ user = "recolors" /\ matrix \in MCColorMatrices /\ files = {}

LoadStats == (CountEntry \/ StatsDone) /\ UNCHANGED <<shown, posted, user>>
Draw == stats_ready /\ Display /\ UNCHANGED <<colors, user>>
DrawPanel == stats_ready /\ DisplayPanel /\ UNCHANGED <<colors, user>>

Looks == user = "looks" /\ stats_ready /\ Handler /\ UNCHANGED <<colors, user>>
Recolors ==
    /\ user = "recolors" /\ posted = {}
    /\ NormBox \/ InvertColormap
    /\ UNCHANGED <<shown, posted, user>>

DrawingNext == LoadStats \/ Draw \/ DrawPanel \/ Looks \/ Recolors

DrawingSpec ==
    /\ DrawingInit /\ [][DrawingNext]_drawingvars
    /\ WF_drawingvars(LoadStats) /\ WF_drawingvars(Draw) /\ WF_drawingvars(DrawPanel)
================================================================================
