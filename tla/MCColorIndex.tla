---------------------------- MODULE MCColorIndex ----------------------------
(***************************************************************************)
(* ColorIndex on all matrices with entries in two rows and two columns,    *)
(* values around zero and one that is far from the others, and the size    *)
(* the colormaps of the program have.                                      *)
(***************************************************************************)
EXTENDS ColorIndex

\* Three as the square of one norm over another is no whole number; and 49.0
\* times the double next to 1/49 is less than 1.
MCValues == {-2, -1, 0, 1, 3, 49}
MCColorMatrices == UNION {[S -> MCValues] : S \in SUBSET (Rows \X {0, 1})}

\* All the scalings of these matrices, with 64 colours, that IEEE doubles round
\* below their whole number: 49 over a range of 49 (the greatest of the values,
\* the least being 0), and 49 over its own norm, alone in its row or column.
MCFallsShort ==
    { [value |-> 49, range |-> 49, rows |-> 1, columns |-> 1],
      [value |-> 49, range |-> 1, rows |-> 49 * 49, columns |-> 1],
      [value |-> 49, range |-> 1, rows |-> 1, columns |-> 49 * 49] }
=============================================================================
