---------------------------- MODULE MCInteraction ----------------------------
(***************************************************************************)
(* Interaction on a matrix of two rows and two columns, four pixels, and   *)
(* clicks inside the matrix and beyond each of its borders.                *)
(***************************************************************************)
EXTENDS Interaction

At(a, b) == [x |-> a, y |-> b]

MCPixels == {At(0, 0), At(1, 0), At(0, 1), At(1, 1)}

\* In half entries: before the first, the first, after the last.
MCWorld == {At(-3, 0), At(0, 0), At(5, 4)}
=============================================================================
