----------------------------- MODULE MCMatrixView -----------------------------
(***************************************************************************)
(* MatrixView on matrices of two rows and three columns, so that a column  *)
(* permutation may differ from its inverse.  Every value is different.     *)
(***************************************************************************)
EXTENDS MatrixView

Value(e) == 1 + 3 * e[1] + e[2]
Filled(S) == [e \in S |-> Value(e)]

\* A sparse matrix, one with an empty row and column, a full one.
MCViewMatrices ==
    {Filled({<<0, 0>>, <<0, 2>>, <<1, 1>>}), Filled({<<1, 0>>, <<1, 2>>}),
     Filled(Rows \X Columns)}

ListRow(a, b) == [r \in Rows |-> IF r = 0 THEN a ELSE b]
ListColumn(a, b, c) == [j \in Columns |-> IF j = 0 THEN a ELSE IF j = 1 THEN b ELSE c]

\* A permutation, and a file that names a row twice.
MCRowFiles == {ListRow(1, 0), ListRow(1, 1)}

\* A cycle, which is not its own inverse, and a file that names a column twice.
MCColumnFiles == {ListColumn(1, 2, 0), ListColumn(2, 0, 0)}

MCLeftover == {[row |-> -1, col |-> 7, val |-> 9]}
===============================================================================
