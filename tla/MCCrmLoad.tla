------------------------------ MODULE MCCrmLoad ------------------------------
(***************************************************************************)
(* CrmLoad on files of up to two rows, two columns and three entries, with *)
(* entries one row and one column outside and with headers that announce   *)
(* too few or too many.  The value of an entry is its position in the      *)
(* file, so that no two entries are alike.                                 *)
(***************************************************************************)
EXTENDS LoadRefinement

MCTextAsInt == 99

\* Where an entry may be: two columns of row 0, one of row 1, a column outside
\* and a row outside.
Places == {<<0, 0>>, <<0, 1>>, <<1, 0>>, <<1, 2>>, <<2, 0>>}
Shapes(n) == [1 .. n -> Places]
EntriesOf(shape) ==
    [k \in DOMAIN shape |-> [row |-> shape[k][1], col |-> shape[k][2], val |-> k]]
File(nr, nc, nnz, shape, degs) ==
    [nr |-> nr, nc |-> nc, nnz |-> nnz, entries |-> EntriesOf(shape), degs |-> degs]

\* Every header against every list of entries, without degree file.
MCPlainInputs ==
    {File(nr, nc, nnz, shape, NoDegrees) :
        nr \in 0 .. 2, nc \in {2}, nnz \in 0 .. 3,
        shape \in UNION {Shapes(n) : n \in 0 .. 3}}

\* Up to two entries in a matrix of at most two rows, with every degree file of
\* at most three numbers, sizes below, at and above 4 * nr.
Degs(form, bytes, counts) == [form |-> form, bytes |-> bytes, counts |-> counts]
CountLists == UNION {[1 .. n -> 0 .. 2] : n \in 1 .. 3}
DegreeFiles ==
    {Degs("binary", 4 * Len(c), c) : c \in CountLists} \cup
    {Degs("text", b, c) : b \in {3, 4, 7, 8, 11}, c \in CountLists}

MCDegreeInputs ==
    {File(nr, 2, 2, shape, d) :
        nr \in 1 .. 2, shape \in [1 .. 2 -> (0 .. 1) \X {0}], d \in DegreeFiles}

MCInputs == MCPlainInputs \cup MCDegreeInputs
=============================================================================
