----------------------------- MODULE MatrixLoad -----------------------------
(***************************************************************************)
(* What loading promises, without arrays: one step turns the file into the *)
(* rows of the matrix, each the sequence of its entries in file order, or  *)
(* rejects it because the header does not fit the entries.  Nothing is     *)
(* promised of a file that has a wrong degree file beside it.              *)
(***************************************************************************)
EXTENDS Integers, Sequences, FiniteSets

CONSTANTS
    Inputs,
    Misled(_),                  \* a wrong degree file is beside the input
    Unread, Rejected, Unknown   \* what there may be instead of a matrix

VARIABLES input, matrix

avars == <<input, matrix>>

Fits(f) ==
    /\ f.nr >= 1
    /\ Len(f.entries) = f.nnz
    /\ \A k \in DOMAIN f.entries : f.entries[k].row < f.nr /\ f.entries[k].col < f.nc

\* Where in the file the entries of row r are, and where the n-th of them is.
PlacesOf(f, r) == {k \in DOMAIN f.entries : f.entries[k].row = r}
PlaceOf(f, r, n) ==
    CHOOSE k \in PlacesOf(f, r) : Cardinality({j \in PlacesOf(f, r) : j <= k}) = n

\* The entries of row r, as pairs, in the order of the file.
RowEntries(f, r) ==
    [n \in 1 .. Cardinality(PlacesOf(f, r)) |->
        LET e == f.entries[PlaceOf(f, r, n)] IN [col |-> e.col, val |-> e.val]]

Init == input \in Inputs /\ matrix = Unread

Load ==
    /\ matrix = Unread
    /\ matrix' = IF Misled(input) THEN Unknown
                 ELSE IF Fits(input)
                   THEN [r \in 0 .. (input.nr - 1) |-> RowEntries(input, r)]
                   ELSE Rejected
    /\ UNCHANGED input

\* What may happen, and that it does.
SafeSpec == Init /\ [][Load]_avars
Spec == SafeSpec /\ WF_avars(Load)
=============================================================================
