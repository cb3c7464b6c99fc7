--------------------------- MODULE CompressedRows ---------------------------
(***************************************************************************)
(* What load_matrix_to_crm is given, a header and entries in some order,   *)
(* and where compressed row storage has each of them.                      *)
(***************************************************************************)
EXTENDS Integers, Sequences, FiniteSets

IsMatrixFile(f) ==
    /\ f.nr \in Nat /\ f.nc \in Nat /\ f.nnz \in Nat
    /\ f.entries \in Seq([row : Nat, col : Nat, val : Int])

RowsOf(f) == 0 .. f.nr          \* index range of rows
SlotsOf(f) == 0 .. (f.nnz - 1)  \* index range of cols and vals

\* The header fits the entries.
WellFormed(f) ==
    /\ f.nr >= 1
    /\ Len(f.entries) = f.nnz
    /\ \A k \in 1 .. Len(f.entries) : f.entries[k].row < f.nr /\ f.entries[k].col < f.nc

\* Number of entries in rows above r, and of earlier entries in the row of
\* entry k: together the slot compressed row storage assigns to entry k.
RowStart(f, r) == Cardinality({k \in 1 .. Len(f.entries) : f.entries[k].row < r})
Earlier(f, r, k) == Cardinality({j \in 1 .. k : f.entries[j].row = r})
SlotOf(f, k) == RowStart(f, f.entries[k].row) + Earlier(f, f.entries[k].row, k - 1)

\* f[0] + ... + f[n - 1], for the properties: what the slots of an array add up to.
SumTo(f, n) ==
    LET sum[j \in 0 .. n] == IF j = 0 THEN 0 ELSE sum[j - 1] + f[j - 1] IN sum[n]
=============================================================================
