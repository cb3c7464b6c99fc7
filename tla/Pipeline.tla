------------------------------- MODULE Pipeline -------------------------------
(***************************************************************************)
(* matrix_canvas::load_matrix: read the file, with --symmetrize add the    *)
(* transpose, pack and sort the rows in place, and take what is left as    *)
(* the matrix.  Composed of CrmLoad's outcome, the steps of Symmetrize and *)
(* those of PackStorage, which work on the same arrays; what one leaves is *)
(* all the next one knows.  load_matrix does not look at the result of the *)
(* second load.                                                            *)
(***************************************************************************)
EXTENDS Symmetrize, CompressedRows

VARIABLES
    symmetrize,      \* the option; no step changes it
    matrix_loaded,
    mlarge,          \* the matrix handed to pack_storage, none before
    wa, ri, k, pos_end, cur_elem   \* of pack_storage and sort_storage

packing == <<wa, ri, k, pos_end, cur_elem>>
pipevars == <<vars, symmetrize, matrix_loaded, mlarge, packing>>

NoMatrix == [nrows |-> 0]

Pack == INSTANCE PackStorage WITH loaded <- mlarge

PipeInit ==
    /\ Init
    /\ symmetrize \in BOOLEAN
    /\ matrix_loaded = FALSE
    /\ mlarge = NoMatrix
    /\ wa = <<>> /\ ri = 0 /\ k = 0 /\ pos_end = 0 /\ cur_elem = 0

\* load_crm_matrix returned false, and main ends the program.
LoadFailed ==
    /\ pc = "start"
    /\ pc' = "rejected"
    /\ UNCHANGED <<loaded, arrays, it, nzcount, i, warning, written, symmetrize,
                   matrix_loaded, mlarge, packing>>

Symmetrizing ==
    /\ symmetrize
    /\ Next
    /\ UNCHANGED <<symmetrize, matrix_loaded, mlarge, packing>>

\* mlarge refers to the arrays as they are, whatever load_matrix_to_crm said.
OnlyOnFailure == IF symmetrize THEN {"failed"} ELSE {"start"}
ReadyToPack == IF symmetrize THEN {"symmetrized", "failed"} ELSE {"start"}

StartPacking ==
    /\ pc \in ReadyToPack
    /\ mlarge' = [nrows |-> nrows, ncols |-> ncols, nnz |-> nnz, ai |-> ai, aj |-> aj, a |-> a]
    /\ wa' = [c \in 0 .. (ncols - 1) |-> Pack!Unused]
    /\ ri' = 0 /\ k' = 0 /\ pos_end' = 0 /\ cur_elem' = 0
    /\ pc' = "row"
    /\ UNCHANGED <<loaded, arrays, it, nzcount, i, warning, written, symmetrize, matrix_loaded>>

Packing ==
    /\ Pack!Next
    /\ UNCHANGED <<loaded, nrows, ncols, nnz, it, nzcount, i, warning, written, symmetrize,
                   matrix_loaded>>

\* _m.nnz = _m.ai.back(), and the matrix is there to be drawn.
KeepsCount == nnz
EndOfRows == ai[loaded.nrows]

Loaded ==
    /\ pc = "done"
    /\ ~matrix_loaded
    /\ nnz' = EndOfRows
    /\ matrix_loaded' = TRUE
    /\ UNCHANGED <<loaded, pc, nrows, ncols, ai, aj, a, it, nzcount, i, warning, written,
                   symmetrize, mlarge, packing>>

PipeNext == LoadFailed \/ Symmetrizing \/ StartPacking \/ Packing \/ Loaded

PipeSpec == PipeInit /\ [][PipeNext]_pipevars

\* load_matrix is one call in one thread.
FairPipeSpec == PipeSpec /\ WF_pipevars(PipeNext)

----------------------------------------------------------------------------
\* Symmetrizing is CrmLoad on the union of the matrix and its transpose: what
\* load_matrix_to_crm has put into the arrays, up to the point where they are
\* handed on.  Where it is not sound to symmetrize nothing is claimed.
Symmetrized == symmetrize /\ Sound(loaded)
ToUnionLoad ==
    IF ~Symmetrized \/ pc \in {"start", "rejected"} THEN "degrees"
    ELSE IF mlarge # NoMatrix \/ pc = "symmetrized" THEN "done"
    ELSE pc
UnionRows ==
    IF ToUnionLoad = "degrees"
      THEN [r \in 0 .. Larger(loaded.nrows, loaded.ncols) |-> 0]
      ELSE IF mlarge # NoMatrix THEN mlarge.ai ELSE ai
UnionCells ==
    LET columns == IF mlarge # NoMatrix THEN mlarge.aj ELSE aj
        values == IF mlarge # NoMatrix THEN mlarge.a ELSE a
    IN  [s \in SlotIndices(loaded) |->
            IF Symmetrized /\ s \in written THEN [col |-> columns[s], val |-> values[s]]
            ELSE [col |-> 0, val |-> 0]]

UnionLoad == INSTANCE CrmLoad WITH
    Inputs <- {UnionFile(m) : m \in Matrices}, TextAsInt <- 0,
    input <- UnionFile(loaded), pc <- ToUnionLoad,
    ai <- UnionRows, cell <- UnionCells,
    nzcount <- IF ToUnionLoad = "degrees" THEN 0 ELSE nzcount,
    i <- IF ToUnionLoad = "degrees" THEN 0 ELSE i,
    warning <- IF ToUnionLoad = "degrees" THEN FALSE ELSE warning

----------------------------------------------------------------------------
\* Properties.

Labels == {"start", "count", "sum", "place", "shift", "symmetrized", "failed", "undefined",
           "rejected", "row", "element", "reset", "sort", "done"}

PipeTypeOK ==
    /\ loaded \in Matrices /\ symmetrize \in BOOLEAN /\ matrix_loaded \in BOOLEAN
    /\ pc \in Labels
    /\ nrows \in Nat /\ ncols \in Nat /\ nnz \in Nat
    /\ ai \in [RowIndices(loaded) -> Nat]
    /\ DOMAIN aj \in {DOMAIN loaded.aj, SlotIndices(loaded)} /\ DOMAIN a = DOMAIN aj
    /\ it.half \in 1 .. 3 /\ it.ri \in 1 .. (loaded.nrows + 1) /\ it.id \in 0 .. loaded.nnz
    /\ nzcount \in 0 .. (2 * loaded.nnz)
    /\ i \in 0 .. (nrows + 1)
    /\ warning \in BOOLEAN
    /\ written \subseteq SlotIndices(loaded)

\* load_matrix stays in its arrays unless it symmetrizes a matrix with more
\* columns than rows, or one without entries.
LoadingStaysInArrays == (symmetrize => Sound(loaded)) => pc # "undefined"

\* Ignoring the result of the second load_matrix_to_crm is harmless: it never
\* returns false.
IgnoredResultIsTrue == pc # "failed"

\* What pack_storage is handed are compressed rows: it has no test of its own.
HandsOnCompressedRows ==
    mlarge # NoMatrix =>
        /\ mlarge.ai \in [0 .. mlarge.nrows -> 0 .. mlarge.nnz]
        /\ mlarge.ai[0] = 0 /\ mlarge.ai[mlarge.nrows] = mlarge.nnz
        /\ \A r \in 0 .. (mlarge.nrows - 1) : mlarge.ai[r] <= mlarge.ai[r + 1]
        /\ mlarge.aj \in [0 .. (mlarge.nnz - 1) -> 0 .. (mlarge.ncols - 1)]

\* The whole of load_matrix: in its arrays and types, with the second load
\* always successful and packing handed compressed rows.
PipeInv ==
    /\ PipeTypeOK
    /\ LoadingStaysInArrays
    /\ IgnoredResultIsTrue
    /\ HandsOnCompressedRows

\* Symmetrizing is a load of the union's entries, step by step.
SymmetrizingIsLoading == UnionLoad!Spec

\* The sum of the entries at row r and column c of the file.
FileValues(r, c) ==
    [s \in 0 .. (loaded.nnz - 1) |->
        IF RowOfSlot(loaded, s) = r /\ loaded.aj[s] = c THEN loaded.a[s] ELSE 0]
FileTotal(r, c) == SumTo(FileValues(r, c), loaded.nnz)

\* The positions that have an entry, the transposed ones too if symmetrized.
Positions ==
    LET places == {<<RowOfSlot(loaded, s), loaded.aj[s]>> : s \in 0 .. (loaded.nnz - 1)}
    IN  places \cup (IF symmetrize THEN {<<p[2], p[1]>> : p \in places} ELSE {})

\* What is shown for a position is the sum of the file's entries there, and
\* with --symmetrize of those at the transposed position too: a matrix plus
\* its transpose, with the diagonal doubled.  nnz, which the program reports,
\* counts the positions that have an entry, of the larger matrix too.
ShowsSum ==
    matrix_loaded =>
        /\ \A r \in 0 .. (nrows - 1), c \in 0 .. (ncols - 1) :
              Pack!LookUp(r, c) =
                  FileTotal(r, c) + (IF symmetrize THEN FileTotal(c, r) ELSE 0)
        /\ nnz = Cardinality(Positions)

\* Every load ends: with the matrix, or rejected, or outside the arrays.
LoadingEnds == <>(matrix_loaded \/ pc \in {"rejected", "undefined"})

=============================================================================
