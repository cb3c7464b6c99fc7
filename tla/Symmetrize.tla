------------------------------ MODULE Symmetrize ------------------------------
(***************************************************************************)
(* The --symmetrize branch of matrix_canvas::load_matrix.  The loaded rows *)
(* are copied away, the arrays are enlarged, and load_matrix_to_crm, the   *)
(* function that reads files, reads the entries of the union of the matrix *)
(* and its transpose into them.  The union is an iterator over the         *)
(* compressed rows that runs twice, the second time with rows and columns  *)
(* exchanged.  ai is not enlarged, and the iterator is not compared with   *)
(* its end before it is used.                                              *)
(*                                                                         *)
(* One step per entry or element of each loop.  A step that would read or  *)
(* write outside an array ends in pc = "undefined".                        *)
(***************************************************************************)
EXTENDS Integers, Sequences

CONSTANT Matrices   \* compressed row matrices as loaded, see MatricesAssumption

ASSUME MatricesAssumption ==
    \A m \in Matrices :
        /\ m.nrows \in Nat \ {0} /\ m.ncols \in Nat /\ m.nnz \in Nat
        /\ m.ai \in [0 .. m.nrows -> 0 .. m.nnz]
        /\ m.ai[0] = 0 /\ m.ai[m.nrows] = m.nnz
        /\ \A r, s \in 0 .. m.nrows : r <= s => m.ai[r] <= m.ai[s]
        /\ m.aj \in [0 .. (m.nnz - 1) -> 0 .. (m.ncols - 1)]
        /\ m.a \in [0 .. (m.nnz - 1) -> Int]

VARIABLES
    loaded,    \* the matrix read: rows_temp, cols_temp, vals_temp and m
    pc,        \* the loop being executed
    nrows, ncols, nnz,   \* _m.nrows, _m.ncols, _m.nnz
    ai, aj, a, \* _m.ai, _m.aj, _m.a
    it,        \* nzi, the iterator of the union
    nzcount,   \* entries taken from it in the present pass
    i,         \* loop index of partial_sum and of the reverse copy
    warning,   \* an entry outside the dimensions was seen
    written    \* history: slots written in the second pass

arrays == <<nrows, ncols, nnz, ai, aj, a>>
vars == <<loaded, pc, arrays, it, nzcount, i, warning, written>>

----------------------------------------------------------------------------
\* The nonzeros of the union.

Larger(p, q) == IF p < q THEN q ELSE p

\* An iterator stands in the matrix (half 1), in its transpose (2), or is the
\* end, whose pointers are null (3).  Entry id of the arrays is next; ri is
\* where the present row ends, so that the row's number is one less.
Over == 3
RowNumber(x) == x.ri - 1

\* Skipping empty rows: the first row end from p on that is not id, or the end
\* of the array.
\* The variants named next to a definition are slips it must not contain; the
\* runs check that each breaks a property.
StaysAtEmpty(p, id) == p
SkipEmpty(p, id) ==
    CHOOSE q \in p .. (loaded.nrows + 1) :
        /\ q = loaded.nrows + 1 \/ loaded.ai[q] # id
        /\ \A o \in p .. (q - 1) : loaded.ai[o] = id

Begin(half) == [half |-> half, id |-> 0, ri |-> SkipEmpty(1, 0)]

Advanced(x) ==
    LET id == x.id + 1
        ri == IF id = loaded.ai[x.ri] THEN SkipEmpty(x.ri + 1, id) ELSE x.ri
    IN  IF ri # loaded.nrows + 1 THEN [half |-> x.half, id |-> id, ri |-> ri]
        ELSE IF x.half = 1 THEN Begin(2)
        ELSE [half |-> Over, id |-> id, ri |-> ri]

\* Dereferencing needs an entry.
Readable(x) == x.id < loaded.nnz
NotExchanged(x) ==
    [row |-> RowNumber(x), col |-> loaded.aj[x.id], val |-> loaded.a[x.id]]
Current(x) ==
    IF x.half = 1
      THEN [row |-> RowNumber(x), col |-> loaded.aj[x.id], val |-> loaded.a[x.id]]
      ELSE [row |-> loaded.aj[x.id], col |-> RowNumber(x), val |-> loaded.a[x.id]]

----------------------------------------------------------------------------
RowIndices(m) == 0 .. m.nrows            \* of _m.ai, never resized
SlotIndices(m) == 0 .. (2 * m.nnz - 1)   \* of _m.aj and _m.a after the resize
IsSlot(s) == s \in 0 .. (nnz - 1)
IsRow(r) == r \in RowIndices(loaded)

Init ==
    /\ loaded \in Matrices
    /\ pc = "start"
    /\ nrows = loaded.nrows /\ ncols = loaded.ncols /\ nnz = loaded.nnz
    /\ ai = loaded.ai /\ aj = loaded.aj /\ a = loaded.a
    /\ it = [half |-> Over, id |-> 0, ri |-> 1]
    /\ nzcount = 0 /\ i = 0 /\ warning = FALSE /\ written = {}

\* std::fill of ai, resize of aj and a, whose old elements stay.
RowsCleared == [r \in RowIndices(loaded) |-> 0]
Resized(f) == [s \in SlotIndices(loaded) |-> IF s < loaded.nnz THEN f[s] ELSE 0]

Start ==
    /\ pc = "start"
    /\ nnz' = 2 * loaded.nnz
    /\ ai' = RowsCleared
    /\ aj' = Resized(aj) /\ a' = Resized(a)
    /\ nrows' = Larger(loaded.nrows, loaded.ncols)
    /\ ncols' = Larger(loaded.nrows, loaded.ncols)
    /\ it' = Begin(1)
    /\ pc' = "count"
    /\ UNCHANGED <<loaded, nzcount, i, warning, written>>

Undefined == pc' = "undefined"

\* load_matrix_to_crm, the first pass: after a warning everything is counted
\* into rows[1].
OutOfBounds(e) == e.row >= nrows \/ e.col >= ncols

CountEntry ==
    /\ pc = "count"
    /\ it.half # Over
    /\ IF ~Readable(it)
         THEN Undefined /\ UNCHANGED <<ai, it, nzcount, warning>>
         ELSE LET e == Current(it)
                  bad == warning \/ OutOfBounds(e)
                  slot == (IF bad THEN 0 ELSE e.row) + 1
              IN  /\ IF IsRow(slot)
                       THEN ai' = [ai EXCEPT ![slot] = @ + 1] /\ UNCHANGED pc
                       ELSE Undefined /\ UNCHANGED ai
                  /\ warning' = bad
                  /\ it' = Advanced(it)
                  /\ nzcount' = nzcount + 1
    /\ UNCHANGED <<loaded, nrows, ncols, nnz, aj, a, i, written>>

\* nnz(m) of the union is twice that of the matrix.
PassAccepted == ~warning /\ nzcount = 2 * loaded.nnz

CountDone ==
    /\ pc = "count"
    /\ it.half = Over
    /\ pc' = IF PassAccepted THEN "sum" ELSE "failed"
    /\ i' = 1
    /\ UNCHANGED <<loaded, arrays, it, nzcount, warning, written>>

\* partial_sum(rows, rows+(nr+1), rows)
SumStep ==
    /\ pc = "sum"
    /\ i <= nrows
    /\ IF IsRow(i)
         THEN ai' = [ai EXCEPT ![i] = ai[i - 1] + @] /\ UNCHANGED pc
         ELSE Undefined /\ UNCHANGED ai
    /\ i' = i + 1
    /\ UNCHANGED <<loaded, nrows, ncols, nnz, aj, a, it, nzcount, warning, written>>

SumDone ==
    /\ pc = "sum"
    /\ i = nrows + 1
    /\ pc' = "place"
    /\ it' = Begin(1)
    /\ nzcount' = 0
    /\ UNCHANGED <<loaded, arrays, i, warning, written>>

\* The second pass: the entry goes to the cursor of its row, which moves on.
PlaceEntry ==
    /\ pc = "place"
    /\ it.half # Over
    /\ IF ~Readable(it)
         THEN Undefined /\ UNCHANGED <<ai, aj, a, it, nzcount, warning, written>>
         ELSE LET e == Current(it)
              IN  /\ IF IsRow(e.row) /\ IsSlot(ai[e.row])
                       THEN /\ aj' = [aj EXCEPT ![ai[e.row]] = e.col]
                            /\ a' = [a EXCEPT ![ai[e.row]] = e.val]
                            /\ ai' = [ai EXCEPT ![e.row] = @ + 1]
                            /\ written' = written \cup {ai[e.row]}
                            /\ UNCHANGED pc
                       ELSE Undefined /\ UNCHANGED <<ai, aj, a, written>>
                  /\ it' = Advanced(it)
                  /\ nzcount' = nzcount + 1
                  /\ warning' = (warning \/ OutOfBounds(e))
    /\ UNCHANGED <<loaded, nrows, ncols, nnz, i>>

PlaceDone ==
    /\ pc = "place"
    /\ it.half = Over
    /\ pc' = IF PassAccepted THEN "shift" ELSE "failed"
    /\ i' = nrows - 1
    /\ UNCHANGED <<loaded, arrays, it, nzcount, warning, written>>

\* The reverse copy of rows[0..nr-2] onto rows[1..nr-1], then rows[0] = 0.
ShiftStep ==
    /\ pc = "shift"
    /\ i >= 1
    /\ ai' = [ai EXCEPT ![i] = ai[i - 1]]
    /\ i' = i - 1
    /\ UNCHANGED <<loaded, pc, nrows, ncols, nnz, aj, a, it, nzcount, warning, written>>

ShiftDone ==
    /\ pc = "shift"
    /\ i = 0
    /\ ai' = [ai EXCEPT ![0] = 0]
    /\ pc' = "symmetrized"
    /\ UNCHANGED <<loaded, nrows, ncols, nnz, aj, a, it, nzcount, i, warning, written>>

Next ==
    \/ Start \/ CountEntry \/ CountDone \/ SumStep \/ SumDone
    \/ PlaceEntry \/ PlaceDone \/ ShiftStep \/ ShiftDone

----------------------------------------------------------------------------
\* What the union is, without an iterator.

\* The row that has slot s, and the matrix's entries followed by the same
\* entries exchanged.
RowOfSlot(m, s) == CHOOSE r \in 0 .. (m.nrows - 1) : m.ai[r] <= s /\ s < m.ai[r + 1]
UnionEntry(m, k) ==
    IF k <= m.nnz
      THEN [row |-> RowOfSlot(m, k - 1), col |-> m.aj[k - 1], val |-> m.a[k - 1]]
      ELSE [row |-> m.aj[k - m.nnz - 1], col |-> RowOfSlot(m, k - m.nnz - 1),
            val |-> m.a[k - m.nnz - 1]]

\* The union as a file for load_matrix_to_crm.
UnionFile(m) ==
    [nr |-> Larger(m.nrows, m.ncols), nc |-> Larger(m.nrows, m.ncols), nnz |-> 2 * m.nnz,
     entries |-> [k \in 1 .. (2 * m.nnz) |-> UnionEntry(m, k)],
     degs |-> [form |-> "absent", bytes |-> 0, counts |-> <<>>]]

\* What the branch is right for: ai is long enough for the columns as rows, and
\* there is an entry to dereference.
Sound(m) == m.ncols <= m.nrows /\ m.nnz > 0

============================================================================
