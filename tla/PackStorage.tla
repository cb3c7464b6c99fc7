----------------------------- MODULE PackStorage -----------------------------
(***************************************************************************)
(* What matrix_canvas::load_matrix does to the arrays after the file is    *)
(* read: pack_storage merges the entries of a row that name the same       *)
(* column, in place, with a work array `wa' that remembers where the row   *)
(* already has the column; sort_storage then orders every row by column.   *)
(* Everything that reads the matrix afterwards relies on the outcome:      *)
(* matrix_value stops at the first entry of the column it looks for.       *)
(*                                                                         *)
(* One step per iteration of each loop.                                    *)
(***************************************************************************)
EXTENDS CompressedRows

CONSTANT Matrices   \* compressed row matrices to pack, see MatricesAssumption

\* A matrix as load_matrix_to_crm leaves it: rows one after the other, the
\* columns of a row in any order and with repetitions.
ASSUME MatricesAssumption ==
    \A m \in Matrices :
        /\ m.nrows \in Nat \ {0} /\ m.ncols \in Nat /\ m.nnz \in Nat
        /\ m.ai \in [0 .. m.nrows -> 0 .. m.nnz]
        /\ m.ai[0] = 0 /\ m.ai[m.nrows] = m.nnz
        /\ \A r \in 0 .. (m.nrows - 1) : m.ai[r] <= m.ai[r + 1]
        /\ m.aj \in [0 .. (m.nnz - 1) -> 0 .. (m.ncols - 1)]
        /\ m.a \in [0 .. (m.nnz - 1) -> Int]

VARIABLES
    loaded,    \* the matrix before packing; no step changes it
    pc,        \* the loop being executed
    ai,        \* m._rstart: row starts
    aj,        \* m._cstart: columns
    a,         \* m._vstart: values
    wa,        \* slot of each column in the row being packed
    ri,        \* the row
    k,         \* loop index
    pos_end,   \* end of the row before packing
    cur_elem   \* slots used so far

vars == <<loaded, pc, ai, aj, a, wa, ri, k, pos_end, cur_elem>>

----------------------------------------------------------------------------
Unused == -1   \* numeric_limits::max(), which is no slot

Rows == 0 .. (loaded.nrows - 1)
Columns == 0 .. (loaded.ncols - 1)
Slots == 0 .. (loaded.nnz - 1)
RowSlots(r) == ai[r] .. (ai[r + 1] - 1)

Init ==
    /\ loaded \in Matrices
    /\ pc = "row"
    /\ ai = loaded.ai
    /\ aj = loaded.aj
    /\ a = loaded.a
    /\ wa = [c \in Columns |-> Unused]
    /\ ri = 0
    /\ k = 0
    /\ pos_end = 0
    /\ cur_elem = 0

\* The start of the row moves down to the first slot not yet used.
\* The variants named next to a definition are slips it must not contain; the
\* runs check that each breaks a property.
StartNotMoved == ai
NextStartMoved == [ai EXCEPT ![ri + 1] = cur_elem]
StartMoved == [ai EXCEPT ![ri] = cur_elem]

StartRow ==
    /\ pc = "row"
    /\ ri < loaded.nrows
    /\ pc' = "element"
    /\ k' = ai[ri]
    /\ pos_end' = ai[ri + 1]
    /\ ai' = StartMoved
    /\ UNCHANGED <<loaded, aj, a, wa, ri, cur_elem>>

\* An entry whose column the row does not have yet moves to the next slot.
NewElement ==
    /\ pc = "element"
    /\ k < pos_end
    /\ wa[aj[k]] = Unused
    /\ aj' = [aj EXCEPT ![cur_elem] = aj[k]]
    /\ a' = [a EXCEPT ![cur_elem] = a[k]]
    /\ wa' = [wa EXCEPT ![aj[k]] = cur_elem]
    /\ cur_elem' = cur_elem + 1
    /\ k' = k + 1
    /\ UNCHANGED <<loaded, pc, ai, ri, pos_end>>

\* An entry whose column it has is added to the value in that slot.
Overwritten(c) == [a EXCEPT ![wa[c]] = a[k]]
Added(c) == [a EXCEPT ![wa[c]] = @ + a[k]]

DuplicateElement ==
    /\ pc = "element"
    /\ k < pos_end
    /\ wa[aj[k]] # Unused
    /\ a' = Added(aj[k])
    /\ k' = k + 1
    /\ UNCHANGED <<loaded, pc, ai, aj, wa, ri, pos_end, cur_elem>>

\* Only the columns of the packed row are taken back out of wa, from its first
\* slot on.
ResetFromSecond == ai[ri] + 1
ResetFrom == ai[ri]

RowPacked ==
    /\ pc = "element"
    /\ k = pos_end
    /\ pc' = "reset"
    /\ k' = ResetFrom
    /\ UNCHANGED <<loaded, ai, aj, a, wa, ri, pos_end, cur_elem>>

ResetColumn ==
    /\ pc = "reset"
    /\ k < cur_elem
    /\ wa' = [wa EXCEPT ![aj[k]] = Unused]
    /\ k' = k + 1
    /\ UNCHANGED <<loaded, pc, ai, aj, a, ri, pos_end, cur_elem>>

RowReset ==
    /\ pc = "reset"
    /\ k >= cur_elem
    /\ pc' = "row"
    /\ ri' = ri + 1
    /\ UNCHANGED <<loaded, ai, aj, a, wa, k, pos_end, cur_elem>>

\* The end of the last row, then sort_storage from the first row on.
AllPacked ==
    /\ pc = "row"
    /\ ri = loaded.nrows
    /\ ai' = [ai EXCEPT ![ri] = cur_elem]
    /\ pc' = "sort"
    /\ ri' = 0
    /\ UNCHANGED <<loaded, aj, a, wa, k, pos_end, cur_elem>>

\* std::sort on the pairs of one row: any reordering of its slots that puts
\* the columns in order.
Orders(S, columns) == {p \in [S -> S] :
    /\ \A s, t \in S : p[s] = p[t] => s = t
    /\ \A s, t \in S : s < t => columns[p[s]] <= columns[p[t]]}
Permuted(f, p) == [s \in DOMAIN f |-> IF s \in DOMAIN p THEN f[p[s]] ELSE f[s]]

ValuesMoved(p) == Permuted(a, p)

SortRow ==
    /\ pc = "sort"
    /\ ri < loaded.nrows
    /\ \E p \in Orders(RowSlots(ri), aj) :
          /\ aj' = Permuted(aj, p)
          /\ a' = ValuesMoved(p)
    /\ ri' = ri + 1
    /\ UNCHANGED <<loaded, pc, ai, wa, k, pos_end, cur_elem>>

AllSorted ==
    /\ pc = "sort"
    /\ ri = loaded.nrows
    /\ pc' = "done"
    /\ UNCHANGED <<loaded, ai, aj, a, wa, ri, k, pos_end, cur_elem>>

Next ==
    \/ StartRow \/ NewElement \/ DuplicateElement \/ RowPacked
    \/ ResetColumn \/ RowReset \/ AllPacked \/ SortRow \/ AllSorted

Spec == Init /\ [][Next]_vars

----------------------------------------------------------------------------
\* matrix_canvas::matrix_value: the value of the first entry of row r in
\* column c, 0 if there is none.
LookUp(r, c) ==
    LET hits == {s \in RowSlots(r) : aj[s] = c}
    IN  IF r \in Rows /\ c \in Columns /\ hits # {}
          THEN a[CHOOSE s \in hits : \A t \in hits : s <= t]
          ELSE 0

----------------------------------------------------------------------------
\* Properties.

TypeOK ==
    /\ loaded \in Matrices
    /\ pc \in {"row", "element", "reset", "sort", "done"}
    /\ ai \in [0 .. loaded.nrows -> Nat]
    /\ aj \in [Slots -> Columns]
    /\ a \in [Slots -> Int]
    /\ wa \in [Columns -> {Unused} \cup Slots]
    /\ ri \in 0 .. loaded.nrows
    /\ k \in 0 .. loaded.nnz
    /\ pos_end \in 0 .. loaded.nnz
    /\ cur_elem \in 0 .. loaded.nnz

\* Packing in place never overwrites what it has not read: the slots used so
\* far end at or before the entry to be read, and from there on the arrays and
\* the row starts are still those of the loaded matrix.
ReadsAhead ==
    LET next == IF pc = "element" THEN k ELSE loaded.ai[ri]
    IN  pc \in {"row", "element"} =>
          /\ cur_elem <= next
          /\ \A s \in Slots : s >= next => aj[s] = loaded.aj[s] /\ a[s] = loaded.a[s]
          /\ \A r \in (ri + 1) .. loaded.nrows : ai[r] = loaded.ai[r]

\* While a row is packed, wa knows exactly its slots, so that an entry is
\* merged into a slot of its own row and column; between two rows wa is clear.
MarksOwnRow ==
    /\ pc = "element" =>
          \A c \in Columns, s \in Slots :
              wa[c] = s <=> (ai[ri] <= s /\ s < cur_elem /\ aj[s] = c)
    /\ pc = "row" => \A c \in Columns : wa[c] = Unused

\* Afterwards the columns of every row increase strictly: sorted, and no column
\* twice.
RowsIncrease ==
    pc = "done" =>
        \A r \in Rows : \A s, t \in RowSlots(r) : s < t => aj[s] < aj[t]

\* The sum of the entries a matrix as loaded has for row r and column c.
IsEntry(m, r, c, s) == m.ai[r] <= s /\ s < m.ai[r + 1] /\ m.aj[s] = c
ValuesAt(m, r, c) ==
    [s \in 0 .. (m.nnz - 1) |-> IF IsEntry(m, r, c, s) THEN m.a[s] ELSE 0]
TotalOf(m, r, c) == SumTo(ValuesAt(m, r, c), m.nnz)

\* Wherever a position is in the matrix, the value shown for it is the sum of
\* the entries loaded for it: merging and sorting lose none, count none twice
\* and mix none with another position's.  A slot is left for every position
\* that has an entry, and for no other.
ValuesAreTotals ==
    pc = "done" =>
        /\ \A r \in Rows, c \in Columns : LookUp(r, c) = TotalOf(loaded, r, c)
        /\ ai[loaded.nrows] = Cardinality(
              {p \in Rows \X Columns : \E s \in Slots : IsEntry(loaded, p[1], p[2], s)})

=============================================================================
