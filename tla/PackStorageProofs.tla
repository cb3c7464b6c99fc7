-------------------------- MODULE PackStorageProofs --------------------------
(***************************************************************************)
(* Proofs about PackStorage, for every set of matrices: packing in place   *)
(* reads before it overwrites, the marks of one row do not leak into       *)
(* another, the rows come out strictly increasing, and the value found for *)
(* a position is the sum of its entries.                                   *)
(***************************************************************************)
EXTENDS PackStorage, CompressedRowsProofs

Packing == pc \in {"row", "element", "reset"}
InRow == pc \in {"element", "reset"}

\* The first slot that has not been read.
NextRead == IF pc = "element" THEN k ELSE IF pc = "reset" THEN pos_end ELSE loaded.ai[ri]

\* Where row r, packed already, ends: the start of the row after it is only
\* written when that row is begun.
PackedEnd(r) == IF pc = "row" /\ r + 1 = ri THEN cur_elem ELSE ai[r + 1]

\* The loop variables.
LoopInv ==
    /\ InRow => ri < loaded.nrows /\ pos_end = loaded.ai[ri + 1] /\ ai[ri] <= cur_elem
    /\ pc = "element" => k <= pos_end
    /\ pc = "reset" => ai[ri] <= k /\ k <= cur_elem
    /\ pc = "done" => ri = loaded.nrows

\* What has not been read has not been written.
AheadInv ==
    Packing =>
        /\ cur_elem <= NextRead
        /\ \A s \in Slots : s >= NextRead => aj[s] = loaded.aj[s] /\ a[s] = loaded.a[s]
        /\ \A r \in (ri + 1) .. loaded.nrows : ai[r] = loaded.ai[r]
        /\ pc = "row" => ai[ri] = loaded.ai[ri]

\* wa knows the packed row's slots, from the next one to reset on.
MarkInv ==
    /\ InRow => \A c \in Columns, s \in Slots :
          wa[c] = s <=> ((IF pc = "reset" THEN k ELSE ai[ri]) <= s /\ s < cur_elem /\ aj[s] = c)
    /\ pc = "row" => \A c \in Columns : wa[c] = Unused

\* No column is twice among the slots from first up to before end.
Distinct(first, end) ==
    \A s, t \in Slots :
        (first <= s /\ s < end /\ first <= t /\ t < end /\ aj[s] = aj[t]) => s = t

\* The rows packed already follow each other, and no column is twice in one.
RowsInv ==
    Packing =>
        /\ \A r \in 0 .. ri : (r < ri \/ InRow) => ai[r] <= cur_elem
        /\ \A q, r \in 0 .. ri : (q <= r /\ (r < ri \/ InRow)) => ai[q] <= ai[r]
        /\ \A r \in 0 .. (ri - 1) : Distinct(ai[r], PackedEnd(r))
        /\ pc = "reset" => Distinct(ai[ri], cur_elem)

\* While rows are sorted: the same of all rows, and the sorted ones increase.
SortInv ==
    pc \in {"sort", "done"} =>
        /\ \A r \in 0 .. loaded.nrows : ai[r] <= loaded.nnz
        /\ \A q, r \in 0 .. loaded.nrows : q <= r => ai[q] <= ai[r]
        /\ \A r \in Rows : \A s, t \in RowSlots(r) : aj[s] = aj[t] => s = t
        /\ \A r \in 0 .. (ri - 1) : \A s, t \in RowSlots(r) : s < t => aj[s] < aj[t]

PackInv == TypeOK /\ LoopInv /\ AheadInv /\ MarkInv /\ RowsInv /\ SortInv

\* What the slots of columns and values from first up to before end make of the
\* entries of row r among the first n of m: each has the sum of its column's, and
\* a column has a slot if and only if it has an entry.
Gathered(m, columns, values, r, first, end, n) ==
    /\ \A s \in first .. (end - 1) : values[s] = SumTo(ValuesAt(m, r, columns[s]), n)
    /\ \A c \in 0 .. (m.ncols - 1) :
          (\E s \in first .. (end - 1) : columns[s] = c)
            <=> (\E s \in 0 .. (n - 1) : IsEntry(m, r, c, s))

SumInv ==
    /\ ai[0] = 0
    /\ (pc = "row" /\ ri = 0) => cur_elem = 0
    /\ pc = "element" => loaded.ai[ri] <= k
    /\ Packing =>
          \A r \in 0 .. (ri - 1) :
              Gathered(loaded, aj, a, r, ai[r], PackedEnd(r), loaded.ai[r + 1])
    /\ InRow => Gathered(loaded, aj, a, ri, ai[ri], cur_elem, NextRead)
    /\ pc \in {"sort", "done"} =>
          \A r \in Rows : Gathered(loaded, aj, a, r, ai[r], ai[r + 1], loaded.ai[r + 1])

----------------------------------------------------------------------------
LEMMA LoadedFacts ==
    loaded \in Matrices =>
        /\ loaded.nrows \in Nat \ {0} /\ loaded.ncols \in Nat /\ loaded.nnz \in Nat
        /\ loaded.ai \in [0 .. loaded.nrows -> 0 .. loaded.nnz]
        /\ loaded.ai[0] = 0
        /\ \A r \in 0 .. (loaded.nrows - 1) : loaded.ai[r] <= loaded.ai[r + 1]
        /\ loaded.aj \in [Slots -> Columns]
        /\ loaded.a \in [Slots -> Int]
  BY MatricesAssumption DEF Slots, Columns

\* The same as the steps need it: the row being packed is a row, its start and
\* end in the loaded matrix are in order and inside the arrays.
LEMMA RowFacts ==
    TypeOK =>
        /\ loaded.nrows \in Nat \ {0} /\ loaded.nnz \in Nat
        /\ ri \in Nat /\ ri <= loaded.nrows /\ k \in Nat /\ k <= loaded.nnz
        /\ cur_elem \in Nat /\ cur_elem <= loaded.nnz
        /\ \A r \in 0 .. loaded.nrows : ai[r] \in Nat
        /\ \A r \in 0 .. loaded.nrows : loaded.ai[r] \in Nat /\ loaded.ai[r] <= loaded.nnz
        /\ \A r \in 0 .. (loaded.nrows - 1) : loaded.ai[r] <= loaded.ai[r + 1]
        /\ \A s \in Int : s \in Slots <=> (0 <= s /\ s < loaded.nnz)
        /\ Slots \subseteq Nat
        /\ Unused \notin Slots
<1> SUFFICES ASSUME TypeOK
             PROVE  /\ loaded.nrows \in Nat \ {0} /\ loaded.nnz \in Nat
                    /\ ri \in Nat /\ ri <= loaded.nrows /\ k \in Nat /\ k <= loaded.nnz
                    /\ cur_elem \in Nat /\ cur_elem <= loaded.nnz
                    /\ \A r \in 0 .. loaded.nrows : ai[r] \in Nat
                    /\ \A r \in 0 .. loaded.nrows :
                          loaded.ai[r] \in Nat /\ loaded.ai[r] <= loaded.nnz
                    /\ \A r \in 0 .. (loaded.nrows - 1) : loaded.ai[r] <= loaded.ai[r + 1]
                    /\ \A s \in Int : s \in Slots <=> (0 <= s /\ s < loaded.nnz)
                    /\ Slots \subseteq Nat
                    /\ Unused \notin Slots
  OBVIOUS
<1>1. loaded.nrows \in Nat \ {0} /\ loaded.nnz \in Nat
  BY LoadedFacts DEF TypeOK
<1>2. /\ loaded.ai \in [0 .. loaded.nrows -> 0 .. loaded.nnz]
      /\ \A r \in 0 .. (loaded.nrows - 1) : loaded.ai[r] <= loaded.ai[r + 1]
  BY LoadedFacts DEF TypeOK
<1>3. ai \in [0 .. loaded.nrows -> Nat] /\ ri \in 0 .. loaded.nrows
      /\ k \in 0 .. loaded.nnz /\ cur_elem \in 0 .. loaded.nnz
  BY DEF TypeOK
<1>4. \A r \in 0 .. loaded.nrows : ai[r] \in Nat
  BY <1>3
<1>5. \A r \in 0 .. loaded.nrows : loaded.ai[r] \in Nat /\ loaded.ai[r] <= loaded.nnz
  <2>1. \A r \in 0 .. loaded.nrows : loaded.ai[r] \in 0 .. loaded.nnz
    BY <1>2
  <2> QED
    BY <1>1, <2>1
<1>6. \A s \in Int : s \in Slots <=> (0 <= s /\ s < loaded.nnz)
  BY <1>1 DEF Slots
<1>7. Slots \subseteq Nat /\ Unused \notin Slots
  BY <1>1 DEF Slots, Unused
<1>8. ri \in Nat /\ ri <= loaded.nrows /\ k \in Nat /\ k <= loaded.nnz
      /\ cur_elem \in Nat /\ cur_elem <= loaded.nnz
  BY <1>1, <1>3
<1> QED
  BY <1>1, <1>2, <1>4, <1>5, <1>6, <1>7, <1>8

\* Index sets belong to the loaded matrix and do not change with the arrays.
LEMMA SameSets == loaded' = loaded => Slots' = Slots /\ Columns' = Columns /\ Rows' = Rows
  BY DEF Slots, Columns, Rows

LEMMA InitPackInv == Init => PackInv
<1> SUFFICES ASSUME Init PROVE PackInv
  OBVIOUS
<1>1. TypeOK
  BY LoadedFacts DEF Init, TypeOK, Slots, Columns, Unused
<1>2. LoopInv /\ AheadInv /\ MarkInv /\ RowsInv /\ SortInv
  BY LoadedFacts DEF Init, LoopInv, AheadInv, MarkInv, RowsInv, SortInv, Packing, InRow,
     NextRead, Slots, Columns, Unused
<1> QED
  BY <1>1, <1>2 DEF PackInv

\* A row begins where the packed rows end.
LEMMA StartRowStep == PackInv /\ StartRow => PackInv'
<1> SUFFICES ASSUME PackInv, StartRow PROVE PackInv'
  OBVIOUS
<1> USE DEF PackInv
<1>1. /\ pc = "row" /\ pc' = "element" /\ ri < loaded.nrows
      /\ k' = ai[ri] /\ pos_end' = ai[ri + 1] /\ ai' = [ai EXCEPT ![ri] = cur_elem]
      /\ UNCHANGED <<loaded, aj, a, wa, ri, cur_elem>>
  BY DEF StartRow, StartMoved
<1>2. /\ ai[ri] = loaded.ai[ri] /\ ai[ri + 1] = loaded.ai[ri + 1]
      /\ cur_elem <= loaded.ai[ri]
  BY <1>1, RowFacts DEF AheadInv, Packing, NextRead
<1>3. ai[ri] \in 0 .. loaded.nnz /\ ai[ri + 1] \in 0 .. loaded.nnz /\ ai[ri] <= ai[ri + 1]
  BY <1>1, <1>2, RowFacts
<1>4. \A r \in 0 .. loaded.nrows : ai'[r] = IF r = ri THEN cur_elem ELSE ai[r]
  BY <1>1 DEF TypeOK
<1>5. TypeOK'
  <2>1. ai' \in [0 .. loaded.nrows -> Nat]
    BY <1>1, RowFacts DEF TypeOK
  <2> QED
    BY <1>1, <1>3, <2>1, SameSets DEF TypeOK
<1>6. LoopInv'
  BY <1>1, <1>2, <1>3, <1>4, RowFacts DEF LoopInv, InRow
<1>7. AheadInv'
  <2>1. \A r \in (ri + 1) .. loaded.nrows : ai'[r] = loaded.ai[r]
    BY <1>1, <1>4, RowFacts DEF AheadInv, Packing
  <2> QED
    BY <1>1, <1>2, <2>1, SameSets DEF AheadInv, Packing, NextRead
<1>8. MarkInv'
  <2>1. \A c \in Columns, s \in Slots : ~(cur_elem <= s /\ s < cur_elem)
    BY RowFacts
  <2> QED
    BY <1>1, <1>4, <2>1, RowFacts, SameSets DEF MarkInv, InRow
<1>9. RowsInv'
  <2>1. \A r \in 0 .. (ri - 1) : PackedEnd(r)' = PackedEnd(r)
    BY <1>1, <1>4, RowFacts DEF PackedEnd
  <2>2. \A r \in 0 .. (ri - 1) : Distinct(ai[r], PackedEnd(r))' = Distinct(ai[r], PackedEnd(r))
    BY <1>1, <1>4, <2>1, RowFacts, SameSets DEF Distinct
  <2> QED
    BY <1>1, <1>4, <2>2, RowFacts DEF RowsInv, Packing, InRow
<1>10. SortInv'
  BY <1>1 DEF SortInv
<1> QED
  BY <1>5, <1>6, <1>7, <1>8, <1>9, <1>10

\* A new column goes to the next free slot, at or below the slot just read.
LEMMA NewElementStep == PackInv /\ NewElement => PackInv'
<1> SUFFICES ASSUME PackInv, NewElement PROVE PackInv'
  OBVIOUS
<1> USE DEF PackInv
<1>1. /\ pc = "element" /\ pc' = "element" /\ k < pos_end /\ wa[aj[k]] = Unused
      /\ aj' = [aj EXCEPT ![cur_elem] = aj[k]] /\ a' = [a EXCEPT ![cur_elem] = a[k]]
      /\ wa' = [wa EXCEPT ![aj[k]] = cur_elem]
      /\ cur_elem' = cur_elem + 1 /\ k' = k + 1
      /\ UNCHANGED <<loaded, ai, ri, pos_end>>
  BY DEF NewElement
<1>2. /\ ri < loaded.nrows /\ pos_end = loaded.ai[ri + 1] /\ pos_end <= loaded.nnz
      /\ ai[ri] \in Nat /\ ai[ri] <= cur_elem
  BY <1>1, RowFacts DEF LoopInv, InRow
<1>3. cur_elem <= k
  BY <1>1 DEF AheadInv, Packing, NextRead
<1>4. cur_elem \in Slots /\ k \in Slots
  BY <1>1, <1>2, <1>3, RowFacts DEF TypeOK
<1>5. aj[k] \in Columns /\ a[k] \in Int
  BY <1>4 DEF TypeOK
<1>6. \A s \in Slots : aj'[s] = IF s = cur_elem THEN aj[k] ELSE aj[s]
  BY <1>1, <1>4 DEF TypeOK
<1>7. \A s \in Slots : a'[s] = IF s = cur_elem THEN a[k] ELSE a[s]
  BY <1>1, <1>4 DEF TypeOK
<1>8. TypeOK'
  <2>1. aj' \in [Slots -> Columns] /\ a' \in [Slots -> Int]
    BY <1>1, <1>4, <1>5 DEF TypeOK
  <2>2. wa' \in [Columns -> {Unused} \cup Slots]
    BY <1>1, <1>4, <1>5 DEF TypeOK
  <2>3. k + 1 \in 0 .. loaded.nnz /\ cur_elem + 1 \in 0 .. loaded.nnz
    BY <1>4, RowFacts
  <2> QED
    BY <1>1, <2>1, <2>2, <2>3, SameSets DEF TypeOK
<1>9. LoopInv'
  BY <1>1, <1>2, <1>3, RowFacts DEF LoopInv, InRow, TypeOK
<1>10. AheadInv'
  <2>1. \A s \in Slots : s >= k + 1 => aj'[s] = aj[s] /\ a'[s] = a[s]
    BY <1>3, <1>6, <1>7, RowFacts
  <2> QED
    BY <1>1, <1>3, <2>1, RowFacts, SameSets DEF AheadInv, Packing, NextRead
<1>11. MarkInv'
  <2>1. SUFFICES ASSUME NEW c \in Columns, NEW s \in Slots
                 PROVE  wa'[c] = s <=> (ai[ri] <= s /\ s < cur_elem + 1 /\ aj'[s] = c)
    BY <1>1, SameSets DEF MarkInv, InRow
  <2>2. \A d \in Columns, t \in Slots :
            wa[d] = t <=> (ai[ri] <= t /\ t < cur_elem /\ aj[t] = d)
    BY <1>1 DEF MarkInv, InRow
  <2>3. wa'[c] = IF c = aj[k] THEN cur_elem ELSE wa[c]
    BY <1>1, <1>5 DEF TypeOK
  <2>4. \A t \in Slots : (ai[ri] <= t /\ t < cur_elem) => aj[t] # aj[k]
    BY <1>1, <1>5, <2>2, RowFacts
  <2>5. CASE s = cur_elem
    <3>1. wa[c] # s
      BY <2>2, <2>5, RowFacts
    <3> QED
      BY <1>2, <1>6, <2>3, <2>5, <3>1, RowFacts
  <2>6. CASE s # cur_elem
    BY <1>6, <2>2, <2>3, <2>4, <2>6, RowFacts
  <2> QED
    BY <2>5, <2>6
<1>12. RowsInv'
  <2>1. \A r \in 0 .. (ri - 1) : ai[r + 1] <= cur_elem
    BY <1>1, RowFacts DEF RowsInv, Packing, InRow
  <2>2. ASSUME NEW r \in 0 .. (ri - 1) PROVE Distinct(ai[r], PackedEnd(r))'
    <3>1. Distinct(ai[r], ai[r + 1])
      BY <1>1 DEF RowsInv, Packing, PackedEnd
    <3>2. \A s \in Slots : s < ai[r + 1] => aj'[s] = aj[s]
      BY <1>2, <1>6, <2>1, RowFacts
    <3>3. Distinct(ai[r], ai[r + 1])'
      BY <1>1, <3>1, <3>2, SameSets DEF Distinct
    <3> QED
      BY <1>1, <3>3 DEF PackedEnd
  <2> QED
    BY <1>1, <2>2, RowFacts DEF RowsInv, Packing, InRow
<1>13. SortInv'
  BY <1>1 DEF SortInv
<1> QED
  BY <1>8, <1>9, <1>10, <1>11, <1>12, <1>13

\* A repeated column changes the value in a slot already packed.
LEMMA DuplicateElementStep == PackInv /\ DuplicateElement => PackInv'
<1> SUFFICES ASSUME PackInv, DuplicateElement PROVE PackInv'
  OBVIOUS
<1> USE DEF PackInv
<1>1. /\ pc = "element" /\ pc' = "element" /\ k < pos_end /\ wa[aj[k]] # Unused
      /\ a' = [a EXCEPT ![wa[aj[k]]] = a[wa[aj[k]]] + a[k]] /\ k' = k + 1
      /\ UNCHANGED <<loaded, ai, aj, wa, ri, pos_end, cur_elem>>
  BY DEF DuplicateElement, Added
<1>2. ri < loaded.nrows /\ pos_end = loaded.ai[ri + 1] /\ pos_end <= loaded.nnz
  BY <1>1, RowFacts DEF LoopInv, InRow
<1>3. cur_elem <= k
  BY <1>1 DEF AheadInv, Packing, NextRead
<1>4. k \in Slots
  BY <1>1, <1>2, <1>3, RowFacts DEF TypeOK
<1>5. aj[k] \in Columns /\ a[k] \in Int
  BY <1>4 DEF TypeOK
<1>6. wa[aj[k]] \in Slots
  BY <1>1, <1>5 DEF TypeOK
<1>7. wa[aj[k]] < cur_elem
  BY <1>1, <1>5, <1>6 DEF MarkInv, InRow
<1>8. TypeOK'
  <2>1. a[wa[aj[k]]] + a[k] \in Int
    BY <1>5, <1>6 DEF TypeOK
  <2>2. a' \in [Slots -> Int]
    BY <1>1, <1>6, <2>1 DEF TypeOK
  <2>3. k + 1 \in 0 .. loaded.nnz
    BY <1>4, RowFacts
  <2> QED
    BY <1>1, <2>2, <2>3, SameSets DEF TypeOK
<1>9. LoopInv'
  BY <1>1, <1>2, RowFacts DEF LoopInv, InRow, TypeOK
<1>10. AheadInv'
  <2>1. \A s \in Slots : s >= k + 1 => a'[s] = a[s]
    BY <1>1, <1>3, <1>7, RowFacts DEF TypeOK
  <2> QED
    BY <1>1, <1>3, <2>1, RowFacts, SameSets DEF AheadInv, Packing, NextRead
<1>11. MarkInv'
  BY <1>1, SameSets DEF MarkInv, InRow
<1>12. RowsInv' /\ SortInv'
  BY <1>1, SameSets DEF RowsInv, SortInv, Packing, InRow, PackedEnd, Distinct
<1> QED
  BY <1>8, <1>9, <1>10, <1>11, <1>12

\* The row is packed: its columns are taken back from its first slot on.  Its
\* marks, one per column, show its columns to be different.
LEMMA RowPackedStep == PackInv /\ RowPacked => PackInv'
<1> SUFFICES ASSUME PackInv, RowPacked PROVE PackInv'
  OBVIOUS
<1> USE DEF PackInv
<1>1. /\ pc = "element" /\ pc' = "reset" /\ k = pos_end /\ k' = ai[ri]
      /\ UNCHANGED <<loaded, ai, aj, a, wa, ri, pos_end, cur_elem>>
  BY DEF RowPacked, ResetFrom
<1>2. ai[ri] \in Nat /\ ai[ri] <= cur_elem
  BY <1>1, RowFacts DEF LoopInv, InRow
<1>3. TypeOK'
  <2>1. ai[ri] \in 0 .. loaded.nnz
    BY <1>2, RowFacts
  <2> QED
    BY <1>1, <2>1, SameSets DEF TypeOK
<1>4. LoopInv'
  BY <1>1, <1>2 DEF LoopInv, InRow
<1>5. AheadInv'
  BY <1>1, SameSets DEF AheadInv, Packing, NextRead
<1>6. MarkInv'
  BY <1>1, SameSets DEF MarkInv, InRow
<1>7. RowsInv'
  <2>1. Distinct(ai[ri], cur_elem)
    BY <1>1 DEF MarkInv, InRow, Distinct, TypeOK
  <2>2. \A r \in 0 .. (ri - 1) : PackedEnd(r)' = PackedEnd(r)
    BY <1>1 DEF PackedEnd
  <2> QED
    BY <1>1, <2>1, <2>2, SameSets DEF RowsInv, Packing, InRow, Distinct
<1>8. SortInv'
  BY <1>1 DEF SortInv
<1> QED
  BY <1>3, <1>4, <1>5, <1>6, <1>7, <1>8

\* No other slot of the row has the column taken back.
LEMMA ResetColumnStep == PackInv /\ ResetColumn => PackInv'
<1> SUFFICES ASSUME PackInv, ResetColumn PROVE PackInv'
  OBVIOUS
<1> USE DEF PackInv
<1>1. /\ pc = "reset" /\ pc' = "reset" /\ k < cur_elem /\ k' = k + 1
      /\ wa' = [wa EXCEPT ![aj[k]] = Unused]
      /\ UNCHANGED <<loaded, ai, aj, a, ri, pos_end, cur_elem>>
  BY DEF ResetColumn
<1>2. k \in Slots
  BY <1>1, RowFacts DEF TypeOK
<1>3. aj[k] \in Columns
  BY <1>2 DEF TypeOK
<1>4. TypeOK'
  <2>1. wa' \in [Columns -> {Unused} \cup Slots]
    BY <1>1, <1>3 DEF TypeOK
  <2>2. k + 1 \in 0 .. loaded.nnz
    BY <1>2, RowFacts
  <2> QED
    BY <1>1, <2>1, <2>2, SameSets DEF TypeOK
<1>5. LoopInv'
  BY <1>1, RowFacts DEF LoopInv, InRow
<1>6. AheadInv'
  BY <1>1, SameSets DEF AheadInv, Packing, NextRead
<1>7. MarkInv'
  <2>1. SUFFICES ASSUME NEW c \in Columns, NEW s \in Slots
                 PROVE  wa'[c] = s <=> (k + 1 <= s /\ s < cur_elem /\ aj[s] = c)
    BY <1>1, SameSets DEF MarkInv, InRow
  <2>2. \A d \in Columns, t \in Slots :
            wa[d] = t <=> (k <= t /\ t < cur_elem /\ aj[t] = d)
    BY <1>1 DEF MarkInv, InRow
  <2>3. wa'[c] = IF c = aj[k] THEN Unused ELSE wa[c]
    BY <1>1, <1>3 DEF TypeOK
  <2>4. wa[aj[k]] = k
    BY <1>1, <1>2, <1>3, <2>2, RowFacts
  <2>5. CASE c = aj[k]
    <3>1. (k <= s /\ s < cur_elem /\ aj[s] = c) => s = k
      BY <2>2, <2>4, <2>5
    <3>2. wa'[c] # s
      BY <2>3, <2>5, RowFacts
    <3> QED
      BY <1>2, <3>1, <3>2, RowFacts
  <2>6. CASE c # aj[k]
    <3>1. wa'[c] = wa[c] /\ (aj[s] = c => s # k)
      BY <2>3, <2>6
    <3> QED
      BY <1>2, <2>2, <3>1, RowFacts
  <2> QED
    BY <2>5, <2>6
<1>8. RowsInv' /\ SortInv'
  BY <1>1, SameSets DEF RowsInv, SortInv, Packing, InRow, PackedEnd, Distinct
<1> QED
  BY <1>4, <1>5, <1>6, <1>7, <1>8

\* The work array is clear, and the packed row joins those before it.
LEMMA RowResetStep == PackInv /\ RowReset => PackInv'
<1> SUFFICES ASSUME PackInv, RowReset PROVE PackInv'
  OBVIOUS
<1> USE DEF PackInv
<1>1. /\ pc = "reset" /\ pc' = "row" /\ k >= cur_elem /\ ri' = ri + 1
      /\ UNCHANGED <<loaded, ai, aj, a, wa, k, pos_end, cur_elem>>
  BY DEF RowReset
<1>2. ri < loaded.nrows /\ pos_end = loaded.ai[ri + 1]
  BY <1>1 DEF LoopInv, InRow
<1>3. TypeOK'
  <2>1. ri + 1 \in 0 .. loaded.nrows
    BY <1>2, RowFacts
  <2> QED
    BY <1>1, <2>1, SameSets DEF TypeOK
<1>4. LoopInv'
  BY <1>1 DEF LoopInv, InRow
<1>5. AheadInv'
  <2>1. ai[ri + 1] = loaded.ai[ri + 1]
    BY <1>1, <1>2, RowFacts DEF AheadInv, Packing
  <2>2. \A r \in (ri + 2) .. loaded.nrows : r \in (ri + 1) .. loaded.nrows
    BY RowFacts
  <2> QED
    BY <1>1, <1>2, <2>1, <2>2, RowFacts, SameSets DEF AheadInv, Packing, NextRead
<1>6. MarkInv'
  <2>1. ASSUME NEW c \in Columns PROVE wa[c] = Unused
    <3>1. \A s \in Slots : wa[c] # s
      BY <1>1, RowFacts DEF MarkInv, InRow
    <3> QED
      BY <3>1 DEF TypeOK
  <2> QED
    BY <1>1, <2>1, SameSets DEF MarkInv, InRow
<1>7. RowsInv'
  <2>1. /\ \A r \in 0 .. ri : ai[r] <= cur_elem
        /\ \A q, r \in 0 .. ri : q <= r => ai[q] <= ai[r]
        /\ \A r \in 0 .. (ri - 1) : Distinct(ai[r], ai[r + 1])
        /\ Distinct(ai[ri], cur_elem)
    BY <1>1 DEF RowsInv, Packing, InRow, PackedEnd
  <2>2. ASSUME NEW r \in 0 .. ri PROVE Distinct(ai[r], PackedEnd(r))'
    <3>1. CASE r = ri
      <4>1. PackedEnd(r)' = cur_elem
        BY <1>1, <3>1 DEF PackedEnd
      <4> QED
        BY <1>1, <2>1, <3>1, <4>1, SameSets DEF Distinct
    <3>2. CASE r # ri
      <4>1. PackedEnd(r)' = ai[r + 1] /\ r \in 0 .. (ri - 1)
        BY <1>1, <3>2, RowFacts DEF PackedEnd
      <4> QED
        BY <1>1, <2>1, <4>1, SameSets DEF Distinct
    <3> QED
      BY <3>1, <3>2
  <2>3. \A r \in 0 .. (ri + 1) : (r < ri + 1) => r \in 0 .. ri
    BY RowFacts
  <2>4. \A r \in 0 .. (ri' - 1) : r \in 0 .. ri
    BY <1>1, RowFacts
  <2> QED
    BY <1>1, <2>1, <2>2, <2>3, <2>4, RowFacts DEF RowsInv, Packing, InRow
<1>8. SortInv'
  BY <1>1 DEF SortInv
<1> QED
  BY <1>3, <1>4, <1>5, <1>6, <1>7, <1>8

\* The end of the last row is written, and sorting begins.
LEMMA AllPackedStep == PackInv /\ AllPacked => PackInv'
<1> SUFFICES ASSUME PackInv, AllPacked PROVE PackInv'
  OBVIOUS
<1> USE DEF PackInv
<1>1. /\ pc = "row" /\ pc' = "sort" /\ ri = loaded.nrows /\ ri' = 0
      /\ ai' = [ai EXCEPT ![ri] = cur_elem]
      /\ UNCHANGED <<loaded, aj, a, wa, k, pos_end, cur_elem>>
  BY DEF AllPacked
<1>2. \A r \in 0 .. loaded.nrows : ai'[r] = IF r = ri THEN cur_elem ELSE ai[r]
  BY <1>1 DEF TypeOK
<1>3. TypeOK'
  <2>1. ai' \in [0 .. loaded.nrows -> Nat] /\ ri' \in 0 .. loaded.nrows
    BY <1>1, RowFacts DEF TypeOK
  <2> QED
    BY <1>1, <2>1, SameSets DEF TypeOK
<1>4. LoopInv' /\ AheadInv' /\ MarkInv' /\ RowsInv'
  BY <1>1 DEF LoopInv, AheadInv, MarkInv, RowsInv, Packing, InRow
<1>5. SortInv'
  <2>1. /\ \A r \in 0 .. (loaded.nrows - 1) : ai[r] <= cur_elem
        /\ \A q, r \in 0 .. (loaded.nrows - 1) : q <= r => ai[q] <= ai[r]
        /\ \A r \in 0 .. (loaded.nrows - 1) : Distinct(ai[r], PackedEnd(r))
    BY <1>1, RowFacts DEF RowsInv, Packing, InRow
  <2>2. \A r \in 0 .. loaded.nrows : ai'[r] <= loaded.nnz
    BY <1>1, <1>2, <2>1, RowFacts
  <2>3. ASSUME NEW q \in 0 .. loaded.nrows, NEW r \in 0 .. loaded.nrows, q <= r
        PROVE  ai'[q] <= ai'[r]
    <3>1. CASE r = ri
      <4>1. ai'[r] = cur_elem
        BY <1>2, <3>1
      <4>2. q # ri => q \in 0 .. (loaded.nrows - 1)
        BY <1>1, RowFacts
      <4> QED
        BY <1>2, <2>1, <4>1, <4>2, RowFacts
    <3>2. CASE r # ri
      <4>1. q \in 0 .. (loaded.nrows - 1) /\ r \in 0 .. (loaded.nrows - 1) /\ q # ri
        BY <1>1, <2>3, <3>2, RowFacts
      <4>2. ai'[q] = ai[q] /\ ai'[r] = ai[r]
        BY <1>2, <3>2, <4>1
      <4> QED
        BY <2>1, <2>3, <4>1, <4>2
    <3> QED
      BY <3>1, <3>2
  <2>4. ASSUME NEW r \in Rows, NEW s \in RowSlots(r)', NEW t \in RowSlots(r)', aj[s] = aj[t]
        PROVE  s = t
    <3>1. r \in 0 .. (loaded.nrows - 1) /\ r \in Nat /\ r + 1 \in 0 .. loaded.nrows
      BY RowFacts DEF Rows
    <3>2. ai'[r] = ai[r] /\ ai'[r + 1] = PackedEnd(r)
      BY <1>1, <1>2, <3>1, RowFacts DEF PackedEnd
    <3>3. ai'[r + 1] \in Nat /\ ai'[r + 1] <= loaded.nnz /\ ai[r] \in Nat
      <4>1. \A q \in 0 .. loaded.nrows : ai'[q] \in Nat
        BY <1>2, RowFacts
      <4>2. r \in 0 .. loaded.nrows
        BY <3>1, RowFacts
      <4> QED
        BY <2>2, <3>1, <4>1, <4>2, RowFacts
    <3>4. s \in ai[r] .. (PackedEnd(r) - 1) /\ t \in ai[r] .. (PackedEnd(r) - 1)
      BY <3>2 DEF RowSlots
    <3>5. /\ s \in Slots /\ t \in Slots
          /\ ai[r] <= s /\ s < PackedEnd(r) /\ ai[r] <= t /\ t < PackedEnd(r)
      BY <3>2, <3>3, <3>4, RowFacts
    <3> QED
      BY <2>1, <2>4, <3>1, <3>5 DEF Distinct
  <2>5. \A r \in 0 .. (ri' - 1) : FALSE
    BY <1>1
  <2> QED
    BY <1>1, <2>2, <2>3, <2>4, <2>5, SameSets DEF SortInv
<1> QED
  BY <1>3, <1>4, <1>5

\* A row's slots are slots, and no slot belongs to two rows.
LEMMA RowsApart ==
    PackInv /\ pc \in {"sort", "done"} =>
        /\ \A r \in Rows : RowSlots(r) \subseteq Slots
        /\ \A q, r \in Rows : q # r => RowSlots(q) \cap RowSlots(r) = {}
<1> SUFFICES ASSUME PackInv, pc \in {"sort", "done"}
             PROVE  /\ \A r \in Rows : RowSlots(r) \subseteq Slots
                    /\ \A q, r \in Rows : q # r => RowSlots(q) \cap RowSlots(r) = {}
  OBVIOUS
<1>1. /\ \A r \in 0 .. loaded.nrows : ai[r] <= loaded.nnz /\ ai[r] \in Nat
      /\ \A q, r \in 0 .. loaded.nrows : q <= r => ai[q] <= ai[r]
  BY RowFacts DEF PackInv, SortInv
<1>2. \A r \in Rows : r \in Nat /\ r \in 0 .. loaded.nrows /\ r + 1 \in 0 .. loaded.nrows
  BY RowFacts DEF Rows, PackInv
<1>3. \A r \in Rows : RowSlots(r) \subseteq Slots
  BY <1>1, <1>2, RowFacts DEF RowSlots, PackInv
<1>4. ASSUME NEW q \in Rows, NEW r \in Rows, q < r
      PROVE  RowSlots(q) \cap RowSlots(r) = {}
  <2>1. ai[q + 1] <= ai[r]
    BY <1>1, <1>2, <1>4
  <2> QED
    BY <1>1, <1>2, <2>1 DEF RowSlots
<1> QED
  BY <1>2, <1>3, <1>4

\* Sorting moves the entries of one row among its own slots; as no column is
\* twice in it, its columns then increase.
LEMMA SortRowStep == PackInv /\ SortRow => PackInv'
<1> SUFFICES ASSUME PackInv, SortRow PROVE PackInv'
  OBVIOUS
<1> USE DEF PackInv
<1>1. /\ pc = "sort" /\ pc' = "sort" /\ ri < loaded.nrows /\ ri' = ri + 1
      /\ UNCHANGED <<loaded, ai, wa, k, pos_end, cur_elem>>
  BY DEF SortRow
<1>2. PICK p \in Orders(RowSlots(ri), aj) : aj' = Permuted(aj, p) /\ a' = Permuted(a, p)
  BY DEF SortRow, ValuesMoved
<1>3. ri \in Rows
  BY <1>1, RowFacts DEF Rows
<1>4. RowSlots(ri) \subseteq Slots
  BY <1>1, <1>3, RowsApart
<1>5. /\ p \in [RowSlots(ri) -> RowSlots(ri)]
      /\ \A s, t \in RowSlots(ri) : p[s] = p[t] => s = t
      /\ \A s, t \in RowSlots(ri) : s < t => aj[p[s]] <= aj[p[t]]
  BY <1>2 DEF Orders
<1>6. \A s \in RowSlots(ri) : p[s] \in RowSlots(ri) /\ p[s] \in Slots
  BY <1>4, <1>5
<1>7. aj' = [s \in Slots |-> IF s \in RowSlots(ri) THEN aj[p[s]] ELSE aj[s]]
  BY <1>2, <1>5 DEF Permuted, TypeOK
<1>8. a' = [s \in Slots |-> IF s \in RowSlots(ri) THEN a[p[s]] ELSE a[s]]
  BY <1>2, <1>5 DEF Permuted, TypeOK
<1>9. TypeOK'
  <2>1. aj' \in [Slots -> Columns]
    BY <1>6, <1>7 DEF TypeOK
  <2>2. a' \in [Slots -> Int]
    BY <1>6, <1>8 DEF TypeOK
  <2>3. ri + 1 \in 0 .. loaded.nrows
    BY <1>1, RowFacts
  <2> QED
    BY <1>1, <2>1, <2>2, <2>3, SameSets DEF TypeOK
<1>10. LoopInv' /\ AheadInv' /\ MarkInv' /\ RowsInv'
  BY <1>1 DEF LoopInv, AheadInv, MarkInv, RowsInv, Packing, InRow
<1>11. SortInv'
  <2>1. \A r \in Rows : RowSlots(r)' = RowSlots(r)
    BY <1>1 DEF RowSlots
  <2>2. \A s \in RowSlots(ri) : aj'[s] = aj[p[s]]
    BY <1>4, <1>7
  <2>3. \A r \in Rows : r # ri => \A s \in RowSlots(r) : aj'[s] = aj[s]
    BY <1>1, <1>3, <1>7, RowsApart
  <2>4. \A r \in Rows : \A s, t \in RowSlots(r) : aj[s] = aj[t] => s = t
    BY <1>1 DEF SortInv
  <2>5. ASSUME NEW r \in Rows, NEW s \in RowSlots(r), NEW t \in RowSlots(r), aj'[s] = aj'[t]
        PROVE  s = t
    <3>1. CASE r = ri
      BY <1>3, <1>5, <1>6, <2>2, <2>4, <2>5, <3>1
    <3>2. CASE r # ri
      BY <2>3, <2>4, <2>5, <3>2
    <3> QED
      BY <3>1, <3>2
  <2>6. ASSUME NEW r \in 0 .. ri, NEW s \in RowSlots(r), NEW t \in RowSlots(r), s < t
        PROVE  aj'[s] < aj'[t]
    <3>1. CASE r = ri
      <4>1. s \in RowSlots(ri) /\ t \in RowSlots(ri)
        BY <3>1
      <4>2. s \in Int /\ t \in Int
        BY <1>4, <4>1, RowFacts
      <4>3. s # t
        BY <2>6, <4>2
      <4>4. aj[p[s]] # aj[p[t]]
        BY <1>3, <1>5, <1>6, <2>4, <4>1, <4>3
      <4>5. aj[p[s]] <= aj[p[t]]
        BY <1>5, <2>6, <4>1
      <4>6. aj[p[s]] \in Columns /\ aj[p[t]] \in Columns
        BY <1>6, <4>1 DEF TypeOK
      <4>7. aj[p[s]] \in Int /\ aj[p[t]] \in Int
        BY <4>6 DEF Columns
      <4>8. aj'[s] = aj[p[s]] /\ aj'[t] = aj[p[t]]
        BY <2>2, <4>1
      <4> QED
        BY <4>4, <4>5, <4>7, <4>8
    <3>2. CASE r # ri
      <4>1. r \in 0 .. (ri - 1) /\ r \in Rows
        BY <1>1, <3>2, RowFacts DEF Rows
      <4>2. aj'[s] = aj[s] /\ aj'[t] = aj[t]
        BY <2>3, <3>2, <4>1
      <4> QED
        BY <1>1, <2>6, <4>1, <4>2 DEF SortInv
    <3> QED
      BY <3>1, <3>2
  <2>7. \A r \in 0 .. (ri' - 1) : r \in 0 .. ri /\ r \in Rows
    BY <1>1, RowFacts DEF Rows
  <2>8. /\ \A r \in 0 .. loaded.nrows : ai[r] <= loaded.nnz
        /\ \A q, r \in 0 .. loaded.nrows : q <= r => ai[q] <= ai[r]
    BY <1>1 DEF SortInv
  <2> QED
    BY <1>1, <2>1, <2>5, <2>6, <2>7, <2>8, SameSets DEF SortInv
<1> QED
  BY <1>9, <1>10, <1>11

LEMMA AllSortedStep == PackInv /\ AllSorted => PackInv'
<1> SUFFICES ASSUME PackInv, AllSorted PROVE PackInv'
  OBVIOUS
<1> USE DEF PackInv
<1>1. /\ pc = "sort" /\ pc' = "done" /\ ri = loaded.nrows
      /\ UNCHANGED <<loaded, ai, aj, a, wa, ri, k, pos_end, cur_elem>>
  BY DEF AllSorted
<1>2. TypeOK'
  BY <1>1, SameSets DEF TypeOK
<1>3. LoopInv' /\ AheadInv' /\ MarkInv' /\ RowsInv'
  BY <1>1 DEF LoopInv, AheadInv, MarkInv, RowsInv, Packing, InRow
<1>4. SortInv'
  BY <1>1, SameSets DEF SortInv, RowSlots
<1> QED
  BY <1>2, <1>3, <1>4

LEMMA StutterStep == PackInv /\ UNCHANGED vars => PackInv'
<1> SUFFICES ASSUME PackInv, UNCHANGED vars PROVE PackInv'
  OBVIOUS
<1> USE DEF PackInv, vars
<1>1. TypeOK' /\ LoopInv' /\ MarkInv'
  BY SameSets DEF TypeOK, LoopInv, MarkInv, InRow
<1>2. AheadInv' /\ RowsInv' /\ SortInv'
  BY SameSets DEF AheadInv, RowsInv, SortInv, Packing, InRow, NextRead, PackedEnd,
     Distinct, RowSlots
<1> QED
  BY <1>1, <1>2

LEMMA PackInvStep == PackInv /\ [Next]_vars => PackInv'
  BY StartRowStep, NewElementStep, DuplicateElementStep, RowPackedStep, ResetColumnStep,
     RowResetStep, AllPackedStep, SortRowStep, AllSortedStep, StutterStep DEF Next

----------------------------------------------------------------------------
\* Sums over the entries of a position.

LEMMA ShapeOf ==
    ASSUME NEW m \in Matrices
    PROVE  /\ m.nrows \in Nat \ {0} /\ m.ncols \in Nat /\ m.nnz \in Nat
           /\ \A r \in 0 .. m.nrows : m.ai[r] \in Nat /\ m.ai[r] <= m.nnz
           /\ \A r \in 0 .. (m.nrows - 1) : m.ai[r] <= m.ai[r + 1]
           /\ \A s \in 0 .. (m.nnz - 1) : m.aj[s] \in 0 .. (m.ncols - 1) /\ m.a[s] \in Int
<1>1. /\ m.nrows \in Nat \ {0} /\ m.ncols \in Nat /\ m.nnz \in Nat
      /\ m.ai \in [0 .. m.nrows -> 0 .. m.nnz]
      /\ \A r \in 0 .. (m.nrows - 1) : m.ai[r] <= m.ai[r + 1]
      /\ m.aj \in [0 .. (m.nnz - 1) -> 0 .. (m.ncols - 1)]
      /\ m.a \in [0 .. (m.nnz - 1) -> Int]
  BY MatricesAssumption
<1>2. \A r \in 0 .. m.nrows : m.ai[r] \in 0 .. m.nnz
  BY <1>1
<1>3. QED
  BY <1>1, <1>2

LEMMA ValuesType ==
    ASSUME NEW m \in Matrices, NEW r, NEW c
    PROVE  \A s \in 0 .. (m.nnz - 1) :
              /\ ValuesAt(m, r, c)[s] = IF IsEntry(m, r, c, s) THEN m.a[s] ELSE 0
              /\ ValuesAt(m, r, c)[s] \in Int
BY ShapeOf DEF ValuesAt

LEMMA TotalStep ==
    ASSUME NEW m \in Matrices, NEW r, NEW c, NEW at \in 0 .. (m.nnz - 1)
    PROVE  /\ SumTo(ValuesAt(m, r, c), at) \in Int
           /\ SumTo(ValuesAt(m, r, c), at + 1) =
                 SumTo(ValuesAt(m, r, c), at) + (IF IsEntry(m, r, c, at) THEN m.a[at] ELSE 0)
<1> DEFINE f == ValuesAt(m, r, c)
<1>1. /\ m.nnz \in Nat /\ at \in Nat
      /\ \A s \in 0 .. (m.nnz - 1) : f[s] \in Int
      /\ f[at] = IF IsEntry(m, r, c, at) THEN m.a[at] ELSE 0
  BY ShapeOf, ValuesType
<1> HIDE DEF f
<1>2. \A s \in 0 .. at - 1 : f[s] \in Int
  BY <1>1
<1>3. SumTo(f, at) \in Int
  BY <1>1, <1>2, SumToInt
<1>4. SumTo(f, at + 1) = SumTo(f, at) + f[at]
  BY <1>1, SumToStep
<1>5. QED
  BY <1>1, <1>3, <1>4 DEF f

\* The entries from m on are of other positions.
LEMMA TotalRest ==
    ASSUME NEW m \in Matrices, NEW r, NEW c, NEW at \in 0 .. m.nnz, NEW n \in at .. m.nnz,
           \A s \in at .. (n - 1) : ~IsEntry(m, r, c, s)
    PROVE  SumTo(ValuesAt(m, r, c), n) = SumTo(ValuesAt(m, r, c), at)
<1> DEFINE f == ValuesAt(m, r, c)
<1>1. /\ m.nnz \in Nat /\ at \in Nat /\ n \in Nat /\ at <= n /\ n <= m.nnz
      /\ \A s \in 0 .. (m.nnz - 1) : f[s] \in Int
      /\ \A s \in 0 .. (m.nnz - 1) : ~IsEntry(m, r, c, s) => f[s] = 0
  BY ShapeOf, ValuesType
<1> HIDE DEF f
<1>2. /\ \A s \in 0 .. n - 1 : f[s] \in Int
      /\ \A s \in at .. n - 1 : f[s] = 0
  BY <1>1
<1>3. SumTo(f, n) = SumTo(f, at)
  BY <1>1, <1>2, SumToZeros
<1>4. QED
  BY <1>3 DEF f

LEMMA TotalOfNone ==
    ASSUME NEW m \in Matrices, NEW r, NEW c, NEW n \in 0 .. m.nnz,
           \A s \in 0 .. (n - 1) : ~IsEntry(m, r, c, s)
    PROVE  SumTo(ValuesAt(m, r, c), n) = 0
<1>1. 0 \in 0 .. m.nnz /\ n \in 0 .. m.nnz
  BY ShapeOf
<1>2. SumTo(ValuesAt(m, r, c), n) = SumTo(ValuesAt(m, r, c), 0)
  BY <1>1, TotalRest
<1>3. SumTo(ValuesAt(m, r, c), 0) = 0
  <2>1. 0 \in Nat
    OBVIOUS
  <2>2. QED
    BY <2>1, SumToStep
<1>4. QED
  BY <1>2, <1>3

LEMMA GatheredKept ==
    ASSUME NEW m, NEW columns, NEW values, NEW columns2, NEW values2,
           NEW r, NEW first, NEW end, NEW n,
           Gathered(m, columns, values, r, first, end, n),
           \A s \in first .. (end - 1) : columns2[s] = columns[s] /\ values2[s] = values[s]
    PROVE  Gathered(m, columns2, values2, r, first, end, n)
BY DEF Gathered

\* Nothing is gathered of a row before its first entry.
LEMMA GatheredNone ==
    ASSUME NEW m \in Matrices, NEW columns, NEW values,
           NEW r \in 0 .. (m.nrows - 1), NEW first \in Nat
    PROVE  Gathered(m, columns, values, r, first, first, m.ai[r])
<1>1. m.ai[r] \in Nat
  BY ShapeOf
<1>2. /\ \A s : s \notin first .. (first - 1)
      /\ \A c, s : s \in 0 .. (m.ai[r] - 1) => ~IsEntry(m, r, c, s)
  BY <1>1 DEF IsEntry
<1>3. QED
  BY <1>2 DEF Gathered

\* The next entry takes a slot of its own.
LEMMA GatheredNew ==
    ASSUME NEW m \in Matrices, NEW columns, NEW values, NEW columns2, NEW values2,
           NEW r \in 0 .. (m.nrows - 1), NEW first \in Nat, NEW end \in Nat, first <= end,
           NEW at \in m.ai[r] .. (m.ai[r + 1] - 1),
           Gathered(m, columns, values, r, first, end, at),
           \A s \in first .. (end - 1) :
               /\ columns[s] # m.aj[at]
               /\ columns2[s] = columns[s] /\ values2[s] = values[s],
           columns2[end] = m.aj[at] /\ values2[end] = m.a[at],
           NEW next, next = end + 1, NEW n, n = at + 1
    PROVE  Gathered(m, columns2, values2, r, first, next, n)
<1> DEFINE c == m.aj[at]
<1>1. at \in 0 .. (m.nnz - 1) /\ at \in Nat /\ m.nnz \in Nat /\ c \in 0 .. (m.ncols - 1)
  <2>1. /\ r \in 0 .. m.nrows /\ r + 1 \in 0 .. m.nrows /\ m.nnz \in Nat
    BY ShapeOf
  <2>2. m.ai[r] \in Nat /\ m.ai[r + 1] \in Nat /\ m.ai[r + 1] <= m.nnz
    BY <2>1, ShapeOf
  <2>3. at \in 0 .. (m.nnz - 1) /\ at \in Nat
    BY <2>1, <2>2
  <2>4. QED
    BY <2>1, <2>3, ShapeOf
<1>2. \A d : IsEntry(m, r, d, at) <=> d = c
  <2>1. m.ai[r] <= at /\ at < m.ai[r + 1]
    <3>1. m.ai[r] \in Nat /\ m.ai[r + 1] \in Nat
      BY ShapeOf
    <3>2. QED
      BY <3>1
  <2>2. QED
    BY <2>1 DEF IsEntry
<1> HIDE DEF c
<1>3. /\ \A s \in first .. (end - 1) : values[s] = SumTo(ValuesAt(m, r, columns[s]), at)
      /\ \A d \in 0 .. (m.ncols - 1) :
            (\E s \in first .. (end - 1) : columns[s] = d)
              <=> (\E s \in 0 .. (at - 1) : IsEntry(m, r, d, s))
  BY DEF Gathered
<1>4. /\ \A s : s \in first .. (next - 1) <=> (s \in first .. (end - 1) \/ s = end)
      /\ \A s : s \in 0 .. (n - 1) <=> (s \in 0 .. (at - 1) \/ s = at)
  BY <1>1
<1>5. ASSUME NEW d, d # c
      PROVE  SumTo(ValuesAt(m, r, d), n) = SumTo(ValuesAt(m, r, d), at)
  BY <1>1, <1>2, <1>5, TotalStep
<1>6. SumTo(ValuesAt(m, r, c), n) = m.a[at]
  <2>1. \A s \in 0 .. (at - 1) : ~IsEntry(m, r, c, s)
    BY <1>1, <1>3 DEF c
  <2>2. at \in 0 .. m.nnz
    BY <1>1
  <2>3. SumTo(ValuesAt(m, r, c), at) = 0
    BY <2>1, <2>2, TotalOfNone
  <2>4. SumTo(ValuesAt(m, r, c), n) = SumTo(ValuesAt(m, r, c), at) + m.a[at]
    BY <1>1, <1>2, TotalStep
  <2>5. m.a[at] \in Int
    BY <1>1, ShapeOf
  <2>6. QED
    BY <2>3, <2>4, <2>5
<1>7. ASSUME NEW s \in first .. (next - 1)
      PROVE  values2[s] = SumTo(ValuesAt(m, r, columns2[s]), n)
  <2>1. CASE s = end
    BY <1>6, <2>1 DEF c
  <2>2. CASE s \in first .. (end - 1)
    BY <1>3, <1>5, <2>2 DEF c
  <2>3. QED
    BY <1>4, <2>1, <2>2
<1>8. ASSUME NEW d \in 0 .. (m.ncols - 1)
      PROVE  (\E s \in first .. (next - 1) : columns2[s] = d)
               <=> (\E s \in 0 .. (n - 1) : IsEntry(m, r, d, s))
  <2>1. (\E s \in first .. (next - 1) : columns2[s] = d)
          <=> (d = c \/ \E s \in first .. (end - 1) : columns[s] = d)
    <3>1. columns2[end] = c
      BY DEF c
    <3>2. \A s \in first .. (end - 1) : columns2[s] = columns[s]
      OBVIOUS
    <3>3. QED
      BY <1>4, <3>1, <3>2, Zenon
  <2>2. (\E s \in 0 .. (n - 1) : IsEntry(m, r, d, s))
          <=> (d = c \/ \E s \in 0 .. (at - 1) : IsEntry(m, r, d, s))
    BY <1>2, <1>4, Zenon
  <2>3. QED
    BY <1>3, <2>1, <2>2
<1>9. QED
  BY <1>7, <1>8 DEF Gathered

\* The next entry is added to the slot its column has.
LEMMA GatheredAdded ==
    ASSUME NEW m \in Matrices, NEW columns, NEW values, NEW values2,
           NEW r \in 0 .. (m.nrows - 1), NEW first \in Nat, NEW end \in Nat,
           NEW at \in m.ai[r] .. (m.ai[r + 1] - 1),
           Gathered(m, columns, values, r, first, end, at),
           NEW q \in first .. (end - 1), columns[q] = m.aj[at],
           values2[q] = values[q] + m.a[at],
           \A s \in first .. (end - 1) :
               s # q => columns[s] # m.aj[at] /\ values2[s] = values[s],
           NEW n, n = at + 1
    PROVE  Gathered(m, columns, values2, r, first, end, n)
<1> DEFINE c == m.aj[at]
<1>1. at \in 0 .. (m.nnz - 1) /\ at \in Nat /\ m.nnz \in Nat /\ c \in 0 .. (m.ncols - 1)
  <2>1. /\ r \in 0 .. m.nrows /\ r + 1 \in 0 .. m.nrows /\ m.nnz \in Nat
    BY ShapeOf
  <2>2. m.ai[r] \in Nat /\ m.ai[r + 1] \in Nat /\ m.ai[r + 1] <= m.nnz
    BY <2>1, ShapeOf
  <2>3. at \in 0 .. (m.nnz - 1) /\ at \in Nat
    BY <2>1, <2>2
  <2>4. QED
    BY <2>1, <2>3, ShapeOf
<1>2. \A d : IsEntry(m, r, d, at) <=> d = c
  <2>1. m.ai[r] <= at /\ at < m.ai[r + 1]
    <3>1. m.ai[r] \in Nat /\ m.ai[r + 1] \in Nat
      BY ShapeOf
    <3>2. QED
      BY <3>1
  <2>2. QED
    BY <2>1 DEF IsEntry
<1>0. columns[q] = c
  OBVIOUS
<1> HIDE DEF c
<1>3. /\ \A s \in first .. (end - 1) : values[s] = SumTo(ValuesAt(m, r, columns[s]), at)
      /\ \A d \in 0 .. (m.ncols - 1) :
            (\E s \in first .. (end - 1) : columns[s] = d)
              <=> (\E s \in 0 .. (at - 1) : IsEntry(m, r, d, s))
  BY DEF Gathered
<1>4. \A s : s \in 0 .. (n - 1) <=> (s \in 0 .. (at - 1) \/ s = at)
  BY <1>1
<1>5. ASSUME NEW d, d # c
      PROVE  SumTo(ValuesAt(m, r, d), n) = SumTo(ValuesAt(m, r, d), at)
  BY <1>1, <1>2, <1>5, TotalStep
<1>6. SumTo(ValuesAt(m, r, c), n) = SumTo(ValuesAt(m, r, c), at) + m.a[at]
  BY <1>1, <1>2, TotalStep
<1>7. ASSUME NEW s \in first .. (end - 1)
      PROVE  values2[s] = SumTo(ValuesAt(m, r, columns[s]), n)
  <2>1. CASE s = q
    BY <1>0, <1>3, <1>6, <2>1
  <2>2. CASE s # q
    BY <1>3, <1>5, <2>2 DEF c
  <2>3. QED
    BY <2>1, <2>2
<1>8. ASSUME NEW d \in 0 .. (m.ncols - 1)
      PROVE  (\E s \in first .. (end - 1) : columns[s] = d)
               <=> (\E s \in 0 .. (n - 1) : IsEntry(m, r, d, s))
  <2>1. d = c => \E s \in first .. (end - 1) : columns[s] = d
    BY <1>0
  <2>2. (\E s \in 0 .. (n - 1) : IsEntry(m, r, d, s))
          <=> (d = c \/ \E s \in 0 .. (at - 1) : IsEntry(m, r, d, s))
    BY <1>2, <1>4, Zenon
  <2>3. QED
    BY <1>3, <2>1, <2>2
<1>9. QED
  BY <1>7, <1>8 DEF Gathered

\* A row's slots change places.
LEMMA GatheredMoved ==
    ASSUME NEW m, NEW columns, NEW values, NEW columns2, NEW values2,
           NEW r, NEW first \in Nat, NEW end \in Nat, NEW n,
           Gathered(m, columns, values, r, first, end, n),
           NEW p \in [first .. (end - 1) -> first .. (end - 1)],
           \A s, t \in first .. (end - 1) : p[s] = p[t] => s = t,
           \A s \in first .. (end - 1) :
               columns2[s] = columns[p[s]] /\ values2[s] = values[p[s]]
    PROVE  Gathered(m, columns2, values2, r, first, end, n)
<1> DEFINE S == first .. (end - 1)
<1>1. \A t \in S : \E s \in S : p[s] = t
  <2>1. IsFiniteSet(S)
    BY FS_Interval
  <2>2. QED
    BY <2>1, Onto
<1>2. \A s \in S : p[s] \in S
  OBVIOUS
<1> HIDE DEF S
<1>3. /\ \A s \in S : values[s] = SumTo(ValuesAt(m, r, columns[s]), n)
      /\ \A c \in 0 .. (m.ncols - 1) :
            (\E s \in S : columns[s] = c) <=> (\E s \in 0 .. (n - 1) : IsEntry(m, r, c, s))
  BY Zenon DEF Gathered, S
<1>4. \A s \in S : columns2[s] = columns[p[s]] /\ values2[s] = values[p[s]]
  BY Zenon DEF S
<1>5. ASSUME NEW s \in S PROVE values2[s] = SumTo(ValuesAt(m, r, columns2[s]), n)
  <2> DEFINE t == p[s]
  <2>1. t \in S /\ columns2[s] = columns[t] /\ values2[s] = values[t]
    BY <1>2, <1>4
  <2> HIDE DEF t
  <2>2. values[t] = SumTo(ValuesAt(m, r, columns[t]), n)
    BY <1>3, <2>1
  <2>3. QED
    BY <2>1, <2>2
<1>6. ASSUME NEW c PROVE (\E s \in S : columns2[s] = c) <=> (\E s \in S : columns[s] = c)
  <2>1. ASSUME NEW s \in S, columns2[s] = c PROVE \E t \in S : columns[t] = c
    BY <1>2, <1>4, <2>1
  <2>2. ASSUME NEW t \in S, columns[t] = c PROVE \E s \in S : columns2[s] = c
    <3>1. PICK s \in S : p[s] = t
      BY <1>1
    <3>2. columns2[s] = c
      BY <1>4, <2>2, <3>1
    <3>3. QED
      BY <3>2
  <2>3. QED
    BY <2>1, <2>2
<1>7. QED
  BY <1>3, <1>5, <1>6 DEF Gathered, S

----------------------------------------------------------------------------
\* What the slots have gathered is kept by every step.

LEMMA InitSumInv == Init => SumInv
<1> SUFFICES ASSUME Init PROVE SumInv
  OBVIOUS
<1>1. loaded \in Matrices /\ pc = "row" /\ ri = 0 /\ cur_elem = 0 /\ ai = loaded.ai
  BY DEF Init
<1>2. loaded.ai[0] = 0 /\ \A r : r \notin 0 .. (0 - 1)
  BY <1>1, LoadedFacts
<1>3. QED
  BY <1>1, <1>2 DEF SumInv, Packing, InRow

\* A row's packed slots end where the row being packed, or the next one to pack,
\* begins.
LEMMA PackedEnds ==
    PackInv /\ InRow =>
        /\ loaded \in Matrices /\ ri \in 0 .. (loaded.nrows - 1) /\ ai[ri] \in Nat
        /\ ai[ri] <= cur_elem
        /\ \A r \in 0 .. (ri - 1) :
              /\ PackedEnd(r) = ai[r + 1] /\ ai[r + 1] <= ai[ri]
              /\ ai[r] \in Nat /\ ai[r + 1] \in Nat /\ r \in 0 .. (loaded.nrows - 1)
<1> SUFFICES ASSUME PackInv, InRow
             PROVE  /\ loaded \in Matrices /\ ri \in 0 .. (loaded.nrows - 1) /\ ai[ri] \in Nat
                    /\ ai[ri] <= cur_elem
                    /\ \A r \in 0 .. (ri - 1) :
                          /\ PackedEnd(r) = ai[r + 1] /\ ai[r + 1] <= ai[ri]
                          /\ ai[r] \in Nat /\ ai[r + 1] \in Nat /\ r \in 0 .. (loaded.nrows - 1)
  OBVIOUS
<1>1. loaded \in Matrices /\ ri < loaded.nrows /\ ai[ri] <= cur_elem
  BY DEF PackInv, TypeOK, LoopInv
<1>2. /\ ri \in Nat /\ loaded.nrows \in Nat
      /\ \A r \in 0 .. loaded.nrows : ai[r] \in Nat
  BY RowFacts DEF PackInv
<1>3. \A q, r \in 0 .. ri : q <= r => ai[q] <= ai[r]
  BY DEF PackInv, RowsInv, Packing, InRow
<1>4. ASSUME NEW r \in 0 .. (ri - 1)
      PROVE  /\ PackedEnd(r) = ai[r + 1] /\ ai[r + 1] <= ai[ri]
             /\ ai[r] \in Nat /\ ai[r + 1] \in Nat /\ r \in 0 .. (loaded.nrows - 1)
  <2>1. /\ r + 1 \in 0 .. ri /\ ri \in 0 .. ri /\ r + 1 <= ri
        /\ r \in 0 .. loaded.nrows /\ r + 1 \in 0 .. loaded.nrows
        /\ r \in 0 .. (loaded.nrows - 1)
    BY <1>1, <1>2
  <2>2. PackedEnd(r) = ai[r + 1]
    BY DEF PackedEnd, InRow
  <2>3. QED
    BY <1>2, <1>3, <2>1, <2>2
<1>5. ri \in 0 .. (loaded.nrows - 1) /\ ai[ri] \in Nat
  BY <1>1, <1>2
<1>6. QED
  BY <1>1, <1>4, <1>5

LEMMA StartRowSums == PackInv /\ SumInv /\ StartRow => SumInv'
<1> SUFFICES ASSUME PackInv, SumInv, StartRow PROVE SumInv'
  OBVIOUS
<1>1. /\ pc = "row" /\ pc' = "element" /\ ri < loaded.nrows
      /\ k' = ai[ri] /\ ai' = [ai EXCEPT ![ri] = cur_elem]
      /\ UNCHANGED <<loaded, aj, a, ri, cur_elem>>
  BY DEF StartRow, StartMoved
<1>2. ai[ri] = loaded.ai[ri]
  BY <1>1 DEF PackInv, AheadInv, Packing
<1>3. /\ ri \in 0 .. (loaded.nrows - 1) /\ ri \in Nat /\ cur_elem \in Nat
      /\ loaded.nrows \in Nat /\ loaded \in Matrices /\ loaded.ai[ri] \in Nat
  BY <1>1, RowFacts DEF PackInv, TypeOK
<1>4. \A r \in 0 .. loaded.nrows : ai'[r] = IF r = ri THEN cur_elem ELSE ai[r]
  BY <1>1 DEF PackInv, TypeOK
<1>5. ai'[0] = 0
  BY <1>1, <1>3, <1>4 DEF SumInv
<1>6. ASSUME NEW r \in 0 .. (ri - 1)
      PROVE  Gathered(loaded, aj, a, r, ai'[r], PackedEnd(r)', loaded.ai[r + 1])
  <2>1. ai'[r] = ai[r] /\ PackedEnd(r)' = PackedEnd(r)
    BY <1>1, <1>3, <1>4 DEF PackedEnd
  <2>2. Gathered(loaded, aj, a, r, ai[r], PackedEnd(r), loaded.ai[r + 1])
    BY <1>1 DEF SumInv, Packing
  <2>3. QED
    BY <2>1, <2>2
<1>7. Gathered(loaded, aj, a, ri, ai'[ri], cur_elem, NextRead')
  <2>1. ai'[ri] = cur_elem /\ NextRead' = loaded.ai[ri]
    BY <1>1, <1>2, <1>3, <1>4 DEF NextRead
  <2>2. Gathered(loaded, aj, a, ri, cur_elem, cur_elem, loaded.ai[ri])
    BY <1>3, GatheredNone
  <2>3. QED
    BY <2>1, <2>2
<1>8. loaded.ai[ri] <= k'
  BY <1>1, <1>2, <1>3
<1>9. QED
  BY <1>1, <1>5, <1>6, <1>7, <1>8 DEF SumInv, InRow

\* The entry about to be read is one of the row's, still as it was loaded.
LEMMA EntryRead ==
    PackInv /\ SumInv /\ pc = "element" /\ k < pos_end =>
        /\ k \in loaded.ai[ri] .. (loaded.ai[ri + 1] - 1) /\ k \in Slots
        /\ cur_elem \in Slots /\ cur_elem \in Nat /\ k \in Nat
        /\ aj[k] = loaded.aj[k] /\ a[k] = loaded.a[k] /\ aj[k] \in Columns
        /\ Gathered(loaded, aj, a, ri, ai[ri], cur_elem, k)
<1> SUFFICES ASSUME PackInv, SumInv, pc = "element", k < pos_end
             PROVE  /\ k \in loaded.ai[ri] .. (loaded.ai[ri + 1] - 1) /\ k \in Slots
                    /\ cur_elem \in Slots /\ cur_elem \in Nat /\ k \in Nat
                    /\ aj[k] = loaded.aj[k] /\ a[k] = loaded.a[k] /\ aj[k] \in Columns
                    /\ Gathered(loaded, aj, a, ri, ai[ri], cur_elem, k)
  OBVIOUS
<1>1. pos_end = loaded.ai[ri + 1] /\ ri < loaded.nrows
  BY DEF PackInv, LoopInv, InRow
<1>2. /\ cur_elem <= k
      /\ \A s \in Slots : s >= k => aj[s] = loaded.aj[s] /\ a[s] = loaded.a[s]
  BY DEF PackInv, AheadInv, Packing, NextRead
<1>3. /\ ri \in Nat /\ loaded.nrows \in Nat /\ k \in Nat /\ cur_elem \in Nat
      /\ \A r \in 0 .. loaded.nrows : loaded.ai[r] \in Nat /\ loaded.ai[r] <= loaded.nnz
      /\ \A s \in Int : s \in Slots <=> (0 <= s /\ s < loaded.nnz)
      /\ loaded.nnz \in Nat
  BY RowFacts DEF PackInv
<1>4. /\ loaded.ai[ri] \in Nat /\ loaded.ai[ri + 1] \in Nat
      /\ loaded.ai[ri + 1] <= loaded.nnz
  BY <1>1, <1>3
<1>5. loaded.ai[ri] <= k
  BY DEF SumInv
<1>6. k \in loaded.ai[ri] .. (loaded.ai[ri + 1] - 1) /\ k \in Slots /\ cur_elem \in Slots
  BY <1>1, <1>2, <1>3, <1>4, <1>5
<1>7. aj[k] = loaded.aj[k] /\ a[k] = loaded.a[k] /\ aj[k] \in Columns
  BY <1>2, <1>3, <1>6 DEF PackInv, TypeOK
<1>8. Gathered(loaded, aj, a, ri, ai[ri], cur_elem, k)
  BY DEF SumInv, InRow, NextRead
<1>9. QED
  BY <1>3, <1>6, <1>7, <1>8

LEMMA NewElementSums == PackInv /\ SumInv /\ NewElement => SumInv'
<1> SUFFICES ASSUME PackInv, SumInv, NewElement PROVE SumInv'
  OBVIOUS
<1>1. /\ pc = "element" /\ pc' = "element" /\ k < pos_end /\ wa[aj[k]] = Unused
      /\ aj' = [aj EXCEPT ![cur_elem] = aj[k]] /\ a' = [a EXCEPT ![cur_elem] = a[k]]
      /\ cur_elem' = cur_elem + 1 /\ k' = k + 1
      /\ UNCHANGED <<loaded, ai, ri>>
  BY DEF NewElement
<1>2. /\ k \in loaded.ai[ri] .. (loaded.ai[ri + 1] - 1) /\ k \in Slots
      /\ cur_elem \in Slots /\ cur_elem \in Nat /\ k \in Nat
      /\ aj[k] = loaded.aj[k] /\ a[k] = loaded.a[k] /\ aj[k] \in Columns
      /\ Gathered(loaded, aj, a, ri, ai[ri], cur_elem, k)
  BY <1>1, EntryRead
<1>3. /\ loaded \in Matrices /\ ri \in 0 .. (loaded.nrows - 1) /\ ai[ri] \in Nat
      /\ ai[ri] <= cur_elem
      /\ \A r \in 0 .. (ri - 1) :
            PackedEnd(r) = ai[r + 1] /\ ai[r + 1] <= ai[ri]
            /\ ai[r] \in Nat /\ ai[r + 1] \in Nat
  BY <1>1, PackedEnds DEF InRow
<1>4. /\ \A s \in Slots : s # cur_elem => aj'[s] = aj[s] /\ a'[s] = a[s]
      /\ aj'[cur_elem] = aj[k] /\ a'[cur_elem] = a[k]
  BY <1>1, <1>2 DEF PackInv, TypeOK
<1>5. \A s \in Nat : s < cur_elem => s \in Slots
  BY <1>2, RowFacts DEF PackInv
<1>6. ASSUME NEW s \in ai[ri] .. (cur_elem - 1)
      PROVE  aj[s] # loaded.aj[k] /\ aj'[s] = aj[s] /\ a'[s] = a[s]
  <2>1. s \in Nat /\ s < cur_elem /\ ai[ri] <= s
    BY <1>2, <1>3
  <2>2. s \in Slots /\ s # cur_elem
    BY <1>5, <2>1
  <2>3. aj[s] = aj[k] => wa[aj[k]] = s
    BY <1>1, <1>2, <2>1, <2>2 DEF PackInv, MarkInv, InRow
  <2>4. Unused \notin Slots
    BY RowFacts DEF PackInv
  <2>5. QED
    BY <1>1, <1>2, <1>4, <2>2, <2>3, <2>4
<1>7. Gathered(loaded, aj', a', ri, ai[ri], cur_elem', k')
  <2>1. aj'[cur_elem] = loaded.aj[k] /\ a'[cur_elem] = loaded.a[k]
    BY <1>2, <1>4
  <2>2. cur_elem' = cur_elem + 1 /\ k' = k + 1
    BY <1>1
  <2>3. QED
    BY <1>2, <1>3, <1>6, <2>1, <2>2, GatheredNew, Zenon
<1>8. ASSUME NEW r \in 0 .. (ri - 1)
      PROVE  Gathered(loaded, aj', a', r, ai[r], ai[r + 1], loaded.ai[r + 1])
  <2>1. Gathered(loaded, aj, a, r, ai[r], ai[r + 1], loaded.ai[r + 1])
    BY <1>1, <1>3 DEF SumInv, Packing
  <2>2. \A s \in ai[r] .. (ai[r + 1] - 1) : aj'[s] = aj[s] /\ a'[s] = a[s]
    <3>1. TAKE s \in ai[r] .. (ai[r + 1] - 1)
    <3>2. s \in Nat /\ s < cur_elem
      BY <1>2, <1>3
    <3>3. QED
      BY <1>4, <1>5, <3>2
  <2>3. QED
    BY <2>1, <2>2, GatheredKept
<1>9. /\ ai'[0] = 0 /\ pc' # "row" /\ pc' \notin {"sort", "done"}
      /\ NextRead' = k' /\ loaded.ai[ri] <= k'
      /\ \A r \in 0 .. (ri - 1) : PackedEnd(r)' = ai[r + 1]
  <2>1. loaded.ai[ri] <= k'
    <3>1. loaded.ai[ri] \in Nat
      BY <1>3, RowFacts DEF PackInv
    <3>2. QED
      BY <1>1, <1>2, <3>1
  <2>2. QED
    BY <1>1, <2>1 DEF SumInv, NextRead, PackedEnd
<1>10. QED
  BY <1>1, <1>7, <1>8, <1>9 DEF SumInv

LEMMA DuplicateElementSums == PackInv /\ SumInv /\ DuplicateElement => SumInv'
<1> SUFFICES ASSUME PackInv, SumInv, DuplicateElement PROVE SumInv'
  OBVIOUS
<1> DEFINE q == wa[aj[k]]
<1>1. /\ pc = "element" /\ pc' = "element" /\ k < pos_end /\ q # Unused
      /\ a' = [a EXCEPT ![q] = a[q] + a[k]] /\ k' = k + 1
      /\ UNCHANGED <<loaded, ai, aj, ri, cur_elem>>
  BY DEF DuplicateElement, Added
<1>2. /\ k \in loaded.ai[ri] .. (loaded.ai[ri + 1] - 1) /\ k \in Slots
      /\ cur_elem \in Slots /\ cur_elem \in Nat /\ k \in Nat
      /\ aj[k] = loaded.aj[k] /\ a[k] = loaded.a[k] /\ aj[k] \in Columns
      /\ Gathered(loaded, aj, a, ri, ai[ri], cur_elem, k)
  BY <1>1, EntryRead
<1>3. /\ loaded \in Matrices /\ ri \in 0 .. (loaded.nrows - 1) /\ ai[ri] \in Nat
      /\ \A r \in 0 .. (ri - 1) :
            PackedEnd(r) = ai[r + 1] /\ ai[r + 1] <= ai[ri]
            /\ ai[r] \in Nat /\ ai[r + 1] \in Nat
  BY <1>1, PackedEnds DEF InRow
<1>4. /\ \A c \in Columns, s \in Slots :
            wa[c] = s <=> (ai[ri] <= s /\ s < cur_elem /\ aj[s] = c)
      /\ q \in Slots
  BY <1>1, <1>2 DEF PackInv, MarkInv, InRow, TypeOK
<1>5. ai[ri] <= q /\ q < cur_elem /\ aj[q] = aj[k] /\ q \in Nat
  BY <1>2, <1>4, RowFacts DEF PackInv
<1>6. \A s \in Slots : s # q => a'[s] = a[s]
  BY <1>1, <1>4 DEF PackInv, TypeOK
<1>7. a'[q] = a[q] + loaded.a[k]
  BY <1>1, <1>2, <1>4 DEF PackInv, TypeOK
<1>8. \A s \in Nat : s < cur_elem => s \in Slots
  BY <1>2, RowFacts DEF PackInv
<1>9. ASSUME NEW s \in ai[ri] .. (cur_elem - 1), s # q
      PROVE  aj[s] # loaded.aj[k] /\ a'[s] = a[s]
  <2>1. s \in Nat /\ s < cur_elem /\ ai[ri] <= s
    BY <1>2, <1>3
  <2>2. s \in Slots
    BY <1>8, <2>1
  <2>3. QED
    BY <1>2, <1>4, <1>6, <1>9, <2>1, <2>2
<1> HIDE DEF q
<1>10. Gathered(loaded, aj, a', ri, ai[ri], cur_elem, k')
  <2>1. q \in ai[ri] .. (cur_elem - 1) /\ aj[q] = loaded.aj[k]
    BY <1>2, <1>3, <1>5
  <2>2. k' = k + 1 /\ ai[ri] \in Nat /\ cur_elem \in Nat
    BY <1>1, <1>2, <1>3
  <2>3. QED
    BY <1>2, <1>3, <1>7, <1>9, <2>1, <2>2, GatheredAdded, Zenon
<1>11. ASSUME NEW r \in 0 .. (ri - 1)
      PROVE  Gathered(loaded, aj, a', r, ai[r], ai[r + 1], loaded.ai[r + 1])
  <2>1. Gathered(loaded, aj, a, r, ai[r], ai[r + 1], loaded.ai[r + 1])
    BY <1>1, <1>3 DEF SumInv, Packing
  <2>2. \A s \in ai[r] .. (ai[r + 1] - 1) : aj[s] = aj[s] /\ a'[s] = a[s]
    <3>1. TAKE s \in ai[r] .. (ai[r + 1] - 1)
    <3>2. s \in Nat /\ s < cur_elem /\ s # q
      BY <1>2, <1>3, <1>5
    <3>3. QED
      BY <1>6, <1>8, <3>2
  <2>3. QED
    BY <2>1, <2>2, GatheredKept
<1>12. /\ ai'[0] = 0 /\ pc' # "row" /\ pc' \notin {"sort", "done"}
       /\ NextRead' = k' /\ loaded.ai[ri] <= k'
       /\ \A r \in 0 .. (ri - 1) : PackedEnd(r)' = ai[r + 1]
  <2>1. loaded.ai[ri] <= k'
    <3>1. loaded.ai[ri] \in Nat
      BY <1>3, RowFacts DEF PackInv
    <3>2. QED
      BY <1>1, <1>2, <3>1
  <2>2. QED
    BY <1>1, <2>1 DEF SumInv, NextRead, PackedEnd
<1>13. QED
  BY <1>1, <1>10, <1>11, <1>12 DEF SumInv

LEMMA RowPackedSums == PackInv /\ SumInv /\ RowPacked => SumInv'
<1> SUFFICES ASSUME PackInv, SumInv, RowPacked PROVE SumInv'
  OBVIOUS
<1>1. /\ pc = "element" /\ pc' = "reset" /\ k = pos_end
      /\ UNCHANGED <<loaded, ai, aj, a, ri, pos_end, cur_elem>>
  BY DEF RowPacked
<1>2. NextRead' = NextRead /\ \A r : PackedEnd(r)' = PackedEnd(r)
  BY <1>1 DEF NextRead, PackedEnd
<1>3. QED
  BY <1>1, <1>2 DEF SumInv, Packing, InRow

LEMMA ResetColumnSums == PackInv /\ SumInv /\ ResetColumn => SumInv'
<1> SUFFICES ASSUME PackInv, SumInv, ResetColumn PROVE SumInv'
  OBVIOUS
<1>1. /\ pc = "reset" /\ pc' = "reset"
      /\ UNCHANGED <<loaded, ai, aj, a, ri, pos_end, cur_elem>>
  BY DEF ResetColumn
<1>2. NextRead' = NextRead /\ \A r : PackedEnd(r)' = PackedEnd(r)
  BY <1>1 DEF NextRead, PackedEnd
<1>3. QED
  BY <1>1, <1>2 DEF SumInv, Packing, InRow

LEMMA RowResetSums == PackInv /\ SumInv /\ RowReset => SumInv'
<1> SUFFICES ASSUME PackInv, SumInv, RowReset PROVE SumInv'
  OBVIOUS
<1>1. /\ pc = "reset" /\ pc' = "row" /\ ri' = ri + 1
      /\ UNCHANGED <<loaded, ai, aj, a, cur_elem>>
  BY DEF RowReset
<1>2. ri \in Nat /\ pos_end = loaded.ai[ri + 1]
  BY <1>1, RowFacts DEF PackInv, LoopInv, InRow
<1>3. ASSUME NEW r \in 0 .. (ri' - 1)
      PROVE  Gathered(loaded, aj, a, r, ai[r], PackedEnd(r)', loaded.ai[r + 1])
  <2>1. CASE r = ri
    <3>1. PackedEnd(r)' = cur_elem
      BY <1>1, <2>1 DEF PackedEnd
    <3>2. Gathered(loaded, aj, a, ri, ai[ri], cur_elem, loaded.ai[ri + 1])
      BY <1>1, <1>2 DEF SumInv, InRow, NextRead
    <3>3. QED
      BY <2>1, <3>1, <3>2
  <2>2. CASE r # ri
    <3>1. r \in 0 .. (ri - 1) /\ PackedEnd(r)' = PackedEnd(r)
      BY <1>1, <1>2, <2>2 DEF PackedEnd
    <3>2. Gathered(loaded, aj, a, r, ai[r], PackedEnd(r), loaded.ai[r + 1])
      BY <1>1, <3>1 DEF SumInv, Packing
    <3>3. QED
      BY <3>1, <3>2
  <2>3. QED
    BY <2>1, <2>2
<1>4. ri' # 0
  BY <1>1, <1>2
<1>5. QED
  BY <1>1, <1>3, <1>4 DEF SumInv, InRow

LEMMA AllPackedSums == PackInv /\ SumInv /\ AllPacked => SumInv'
<1> SUFFICES ASSUME PackInv, SumInv, AllPacked PROVE SumInv'
  OBVIOUS
<1>1. /\ pc = "row" /\ pc' = "sort" /\ ri = loaded.nrows
      /\ ai' = [ai EXCEPT ![ri] = cur_elem]
      /\ UNCHANGED <<loaded, aj, a, cur_elem>>
  BY DEF AllPacked
<1>2. loaded.nrows \in Nat \ {0}
  BY RowFacts DEF PackInv
<1>3. \A r \in 0 .. loaded.nrows : ai'[r] = IF r = ri THEN cur_elem ELSE ai[r]
  BY <1>1 DEF PackInv, TypeOK
<1>4. ai'[0] = 0
  BY <1>1, <1>2, <1>3 DEF SumInv
<1>5. ASSUME NEW r \in Rows
      PROVE  Gathered(loaded, aj, a, r, ai'[r], ai'[r + 1], loaded.ai[r + 1])
  <2>1. r \in 0 .. (ri - 1) /\ ai'[r] = ai[r] /\ ai'[r + 1] = PackedEnd(r)
    BY <1>1, <1>2, <1>3 DEF Rows, PackedEnd
  <2>2. Gathered(loaded, aj, a, r, ai[r], PackedEnd(r), loaded.ai[r + 1])
    BY <1>1, <2>1 DEF SumInv, Packing
  <2>3. QED
    BY <2>1, <2>2
<1>6. Rows' = Rows
  BY <1>1, SameSets
<1>7. QED
  BY <1>1, <1>4, <1>5, <1>6 DEF SumInv, Packing, InRow

LEMMA SortRowSums == PackInv /\ SumInv /\ SortRow => SumInv'
<1> SUFFICES ASSUME PackInv, SumInv, SortRow PROVE SumInv'
  OBVIOUS
<1>1. /\ pc = "sort" /\ pc' = "sort" /\ ri < loaded.nrows
      /\ UNCHANGED <<loaded, ai>>
  BY DEF SortRow
<1>2. PICK p \in Orders(RowSlots(ri), aj) : aj' = Permuted(aj, p) /\ a' = Permuted(a, p)
  BY DEF SortRow, ValuesMoved
<1>3. /\ ri \in Rows /\ Rows \subseteq Nat /\ loaded.nrows \in Nat
      /\ \A r \in Rows : ai[r] \in Nat /\ ai[r + 1] \in Nat
  BY <1>1, RowFacts DEF Rows, PackInv
<1>4. /\ \A r \in Rows : RowSlots(r) \subseteq Slots
      /\ \A r \in Rows : r # ri => RowSlots(r) \cap RowSlots(ri) = {}
  BY <1>1, <1>3, RowsApart
<1>5. /\ p \in [RowSlots(ri) -> RowSlots(ri)]
      /\ \A s, t \in RowSlots(ri) : p[s] = p[t] => s = t
  BY <1>2 DEF Orders
<1>6. aj' = [s \in Slots |-> IF s \in RowSlots(ri) THEN aj[p[s]] ELSE aj[s]]
      /\ a' = [s \in Slots |-> IF s \in RowSlots(ri) THEN a[p[s]] ELSE a[s]]
  BY <1>2, <1>5 DEF Permuted, PackInv, TypeOK
<1>7. ASSUME NEW r \in Rows
      PROVE  Gathered(loaded, aj', a', r, ai[r], ai[r + 1], loaded.ai[r + 1])
  <2>1. Gathered(loaded, aj, a, r, ai[r], ai[r + 1], loaded.ai[r + 1])
    BY <1>1 DEF SumInv
  <2>2. CASE r = ri
    <3>1. \A s \in RowSlots(ri) : aj'[s] = aj[p[s]] /\ a'[s] = a[p[s]]
      BY <1>3, <1>4, <1>6
    <3>2. /\ p \in [ai[r] .. (ai[r + 1] - 1) -> ai[r] .. (ai[r + 1] - 1)]
          /\ \A s, t \in ai[r] .. (ai[r + 1] - 1) : p[s] = p[t] => s = t
          /\ \A s \in ai[r] .. (ai[r + 1] - 1) : aj'[s] = aj[p[s]] /\ a'[s] = a[p[s]]
      BY <1>5, <2>2, <3>1, Zenon DEF RowSlots
    <3>3. ai[r] \in Nat /\ ai[r + 1] \in Nat
      BY <1>3
    <3> DEFINE first == ai[r]
               end == ai[r + 1]
               n == loaded.ai[r + 1]
               columns == aj'
               values == a'
    <3>4. /\ first \in Nat /\ end \in Nat
          /\ Gathered(loaded, aj, a, r, first, end, n)
          /\ p \in [first .. (end - 1) -> first .. (end - 1)]
          /\ \A s, t \in first .. (end - 1) : p[s] = p[t] => s = t
          /\ \A s \in first .. (end - 1) : columns[s] = aj[p[s]] /\ values[s] = a[p[s]]
      BY <2>1, <3>2, <3>3, Zenon
    <3> HIDE DEF first, end, n, columns, values
    <3>5. Gathered(loaded, columns, values, r, first, end, n)
      BY <3>4, GatheredMoved
    <3>6. QED
      BY <3>5, Zenon DEF first, end, n, columns, values
  <2>3. CASE r # ri
    <3>1. \A s \in RowSlots(r) : aj'[s] = aj[s] /\ a'[s] = a[s]
      BY <1>4, <1>6, <2>3
    <3>2. \A s \in ai[r] .. (ai[r + 1] - 1) : aj'[s] = aj[s] /\ a'[s] = a[s]
      BY <3>1, Zenon DEF RowSlots
    <3>3. QED
      BY <2>1, <3>2, GatheredKept, Zenon
  <2>4. QED
    BY <2>2, <2>3
<1>8. ai'[0] = 0 /\ Rows' = Rows
  BY <1>1, SameSets DEF SumInv
<1>9. QED
  BY <1>1, <1>7, <1>8 DEF SumInv, Packing, InRow

LEMMA AllSortedSums == PackInv /\ SumInv /\ AllSorted => SumInv'
<1> SUFFICES ASSUME PackInv, SumInv, AllSorted PROVE SumInv'
  OBVIOUS
<1>1. /\ pc = "sort" /\ pc' = "done"
      /\ UNCHANGED <<loaded, ai, aj, a>>
  BY DEF AllSorted
<1>2. Rows' = Rows
  BY <1>1, SameSets
<1>3. QED
  BY <1>1, <1>2 DEF SumInv, Packing, InRow

LEMMA StutterSums == SumInv /\ UNCHANGED vars => SumInv'
<1> SUFFICES ASSUME SumInv, UNCHANGED vars PROVE SumInv'
  OBVIOUS
<1>1. UNCHANGED <<loaded, pc, ai, aj, a, ri, k, pos_end, cur_elem>>
  BY DEF vars
<1>2. NextRead' = NextRead /\ Rows' = Rows /\ \A r : PackedEnd(r)' = PackedEnd(r)
  BY <1>1, SameSets DEF NextRead, PackedEnd
<1>3. QED
  BY <1>1, <1>2 DEF SumInv, Packing, InRow

LEMMA SumInvStep == PackInv /\ SumInv /\ [Next]_vars => SumInv'
  BY StartRowSums, NewElementSums, DuplicateElementSums, RowPackedSums, ResetColumnSums,
     RowResetSums, AllPackedSums, SortRowSums, AllSortedSums, StutterSums DEF Next

----------------------------------------------------------------------------
\* When all is sorted: what a look-up finds, and how many slots are left.

LEMMA RowsDone ==
    PackInv /\ SumInv /\ pc = "done" =>
        /\ loaded \in Matrices /\ loaded.nrows \in Nat \ {0} /\ loaded.nnz \in Nat
        /\ ai[0] = 0
        /\ \A r \in 0 .. loaded.nrows : ai[r] \in Nat
        /\ \A q, r \in 0 .. loaded.nrows : q <= r => ai[q] <= ai[r]
        /\ \A r \in 0 .. loaded.nrows : loaded.ai[r] \in Nat /\ loaded.ai[r] <= loaded.nnz
        /\ \A r \in Rows :
              /\ r \in Nat /\ r \in 0 .. loaded.nrows /\ r + 1 \in 0 .. loaded.nrows
              /\ RowSlots(r) \subseteq Slots
              /\ \A s, t \in RowSlots(r) : aj[s] = aj[t] => s = t
              /\ \A s \in RowSlots(r) :
                    a[s] = SumTo(ValuesAt(loaded, r, aj[s]), loaded.ai[r + 1])
              /\ \A c \in Columns :
                    (\E s \in RowSlots(r) : aj[s] = c)
                      <=> (\E s \in Slots : IsEntry(loaded, r, c, s))
<1> SUFFICES ASSUME PackInv, SumInv, pc = "done"
             PROVE  /\ loaded \in Matrices /\ loaded.nrows \in Nat \ {0} /\ loaded.nnz \in Nat
                    /\ ai[0] = 0
                    /\ \A r \in 0 .. loaded.nrows : ai[r] \in Nat
                    /\ \A q, r \in 0 .. loaded.nrows : q <= r => ai[q] <= ai[r]
                    /\ \A r \in 0 .. loaded.nrows :
                          loaded.ai[r] \in Nat /\ loaded.ai[r] <= loaded.nnz
                    /\ \A r \in Rows :
                          /\ r \in Nat /\ r \in 0 .. loaded.nrows /\ r + 1 \in 0 .. loaded.nrows
                          /\ RowSlots(r) \subseteq Slots
                          /\ \A s, t \in RowSlots(r) : aj[s] = aj[t] => s = t
                          /\ \A s \in RowSlots(r) :
                                a[s] = SumTo(ValuesAt(loaded, r, aj[s]), loaded.ai[r + 1])
                          /\ \A c \in Columns :
                                (\E s \in RowSlots(r) : aj[s] = c)
                                  <=> (\E s \in Slots : IsEntry(loaded, r, c, s))
  OBVIOUS
<1>1. /\ loaded \in Matrices /\ loaded.nrows \in Nat \ {0} /\ loaded.nnz \in Nat
      /\ \A r \in 0 .. loaded.nrows : ai[r] \in Nat
      /\ \A r \in 0 .. loaded.nrows : loaded.ai[r] \in Nat /\ loaded.ai[r] <= loaded.nnz
  BY RowFacts DEF PackInv, TypeOK
<1>2. /\ ai[0] = 0
      /\ \A q, r \in 0 .. loaded.nrows : q <= r => ai[q] <= ai[r]
  BY DEF PackInv, SortInv, SumInv
<1>3. ASSUME NEW r \in Rows
      PROVE  /\ r \in Nat /\ r \in 0 .. loaded.nrows /\ r + 1 \in 0 .. loaded.nrows
             /\ RowSlots(r) \subseteq Slots
             /\ \A s, t \in RowSlots(r) : aj[s] = aj[t] => s = t
             /\ \A s \in RowSlots(r) :
                   a[s] = SumTo(ValuesAt(loaded, r, aj[s]), loaded.ai[r + 1])
             /\ \A c \in Columns :
                   (\E s \in RowSlots(r) : aj[s] = c)
                     <=> (\E s \in Slots : IsEntry(loaded, r, c, s))
  <2>1. r \in Nat /\ r \in 0 .. loaded.nrows /\ r + 1 \in 0 .. loaded.nrows
    BY <1>1 DEF Rows
  <2>2. RowSlots(r) \subseteq Slots
    BY RowsApart
  <2>3. \A s, t \in RowSlots(r) : aj[s] = aj[t] => s = t
    BY DEF PackInv, SortInv
  <2>4. Gathered(loaded, aj, a, r, ai[r], ai[r + 1], loaded.ai[r + 1])
    BY DEF SumInv
  <2>5. \A s \in RowSlots(r) : a[s] = SumTo(ValuesAt(loaded, r, aj[s]), loaded.ai[r + 1])
    BY <2>4, Zenon DEF Gathered, RowSlots
  <2>6. \A c \in Columns :
            (\E s \in RowSlots(r) : aj[s] = c)
              <=> (\E s \in 0 .. (loaded.ai[r + 1] - 1) : IsEntry(loaded, r, c, s))
    BY <2>4, Zenon DEF Gathered, RowSlots, Columns
  <2>7. ASSUME NEW c
        PROVE  (\E s \in 0 .. (loaded.ai[r + 1] - 1) : IsEntry(loaded, r, c, s))
                 <=> (\E s \in Slots : IsEntry(loaded, r, c, s))
    <3>1. loaded.ai[r + 1] \in Nat /\ loaded.ai[r + 1] <= loaded.nnz
      BY <1>1, <2>1
    <3>2. 0 .. (loaded.ai[r + 1] - 1) \subseteq Slots
      BY <1>1, <3>1 DEF Slots
    <3>3. \A s \in Slots : IsEntry(loaded, r, c, s) => s \in 0 .. (loaded.ai[r + 1] - 1)
      BY <1>1, <3>1 DEF IsEntry, Slots
    <3>4. QED
      BY <3>2, <3>3, Zenon
  <2>8. QED
    BY <2>1, <2>2, <2>3, <2>5, <2>6, <2>7, Zenon
<1>4. QED
  BY <1>1, <1>2, <1>3

LEMMA FoundTotals ==
    PackInv /\ SumInv /\ pc = "done" =>
        \A r \in Rows, c \in Columns : LookUp(r, c) = TotalOf(loaded, r, c)
<1> SUFFICES ASSUME PackInv, SumInv, pc = "done", NEW r \in Rows, NEW c \in Columns
             PROVE  LookUp(r, c) = TotalOf(loaded, r, c)
  OBVIOUS
<1> DEFINE n == loaded.ai[r + 1]
           hits == {s \in RowSlots(r) : aj[s] = c}
           first == CHOOSE s \in hits : \A t \in hits : s <= t
<1>1. /\ loaded \in Matrices /\ loaded.nnz \in Nat /\ n \in Nat /\ n <= loaded.nnz
      /\ RowSlots(r) \subseteq Slots
      /\ \A s, t \in RowSlots(r) : aj[s] = aj[t] => s = t
      /\ \A s \in RowSlots(r) : a[s] = SumTo(ValuesAt(loaded, r, aj[s]), n)
      /\ (\E s \in RowSlots(r) : aj[s] = c) <=> (\E s \in Slots : IsEntry(loaded, r, c, s))
  BY RowsDone
<1>2. LookUp(r, c) = IF hits # {} THEN a[first] ELSE 0
  BY DEF LookUp
<1>3. Slots = 0 .. (loaded.nnz - 1) /\ Slots \subseteq Nat
  BY <1>1 DEF Slots
<1>4. \A s \in n .. (loaded.nnz - 1) : ~IsEntry(loaded, r, c, s)
  BY <1>1 DEF IsEntry
<1>5. TotalOf(loaded, r, c) = SumTo(ValuesAt(loaded, r, c), n)
  <2>1. n \in 0 .. loaded.nnz /\ loaded.nnz \in n .. loaded.nnz
    BY <1>1
  <2> HIDE DEF n
  <2>2. QED
    BY <1>1, <1>4, <2>1, TotalRest DEF TotalOf
<1>6. CASE hits # {}
  <2>1. PICK s \in hits : TRUE
    BY <1>6
  <2>2. s \in RowSlots(r) /\ aj[s] = c /\ \A t \in hits : t = s
    BY <1>1, <2>1
  <2>3. s <= s
    BY <1>1, <1>3, <2>2
  <2>4. \E x \in hits : \A t \in hits : x <= t
    BY <2>1, <2>2, <2>3
  <2> HIDE DEF hits
  <2>5. first \in hits
    BY <2>4
  <2>6. first = s
    BY <2>2, <2>5
  <2>7. QED
    BY <1>1, <1>2, <1>5, <1>6, <2>2, <2>6
<1>7. CASE hits = {}
  <2>1. \A s \in 0 .. (loaded.nnz - 1) : ~IsEntry(loaded, r, c, s)
    BY <1>1, <1>3, <1>7
  <2>2. loaded.nnz \in 0 .. loaded.nnz
    BY <1>1
  <2>3. TotalOf(loaded, r, c) = 0
    <3> DEFINE m == loaded.nnz
    <3>1. loaded \in Matrices /\ m \in 0 .. loaded.nnz
          /\ \A s \in 0 .. (m - 1) : ~IsEntry(loaded, r, c, s)
      BY <1>1, <2>1, <2>2
    <3> HIDE DEF m
    <3>2. SumTo(ValuesAt(loaded, r, c), m) = 0
      BY <3>1, TotalOfNone
    <3>3. QED
      BY <3>2 DEF TotalOf, m
  <2>4. QED
    BY <1>2, <1>7, <2>3
<1>8. QED
  BY <1>6, <1>7

LEMMA SlotForEveryPosition ==
    PackInv /\ SumInv /\ pc = "done" =>
        ai[loaded.nrows] = Cardinality(
            {p \in Rows \X Columns : \E s \in Slots : IsEntry(loaded, p[1], p[2], s)})
<1> SUFFICES ASSUME PackInv, SumInv, pc = "done"
             PROVE  ai[loaded.nrows] = Cardinality(
                        {p \in Rows \X Columns : \E s \in Slots : IsEntry(loaded, p[1], p[2], s)})
  OBVIOUS
<1> DEFINE n == ai[loaded.nrows]
           S == 0 .. (n - 1)
           P == {p \in Rows \X Columns : \E s \in Slots : IsEntry(loaded, p[1], p[2], s)}
           rowOf(s) == CHOOSE r \in Rows : s \in RowSlots(r)
           f == [s \in S |-> <<rowOf(s), aj[s]>>]
<1>1. /\ loaded.nrows \in Nat \ {0} /\ loaded.nnz \in Nat
      /\ ai[0] = 0
      /\ \A r \in 0 .. loaded.nrows : ai[r] \in Nat
      /\ \A q, r \in 0 .. loaded.nrows : q <= r => ai[q] <= ai[r]
      /\ n \in Nat
  <2>1. loaded.nrows \in Nat \ {0}
    BY RowsDone
  <2>2. loaded.nrows \in 0 .. loaded.nrows
    BY <2>1
  <2>3. QED
    BY <2>2, RowsDone
<1>2. ASSUME NEW r \in Rows
      PROVE  /\ r \in Nat /\ r \in 0 .. loaded.nrows /\ r + 1 \in 0 .. loaded.nrows
             /\ RowSlots(r) \subseteq Slots
             /\ \A s, t \in RowSlots(r) : aj[s] = aj[t] => s = t
             /\ \A c \in Columns :
                   (\E s \in RowSlots(r) : aj[s] = c)
                     <=> (\E s \in Slots : IsEntry(loaded, r, c, s))
  BY RowsDone
<1>3. aj \in [Slots -> Columns]
  BY DEF PackInv, TypeOK
<1>4. ASSUME NEW s \in S PROVE \E r \in Rows : s \in RowSlots(r)
  <2> DEFINE T == {r \in 0 .. loaded.nrows : s < ai[r]}
  <2>1. s \in Nat /\ s < n
    BY <1>1
  <2>2. T \subseteq Nat /\ T # {}
    BY <1>1, <2>1
  <2>3. PICK m \in T : \A q \in T : m <= q
    <3> HIDE DEF T
    <3>1. QED
      BY <2>2, LeastOf
  <2>4. m \in Nat /\ m # 0 /\ m <= loaded.nrows /\ s < ai[m]
    BY <1>1, <2>1
  <2>5. m - 1 \in Rows /\ (m - 1) + 1 = m /\ m - 1 \in 0 .. loaded.nrows /\ m - 1 < m
    BY <1>1, <2>4 DEF Rows
  <2>6. m - 1 \notin T
    BY <2>3, <2>4, <2>5
  <2>7. ai[m - 1] <= s
    BY <1>1, <2>1, <2>5, <2>6
  <2>8. s \in RowSlots(m - 1)
    BY <1>1, <2>1, <2>4, <2>5, <2>7 DEF RowSlots
  <2>9. QED
    BY <2>5, <2>8
<1>5. ASSUME NEW s \in S PROVE rowOf(s) \in Rows /\ s \in RowSlots(rowOf(s))
  BY <1>4
<1>6. ASSUME NEW r \in Rows, NEW s \in RowSlots(r) PROVE s \in S
  <2>1. ai[r + 1] <= n
    BY <1>1, <1>2
  <2>2. ai[r] \in Nat /\ ai[r + 1] \in Nat
    BY <1>1, <1>2
  <2>3. QED
    BY <1>1, <2>1, <2>2 DEF RowSlots
<1>7. ASSUME NEW r \in Rows, NEW s \in RowSlots(r) PROVE rowOf(s) = r
  <2>1. s \in S /\ rowOf(s) \in Rows /\ s \in RowSlots(rowOf(s))
    BY <1>5, <1>6
  <2> HIDE DEF rowOf
  <2>2. rowOf(s) # r => RowSlots(rowOf(s)) \cap RowSlots(r) = {}
    BY <2>1, RowsApart
  <2>3. QED
    BY <2>1, <2>2
<1> HIDE DEF n, S, rowOf
<1>8. \A s \in S : f[s] = <<rowOf(s), aj[s]>>
  OBVIOUS
<1>9. f \in [S -> P]
  <2>1. ASSUME NEW s \in S PROVE <<rowOf(s), aj[s]>> \in P
    <3>1. rowOf(s) \in Rows /\ s \in RowSlots(rowOf(s))
      BY <1>5
    <3>2. aj[s] \in Columns
      BY <1>2, <1>3, <3>1
    <3>3. \E t \in Slots : IsEntry(loaded, rowOf(s), aj[s], t)
      BY <1>2, <3>1, <3>2
    <3>4. QED
      BY <3>1, <3>2, <3>3
  <2> HIDE DEF P
  <2>2. QED
    BY <2>1
<1>10. \A s, t \in S : f[s] = f[t] => s = t
  <2>1. SUFFICES ASSUME NEW s \in S, NEW t \in S, f[s] = f[t] PROVE s = t
    OBVIOUS
  <2>2. rowOf(s) = rowOf(t) /\ aj[s] = aj[t]
    BY <1>8, <2>1
  <2>3. rowOf(s) \in Rows /\ s \in RowSlots(rowOf(s)) /\ t \in RowSlots(rowOf(s))
    BY <1>5, <2>2
  <2>4. QED
    BY <1>2, <2>2, <2>3
<1>11. \A p \in P : \E s \in S : f[s] = p
  <2>1. SUFFICES ASSUME NEW p \in P PROVE \E s \in S : f[s] = p
    OBVIOUS
  <2>2. PICK r \in Rows, c \in Columns : p = <<r, c>> /\ \E s \in Slots : IsEntry(loaded, r, c, s)
    OBVIOUS
  <2>3. PICK s \in RowSlots(r) : aj[s] = c
    BY <1>2, <2>2
  <2>4. s \in S /\ rowOf(s) = r
    BY <1>6, <1>7
  <2>5. QED
    BY <1>8, <2>2, <2>3, <2>4
<1> HIDE DEF f, P
<1>12. f \in Bijection(S, P)
  BY <1>9, <1>10, <1>11 DEF Bijection, Injection, Surjection, IsInjective
<1>13. IsFiniteSet(S) /\ Cardinality(S) = n
  <2>1. IsFiniteSet(0 .. (n - 1)) /\ Cardinality(0 .. (n - 1)) = n
    <3>1. 0 \in Int /\ n - 1 \in Int
      BY <1>1
    <3>2. Cardinality(0 .. (n - 1)) = IF 0 > n - 1 THEN 0 ELSE (n - 1) - 0 + 1
      BY <3>1, FS_Interval, Zenon
    <3>3. QED
      BY <1>1, <3>1, <3>2, FS_Interval
  <2>2. QED
    BY <2>1 DEF S
<1>14. Cardinality(P) = n
  <2>1. ExistsBijection(S, P)
    BY <1>12 DEF ExistsBijection
  <2>2. QED
    BY <1>13, <2>1, FS_Bijection
<1>15. QED
  BY <1>14 DEF n, P

LEMMA DoneTotals == PackInv /\ SumInv => ValuesAreTotals
  BY FoundTotals, SlotForEveryPosition DEF ValuesAreTotals

----------------------------------------------------------------------------
\* The inductive invariant of packing and sorting: what is unread is unwritten,
\* wa marks the row being packed, and no column is twice in a packed row.
THEOREM PackHolds == Spec => []PackInv
<1> QED
  BY InitPackInv, PackInvStep, PTL DEF Spec

\* Every array access of pack_storage and sort_storage stays inside its array:
\* the slots in wa are slots, the loop variables end at the last entry.
THEOREM TypeCorrect == Spec => []TypeOK
<1>1. PackInv => TypeOK
  BY DEF PackInv
<1> QED
  BY PackHolds, <1>1, PTL

\* pack_storage works in place and never overwrites an entry it has yet to read.
THEOREM PackReadsAhead == Spec => []ReadsAhead
<1>1. PackInv => ReadsAhead
  BY DEF PackInv, AheadInv, ReadsAhead, Packing, NextRead
<1> QED
  BY PackHolds, <1>1, PTL

\* An entry is only merged into a slot of its own row and column.
THEOREM PackMarksOwnRow == Spec => []MarksOwnRow
<1>1. PackInv => MarksOwnRow
  BY DEF PackInv, MarkInv, MarksOwnRow, InRow
<1> QED
  BY PackHolds, <1>1, PTL

\* When load_matrix is done with the arrays, every row is strictly increasing:
\* what matrix_value's search for a column depends on.
THEOREM RowsComeOutSorted == Spec => []RowsIncrease
<1>1. PackInv => RowsIncrease
  BY DEF PackInv, LoopInv, SortInv, RowsIncrease, Rows
<1> QED
  BY PackHolds, <1>1, PTL

\* At every point of packing and sorting, the slots of each row finished, and of
\* the row being packed, hold the sums of the entries read for their columns.
THEOREM SumsHold == Spec => []SumInv
<1>1. QED
  BY InitSumInv, PackHolds, SumInvStep, PTL DEF Spec

\* Merging and sorting lose no entry, count none twice and mix none with another
\* position's: a look-up finds the sum of what the file has for the position, and
\* there is a slot for every position that has an entry and for no other.
THEOREM PackedValuesAreTotals == Spec => []ValuesAreTotals
<1>1. QED
  BY PackHolds, SumsHold, DoneTotals, PTL
=============================================================================
