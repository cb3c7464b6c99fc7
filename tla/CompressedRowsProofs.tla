------------------------ MODULE CompressedRowsProofs ------------------------
(***************************************************************************)
(* Counting the entries of a file by rows, and what each loop of           *)
(* load_matrix_to_crm leaves in the array of row starts, for a file of any *)
(* length.  Used for the loader and for the symmetrizing branch, which     *)
(* runs the same loops over another kind of entries.  At the end, sums     *)
(* over the slots of an array.                                             *)
(***************************************************************************)
EXTENDS CompressedRows, FiniteSetTheorems, WellFoundedInduction, TLAPS

LEMMA FileShape ==
    ASSUME NEW f, IsMatrixFile(f)
    PROVE  /\ f.nr \in Nat /\ f.nc \in Nat /\ f.nnz \in Nat
           /\ Len(f.entries) \in Nat
           /\ \A k \in 1 .. Len(f.entries) :
                 /\ f.entries[k] \in [row : Nat, col : Nat, val : Int]
                 /\ f.entries[k].row \in Nat
                 /\ f.entries[k].col \in Nat
                 /\ f.entries[k].val \in Int
<1> DEFINE R == [row : Nat, col : Nat, val : Int]
<1>1. f.nr \in Nat /\ f.nc \in Nat /\ f.nnz \in Nat /\ f.entries \in Seq(R)
  BY DEF IsMatrixFile
<1>2. \A e \in R : e.row \in Nat /\ e.col \in Nat /\ e.val \in Int
  OBVIOUS
<1> HIDE DEF R
<1>3. Len(f.entries) \in Nat /\ \A k \in 1 .. Len(f.entries) : f.entries[k] \in R
  BY <1>1
<1>4. QED
  BY <1>1, <1>2, <1>3 DEF R

----------------------------------------------------------------------------
\* Counting entries.

LEMMA PartOfInterval ==
    ASSUME NEW n \in Nat, NEW S, S \subseteq 1 .. n
    PROVE  IsFiniteSet(S) /\ Cardinality(S) \in Nat
<1>1. IsFiniteSet(1 .. n)
  BY FS_Interval
<1>2. S \in SUBSET (1 .. n)
  OBVIOUS
<1>3. IsFiniteSet(S)
  BY <1>1, <1>2, FS_Subset
<1>4. QED
  BY <1>3, FS_CardinalityType

LEMMA PartIsSmaller ==
    ASSUME NEW n \in Nat, NEW S, NEW T, S \subseteq 1 .. n, T \subseteq S
    PROVE  Cardinality(T) <= Cardinality(S)
<1>1. IsFiniteSet(S)
  BY PartOfInterval
<1>2. T \in SUBSET S
  OBVIOUS
<1>3. QED
  BY <1>1, <1>2, FS_Subset

\* Earlier counts one more at every entry of the row and stays at the others.
LEMMA EarlierStep ==
    ASSUME NEW f, IsMatrixFile(f), NEW r \in Nat, NEW k \in Nat
    PROVE  /\ Earlier(f, r, 0) = 0
           /\ Earlier(f, r, k) \in Nat
           /\ Earlier(f, r, k + 1) =
                 IF f.entries[k + 1].row = r THEN Earlier(f, r, k) + 1 ELSE Earlier(f, r, k)
<1> DEFINE S(m) == {j \in 1 .. m : f.entries[j].row = r}
<1>1. S(0) = {}
  OBVIOUS
<1>2. IsFiniteSet(S(k)) /\ Cardinality(S(k)) \in Nat
  <2>1. S(k) \subseteq 1 .. k
    OBVIOUS
  <2>2. QED
    BY <2>1, PartOfInterval
<1>3. k + 1 \notin S(k)
  OBVIOUS
<1>4. Cardinality(S(k) \cup {k + 1}) = Cardinality(S(k)) + 1
  BY <1>2, <1>3, FS_AddElement
<1>5. S(k + 1) = IF f.entries[k + 1].row = r THEN S(k) \cup {k + 1} ELSE S(k)
  OBVIOUS
<1>6. /\ Cardinality(S(0)) = 0
      /\ Cardinality(S(k + 1)) =
            IF f.entries[k + 1].row = r THEN Cardinality(S(k)) + 1 ELSE Cardinality(S(k))
  <2> HIDE DEF S
  <2>1. QED
    BY <1>1, <1>4, <1>5, FS_EmptySet
<1>7. QED
  BY <1>2, <1>6 DEF Earlier

\* Seen from an entry of the row.
LEMMA EarlierAt ==
    ASSUME NEW f, IsMatrixFile(f), NEW k \in 1 .. Len(f.entries)
    PROVE  LET r == f.entries[k].row
           IN  /\ Earlier(f, r, k - 1) \in Nat
               /\ Earlier(f, r, k) = Earlier(f, r, k - 1) + 1
<1> DEFINE r == f.entries[k].row
<1>1. r \in Nat /\ Len(f.entries) \in Nat
  BY FileShape
<1>2. PICK m \in Nat : k = m + 1
  <2>1. k - 1 \in Nat /\ k = (k - 1) + 1
    BY <1>1
  <2>2. QED
    BY <2>1
<1>3. f.entries[m + 1].row = r
  BY <1>2
<1> HIDE DEF r
<1>4. Earlier(f, r, m) \in Nat /\ Earlier(f, r, m + 1) = Earlier(f, r, m) + 1
  BY <1>1, <1>3, EarlierStep
<1>5. m = k - 1
  BY <1>2
<1>6. QED
  BY <1>2, <1>4, <1>5 DEF r

LEMMA EarlierGrows ==
    ASSUME NEW f, IsMatrixFile(f), NEW r \in Nat, NEW j \in Nat, NEW k \in Nat, j <= k
    PROVE  Earlier(f, r, j) <= Earlier(f, r, k)
<1>1. {m \in 1 .. j : f.entries[m].row = r} \subseteq {m \in 1 .. k : f.entries[m].row = r}
  OBVIOUS
<1>2. {m \in 1 .. k : f.entries[m].row = r} \subseteq 1 .. k
  OBVIOUS
<1>3. QED
  BY <1>1, <1>2, PartIsSmaller DEF Earlier

\* A row starts where the entries of all rows above it end.
LEMMA RowStartStep ==
    ASSUME NEW f, IsMatrixFile(f), NEW r \in Nat
    PROVE  /\ RowStart(f, 0) = 0
           /\ RowStart(f, r) \in Nat
           /\ RowStart(f, r + 1) \in Nat
           /\ RowStart(f, r + 1) = RowStart(f, r) + Earlier(f, r, Len(f.entries))
<1> DEFINE n == Len(f.entries)
           Above(s) == {k \in 1 .. n : f.entries[k].row < s}
           Inside == {k \in 1 .. n : f.entries[k].row = r}
<1>1. n \in Nat /\ \A k \in 1 .. n : f.entries[k].row \in Nat
  BY FileShape
<1> HIDE DEF n
<1>2. Above(0) = {}
  BY <1>1
<1>3. IsFiniteSet(Above(r)) /\ Cardinality(Above(r)) \in Nat
  <2>1. Above(r) \subseteq 1 .. n
    OBVIOUS
  <2>2. QED
    BY <1>1, <2>1, PartOfInterval
<1>4. IsFiniteSet(Inside) /\ Cardinality(Inside) \in Nat
  <2>1. Inside \subseteq 1 .. n
    OBVIOUS
  <2>2. QED
    BY <1>1, <2>1, PartOfInterval
<1>5. Above(r) \cap Inside = {}
  BY <1>1
<1>6. Above(r + 1) = Above(r) \cup Inside
  BY <1>1
<1>7. Cardinality(Above(r + 1)) = Cardinality(Above(r)) + Cardinality(Inside)
  <2> HIDE DEF Above, Inside
  <2>1. Cardinality(Above(r) \cup Inside) =
           Cardinality(Above(r)) + Cardinality(Inside) - Cardinality(Above(r) \cap Inside)
    BY <1>3, <1>4, FS_Union
  <2>2. Cardinality(Above(r) \cap Inside) = 0
    BY <1>5, FS_EmptySet
  <2>3. Cardinality(Above(r + 1)) = Cardinality(Above(r) \cup Inside)
    BY <1>6, Zenon
  <2>4. QED
    BY <1>3, <1>4, <2>1, <2>2, <2>3
<1>8. Cardinality(Above(0)) = 0
  BY <1>2, FS_EmptySet
<1>9. /\ RowStart(f, 0) = Cardinality(Above(0))
      /\ RowStart(f, r) = Cardinality(Above(r))
      /\ RowStart(f, r + 1) = Cardinality(Above(r + 1))
      /\ Earlier(f, r, Len(f.entries)) = Cardinality(Inside)
  BY Zenon DEF RowStart, Earlier, n
<1> HIDE DEF Above, Inside
<1>10. QED
  BY <1>3, <1>4, <1>7, <1>8, <1>9

LEMMA RowStartGrows ==
    ASSUME NEW f, IsMatrixFile(f), NEW r \in Nat, NEW s \in Nat, r <= s
    PROVE  RowStart(f, r) <= RowStart(f, s)
<1>1. Len(f.entries) \in Nat /\ \A k \in 1 .. Len(f.entries) : f.entries[k].row \in Nat
  BY FileShape
<1>2. {k \in 1 .. Len(f.entries) : f.entries[k].row < r}
         \subseteq {k \in 1 .. Len(f.entries) : f.entries[k].row < s}
  BY <1>1
<1>3. {k \in 1 .. Len(f.entries) : f.entries[k].row < s} \subseteq 1 .. Len(f.entries)
  OBVIOUS
<1>4. QED
  BY <1>1, <1>2, <1>3, PartIsSmaller DEF RowStart

\* The rows of a well formed file end with its last slot.
LEMMA RowStartLast ==
    ASSUME NEW f, IsMatrixFile(f), WellFormed(f)
    PROVE  RowStart(f, f.nr) = f.nnz /\ RowStart(f, f.nr + 1) = f.nnz
<1>1. /\ Len(f.entries) \in Nat /\ f.nr \in Nat
      /\ \A k \in 1 .. Len(f.entries) : f.entries[k].row \in Nat
  BY FileShape
<1>2. /\ {k \in 1 .. Len(f.entries) : f.entries[k].row < f.nr} = 1 .. Len(f.entries)
      /\ {k \in 1 .. Len(f.entries) : f.entries[k].row < f.nr + 1} = 1 .. Len(f.entries)
  BY <1>1 DEF WellFormed
<1>3. Cardinality(1 .. Len(f.entries)) = Len(f.entries)
  <2> DEFINE n == Len(f.entries)
  <2> HIDE DEF n
  <2>1. n \in Nat
    BY <1>1 DEF n
  <2>2. Cardinality(1 .. n) = IF 1 > n THEN 0 ELSE n - 1 + 1
    BY <2>1, FS_Interval
  <2>3. Cardinality(1 .. n) = n
    BY <2>1, <2>2
  <2>4. QED
    BY <2>3 DEF n
<1>4. QED
  BY <1>2, <1>3 DEF RowStart, WellFormed

\* The slot of an entry lies between the start of its row and the next.
LEMMA SlotInRow ==
    ASSUME NEW f, IsMatrixFile(f), WellFormed(f), NEW k \in 1 .. Len(f.entries)
    PROVE  /\ SlotOf(f, k) \in SlotsOf(f)
           /\ RowStart(f, f.entries[k].row) <= SlotOf(f, k)
           /\ SlotOf(f, k) < RowStart(f, f.entries[k].row + 1)
<1> DEFINE r == f.entries[k].row
           n == Len(f.entries)
<1>1. r \in Nat /\ n \in Nat /\ f.nr \in Nat /\ f.nnz \in Nat
  BY FileShape
<1>2. r < f.nr /\ n = f.nnz
  BY DEF WellFormed
<1>3. k \in Nat /\ k - 1 \in Nat /\ (k - 1) + 1 = k /\ k <= n
  BY <1>1
<1> HIDE DEF n
<1>4. Earlier(f, r, k) = Earlier(f, r, k - 1) + 1 /\ Earlier(f, r, k - 1) \in Nat
  BY EarlierAt
<1>5. Earlier(f, r, k) <= Earlier(f, r, n) /\ Earlier(f, r, n) \in Nat
  BY <1>1, <1>3, EarlierGrows, EarlierStep
<1>6. RowStart(f, r + 1) = RowStart(f, r) + Earlier(f, r, n) /\ RowStart(f, r) \in Nat
  BY <1>1, RowStartStep DEF n
<1>7. RowStart(f, r + 1) <= f.nnz
  BY <1>1, <1>2, RowStartGrows, RowStartLast
<1>8. SlotOf(f, k) = RowStart(f, r) + Earlier(f, r, k - 1)
  BY DEF SlotOf
<1> HIDE DEF r
<1>9. /\ SlotOf(f, k) \in SlotsOf(f)
      /\ RowStart(f, r) <= SlotOf(f, k)
      /\ SlotOf(f, k) < RowStart(f, r + 1)
  BY <1>1, <1>4, <1>5, <1>6, <1>7, <1>8, SMTT(30) DEF SlotsOf
<1>10. QED
  BY <1>9 DEF r

\* No two entries have the same slot.
LEMMA SlotsDiffer ==
    ASSUME NEW f, IsMatrixFile(f), WellFormed(f),
           NEW j \in 1 .. Len(f.entries), NEW k \in 1 .. Len(f.entries), j < k
    PROVE  SlotOf(f, j) # SlotOf(f, k)
<1> DEFINE p == f.entries[j].row
           q == f.entries[k].row
<1>1. p \in Nat /\ q \in Nat /\ Len(f.entries) \in Nat
  BY FileShape
<1>2. /\ RowStart(f, p) <= SlotOf(f, j) /\ SlotOf(f, j) < RowStart(f, p + 1)
      /\ RowStart(f, q) <= SlotOf(f, k) /\ SlotOf(f, k) < RowStart(f, q + 1)
      /\ SlotOf(f, j) \in Int /\ SlotOf(f, k) \in Int
  BY SlotInRow DEF SlotsOf
<1>3. /\ RowStart(f, p) \in Nat /\ RowStart(f, q) \in Nat
      /\ RowStart(f, p + 1) \in Nat /\ RowStart(f, q + 1) \in Nat
  BY <1>1, RowStartStep
<1>4. CASE p < q
  <2>1. RowStart(f, p + 1) <= RowStart(f, q)
    BY <1>1, <1>4, RowStartGrows
  <2>2. QED
    BY <1>2, <1>3, <2>1
<1>5. CASE q < p
  <2>1. RowStart(f, q + 1) <= RowStart(f, p)
    BY <1>1, <1>5, RowStartGrows
  <2>2. QED
    BY <1>2, <1>3, <2>1
<1>6. CASE p = q
  <2>1. j - 1 \in Nat /\ (j - 1) + 1 = j /\ k - 1 \in Nat /\ j <= k - 1 /\ j \in Nat
    BY <1>1
  <2>2. /\ Earlier(f, p, j) = Earlier(f, p, j - 1) + 1
        /\ Earlier(f, p, j - 1) \in Nat
    BY EarlierAt
  <2>3. Earlier(f, p, j) <= Earlier(f, p, k - 1) /\ Earlier(f, p, k - 1) \in Nat
    BY <1>1, <2>1, EarlierGrows, EarlierStep
  <2>4. /\ SlotOf(f, j) = RowStart(f, p) + Earlier(f, p, j - 1)
        /\ SlotOf(f, k) = RowStart(f, p) + Earlier(f, p, k - 1)
    BY <1>6 DEF SlotOf
  <2>5. QED
    BY <1>3, <2>2, <2>3, <2>4
<1>7. QED
  BY <1>1, <1>4, <1>5, <1>6
----------------------------------------------------------------------------
\* What the array of row starts holds in each loop: the counts one place to the
\* right, their running sum, the cursors of the rows, and the starts again.

Counted(f, rows, n) ==
    \A r \in RowsOf(f) : rows[r] = IF r = 0 THEN 0 ELSE Earlier(f, r - 1, n)
Summed(f, rows, j) ==
    \A r \in RowsOf(f) :
        rows[r] = IF r < j THEN RowStart(f, r) ELSE Earlier(f, r - 1, Len(f.entries))
Moved(f, rows, n) ==
    \A r \in RowsOf(f) : rows[r] = RowStart(f, r) + Earlier(f, r, n)
Shifted(f, rows, j) ==
    \A r \in RowsOf(f) : rows[r] = RowStart(f, IF r <= j THEN r + 1 ELSE r)
Starts(f, rows) ==
    \A r \in RowsOf(f) : rows[r] = RowStart(f, r)

LEMMA CountedAtFirst ==
    ASSUME NEW f, IsMatrixFile(f), NEW rows, \A r \in RowsOf(f) : rows[r] = 0
    PROVE  Counted(f, rows, 0)
<1>1. f.nr \in Nat
  BY FileShape
<1>2. \A r \in RowsOf(f) : r # 0 => Earlier(f, r - 1, 0) = 0
  BY <1>1, EarlierStep DEF RowsOf
<1>3. QED
  BY <1>2 DEF Counted

LEMMA CountedStep ==
    ASSUME NEW f, IsMatrixFile(f), NEW rows \in [RowsOf(f) -> Nat],
           NEW n \in 0 .. (Len(f.entries) - 1),
           Counted(f, rows, n)
    PROVE  Counted(f, [rows EXCEPT ![f.entries[n + 1].row + 1] = @ + 1], n + 1)
<1> DEFINE e == f.entries[n + 1]
           next == [rows EXCEPT ![e.row + 1] = @ + 1]
<1>1. f.nr \in Nat /\ Len(f.entries) \in Nat /\ n \in Nat /\ e.row \in Nat
  <2>1. f.nr \in Nat /\ Len(f.entries) \in Nat
    BY FileShape
  <2>2. n \in Nat /\ n + 1 \in 1 .. Len(f.entries)
    BY <2>1
  <2>3. QED
    BY <2>1, <2>2, FileShape
<1> SUFFICES ASSUME NEW r \in RowsOf(f)
             PROVE  next[r] = IF r = 0 THEN 0 ELSE Earlier(f, r - 1, n + 1)
  BY DEF Counted
<1>2. r \in Nat /\ rows[r] = IF r = 0 THEN 0 ELSE Earlier(f, r - 1, n)
  BY <1>1 DEF Counted, RowsOf
<1>3. r # 0 => Earlier(f, r - 1, n + 1) =
                 IF e.row = r - 1 THEN Earlier(f, r - 1, n) + 1 ELSE Earlier(f, r - 1, n)
  <2> HIDE DEF e, next
  <2>1. ASSUME NEW m \in Nat
        PROVE  Earlier(f, m, n + 1) =
                  IF e.row = m THEN Earlier(f, m, n) + 1 ELSE Earlier(f, m, n)
    BY <1>1, EarlierStep DEF e
  <2>2. r # 0 => r - 1 \in Nat
    BY <1>2
  <2>3. QED
    BY <2>1, <2>2
<1>4. next[r] = IF r = e.row + 1 THEN rows[r] + 1 ELSE rows[r]
  <2> HIDE DEF e
  <2>1. QED
    OBVIOUS
<1> HIDE DEF e, next
<1>5. QED
  BY <1>1, <1>2, <1>3, <1>4

LEMMA SummedAtFirst ==
    ASSUME NEW f, IsMatrixFile(f), NEW rows, Counted(f, rows, Len(f.entries))
    PROVE  Summed(f, rows, 1)
<1>1. f.nr \in Nat /\ RowStart(f, 0) = 0
  BY FileShape, RowStartStep
<1>2. \A r \in RowsOf(f) : r \in Nat
  BY <1>1 DEF RowsOf
<1>3. QED
  BY <1>1, <1>2 DEF Counted, Summed

LEMMA SummedStep ==
    ASSUME NEW f, IsMatrixFile(f), NEW rows \in [RowsOf(f) -> Nat],
           NEW j \in 1 .. f.nr,
           Summed(f, rows, j)
    PROVE  Summed(f, [rows EXCEPT ![j] = rows[j - 1] + @], j + 1)
<1> DEFINE next == [rows EXCEPT ![j] = rows[j - 1] + @]
<1>1. f.nr \in Nat
  BY FileShape
<1>2. PICK m \in Nat : j = m + 1
  <2>1. j - 1 \in Nat /\ j = (j - 1) + 1
    BY <1>1
  <2>2. QED
    BY <2>1
<1>3. m \in RowsOf(f) /\ j \in RowsOf(f) /\ j - 1 = m /\ m < j /\ j \in Nat
  BY <1>1, <1>2 DEF RowsOf
<1>4. rows[m] = RowStart(f, m) /\ rows[j] = Earlier(f, j - 1, Len(f.entries))
  BY <1>3 DEF Summed
<1>5. RowStart(f, j) = RowStart(f, m) + Earlier(f, m, Len(f.entries))
  BY <1>2, RowStartStep
<1>6. next[j] = RowStart(f, j)
  BY <1>3, <1>4, <1>5
<1> SUFFICES ASSUME NEW r \in RowsOf(f)
             PROVE  next[r] = IF r < j + 1 THEN RowStart(f, r)
                                           ELSE Earlier(f, r - 1, Len(f.entries))
  BY DEF Summed
<1>7. r \in Nat
  BY <1>1 DEF RowsOf
<1>8. CASE r = j
  BY <1>3, <1>6, <1>8
<1>9. CASE r # j
  <2>1. next[r] = rows[r]
    BY <1>9
  <2>2. rows[r] = IF r < j THEN RowStart(f, r) ELSE Earlier(f, r - 1, Len(f.entries))
    BY DEF Summed
  <2> HIDE DEF next
  <2>3. QED
    BY <1>3, <1>7, <1>9, <2>1, <2>2
<1>10. QED
  BY <1>8, <1>9

LEMMA MovedAtFirst ==
    ASSUME NEW f, IsMatrixFile(f), NEW rows, Summed(f, rows, f.nr + 1)
    PROVE  Moved(f, rows, 0)
<1> SUFFICES ASSUME NEW r \in RowsOf(f)
             PROVE  rows[r] = RowStart(f, r) + Earlier(f, r, 0)
  BY DEF Moved
<1>1. f.nr \in Nat
  BY FileShape
<1>2. r \in Nat /\ r < f.nr + 1
  BY <1>1 DEF RowsOf
<1>3. rows[r] = RowStart(f, r)
  BY <1>2 DEF Summed
<1>4. Earlier(f, r, 0) = 0 /\ RowStart(f, r) \in Nat
  BY <1>2, EarlierStep, RowStartStep
<1>5. QED
  BY <1>3, <1>4

\* The cursor of the next entry's row stands at the entry's slot.
LEMMA CursorAtSlot ==
    ASSUME NEW f, IsMatrixFile(f), WellFormed(f), NEW rows,
           NEW n \in 0 .. (Len(f.entries) - 1),
           Moved(f, rows, n)
    PROVE  LET e == f.entries[n + 1]
           IN  /\ e.row \in RowsOf(f)
               /\ rows[e.row] = SlotOf(f, n + 1)
               /\ SlotOf(f, n + 1) \in SlotsOf(f)
<1> DEFINE e == f.entries[n + 1]
<1>1. f.nr \in Nat /\ Len(f.entries) \in Nat
  BY FileShape
<1>2. n \in Nat /\ n + 1 \in 1 .. Len(f.entries) /\ (n + 1) - 1 = n
  BY <1>1
<1>3. e.row \in Nat /\ e.row < f.nr
  BY <1>2, FileShape DEF WellFormed
<1>4. e.row \in RowsOf(f)
  BY <1>1, <1>3 DEF RowsOf
<1>5. rows[e.row] = RowStart(f, e.row) + Earlier(f, e.row, n)
  BY <1>4 DEF Moved
<1>6. SlotOf(f, n + 1) = RowStart(f, e.row) + Earlier(f, e.row, n)
  BY <1>2 DEF SlotOf
<1>7. SlotOf(f, n + 1) \in SlotsOf(f)
  BY <1>2, SlotInRow
<1>8. QED
  BY <1>4, <1>5, <1>6, <1>7

LEMMA MovedStep ==
    ASSUME NEW f, IsMatrixFile(f), NEW rows \in [RowsOf(f) -> Nat],
           NEW n \in 0 .. (Len(f.entries) - 1),
           Moved(f, rows, n)
    PROVE  Moved(f, [rows EXCEPT ![f.entries[n + 1].row] = @ + 1], n + 1)
<1> DEFINE e == f.entries[n + 1]
           next == [rows EXCEPT ![e.row] = @ + 1]
<1>1. f.nr \in Nat /\ Len(f.entries) \in Nat
  BY FileShape
<1>2. n \in Nat
  BY <1>1
<1> SUFFICES ASSUME NEW r \in RowsOf(f)
             PROVE  next[r] = RowStart(f, r) + Earlier(f, r, n + 1)
  BY DEF Moved
<1>3. r \in Nat /\ rows[r] = RowStart(f, r) + Earlier(f, r, n)
  BY <1>1 DEF Moved, RowsOf
<1>4. /\ RowStart(f, r) \in Nat /\ Earlier(f, r, n) \in Nat
      /\ Earlier(f, r, n + 1) =
            IF e.row = r THEN Earlier(f, r, n) + 1 ELSE Earlier(f, r, n)
  BY <1>2, <1>3, EarlierStep, RowStartStep
<1>5. next[r] = IF e.row = r THEN rows[r] + 1 ELSE rows[r]
  <2> HIDE DEF e
  <2>1. QED
    OBVIOUS
<1> HIDE DEF e, next
<1>6. QED
  BY <1>3, <1>4, <1>5

LEMMA ShiftedAtFirst ==
    ASSUME NEW f, IsMatrixFile(f), WellFormed(f), NEW rows,
           Moved(f, rows, Len(f.entries))
    PROVE  Shifted(f, rows, f.nr - 1)
<1> SUFFICES ASSUME NEW r \in RowsOf(f)
             PROVE  rows[r] = RowStart(f, IF r <= f.nr - 1 THEN r + 1 ELSE r)
  BY DEF Shifted
<1>1. f.nr \in Nat
  BY FileShape
<1>2. r \in Nat /\ r <= f.nr
  BY <1>1 DEF RowsOf
<1>3. rows[r] = RowStart(f, r) + Earlier(f, r, Len(f.entries))
  BY DEF Moved
<1>4. rows[r] = RowStart(f, r + 1)
  BY <1>2, <1>3, RowStartStep
<1>5. CASE r <= f.nr - 1
  BY <1>4, <1>5
<1>6. CASE r = f.nr
  <2>1. RowStart(f, f.nr) = RowStart(f, f.nr + 1)
    BY RowStartLast
  <2>2. ~(r <= f.nr - 1)
    BY <1>1, <1>6
  <2>3. QED
    BY <1>4, <1>6, <2>1, <2>2
<1>7. QED
  BY <1>1, <1>2, <1>5, <1>6

LEMMA ShiftedStep ==
    ASSUME NEW f, IsMatrixFile(f), NEW rows \in [RowsOf(f) -> Nat],
           NEW j \in 1 .. f.nr,
           Shifted(f, rows, j)
    PROVE  Shifted(f, [rows EXCEPT ![j] = rows[j - 1]], j - 1)
<1> DEFINE next == [rows EXCEPT ![j] = rows[j - 1]]
<1>1. f.nr \in Nat
  BY FileShape
<1>2. /\ j - 1 \in RowsOf(f) /\ j \in RowsOf(f) /\ j - 1 <= j /\ (j - 1) + 1 = j
      /\ j \in Nat
  BY <1>1 DEF RowsOf
<1>3. rows[j - 1] = RowStart(f, j)
  BY <1>2 DEF Shifted
<1> SUFFICES ASSUME NEW r \in RowsOf(f)
             PROVE  next[r] = RowStart(f, IF r <= j - 1 THEN r + 1 ELSE r)
  BY DEF Shifted
<1>4. r \in Nat
  BY <1>1 DEF RowsOf
<1>5. CASE r = j
  BY <1>2, <1>3, <1>5
<1>6. CASE r # j
  <2>1. next[r] = rows[r]
    BY <1>6
  <2>2. rows[r] = RowStart(f, IF r <= j THEN r + 1 ELSE r)
    BY DEF Shifted
  <2>3. r <= j <=> r <= j - 1
    BY <1>2, <1>4, <1>6
  <2>4. QED
    BY <2>1, <2>2, <2>3
<1>7. QED
  BY <1>5, <1>6

LEMMA StartsAtLast ==
    ASSUME NEW f, IsMatrixFile(f), NEW rows \in [RowsOf(f) -> Nat],
           Shifted(f, rows, 0)
    PROVE  Starts(f, [rows EXCEPT ![0] = 0])
<1> DEFINE next == [rows EXCEPT ![0] = 0]
<1>1. f.nr \in Nat /\ RowStart(f, 0) = 0
  BY FileShape, RowStartStep
<1> SUFFICES ASSUME NEW r \in RowsOf(f)
             PROVE  next[r] = RowStart(f, r)
  BY DEF Starts
<1>2. r \in Nat
  BY <1>1 DEF RowsOf
<1>3. CASE r = 0
  BY <1>1, <1>3
<1>4. CASE r # 0
  <2>1. next[r] = rows[r]
    BY <1>4
  <2>2. rows[r] = RowStart(f, IF r <= 0 THEN r + 1 ELSE r) /\ ~(r <= 0)
    BY <1>2, <1>4 DEF Shifted
  <2>3. QED
    BY <2>1, <2>2
<1>5. QED
  BY <1>3, <1>4

----------------------------------------------------------------------------
\* The least of some naturals, and with it induction.

LEMMA LeastOf ==
    ASSUME NEW T, T \subseteq Nat, T # {}
    PROVE  \E m \in T : \A n \in T : m <= n
<1>1. PICK m \in T : \A n \in T : ~ (<<n, m>> \in OpToRel(<, Nat))
  BY NatLessThanWellFounded, WFMin
<1>2. \A n \in T : <<n, m>> \in Nat \X Nat
  OBVIOUS
<1>3. \A n \in T : ~ (n < m)
  BY <1>1, <1>2 DEF OpToRel
<1>4. QED
  BY <1>3

\* Induction, over a set instead of a property.
LEMMA AllNaturals ==
    ASSUME NEW T, 0 \in T, \A n \in Nat : n \in T => n + 1 \in T
    PROVE  \A n \in Nat : n \in T
<1> DEFINE Missing == {n \in Nat : n \notin T}
<1>1. SUFFICES ASSUME Missing # {} PROVE FALSE
  OBVIOUS
<1>2. PICK m \in Missing : \A n \in Missing : m <= n
  <2>1. Missing \subseteq Nat
    OBVIOUS
  <2> HIDE DEF Missing
  <2>2. QED
    BY <1>1, <2>1, LeastOf
<1>3. m \in Nat /\ m # 0 /\ m \notin T
  OBVIOUS
<1>4. m - 1 \in Nat /\ m - 1 \notin T
  <2>1. m - 1 \in Nat /\ (m - 1) + 1 = m
    BY <1>3
  <2>2. QED
    BY <1>3, <2>1
<1>5. m <= m - 1
  BY <1>2, <1>4
<1>6. QED
  BY <1>3, <1>5

----------------------------------------------------------------------------
\* Sums.

IsRunning(s, f, n) ==
    s = [j \in 0 .. n |-> IF j = 0 THEN 0 ELSE s[j - 1] + f[j - 1]]

LEMMA RunningUnique ==
    ASSUME NEW f, NEW n \in Nat, NEW m \in Nat, n <= m,
           NEW s, NEW t, IsRunning(s, f, n), IsRunning(t, f, m)
    PROVE  \A j \in 0 .. n : s[j] = t[j]
<1> DEFINE T == {j \in Nat : j <= n => s[j] = t[j]}
<1>1. /\ \A j \in 0 .. n : s[j] = IF j = 0 THEN 0 ELSE s[j - 1] + f[j - 1]
      /\ \A j \in 0 .. m : t[j] = IF j = 0 THEN 0 ELSE t[j - 1] + f[j - 1]
  BY DEF IsRunning
<1>2. 0 \in T
  BY <1>1
<1>3. ASSUME NEW j \in Nat, j \in T PROVE j + 1 \in T
  <2>1. CASE j + 1 <= n
    <3>1. /\ j + 1 \in 0 .. n /\ j + 1 \in 0 .. m /\ (j + 1) - 1 = j /\ j + 1 # 0
          /\ s[j] = t[j]
      BY <1>3, <2>1
    <3>2. s[j + 1] = s[j] + f[j] /\ t[j + 1] = t[j] + f[j]
      BY <1>1, <3>1, Zenon
    <3>3. QED
      BY <3>1, <3>2
  <2>2. CASE ~(j + 1 <= n)
    BY <2>2
  <2>3. QED
    BY <2>1, <2>2
<1> HIDE DEF T
<1>4. \A j \in Nat : j \in T
  BY <1>2, <1>3, AllNaturals
<1>5. QED
  BY <1>4 DEF T

LEMMA RunningExists ==
    ASSUME NEW f
    PROVE  \A n \in Nat : \E s : IsRunning(s, f, n)
<1> DEFINE T == {n \in Nat : \E s : IsRunning(s, f, n)}
<1>1. 0 \in T
  <2> DEFINE s == [j \in 0 .. 0 |-> 0]
  <2>1. IsRunning(s, f, 0)
    BY DEF IsRunning
  <2>2. QED
    BY <2>1
<1>2. ASSUME NEW n \in Nat, n \in T PROVE n + 1 \in T
  <2>1. PICK s : IsRunning(s, f, n)
    BY <1>2
  <2> DEFINE t == [j \in 0 .. n + 1 |-> IF j = n + 1 THEN s[n] + f[n] ELSE s[j]]
  <2>2. \A j \in 0 .. n : s[j] = IF j = 0 THEN 0 ELSE s[j - 1] + f[j - 1]
    BY <2>1 DEF IsRunning
  <2>3. \A j \in 0 .. n + 1 : t[j] = IF j = 0 THEN 0 ELSE t[j - 1] + f[j - 1]
    <3>1. TAKE j \in 0 .. n + 1
    <3>2. CASE j = n + 1
      <4>1. t[j] = s[n] + f[n] /\ j - 1 = n /\ t[n] = s[n] /\ j # 0
        BY <3>2
      <4>2. QED
        BY <4>1
    <3>3. CASE j # n + 1
      <4>1. /\ j \in 0 .. n /\ t[j] = s[j]
            /\ j # 0 => j - 1 \in 0 .. n /\ j - 1 # n + 1 /\ t[j - 1] = s[j - 1]
        BY <3>3
      <4>2. QED
        BY <2>2, <4>1
    <3>4. QED
      BY <3>2, <3>3
  <2>4. IsRunning(t, f, n + 1)
    <3>1. t = [j \in 0 .. n + 1 |-> t[j]]
      OBVIOUS
    <3> HIDE DEF t
    <3>2. QED
      BY <2>3, <3>1 DEF IsRunning
  <2>5. QED
    BY <2>4
<1> HIDE DEF T
<1>3. \A n \in Nat : n \in T
  BY <1>1, <1>2, AllNaturals
<1>4. QED
  BY <1>3 DEF T

LEMMA SumToIsRunning ==
    ASSUME NEW f, NEW n \in Nat
    PROVE  \E s : IsRunning(s, f, n) /\ SumTo(f, n) = s[n]
<1> DEFINE S == CHOOSE s : s = [j \in 0 .. n |-> IF j = 0 THEN 0 ELSE s[j - 1] + f[j - 1]]
<1>1. SumTo(f, n) = S[n]
  BY Zenon DEF SumTo
<1>2. \E s : s = [j \in 0 .. n |-> IF j = 0 THEN 0 ELSE s[j - 1] + f[j - 1]]
  BY RunningExists, Zenon DEF IsRunning
<1>3. S = [j \in 0 .. n |-> IF j = 0 THEN 0 ELSE S[j - 1] + f[j - 1]]
  BY <1>2, Zenon
<1>4. IsRunning(S, f, n)
  BY <1>3, Zenon DEF IsRunning
<1>5. QED
  BY <1>1, <1>4, Zenon

\* The definition by recursion is one: a sum of none is 0, and each value adds
\* itself to the sum of those before it.
LEMMA SumToStep ==
    ASSUME NEW f, NEW n \in Nat
    PROVE  SumTo(f, 0) = 0 /\ SumTo(f, n + 1) = SumTo(f, n) + f[n]
<1>1. PICK z : IsRunning(z, f, 0) /\ SumTo(f, 0) = z[0]
  BY SumToIsRunning
<1>2. PICK s : IsRunning(s, f, n) /\ SumTo(f, n) = s[n]
  BY SumToIsRunning
<1>3. PICK m \in Nat : m = n + 1 /\ n <= m
  OBVIOUS
<1>4. PICK t : IsRunning(t, f, m) /\ SumTo(f, m) = t[m]
  BY SumToIsRunning
<1>5. z[0] = 0
  BY <1>1 DEF IsRunning
<1>6. \A j \in 0 .. n : s[j] = t[j]
  BY <1>2, <1>3, <1>4, RunningUnique
<1>7. t[m] = t[n] + f[n] /\ t[n] = s[n]
  <2>1. /\ m \in 0 .. m /\ m - 1 = n /\ m # 0 /\ n \in 0 .. n
        /\ \A j \in 0 .. m : t[j] = IF j = 0 THEN 0 ELSE t[j - 1] + f[j - 1]
    BY <1>3, <1>4 DEF IsRunning
  <2>2. QED
    BY <1>6, <2>1, Zenon
<1>8. QED
  BY <1>1, <1>2, <1>3, <1>4, <1>5, <1>7, Zenon

LEMMA SumToInt ==
    ASSUME NEW f, NEW n \in Nat, \A j \in 0 .. n - 1 : f[j] \in Int
    PROVE  SumTo(f, n) \in Int
<1> DEFINE T == {m \in Nat : m <= n => SumTo(f, m) \in Int}
<1>1. 0 \in T
  BY SumToStep
<1>2. ASSUME NEW m \in Nat, m \in T PROVE m + 1 \in T
  <2>1. m + 1 <= n => SumTo(f, m) \in Int /\ f[m] \in Int
    BY <1>2
  <2>2. SumTo(f, m + 1) = SumTo(f, m) + f[m]
    BY SumToStep
  <2>3. QED
    BY <2>1, <2>2
<1> HIDE DEF T
<1>3. \A m \in Nat : m \in T
  BY <1>1, <1>2, AllNaturals
<1>4. QED
  BY <1>3 DEF T

\* One value more, another one changed: the sum changes as much.
LEMMA SumToChanged ==
    ASSUME NEW f, NEW g, NEW n \in Nat, NEW s \in Nat, NEW v \in Int,
           \A j \in 0 .. n - 1 : f[j] \in Int,
           \A j \in 0 .. n - 1 : g[j] = IF j = s THEN f[j] + v ELSE f[j]
    PROVE  SumTo(g, n) = SumTo(f, n) + (IF s < n THEN v ELSE 0)
<1> DEFINE T == {m \in Nat : m <= n =>
                    SumTo(g, m) = SumTo(f, m) + (IF s < m THEN v ELSE 0)}
<1>1. 0 \in T
  BY SumToStep
<1>2. ASSUME NEW m \in Nat, m \in T PROVE m + 1 \in T
  <2>1. SUFFICES ASSUME m + 1 <= n
                 PROVE  SumTo(g, m + 1) = SumTo(f, m + 1) + (IF s < m + 1 THEN v ELSE 0)
    OBVIOUS
  <2>2. /\ SumTo(g, m) = SumTo(f, m) + (IF s < m THEN v ELSE 0)
        /\ f[m] \in Int /\ g[m] = IF m = s THEN f[m] + v ELSE f[m]
    BY <1>2, <2>1
  <2>3. SumTo(f, m) \in Int
    BY <2>1, SumToInt
  <2>4. SumTo(g, m + 1) = SumTo(g, m) + g[m] /\ SumTo(f, m + 1) = SumTo(f, m) + f[m]
    BY SumToStep
  <2>5. QED
    BY <2>2, <2>3, <2>4
<1> HIDE DEF T
<1>3. \A m \in Nat : m \in T
  BY <1>1, <1>2, AllNaturals
<1>4. QED
  BY <1>3 DEF T

LEMMA SumToSame ==
    ASSUME NEW f, NEW g, NEW n \in Nat,
           \A j \in 0 .. n - 1 : f[j] \in Int, \A j \in 0 .. n - 1 : f[j] = g[j]
    PROVE  SumTo(f, n) = SumTo(g, n)
<1>1. SumTo(g, n) = SumTo(f, n) + (IF 0 < n THEN 0 ELSE 0)
  <2>1. \A j \in 0 .. n - 1 : g[j] = IF j = 0 THEN f[j] + 0 ELSE f[j]
    OBVIOUS
  <2>2. QED
    BY <2>1, SumToChanged
<1>2. SumTo(f, n) \in Int
  BY SumToInt
<1>3. QED
  BY <1>1, <1>2

\* The sum over two stretches.
LEMMA SumToSplit ==
    ASSUME NEW f, NEW g, NEW m \in Nat, NEW n \in Nat, NEW l, l = m + n,
           \A j \in 0 .. l - 1 : f[j] \in Int,
           \A j \in 0 .. n - 1 : g[j] = f[m + j]
    PROVE  SumTo(f, l) = SumTo(f, m) + SumTo(g, n)
<1> DEFINE T == {k \in Nat : k <= n => SumTo(f, m + k) = SumTo(f, m) + SumTo(g, k)}
<1>0. SumTo(f, m) \in Int
  BY SumToInt
<1>1. 0 \in T
  BY <1>0, SumToStep
<1>2. ASSUME NEW k \in Nat, k \in T PROVE k + 1 \in T
  <2>1. SUFFICES ASSUME k + 1 <= n
                 PROVE  SumTo(f, m + (k + 1)) = SumTo(f, m) + SumTo(g, k + 1)
    OBVIOUS
  <2>2. /\ SumTo(f, m + k) = SumTo(f, m) + SumTo(g, k)
        /\ f[m + k] \in Int /\ g[k] = f[m + k]
    BY <1>2, <2>1
  <2>3. SumTo(g, k) \in Int
    <3>1. \A j \in 0 .. k - 1 : g[j] \in Int
      BY <2>1
    <3>2. QED
      BY <3>1, SumToInt
  <2>4. SumTo(f, (m + k) + 1) = SumTo(f, m + k) + f[m + k]
        /\ SumTo(g, k + 1) = SumTo(g, k) + g[k]
    BY SumToStep
  <2>5. m + (k + 1) = (m + k) + 1
    OBVIOUS
  <2>6. QED
    BY <1>0, <2>2, <2>3, <2>4, <2>5
<1> HIDE DEF T
<1>3. \A k \in Nat : k \in T
  BY <1>1, <1>2, AllNaturals
<1>4. QED
  BY <1>3 DEF T

\* Zeros add nothing.
LEMMA SumToZeros ==
    ASSUME NEW f, NEW m \in Nat, NEW n \in Nat, m <= n,
           \A j \in 0 .. n - 1 : f[j] \in Int, \A j \in m .. n - 1 : f[j] = 0
    PROVE  SumTo(f, n) = SumTo(f, m)
<1> DEFINE T == {k \in Nat : (m <= k /\ k <= n) => SumTo(f, k) = SumTo(f, m)}
<1>1. 0 \in T
  OBVIOUS
<1>2. ASSUME NEW k \in Nat, k \in T PROVE k + 1 \in T
  <2>1. SUFFICES ASSUME m <= k + 1, k + 1 <= n PROVE SumTo(f, k + 1) = SumTo(f, m)
    OBVIOUS
  <2>2. CASE m = k + 1
    BY <2>2
  <2>3. CASE m # k + 1
    <3>1. SumTo(f, k) = SumTo(f, m) /\ f[k] = 0
      BY <1>2, <2>1, <2>3
    <3>2. SumTo(f, k) \in Int
      BY <2>1, SumToInt
    <3>3. SumTo(f, k + 1) = SumTo(f, k) + f[k]
      BY SumToStep
    <3>4. QED
      BY <3>1, <3>2, <3>3
  <2>4. QED
    BY <2>2, <2>3
<1> HIDE DEF T
<1>3. \A k \in Nat : k \in T
  BY <1>1, <1>2, AllNaturals
<1>4. QED
  BY <1>3 DEF T

\* An injection of a finite set into itself leaves nothing out.
LEMMA Onto ==
    ASSUME NEW S, IsFiniteSet(S), NEW p \in [S -> S],
           \A s, t \in S : p[s] = p[t] => s = t
    PROVE  \A t \in S : \E s \in S : p[s] = t
<1>1. p \in Injection(S, S)
  BY DEF Injection, IsInjective
<1>2. p \in Surjection(S, S)
  BY <1>1, FS_Injection
<1>3. QED
  BY <1>2 DEF Surjection

\* A renaming of the first n slots.
Renames(p, n) ==
    /\ p \in [0 .. n - 1 -> 0 .. n - 1]
    /\ \A s, t \in 0 .. n - 1 : p[s] = p[t] => s = t

LEMMA RenamesOnto ==
    ASSUME NEW n \in Nat, NEW p, Renames(p, n)
    PROVE  \A t \in 0 .. n - 1 : \E s \in 0 .. n - 1 : p[s] = t
<1> DEFINE S == 0 .. n - 1
<1>1. IsFiniteSet(S)
  BY FS_Interval
<1>2. p \in [S -> S] /\ (\A s, t \in S : p[s] = p[t] => s = t)
  BY DEF Renames
<1> HIDE DEF S
<1>3. \A t \in S : \E s \in S : p[s] = t
  BY <1>1, <1>2, Onto
<1>4. QED
  BY <1>3 DEF S

\* A sum does not depend on the order.
LEMMA SumToRenamed ==
    ASSUME NEW f, NEW g, NEW n \in Nat, NEW p, Renames(p, n),
           \A j \in 0 .. n - 1 : f[j] \in Int,
           \A j \in 0 .. n - 1 : g[p[j]] = f[j]
    PROVE  SumTo(g, n) = SumTo(f, n)
<1> DEFINE S == 0 .. n - 1
           H(m) == [s \in S |-> IF \E j \in 0 .. m - 1 : p[j] = s THEN g[s] ELSE 0]
           T == {m \in Nat : m <= n => SumTo(H(m), n) = SumTo(f, m)}
<1>0. p \in [S -> S] /\ (\A s, t \in S : p[s] = p[t] => s = t)
  BY DEF Renames
<1>1. \A t \in S : \E s \in S : p[s] = t
  BY RenamesOnto
<1>2. ASSUME NEW s \in S PROVE g[s] \in Int
  <2>1. PICK t \in S : p[t] = s
    BY <1>1
  <2>2. g[p[t]] = f[t] /\ f[t] \in Int
    OBVIOUS
  <2>3. QED
    BY <2>1, <2>2
<1>3. ASSUME NEW m \in Nat PROVE \A s \in S : H(m)[s] \in Int
  BY <1>2
<1>4. 0 \in T
  <2>1. \A s \in S : H(0)[s] = 0
    OBVIOUS
  <2> HIDE DEF H
  <2>2. \A s \in 0 .. n - 1 : H(0)[s] \in Int /\ H(0)[s] = 0
    BY <2>1
  <2>3. SumTo(H(0), n) = SumTo(H(0), 0)
    BY <2>2, SumToZeros
  <2>4. SumTo(H(0), 0) = 0 /\ SumTo(f, 0) = 0
    BY SumToStep
  <2>5. QED
    BY <2>3, <2>4
<1>5. ASSUME NEW m \in Nat, m \in T PROVE m + 1 \in T
  <2>1. SUFFICES ASSUME m + 1 <= n PROVE SumTo(H(m + 1), n) = SumTo(f, m + 1)
    OBVIOUS
  <2>2. m \in S /\ p[m] \in S /\ p[m] \in Nat /\ p[m] < n /\ f[m] \in Int /\ g[p[m]] = f[m]
    BY <1>0, <2>1
  <2>3. \A j \in 0 .. m - 1 : j \in S /\ p[j] # p[m]
    BY <1>0, <2>1, <2>2
  <2>4. \A s \in S : (\E j \in 0 .. m : p[j] = s) <=> (s = p[m] \/ \E j \in 0 .. m - 1 : p[j] = s)
    <3>1. \A j : j \in 0 .. m <=> (j = m \/ j \in 0 .. m - 1)
      BY <2>1
    <3>2. QED
      BY <3>1, Zenon
  <2>5. (m + 1) - 1 = m
    OBVIOUS
  <2>6. \A s \in S : H(m + 1)[s] = IF s = p[m] THEN H(m)[s] + f[m] ELSE H(m)[s]
    <3>1. TAKE s \in S
    <3>2. H(m + 1)[s] = IF \E j \in 0 .. m : p[j] = s THEN g[s] ELSE 0
      BY <2>5
    <3>3. H(m)[s] = IF \E j \in 0 .. m - 1 : p[j] = s THEN g[s] ELSE 0
      OBVIOUS
    <3> HIDE DEF H
    <3>4. CASE s = p[m]
      <4>1. H(m)[s] = 0 /\ H(m + 1)[s] = f[m]
        BY <2>2, <2>3, <2>4, <3>2, <3>3, <3>4
      <4>2. QED
        BY <2>2, <3>4, <4>1
    <3>5. CASE s # p[m]
      BY <2>4, <3>2, <3>3, <3>5
    <3>6. QED
      BY <3>4, <3>5
  <2>7. \A s \in S : H(m)[s] \in Int
    BY <1>3
  <2> HIDE DEF H
  <2>8. SumTo(H(m + 1), n) = SumTo(H(m), n) + (IF p[m] < n THEN f[m] ELSE 0)
    <3> DEFINE F == H(m)
               G == H(m + 1)
               q == p[m]
               v == f[m]
    <3>1. \A j \in 0 .. n - 1 : F[j] \in Int
      BY <2>7, Zenon
    <3>2. \A j \in 0 .. n - 1 : G[j] = IF j = q THEN F[j] + v ELSE F[j]
      BY <2>6, Zenon
    <3>3. q \in Nat /\ v \in Int
      BY <2>2
    <3> HIDE DEF F, G, q, v
    <3>4. SumTo(G, n) = SumTo(F, n) + (IF q < n THEN v ELSE 0)
      BY <3>1, <3>2, <3>3, SumToChanged, ZenonT(60)
    <3>5. QED
      BY <3>4, Zenon DEF F, G, q, v
  <2>9. SumTo(f, m + 1) = SumTo(f, m) + f[m]
    BY SumToStep
  <2>10. SumTo(H(m), n) = SumTo(f, m)
    BY <1>5, <2>1
  <2>11. QED
    BY <2>2, <2>8, <2>9, <2>10
<1> HIDE DEF T
<1>6. n \in T
  BY <1>4, <1>5, AllNaturals
<1>7. \A s \in S : H(n)[s] = g[s]
  BY <1>1
<1> HIDE DEF H
<1>8. SumTo(H(n), n) = SumTo(g, n)
  BY <1>2, <1>7, SumToSame
<1>9. QED
  BY <1>6, <1>8 DEF T
=============================================================================
