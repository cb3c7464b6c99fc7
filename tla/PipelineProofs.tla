---------------------------- MODULE PipelineProofs ----------------------------
(***************************************************************************)
(* What load_matrix promises for every loaded matrix, with or without      *)
(* --symmetrize: the iterator of the union delivers the matrix's entries   *)
(* and then their transposes, so that load_matrix_to_crm finds what it     *)
(* would find in a file of them; packing, proved in PackStorageProofs for  *)
(* any compressed rows, is handed every entry in its slot, so that what is *)
(* shown is the sum.                                                       *)
(***************************************************************************)
EXTENDS Pipeline, CompressedRowsProofs

----------------------------------------------------------------------------
\* Compressed rows.

LEMMA MatrixShape ==
    ASSUME NEW m \in Matrices
    PROVE  /\ m.nrows \in Nat /\ m.nrows >= 1 /\ m.ncols \in Nat /\ m.nnz \in Nat
           /\ m.ai \in [0 .. m.nrows -> 0 .. m.nnz]
           /\ m.ai[0] = 0 /\ m.ai[m.nrows] = m.nnz
           /\ \A r \in 0 .. m.nrows : m.ai[r] \in Nat /\ m.ai[r] <= m.nnz
           /\ \A r, s \in 0 .. m.nrows : r <= s => m.ai[r] <= m.ai[s]
           /\ m.aj \in [0 .. (m.nnz - 1) -> 0 .. (m.ncols - 1)]
           /\ m.a \in [0 .. (m.nnz - 1) -> Int]
<1>1. /\ m.nrows \in Nat \ {0} /\ m.ncols \in Nat /\ m.nnz \in Nat
      /\ m.ai \in [0 .. m.nrows -> 0 .. m.nnz]
      /\ m.ai[0] = 0 /\ m.ai[m.nrows] = m.nnz
      /\ \A r, s \in 0 .. m.nrows : r <= s => m.ai[r] <= m.ai[s]
      /\ m.aj \in [0 .. (m.nnz - 1) -> 0 .. (m.ncols - 1)]
      /\ m.a \in [0 .. (m.nnz - 1) -> Int]
  BY MatricesAssumption
<1>2. QED
  BY <1>1

\* A slot lies in one row and no other.
LEMMA OneRow ==
    ASSUME NEW m \in Matrices, NEW s \in 0 .. (m.nnz - 1), NEW r \in 0 .. (m.nrows - 1),
           m.ai[r] <= s, s < m.ai[r + 1]
    PROVE  RowOfSlot(m, s) = r
<1>1. m.nrows \in Nat /\ m.nnz \in Nat
  BY MatrixShape
<1>2. \A q \in 0 .. (m.nrows - 1) : m.ai[q] <= s /\ s < m.ai[q + 1] => q = r
  <2> SUFFICES ASSUME NEW q \in 0 .. (m.nrows - 1), m.ai[q] <= s, s < m.ai[q + 1], q # r
               PROVE  FALSE
    OBVIOUS
  <2>1. /\ q \in 0 .. m.nrows /\ q + 1 \in 0 .. m.nrows
        /\ r \in 0 .. m.nrows /\ r + 1 \in 0 .. m.nrows
        /\ q + 1 <= r \/ r + 1 <= q
    BY <1>1
  <2>2. /\ q + 1 <= r => m.ai[q + 1] <= m.ai[r]
        /\ r + 1 <= q => m.ai[r + 1] <= m.ai[q]
    BY <2>1, MatrixShape
  <2>3. /\ m.ai[q] \in Nat /\ m.ai[q + 1] \in Nat
        /\ m.ai[r] \in Nat /\ m.ai[r + 1] \in Nat /\ s \in Int
    BY <1>1, <2>1, MatrixShape
  <2>4. QED
    BY <2>1, <2>2, <2>3
<1>3. QED
  BY <1>2 DEF RowOfSlot

LEMMA SlotHasRow ==
    ASSUME NEW m \in Matrices, NEW s \in 0 .. (m.nnz - 1)
    PROVE  /\ RowOfSlot(m, s) \in 0 .. (m.nrows - 1)
           /\ m.ai[RowOfSlot(m, s)] <= s /\ s < m.ai[RowOfSlot(m, s) + 1]
           /\ m.aj[s] \in 0 .. (m.ncols - 1)
           /\ m.a[s] \in Int
<1>1. m.nrows \in Nat /\ m.nrows >= 1 /\ m.nnz \in Nat /\ s \in Nat /\ s < m.nnz
  BY MatrixShape
<1> DEFINE T == {q \in 1 .. m.nrows : s < m.ai[q]}
<1>2. m.nrows \in T /\ T \subseteq Nat
  BY <1>1, MatrixShape
<1>3. PICK q \in T : \A n \in T : q <= n
  <2> HIDE DEF T
  <2>1. QED
    BY <1>2, LeastOf
<1>4. q \in 1 .. m.nrows /\ s < m.ai[q] /\ q - 1 \in 0 .. (m.nrows - 1) /\ (q - 1) + 1 = q
  BY <1>1, <1>3
<1>5. m.ai[q - 1] <= s
  <2>1. q - 1 \notin T
    BY <1>1, <1>3, <1>4
  <2>2. CASE q = 1
    BY <1>1, <2>2, MatrixShape
  <2>3. CASE q # 1
    <3>1. q - 1 \in 1 .. m.nrows /\ q - 1 \in 0 .. m.nrows
      BY <1>1, <1>4, <2>3
    <3>2. ~(s < m.ai[q - 1])
      BY <2>1, <3>1
    <3>3. m.ai[q - 1] \in Nat
      BY <3>1, MatrixShape
    <3>4. QED
      BY <1>1, <3>2, <3>3
  <2>4. QED
    BY <2>2, <2>3
<1>6. RowOfSlot(m, s) = q - 1
  <2> HIDE DEF T
  <2>1. QED
    BY <1>4, <1>5, OneRow
<1>7. QED
  BY <1>4, <1>5, <1>6, MatrixShape

----------------------------------------------------------------------------
\* The union, as a file.

LEMMA UnionShape ==
    ASSUME NEW m \in Matrices
    PROVE  /\ Larger(m.nrows, m.ncols) \in Nat /\ Larger(m.nrows, m.ncols) >= 1
           /\ m.nrows <= Larger(m.nrows, m.ncols) /\ m.ncols <= Larger(m.nrows, m.ncols)
           /\ m.ncols <= m.nrows => Larger(m.nrows, m.ncols) = m.nrows
           /\ \A n \in 1 .. (2 * m.nnz) :
                 /\ UnionEntry(m, n) \in [row : Nat, col : Nat, val : Int]
                 /\ UnionEntry(m, n).row < Larger(m.nrows, m.ncols)
                 /\ UnionEntry(m, n).col < Larger(m.nrows, m.ncols)
<1>1. m.nrows \in Nat /\ m.nrows >= 1 /\ m.ncols \in Nat /\ m.nnz \in Nat
  BY MatrixShape
<1>2. /\ Larger(m.nrows, m.ncols) \in Nat /\ Larger(m.nrows, m.ncols) >= 1
      /\ m.nrows <= Larger(m.nrows, m.ncols) /\ m.ncols <= Larger(m.nrows, m.ncols)
      /\ m.ncols <= m.nrows => Larger(m.nrows, m.ncols) = m.nrows
  BY <1>1 DEF Larger
<1> HIDE DEF Larger
<1>3. ASSUME NEW n \in 1 .. (2 * m.nnz)
      PROVE  /\ UnionEntry(m, n) \in [row : Nat, col : Nat, val : Int]
             /\ UnionEntry(m, n).row < Larger(m.nrows, m.ncols)
             /\ UnionEntry(m, n).col < Larger(m.nrows, m.ncols)
  <2> DEFINE s == IF n <= m.nnz THEN n - 1 ELSE n - m.nnz - 1
  <2>1. s \in 0 .. (m.nnz - 1)
    BY <1>1
  <2>2. UnionEntry(m, n) =
           IF n <= m.nnz THEN [row |-> RowOfSlot(m, s), col |-> m.aj[s], val |-> m.a[s]]
           ELSE [row |-> m.aj[s], col |-> RowOfSlot(m, s), val |-> m.a[s]]
    BY Zenon DEF UnionEntry
  <2> HIDE DEF s
  <2>3. /\ RowOfSlot(m, s) \in Nat /\ RowOfSlot(m, s) < m.nrows
        /\ m.aj[s] \in Nat /\ m.aj[s] < m.ncols /\ m.a[s] \in Int
    BY <1>1, <2>1, SlotHasRow
  <2>4. CASE n <= m.nnz
    BY <1>1, <1>2, <2>2, <2>3, <2>4
  <2>5. CASE ~(n <= m.nnz)
    BY <1>1, <1>2, <2>2, <2>3, <2>5
  <2>6. QED
    BY <2>4, <2>5
<1>4. QED
  BY <1>2, <1>3

LEMMA UnionIsWellFormed ==
    ASSUME NEW m \in Matrices
    PROVE  /\ IsMatrixFile(UnionFile(m)) /\ WellFormed(UnionFile(m))
           /\ UnionFile(m).nr = Larger(m.nrows, m.ncols)
           /\ UnionFile(m).nc = Larger(m.nrows, m.ncols)
           /\ UnionFile(m).nnz = 2 * m.nnz
           /\ Len(UnionFile(m).entries) = 2 * m.nnz
           /\ \A n \in 1 .. (2 * m.nnz) : UnionFile(m).entries[n] = UnionEntry(m, n)
<1> DEFINE R == [row : Nat, col : Nat, val : Int]
           E == [n \in 1 .. (2 * m.nnz) |-> UnionEntry(m, n)]
           f == UnionFile(m)
<1>1. m.nnz \in Nat /\ 2 * m.nnz \in Nat
  BY MatrixShape
<1>2. f.nr = Larger(m.nrows, m.ncols) /\ f.nc = Larger(m.nrows, m.ncols)
      /\ f.nnz = 2 * m.nnz /\ f.entries = E
  BY DEF UnionFile
<1>3. \A n \in 1 .. (2 * m.nnz) : UnionEntry(m, n) \in R
  BY UnionShape
<1>4. E \in Seq(R) /\ Len(E) = 2 * m.nnz
  <2> HIDE DEF R
  <2>1. E \in [1 .. (2 * m.nnz) -> R]
    BY <1>3
  <2>2. QED
    BY <1>1, <2>1
<1>5. \A n \in 1 .. (2 * m.nnz) : E[n] = UnionEntry(m, n)
  OBVIOUS
<1> HIDE DEF E, f
<1>6. IsMatrixFile(f)
  BY <1>1, <1>2, <1>4, UnionShape DEF IsMatrixFile
<1>7. WellFormed(f)
  <2>1. f.nr >= 1 /\ Len(f.entries) = f.nnz
    BY <1>2, <1>4, UnionShape
  <2>2. \A n \in 1 .. Len(f.entries) : f.entries[n].row < f.nr /\ f.entries[n].col < f.nc
    BY <1>2, <1>4, <1>5, UnionShape
  <2>3. QED
    BY <2>1, <2>2 DEF WellFormed
<1>8. QED
  BY <1>2, <1>4, <1>5, <1>6, <1>7 DEF f

----------------------------------------------------------------------------
\* The iterator.

LEMMA SkipsEmptyRows ==
    ASSUME loaded \in Matrices, NEW p \in 1 .. (loaded.nrows + 1),
           NEW id \in 0 .. loaded.nnz, loaded.ai[p - 1] = id
    PROVE  LET q == SkipEmpty(p, id)
           IN  /\ q \in p .. (loaded.nrows + 1)
               /\ id < loaded.nnz =>
                     q <= loaded.nrows /\ loaded.ai[q - 1] = id /\ id < loaded.ai[q]
               /\ id = loaded.nnz => q = loaded.nrows + 1
<1> DEFINE N == loaded.nrows + 1
           T == {q \in p .. N : q = N \/ loaded.ai[q] # id}
           q == SkipEmpty(p, id)
<1>1. loaded.nrows \in Nat /\ loaded.nrows >= 1 /\ loaded.nnz \in Nat /\ N \in Nat /\ id \in Nat
  BY MatrixShape
<1>2. N \in T /\ T \subseteq Nat
  BY <1>1
<1>3. PICK m \in T : \A n \in T : m <= n
  <2> HIDE DEF T
  <2>1. QED
    BY <1>2, LeastOf
<1>4. /\ m \in p .. N
      /\ m = N \/ loaded.ai[m] # id
      /\ \A o \in p .. (m - 1) : loaded.ai[o] = id
  <2>1. m \in p .. N /\ (m = N \/ loaded.ai[m] # id)
    BY <1>3
  <2>2. ASSUME NEW o \in p .. (m - 1), loaded.ai[o] # id
        PROVE  FALSE
    <3>1. o \in p .. N /\ ~(m <= o)
      BY <1>1, <2>1
    <3>2. o \in T
      BY <2>2, <3>1
    <3>3. QED
      BY <1>3, <3>1, <3>2
  <2>3. QED
    BY <2>1, <2>2
<1>5. /\ q \in p .. N
      /\ q = N \/ loaded.ai[q] # id
      /\ \A o \in p .. (q - 1) : loaded.ai[o] = id
  <2> HIDE DEF T
  <2>1. q = CHOOSE x \in p .. N :
               /\ x = N \/ loaded.ai[x] # id
               /\ \A o \in p .. (x - 1) : loaded.ai[o] = id
    BY DEF SkipEmpty
  <2> HIDE DEF q, N
  <2>2. QED
    BY <1>4, <2>1
<1> HIDE DEF q, T
<1>6. q - 1 \in 0 .. loaded.nrows /\ q \in Nat
  BY <1>1, <1>5
<1>7. loaded.ai[q - 1] = id
  <2>1. CASE q = p
    BY <2>1
  <2>2. CASE q # p
    <3>1. q - 1 \in p .. (q - 1)
      BY <1>1, <1>5, <2>2
    <3>2. QED
      BY <1>5, <3>1
  <2>3. QED
    BY <2>1, <2>2
<1>8. q = N => id = loaded.nnz
  <2>1. (loaded.nrows + 1) - 1 = loaded.nrows
    BY <1>1
  <2>2. QED
    BY <1>7, <2>1, MatrixShape
<1>9. q # N => /\ q \in 0 .. loaded.nrows /\ q <= loaded.nrows
               /\ id < loaded.ai[q] /\ loaded.ai[q] <= loaded.nnz
  <2> SUFFICES ASSUME q # N
               PROVE  /\ q \in 0 .. loaded.nrows /\ q <= loaded.nrows
                      /\ id < loaded.ai[q] /\ loaded.ai[q] <= loaded.nnz
    OBVIOUS
  <2>1. q \in 0 .. loaded.nrows /\ q <= loaded.nrows /\ q - 1 <= q /\ loaded.ai[q] # id
    BY <1>1, <1>5, <1>6
  <2>2. /\ loaded.ai[q - 1] <= loaded.ai[q]
        /\ loaded.ai[q] \in Nat /\ loaded.ai[q] <= loaded.nnz
    BY <1>6, <2>1, MatrixShape
  <2>3. QED
    BY <1>1, <1>7, <2>1, <2>2
<1>10. q \in p .. (loaded.nrows + 1)
  BY <1>5
<1>11. id < loaded.nnz => q # N
  BY <1>1, <1>8
<1>12. id = loaded.nnz => q = N
  <2>1. CASE q = N
    BY <2>1
  <2>2. CASE q # N
    <3>1. id < loaded.ai[q] /\ loaded.ai[q] <= loaded.nnz /\ loaded.ai[q] \in Nat
      BY <1>9, <2>2, MatrixShape
    <3>2. id # loaded.nnz
      BY <1>1, <3>1
    <3>3. QED
      BY <3>2
  <2>3. QED
    BY <2>1, <2>2
<1>13. QED
  BY <1>7, <1>9, <1>10, <1>11, <1>12 DEF q

\* The iterator stands at an entry of its half: the entry is in the row whose
\* end it holds.
AtEntry(x) ==
    /\ x.half \in {1, 2}
    /\ x.id \in 0 .. (loaded.nnz - 1)
    /\ x.ri \in 1 .. loaded.nrows
    /\ loaded.ai[x.ri - 1] <= x.id /\ x.id < loaded.ai[x.ri]

\* The entries delivered before it.
Taken(x) ==
    IF x.half = Over THEN 2 * loaded.nnz
    ELSE IF x.half = 1 THEN x.id ELSE loaded.nnz + x.id

InRange(x) ==
    x.half \in 1 .. 3 /\ x.ri \in 1 .. (loaded.nrows + 1) /\ x.id \in 0 .. loaded.nnz

LEMMA BeginsAtEntry ==
    ASSUME loaded \in Matrices, NEW half \in {1, 2}
    PROVE  /\ Begin(half).half = half /\ Begin(half).id = 0 /\ InRange(Begin(half))
           /\ loaded.nnz > 0 => AtEntry(Begin(half))
           /\ Taken(Begin(half)) = IF half = 1 THEN 0 ELSE loaded.nnz
<1> DEFINE q == SkipEmpty(1, 0)
<1>1. /\ loaded.nrows \in Nat /\ loaded.nrows >= 1 /\ loaded.nnz \in Nat
      /\ loaded.ai[0] = 0
  BY MatrixShape
<1>2. 1 \in 1 .. (loaded.nrows + 1) /\ 0 \in 0 .. loaded.nnz /\ loaded.ai[1 - 1] = 0
  BY <1>1
<1>3. /\ q \in 1 .. (loaded.nrows + 1)
      /\ 0 < loaded.nnz => q <= loaded.nrows /\ loaded.ai[q - 1] = 0 /\ 0 < loaded.ai[q]
  BY <1>2, SkipsEmptyRows
<1>4. Begin(half) = [half |-> half, id |-> 0, ri |-> q]
  BY DEF Begin
<1> HIDE DEF q
<1>5. Begin(half).half = half /\ Begin(half).id = 0 /\ Begin(half).ri = q
  BY <1>4
<1>6. InRange(Begin(half))
  BY <1>1, <1>3, <1>5 DEF InRange
<1>7. loaded.nnz > 0 => AtEntry(Begin(half))
  BY <1>1, <1>3, <1>5 DEF AtEntry
<1>8. Taken(Begin(half)) = IF half = 1 THEN 0 ELSE loaded.nnz
  BY <1>1, <1>5 DEF Taken, Over
<1>9. QED
  BY <1>5, <1>6, <1>7, <1>8

LEMMA AdvancesByOne ==
    ASSUME loaded \in Matrices, NEW x, AtEntry(x)
    PROVE  /\ Taken(x) \in 0 .. (2 * loaded.nnz - 1)
           /\ Taken(Advanced(x)) = Taken(x) + 1
           /\ AtEntry(Advanced(x)) \/ Advanced(x).half = Over
           /\ InRange(Advanced(x))
<1> DEFINE id == x.id + 1
           r == IF id = loaded.ai[x.ri] THEN SkipEmpty(x.ri + 1, id) ELSE x.ri
<1>1. /\ loaded.nrows \in Nat /\ loaded.nrows >= 1 /\ loaded.nnz \in Nat
      /\ x.half \in {1, 2} /\ x.id \in Nat /\ id \in Nat /\ id <= loaded.nnz
      /\ x.id = id - 1
      /\ x.ri \in Nat /\ x.ri >= 1 /\ x.ri <= loaded.nrows
      /\ loaded.ai[x.ri] \in Nat /\ loaded.ai[x.ri - 1] \in Nat
      /\ loaded.ai[x.ri - 1] <= x.id /\ x.id < loaded.ai[x.ri]
      /\ loaded.ai[x.ri] <= loaded.nnz
  <2>1. loaded.nrows \in Nat /\ loaded.nrows >= 1 /\ loaded.nnz \in Nat
    BY MatrixShape
  <2>2. x.ri \in 0 .. loaded.nrows /\ x.ri - 1 \in 0 .. loaded.nrows
    BY <2>1 DEF AtEntry
  <2>3. QED
    BY <2>1, <2>2, MatrixShape, SMTT(30) DEF AtEntry
<1>2. /\ Taken(x) \in 0 .. (2 * loaded.nnz - 1)
      /\ Taken(x) = IF x.half = 1 THEN x.id ELSE loaded.nnz + x.id
  BY <1>1 DEF Taken, Over
<1>3. /\ r \in 1 .. (loaded.nrows + 1)
      /\ id < loaded.nnz => /\ r \in 1 .. loaded.nrows
                            /\ loaded.ai[r - 1] <= id /\ id < loaded.ai[r]
      /\ id = loaded.nnz => r = loaded.nrows + 1
  <2>1. CASE id = loaded.ai[x.ri]
    <3>1. /\ x.ri + 1 \in 1 .. (loaded.nrows + 1) /\ id \in 0 .. loaded.nnz
          /\ loaded.ai[(x.ri + 1) - 1] = id
      BY <1>1, <2>1
    <3> DEFINE q == SkipEmpty(x.ri + 1, id)
    <3> HIDE DEF id
    <3>2. /\ q \in (x.ri + 1) .. (loaded.nrows + 1)
          /\ id < loaded.nnz =>
                q <= loaded.nrows /\ loaded.ai[q - 1] = id /\ id < loaded.ai[q]
          /\ id = loaded.nnz => q = loaded.nrows + 1
      BY <3>1, SkipsEmptyRows
    <3>3. r = q
      BY <2>1
    <3> HIDE DEF q, r
    <3>4. QED
      BY <1>1, <3>2, <3>3
  <2>2. CASE id # loaded.ai[x.ri]
    <3>1. r = x.ri /\ id < loaded.ai[x.ri]
      BY <1>1, <2>2
    <3> HIDE DEF r
    <3>2. QED
      BY <1>1, <3>1
  <2>3. QED
    BY <2>1, <2>2
<1>4. Advanced(x) =
         IF r # loaded.nrows + 1 THEN [half |-> x.half, id |-> id, ri |-> r]
         ELSE IF x.half = 1 THEN Begin(2)
         ELSE [half |-> Over, id |-> id, ri |-> r]
  BY DEF Advanced
<1> HIDE DEF r, id
<1>5. CASE id < loaded.nnz
  <2> DEFINE y == [half |-> x.half, id |-> id, ri |-> r]
  <2>1. Advanced(x) = y
    BY <1>1, <1>3, <1>4, <1>5
  <2>2. y.half = x.half /\ y.id = id /\ y.ri = r
    OBVIOUS
  <2> HIDE DEF y
  <2>3. AtEntry(y) /\ InRange(y)
    BY <1>1, <1>3, <1>5, <2>2 DEF AtEntry, InRange
  <2>4. Taken(y) = Taken(x) + 1
    BY <1>1, <1>2, <2>2 DEF Taken, Over
  <2>5. QED
    BY <1>2, <2>1, <2>3, <2>4
<1>6. CASE id = loaded.nnz /\ x.half = 1
  <2>1. Advanced(x) = Begin(2)
    BY <1>3, <1>4, <1>6
  <2>2. loaded.nnz > 0
    BY <1>1, <1>6
  <2>3. AtEntry(Begin(2)) /\ InRange(Begin(2)) /\ Taken(Begin(2)) = loaded.nnz
    BY <2>2, BeginsAtEntry
  <2>4. Taken(x) + 1 = loaded.nnz
    BY <1>1, <1>2, <1>6
  <2>5. QED
    BY <1>2, <2>1, <2>3, <2>4
<1>7. CASE id = loaded.nnz /\ x.half = 2
  <2> DEFINE y == [half |-> Over, id |-> id, ri |-> r]
  <2>1. Advanced(x) = y
    BY <1>3, <1>4, <1>7
  <2>2. y.half = Over /\ y.id = id /\ y.ri = r
    OBVIOUS
  <2> HIDE DEF y
  <2>3. InRange(y)
    BY <1>1, <1>3, <2>2 DEF InRange, Over
  <2>4. Taken(y) = Taken(x) + 1
    BY <1>1, <1>2, <1>7, <2>2 DEF Taken
  <2>5. QED
    BY <1>2, <2>1, <2>2, <2>3, <2>4
<1>8. QED
  BY <1>1, <1>5, <1>6, <1>7

\* What it delivers is the next entry of the union.
LEMMA DeliversNext ==
    ASSUME loaded \in Matrices, NEW x, AtEntry(x)
    PROVE  /\ Readable(x) /\ x.half # Over
           /\ Current(x) = UnionEntry(loaded, Taken(x) + 1)
<1>1. /\ loaded.nrows \in Nat /\ loaded.nnz \in Nat
      /\ x.half \in {1, 2} /\ x.id \in Nat /\ x.id < loaded.nnz
      /\ x.id \in 0 .. (loaded.nnz - 1)
      /\ x.ri - 1 \in 0 .. (loaded.nrows - 1) /\ (x.ri - 1) + 1 = x.ri
      /\ loaded.ai[x.ri - 1] <= x.id /\ x.id < loaded.ai[x.ri]
  BY MatrixShape DEF AtEntry
<1>2. RowOfSlot(loaded, x.id) = x.ri - 1
  BY <1>1, OneRow
<1>3. Readable(x) /\ x.half # Over
  BY <1>1 DEF Readable, Over
<1>4. CASE x.half = 1
  <2>1. Taken(x) + 1 <= loaded.nnz /\ (Taken(x) + 1) - 1 = x.id
    BY <1>1, <1>4 DEF Taken, Over
  <2>2. QED
    BY <1>2, <1>3, <1>4, <2>1 DEF Current, UnionEntry, RowNumber
<1>5. CASE x.half = 2
  <2>1. ~(Taken(x) + 1 <= loaded.nnz) /\ (Taken(x) + 1) - loaded.nnz - 1 = x.id
    BY <1>1, <1>5 DEF Taken, Over
  <2>2. QED
    BY <1>2, <1>3, <1>5, <2>1 DEF Current, UnionEntry, RowNumber
<1>6. QED
  BY <1>1, <1>4, <1>5

----------------------------------------------------------------------------
\* The invariant.

SymmetrizingLabels == {"count", "sum", "place", "shift", "symmetrized", "undefined"}
PackingLabels == {"row", "element", "reset", "sort", "done"}

TypeInv == PipeTypeOK /\ cur_elem \in Nat

\* Which variables the stages of load_matrix have set.
StageInv ==
    /\ pc \in {"start", "rejected"} =>
          /\ nrows = loaded.nrows /\ ncols = loaded.ncols /\ nnz = loaded.nnz
          /\ ai = loaded.ai /\ aj = loaded.aj /\ a = loaded.a
          /\ nzcount = 0 /\ i = 0 /\ ~warning /\ written = {}
    /\ pc \in SymmetrizingLabels =>
          /\ symmetrize
          /\ nrows = Larger(loaded.nrows, loaded.ncols)
          /\ ncols = Larger(loaded.nrows, loaded.ncols)
          /\ nnz = 2 * loaded.nnz
          /\ aj \in [SlotIndices(loaded) -> 0 .. (ncols - 1)]
    /\ mlarge = NoMatrix <=> pc \notin PackingLabels

\* Where the iterator stands, and how far an unsound matrix gets.
WalkInv ==
    /\ pc # "failed"
    /\ pc \in SymmetrizingLabels => ~warning
    /\ pc \in {"count", "place"} =>
          /\ nzcount = Taken(it)
          /\ loaded.nnz > 0 => AtEntry(it) \/ it.half = Over
          /\ loaded.nnz = 0 => pc = "count" /\ it.half = 1
    /\ pc = "sum" => loaded.nnz > 0 /\ i >= 1 /\ i <= loaded.nrows + 1
    /\ pc \in {"place", "shift", "symmetrized"} => Sound(loaded)
    /\ pc = "shift" => i <= nrows - 1

\* What the array of row starts holds, as for a file of the union's entries.
RowsInv ==
    Sound(loaded) =>
        /\ pc # "undefined"
        /\ pc = "count" => Counted(UnionFile(loaded), ai, nzcount)
        /\ pc = "sum" => Summed(UnionFile(loaded), ai, i)
        /\ pc = "place" => Moved(UnionFile(loaded), ai, nzcount)
        /\ pc = "shift" => Shifted(UnionFile(loaded), ai, i)
        /\ pc = "symmetrized" => Starts(UnionFile(loaded), ai)

PipelineInv ==
    /\ TypeInv
    /\ StageInv
    /\ WalkInv
    /\ RowsInv
    /\ HandsOnCompressedRows

\* The rows of a sound matrix are those of the union.
LEMMA SoundRows ==
    ASSUME NEW m \in Matrices, Sound(m)
    PROVE  /\ Larger(m.nrows, m.ncols) = m.nrows
           /\ RowsOf(UnionFile(m)) = RowIndices(m)
           /\ SlotsOf(UnionFile(m)) = SlotIndices(m)
<1>1. Larger(m.nrows, m.ncols) = m.nrows
  BY UnionShape DEF Sound
<1>2. QED
  BY <1>1, UnionIsWellFormed DEF RowsOf, RowIndices, SlotsOf, SlotIndices

LEMMA PipelineInvInit == PipeInit => PipelineInv
<1> SUFFICES ASSUME PipeInit
             PROVE  PipelineInv
  OBVIOUS
<1>1. /\ loaded \in Matrices /\ pc = "start"
      /\ nrows = loaded.nrows /\ ncols = loaded.ncols /\ nnz = loaded.nnz
      /\ ai = loaded.ai /\ aj = loaded.aj /\ a = loaded.a
      /\ it = [half |-> Over, id |-> 0, ri |-> 1]
      /\ nzcount = 0 /\ i = 0 /\ written = {}
      /\ mlarge = NoMatrix /\ cur_elem = 0
  BY DEF PipeInit, Init
<1>2. /\ warning = FALSE /\ warning \in BOOLEAN /\ symmetrize \in BOOLEAN
      /\ matrix_loaded \in BOOLEAN
  BY Zenon DEF PipeInit, Init
<1>3. /\ nrows \in Nat /\ nrows >= 1 /\ ncols \in Nat /\ nnz \in Nat
      /\ ai \in [RowIndices(loaded) -> Nat]
      /\ DOMAIN a = DOMAIN aj
  BY <1>1, MatrixShape DEF RowIndices
<1>4. it.half = 3 /\ it.id = 0 /\ it.ri = 1
  BY <1>1 DEF Over
<1>5. TypeInv
  BY <1>1, <1>2, <1>3, <1>4 DEF TypeInv, PipeTypeOK, Labels
<1>6. StageInv
  BY <1>1, <1>2 DEF StageInv, SymmetrizingLabels, PackingLabels
<1>7. WalkInv
  BY <1>1 DEF WalkInv, SymmetrizingLabels
<1>8. RowsInv
  BY <1>1 DEF RowsInv
<1>9. HandsOnCompressedRows
  BY <1>1 DEF HandsOnCompressedRows
<1>10. QED
  BY <1>5, <1>6, <1>7, <1>8, <1>9 DEF PipelineInv

LEMMA PipelineInvStep == PipelineInv /\ [PipeNext]_pipevars => PipelineInv'
<1> SUFFICES ASSUME PipelineInv, [PipeNext]_pipevars
             PROVE  PipelineInv'
  OBVIOUS
<1> DEFINE U == UnionFile(loaded)
           len == 2 * loaded.nnz
<1>1. TypeInv /\ PipeTypeOK /\ StageInv /\ WalkInv /\ RowsInv /\ HandsOnCompressedRows
  BY DEF PipelineInv, TypeInv
<1>2. /\ loaded \in Matrices
      /\ loaded.nrows \in Nat /\ loaded.nrows >= 1 /\ loaded.ncols \in Nat
      /\ loaded.nnz \in Nat /\ len \in Nat
      /\ ai \in [RowIndices(loaded) -> Nat] /\ i \in Nat /\ nzcount \in Nat
      /\ nrows \in Nat /\ ncols \in Nat /\ nnz \in Nat
  BY <1>1, MatrixShape DEF PipeTypeOK
<1>3. /\ IsMatrixFile(U) /\ WellFormed(U)
      /\ U.nr = Larger(loaded.nrows, loaded.ncols) /\ U.nnz = len
      /\ Len(U.entries) = len
      /\ \A n \in 1 .. len : U.entries[n] = UnionEntry(loaded, n)
  BY <1>2, UnionIsWellFormed
<1>4. Sound(loaded) => /\ Larger(loaded.nrows, loaded.ncols) = loaded.nrows
                       /\ RowsOf(U) = RowIndices(loaded)
                       /\ SlotsOf(U) = SlotIndices(loaded)
                       /\ loaded.nnz > 0
  BY <1>2, SoundRows DEF Sound
<1>5. /\ Larger(loaded.nrows, loaded.ncols) \in Nat /\ Larger(loaded.nrows, loaded.ncols) >= 1
      /\ loaded.nrows <= Larger(loaded.nrows, loaded.ncols)
      /\ loaded.ncols <= Larger(loaded.nrows, loaded.ncols)
  BY <1>2, UnionShape
<1> HIDE DEF U, len
<1>6. CASE LoadFailed
  <2>1. /\ pc = "start" /\ pc' = "rejected"
        /\ UNCHANGED <<loaded, nrows, ncols, nnz, ai, aj, a, it, nzcount, i, warning, written,
                       symmetrize, matrix_loaded, mlarge, cur_elem>>
    BY <1>6 DEF LoadFailed, arrays, packing
  <2>2. QED
    BY <1>1, <2>1 DEF PipelineInv, TypeInv, PipeTypeOK, Labels, StageInv, WalkInv, RowsInv,
       HandsOnCompressedRows, SymmetrizingLabels, PackingLabels
<1>7. ASSUME Symmetrizing
      PROVE  PipelineInv'
  <2>1. symmetrize /\ Next /\ UNCHANGED <<symmetrize, matrix_loaded, mlarge, cur_elem>>
    BY <1>7 DEF Symmetrizing, packing
  <2>2. loaded' = loaded
    BY <2>1 DEF Next, Start, CountEntry, CountDone, SumStep, SumDone, PlaceEntry, PlaceDone,
       ShiftStep, ShiftDone, Undefined
  <2>hands. HandsOnCompressedRows'
    BY <1>1, <2>1 DEF HandsOnCompressedRows
  <2>3. CASE Start
    <3>1. /\ pc = "start" /\ pc' = "count"
          /\ nnz' = len /\ ai' = RowsCleared /\ aj' = Resized(aj) /\ a' = Resized(a)
          /\ nrows' = Larger(loaded.nrows, loaded.ncols)
          /\ ncols' = Larger(loaded.nrows, loaded.ncols)
          /\ it' = Begin(1)
          /\ UNCHANGED <<nzcount, i, warning, written>>
      BY <2>3 DEF Start, len
    <3>2. aj = loaded.aj /\ nzcount = 0 /\ i = 0 /\ ~warning /\ written = {}
      BY <1>1, <3>1 DEF StageInv
    <3>3. aj' \in [SlotIndices(loaded) -> 0 .. (ncols' - 1)] /\ DOMAIN a' = SlotIndices(loaded)
      <4>1. \A s \in SlotIndices(loaded) :
               (IF s < loaded.nnz THEN loaded.aj[s] ELSE 0)
                  \in 0 .. (Larger(loaded.nrows, loaded.ncols) - 1)
        <5> SUFFICES ASSUME NEW s \in SlotIndices(loaded), s < loaded.nnz
                     PROVE  loaded.aj[s] \in 0 .. (Larger(loaded.nrows, loaded.ncols) - 1)
          BY <1>5
        <5>1. s \in 0 .. (loaded.nnz - 1)
          BY <1>2 DEF SlotIndices
        <5>2. loaded.aj[s] \in 0 .. (loaded.ncols - 1)
          BY <1>2, <5>1, MatrixShape
        <5>3. QED
          BY <1>2, <1>5, <5>2
      <4>2. QED
        BY <3>1, <3>2, <4>1 DEF Resized
    <3>4. /\ Begin(1).half = 1 /\ Begin(1).id = 0 /\ InRange(Begin(1))
          /\ loaded.nnz > 0 => AtEntry(Begin(1))
          /\ Taken(Begin(1)) = 0
      BY <1>2, BeginsAtEntry
    <3>5. ai' \in [RowIndices(loaded) -> Nat] /\ \A r \in RowIndices(loaded) : ai'[r] = 0
      BY <3>1 DEF RowsCleared
    <3>6. TypeInv'
      BY <1>1, <1>2, <1>5, <2>1, <2>2, <3>1, <3>2, <3>3, <3>4, <3>5
         DEF TypeInv, PipeTypeOK, Labels, InRange, len
    <3>7. StageInv'
      BY <1>1, <2>1, <2>2, <3>1, <3>3 DEF StageInv, SymmetrizingLabels, PackingLabels, len
    <3>8. WalkInv'
      BY <2>2, <3>1, <3>2, <3>4 DEF WalkInv, SymmetrizingLabels, AtEntry, Taken, Over
    <3>9. RowsInv'
      <4>1. Sound(loaded) => Counted(U, ai', 0)
        BY <1>3, <1>4, <3>5, CountedAtFirst
      <4>2. QED
        BY <2>2, <3>1, <3>2, <4>1 DEF RowsInv, U
    <3>10. QED
      BY <2>hands, <3>6, <3>7, <3>8, <3>9 DEF PipelineInv
  <2>4. CASE CountEntry
    <3> DEFINE e == Current(it)
               bad == warning \/ OutOfBounds(e)
               slot == (IF bad THEN 0 ELSE e.row) + 1
    <3>1. /\ pc = "count" /\ it.half # Over
          /\ UNCHANGED <<loaded, nrows, ncols, nnz, aj, a, i, written>>
      BY <2>4 DEF CountEntry
    <3>2. /\ symmetrize /\ ~warning /\ nzcount = Taken(it)
          /\ nrows = Larger(loaded.nrows, loaded.ncols)
          /\ ncols = Larger(loaded.nrows, loaded.ncols)
          /\ loaded.nnz > 0 => AtEntry(it)
      BY <1>1, <3>1 DEF StageInv, WalkInv, SymmetrizingLabels
    <3>3. CASE ~Readable(it)
      <4>1. pc' = "undefined" /\ UNCHANGED <<ai, it, nzcount, warning>>
        BY <2>4, <3>3 DEF CountEntry, Undefined
      <4>2. ~Sound(loaded)
        BY <1>2, <1>4, <3>2, <3>3, DeliversNext
      <4>3. TypeInv' /\ StageInv' /\ WalkInv' /\ RowsInv'
        BY <1>1, <2>1, <2>2, <3>1, <3>2, <4>1, <4>2
           DEF TypeInv, PipeTypeOK, Labels, StageInv, WalkInv, RowsInv, SymmetrizingLabels,
               PackingLabels
      <4>4. QED
        BY <2>hands, <4>3 DEF PipelineInv
    <3>4. CASE Readable(it)
      <4>1. loaded.nnz > 0
        BY <1>1, <1>2, <3>4 DEF Readable, PipeTypeOK
      <4>2. /\ Taken(it) \in 0 .. (len - 1) /\ Taken(Advanced(it)) = Taken(it) + 1
            /\ AtEntry(Advanced(it)) \/ Advanced(it).half = Over
            /\ InRange(Advanced(it))
            /\ e = UnionEntry(loaded, Taken(it) + 1)
        BY <1>2, <3>2, <4>1, AdvancesByOne, DeliversNext DEF len
      <4>3. nzcount \in 0 .. (len - 1) /\ nzcount + 1 \in 1 .. len /\ e = U.entries[nzcount + 1]
        BY <1>2, <1>3, <3>2, <4>2
      <4>4. /\ e.row \in Nat /\ e.col \in Nat
            /\ e.row < Larger(loaded.nrows, loaded.ncols)
            /\ e.col < Larger(loaded.nrows, loaded.ncols)
        BY <1>2, <1>3, <4>3, UnionShape DEF len
      <4>5. ~bad /\ slot = e.row + 1
        BY <1>5, <3>2, <4>4 DEF OutOfBounds
      <4>6. /\ warning' = bad /\ it' = Advanced(it) /\ nzcount' = nzcount + 1
            /\ \/ IsRow(slot) /\ ai' = [ai EXCEPT ![slot] = @ + 1] /\ pc' = pc
               \/ ~IsRow(slot) /\ pc' = "undefined" /\ ai' = ai
        BY <2>4, <3>4, Zenon DEF CountEntry, Undefined
      <4>7. ai' \in [RowIndices(loaded) -> Nat]
        BY <1>2, <4>6 DEF IsRow
      <4>w. warning' = FALSE /\ warning' \in BOOLEAN
        <5>1. bad \in BOOLEAN
          BY <1>1, Zenon DEF OutOfBounds, PipeTypeOK
        <5>2. warning' = FALSE
          BY <4>5, <4>6, <5>1, Zenon
        <5>3. QED
          BY <5>2
      <4> HIDE DEF slot, bad, e
      <4>8. TypeInv'
        BY <1>1, <1>2, <2>1, <2>2, <3>1, <4>2, <4>3, <4>6, <4>7, <4>w
           DEF TypeInv, PipeTypeOK, Labels, InRange, len
      <4>9. StageInv'
        BY <1>1, <2>1, <2>2, <3>1, <3>2, <4>6, <4>w
           DEF StageInv, SymmetrizingLabels, PackingLabels
      <4>10. WalkInv'
        BY <2>2, <3>1, <3>2, <4>1, <4>2, <4>6, <4>w
           DEF WalkInv, SymmetrizingLabels, AtEntry, Taken, Over
      <4>11. RowsInv'
        <5> SUFFICES ASSUME Sound(loaded)
                     PROVE  RowsInv'
          BY <2>2 DEF RowsInv
        <5>1. IsRow(slot)
          BY <1>2, <1>4, <4>4, <4>5 DEF IsRow, RowIndices
        <5>2. ai' = [ai EXCEPT ![U.entries[nzcount + 1].row + 1] = @ + 1] /\ pc' = "count"
          BY <3>1, <4>3, <4>5, <4>6, <5>1
        <5>3. Counted(U, ai, nzcount) /\ ai \in [RowsOf(U) -> Nat]
          BY <1>1, <1>2, <1>4, <3>1 DEF RowsInv, U
        <5>4. Counted(U, ai', nzcount + 1)
          BY <1>3, <4>3, <5>2, <5>3, CountedStep
        <5>5. QED
          BY <2>2, <4>6, <5>2, <5>4 DEF RowsInv, U
      <4>12. QED
        BY <2>hands, <4>8, <4>9, <4>10, <4>11 DEF PipelineInv
    <3>5. QED
      BY <3>3, <3>4
  <2>5. CASE CountDone
    <3>1. /\ pc = "count" /\ it.half = Over /\ i' = 1
          /\ pc' = IF PassAccepted THEN "sum" ELSE "failed"
          /\ UNCHANGED <<nrows, ncols, nnz, ai, aj, a, it, nzcount, warning, written>>
      BY <2>5 DEF CountDone, arrays
    <3>2. /\ ~warning /\ nzcount = Taken(it) /\ loaded.nnz # 0
      BY <1>1, <3>1 DEF StageInv, WalkInv, SymmetrizingLabels, Over
    <3>3. nzcount = len /\ loaded.nnz > 0 /\ pc' = "sum"
      BY <1>2, <3>1, <3>2 DEF PassAccepted, Taken, len
    <3>4. TypeInv' /\ StageInv' /\ WalkInv'
      BY <1>1, <1>2, <2>1, <2>2, <3>1, <3>2, <3>3
         DEF TypeInv, PipeTypeOK, Labels, StageInv, WalkInv, SymmetrizingLabels, PackingLabels
    <3>5. RowsInv'
      <4>1. Sound(loaded) => Summed(U, ai, 1)
        BY <1>1, <1>3, <3>1, <3>3, SummedAtFirst DEF RowsInv, U
      <4>2. QED
        BY <2>2, <3>1, <3>3, <4>1 DEF RowsInv, U
    <3>6. QED
      BY <2>hands, <3>4, <3>5 DEF PipelineInv
  <2>6. CASE SumStep
    <3>1. /\ pc = "sum" /\ i <= nrows /\ i' = i + 1
          /\ \/ IsRow(i) /\ ai' = [ai EXCEPT ![i] = ai[i - 1] + @] /\ pc' = pc
             \/ ~IsRow(i) /\ pc' = "undefined" /\ ai' = ai
          /\ UNCHANGED <<nrows, ncols, nnz, aj, a, it, nzcount, warning, written>>
      BY <2>6, Zenon DEF SumStep, Undefined
    <3>2. /\ ~warning /\ loaded.nnz > 0 /\ i >= 1 /\ i <= loaded.nrows + 1
          /\ nrows = Larger(loaded.nrows, loaded.ncols)
      BY <1>1, <3>1 DEF StageInv, WalkInv, SymmetrizingLabels
    <3>3. ai' \in [RowIndices(loaded) -> Nat]
      <4>1. IsRow(i) => i \in RowIndices(loaded) /\ i - 1 \in RowIndices(loaded)
        BY <1>2, <3>2 DEF IsRow, RowIndices
      <4>2. IsRow(i) => ai[i - 1] + ai[i] \in Nat
        BY <1>2, <4>1
      <4>3. QED
        BY <1>2, <3>1, <4>2
    <3>4. TypeInv' /\ StageInv'
      BY <1>1, <1>2, <2>1, <2>2, <3>1, <3>2, <3>3
         DEF TypeInv, PipeTypeOK, Labels, StageInv, SymmetrizingLabels, PackingLabels
    <3>5. WalkInv'
      BY <1>2, <2>2, <3>1, <3>2 DEF WalkInv, SymmetrizingLabels, IsRow, RowIndices
    <3>6. RowsInv'
      <4> SUFFICES ASSUME Sound(loaded)
                   PROVE  RowsInv'
        BY <2>2 DEF RowsInv
      <4>1. IsRow(i) /\ i \in 1 .. U.nr
        BY <1>2, <1>3, <1>4, <3>1, <3>2 DEF IsRow, RowIndices
      <4>2. Summed(U, ai, i) /\ ai \in [RowsOf(U) -> Nat]
        BY <1>1, <1>2, <1>4, <3>1 DEF RowsInv, U
      <4>3. ai' = [ai EXCEPT ![i] = ai[i - 1] + @] /\ pc' = "sum"
        BY <3>1, <4>1
      <4>4. Summed(U, ai', i + 1)
        BY <1>3, <4>1, <4>2, <4>3, SummedStep
      <4>5. QED
        BY <2>2, <3>1, <4>3, <4>4 DEF RowsInv, U
    <3>7. QED
      BY <2>hands, <3>4, <3>5, <3>6 DEF PipelineInv
  <2>7. CASE SumDone
    <3>1. /\ pc = "sum" /\ i = nrows + 1 /\ pc' = "place" /\ it' = Begin(1) /\ nzcount' = 0
          /\ UNCHANGED <<nrows, ncols, nnz, ai, aj, a, i, warning, written>>
      BY <2>7 DEF SumDone, arrays
    <3>2. /\ ~warning /\ loaded.nnz > 0 /\ i <= loaded.nrows + 1
          /\ nrows = Larger(loaded.nrows, loaded.ncols)
      BY <1>1, <3>1 DEF StageInv, WalkInv, SymmetrizingLabels
    <3>3. Sound(loaded)
      BY <1>2, <1>5, <3>1, <3>2 DEF Sound
    <3>4. /\ Begin(1).half = 1 /\ Begin(1).id = 0 /\ InRange(Begin(1))
          /\ AtEntry(Begin(1)) /\ Taken(Begin(1)) = 0
      BY <1>2, <3>2, BeginsAtEntry
    <3>5. TypeInv' /\ StageInv'
      BY <1>1, <1>2, <2>1, <2>2, <3>1, <3>2, <3>4
         DEF TypeInv, PipeTypeOK, Labels, StageInv, SymmetrizingLabels, PackingLabels, InRange
    <3>6. WalkInv'
      BY <1>2, <2>2, <3>1, <3>2, <3>3, <3>4
         DEF WalkInv, SymmetrizingLabels, AtEntry, Taken, Over, Sound
    <3>7. RowsInv'
      <4>1. Summed(U, ai, U.nr + 1)
        BY <1>1, <1>3, <3>1, <3>2, <3>3 DEF RowsInv, U
      <4>2. Moved(U, ai, 0)
        BY <1>3, <4>1, MovedAtFirst
      <4>3. QED
        BY <2>2, <3>1, <4>2 DEF RowsInv, U
    <3>8. QED
      BY <2>hands, <3>5, <3>6, <3>7 DEF PipelineInv
  <2>8. CASE PlaceEntry
    <3> DEFINE e == Current(it)
    <3>1. /\ pc = "place" /\ it.half # Over
          /\ UNCHANGED <<loaded, nrows, ncols, nnz, i>>
      BY <2>8 DEF PlaceEntry
    <3>2. /\ symmetrize /\ ~warning /\ nzcount = Taken(it) /\ Sound(loaded)
          /\ nrows = Larger(loaded.nrows, loaded.ncols)
          /\ ncols = Larger(loaded.nrows, loaded.ncols)
          /\ nnz = len
          /\ aj \in [SlotIndices(loaded) -> 0 .. (ncols - 1)]
      BY <1>1, <3>1 DEF StageInv, WalkInv, SymmetrizingLabels, len
    <3>3. loaded.nnz > 0 /\ AtEntry(it)
      BY <1>1, <1>4, <3>1, <3>2 DEF WalkInv
    <3>4. /\ Taken(it) \in 0 .. (len - 1) /\ Taken(Advanced(it)) = Taken(it) + 1
          /\ AtEntry(Advanced(it)) \/ Advanced(it).half = Over
          /\ InRange(Advanced(it))
          /\ Readable(it) /\ e = UnionEntry(loaded, Taken(it) + 1)
      BY <1>2, <3>3, AdvancesByOne, DeliversNext DEF len
    <3>5. nzcount \in 0 .. (len - 1) /\ nzcount + 1 \in 1 .. len /\ e = U.entries[nzcount + 1]
      BY <1>2, <1>3, <3>2, <3>4
    <3>6. /\ e.row \in Nat /\ e.col \in Nat
          /\ e.row < Larger(loaded.nrows, loaded.ncols)
          /\ e.col < Larger(loaded.nrows, loaded.ncols)
      BY <1>2, <1>3, <3>5, UnionShape DEF len
    <3>7. Moved(U, ai, nzcount) /\ ai \in [RowsOf(U) -> Nat]
      BY <1>1, <1>2, <1>4, <3>1, <3>2 DEF RowsInv, U
    <3>8. IsRow(e.row) /\ ai[e.row] \in SlotIndices(loaded) /\ IsSlot(ai[e.row])
      <4>1. e.row \in RowsOf(U) /\ ai[e.row] \in SlotsOf(U)
        BY <1>3, <3>5, <3>7, CursorAtSlot
      <4>2. QED
        BY <1>3, <1>4, <3>2, <4>1 DEF IsRow, IsSlot, SlotsOf, SlotIndices
    <3>9. /\ aj' = [aj EXCEPT ![ai[e.row]] = e.col]
          /\ a' = [a EXCEPT ![ai[e.row]] = e.val]
          /\ ai' = [ai EXCEPT ![e.row] = @ + 1]
          /\ written' = written \cup {ai[e.row]}
          /\ pc' = pc /\ it' = Advanced(it) /\ nzcount' = nzcount + 1
          /\ warning' = (warning \/ OutOfBounds(e))
      BY <2>8, <3>4, <3>8, Zenon DEF PlaceEntry
    <3>10. warning' = FALSE /\ warning' \in BOOLEAN
      <4>1. ~OutOfBounds(e)
        BY <1>5, <3>2, <3>6 DEF OutOfBounds
      <4>2. warning \/ OutOfBounds(e) \in BOOLEAN
        BY <1>1, Zenon DEF OutOfBounds, PipeTypeOK
      <4>3. warning' = FALSE
        BY <3>2, <3>9, <4>1, <4>2, Zenon
      <4>4. QED
        BY <4>3
    <3>11. /\ aj' \in [SlotIndices(loaded) -> 0 .. (ncols - 1)]
           /\ DOMAIN a' = DOMAIN a
           /\ ai' \in [RowIndices(loaded) -> Nat]
           /\ written' \subseteq SlotIndices(loaded)
      <4> HIDE DEF e
      <4>1. e.col \in 0 .. (ncols - 1)
        BY <1>5, <3>2, <3>6
      <4>2. written \subseteq SlotIndices(loaded)
        BY <1>1 DEF PipeTypeOK
      <4>3. aj' \in [SlotIndices(loaded) -> 0 .. (ncols - 1)]
        BY <3>2, <3>9, <4>1
      <4>4. ai' \in [RowIndices(loaded) -> Nat]
        <5>1. ai[e.row] + 1 \in Nat
          BY <1>2, <3>8 DEF IsRow
        <5>2. QED
          BY <1>2, <3>9, <5>1
      <4>5. DOMAIN a' = DOMAIN a
        BY <3>9
      <4>6. written' \subseteq SlotIndices(loaded)
        BY <3>8, <3>9, <4>2
      <4>7. QED
        BY <4>3, <4>4, <4>5, <4>6
    <3>12. TypeInv'
      <4> HIDE DEF e
      <4>1. DOMAIN aj' = DOMAIN a'
        BY <1>1, <3>2, <3>11 DEF PipeTypeOK
      <4>2. nzcount' \in 0 .. len
        BY <1>2, <3>5, <3>9
      <4>3. QED
        BY <1>1, <1>2, <2>1, <2>2, <3>1, <3>4, <3>9, <3>10, <3>11, <4>1, <4>2
           DEF TypeInv, PipeTypeOK, InRange, len
    <3>13. StageInv'
      BY <1>1, <2>1, <2>2, <3>1, <3>2, <3>9, <3>10, <3>11
         DEF StageInv, SymmetrizingLabels, PackingLabels, len
    <3>14. WalkInv'
      BY <2>2, <3>1, <3>2, <3>3, <3>4, <3>9, <3>10
         DEF WalkInv, SymmetrizingLabels, AtEntry, Taken, Over, Sound
    <3>15. RowsInv'
      <4>1. Moved(U, ai', nzcount + 1)
        BY <1>3, <3>5, <3>7, <3>9, MovedStep
      <4>2. QED
        BY <2>2, <3>1, <3>9, <4>1 DEF RowsInv, U
    <3>16. QED
      BY <2>hands, <3>12, <3>13, <3>14, <3>15 DEF PipelineInv
  <2>9. CASE PlaceDone
    <3>1. /\ pc = "place" /\ it.half = Over /\ i' = nrows - 1
          /\ pc' = IF PassAccepted THEN "shift" ELSE "failed"
          /\ UNCHANGED <<nrows, ncols, nnz, ai, aj, a, it, nzcount, warning, written>>
      BY <2>9 DEF PlaceDone, arrays
    <3>2. /\ ~warning /\ nzcount = Taken(it) /\ Sound(loaded)
          /\ nrows = Larger(loaded.nrows, loaded.ncols)
      BY <1>1, <3>1 DEF StageInv, WalkInv, SymmetrizingLabels
    <3>3. nzcount = len /\ pc' = "shift"
      BY <1>2, <3>1, <3>2 DEF PassAccepted, Taken, len
    <3>4. i' \in 0 .. (nrows + 1) /\ i' <= nrows - 1
      BY <1>2, <1>5, <3>1, <3>2
    <3>5. TypeInv' /\ StageInv' /\ WalkInv'
      BY <1>1, <1>2, <2>1, <2>2, <3>1, <3>2, <3>3, <3>4
         DEF TypeInv, PipeTypeOK, Labels, StageInv, WalkInv, SymmetrizingLabels, PackingLabels,
             Sound
    <3>6. RowsInv'
      <4>1. Moved(U, ai, Len(U.entries))
        BY <1>1, <1>3, <3>1, <3>2, <3>3 DEF RowsInv, U
      <4>2. Shifted(U, ai, U.nr - 1)
        BY <1>3, <4>1, ShiftedAtFirst
      <4>3. QED
        BY <1>3, <2>2, <3>1, <3>2, <3>3, <4>2 DEF RowsInv, U
    <3>7. QED
      BY <2>hands, <3>5, <3>6 DEF PipelineInv
  <2>10. CASE ShiftStep
    <3>1. /\ pc = "shift" /\ i >= 1 /\ i' = i - 1
          /\ ai' = [ai EXCEPT ![i] = ai[i - 1]]
          /\ UNCHANGED <<pc, nrows, ncols, nnz, aj, a, it, nzcount, warning, written>>
      BY <2>10 DEF ShiftStep
    <3>2. /\ ~warning /\ Sound(loaded) /\ i <= nrows - 1
          /\ nrows = Larger(loaded.nrows, loaded.ncols)
      BY <1>1, <3>1 DEF StageInv, WalkInv, SymmetrizingLabels
    <3>3. i \in 1 .. U.nr /\ i \in RowIndices(loaded) /\ i - 1 \in RowIndices(loaded)
      BY <1>2, <1>3, <1>4, <3>1, <3>2 DEF RowIndices
    <3>4. ai' \in [RowIndices(loaded) -> Nat]
      <4>1. ai[i - 1] \in Nat
        BY <1>2, <3>3
      <4>2. QED
        BY <1>2, <3>1, <4>1
    <3>5. TypeInv' /\ StageInv' /\ WalkInv'
      BY <1>1, <1>2, <2>1, <2>2, <3>1, <3>2, <3>4
         DEF TypeInv, PipeTypeOK, StageInv, WalkInv, SymmetrizingLabels, PackingLabels, Sound
    <3>6. RowsInv'
      <4>1. Shifted(U, ai, i) /\ ai \in [RowsOf(U) -> Nat]
        BY <1>1, <1>2, <1>4, <3>1, <3>2 DEF RowsInv, U
      <4>2. Shifted(U, ai', i - 1)
        BY <1>3, <3>1, <3>3, <4>1, ShiftedStep
      <4>3. QED
        BY <2>2, <3>1, <4>2 DEF RowsInv, U
    <3>7. QED
      BY <2>hands, <3>5, <3>6 DEF PipelineInv
  <2>11. CASE ShiftDone
    <3>1. /\ pc = "shift" /\ i = 0 /\ ai' = [ai EXCEPT ![0] = 0] /\ pc' = "symmetrized"
          /\ UNCHANGED <<nrows, ncols, nnz, aj, a, it, nzcount, i, warning, written>>
      BY <2>11 DEF ShiftDone
    <3>2. ~warning /\ Sound(loaded)
      BY <1>1, <3>1 DEF WalkInv, SymmetrizingLabels
    <3>3. ai' \in [RowIndices(loaded) -> Nat]
      BY <1>2, <3>1
    <3>4. TypeInv' /\ StageInv' /\ WalkInv'
      BY <1>1, <1>2, <2>1, <2>2, <3>1, <3>2, <3>3
         DEF TypeInv, PipeTypeOK, Labels, StageInv, WalkInv, SymmetrizingLabels, PackingLabels,
             Sound
    <3>5. RowsInv'
      <4>1. Shifted(U, ai, 0) /\ ai \in [RowsOf(U) -> Nat]
        BY <1>1, <1>2, <1>4, <3>1, <3>2 DEF RowsInv, U
      <4>2. Starts(U, ai')
        BY <1>3, <3>1, <4>1, StartsAtLast
      <4>3. QED
        BY <2>2, <3>1, <4>2 DEF RowsInv, U
    <3>6. QED
      BY <2>hands, <3>4, <3>5 DEF PipelineInv
  <2>12. QED
    BY <2>1, <2>3, <2>4, <2>5, <2>6, <2>7, <2>8, <2>9, <2>10, <2>11 DEF Next
<1>8. CASE StartPacking
  <2>1. /\ pc \in ReadyToPack /\ pc' = "row" /\ cur_elem' = 0
        /\ mlarge' = [nrows |-> nrows, ncols |-> ncols, nnz |-> nnz, ai |-> ai, aj |-> aj,
                      a |-> a]
        /\ UNCHANGED <<loaded, nrows, ncols, nnz, ai, aj, a, it, nzcount, i, warning, written,
                       symmetrize, matrix_loaded>>
    BY <1>8 DEF StartPacking, arrays
  <2>2. /\ mlarge'.nrows = nrows /\ mlarge'.ncols = ncols /\ mlarge'.nnz = nnz
        /\ mlarge'.ai = ai /\ mlarge'.aj = aj /\ mlarge'.a = a
    BY <2>1
  <2>3. (pc = "start" /\ ~symmetrize) \/ (pc = "symmetrized" /\ Sound(loaded))
    BY <1>1, <2>1 DEF ReadyToPack, WalkInv
  <2>4. /\ nrows >= 1
        /\ ai \in [0 .. nrows -> 0 .. nnz]
        /\ ai[0] = 0 /\ ai[nrows] = nnz
        /\ \A r \in 0 .. (nrows - 1) : ai[r] <= ai[r + 1]
        /\ aj \in [0 .. (nnz - 1) -> 0 .. (ncols - 1)]
    <3>1. CASE pc = "start"
      <4>1. nrows = loaded.nrows /\ ncols = loaded.ncols /\ nnz = loaded.nnz
            /\ ai = loaded.ai /\ aj = loaded.aj
        BY <1>1, <3>1 DEF StageInv
      <4>2. \A r \in 0 .. (loaded.nrows - 1) : r \in 0 .. loaded.nrows
                                               /\ r + 1 \in 0 .. loaded.nrows /\ r <= r + 1
        BY <1>2
      <4>3. \A r \in 0 .. (loaded.nrows - 1) : loaded.ai[r] <= loaded.ai[r + 1]
        BY <1>2, <4>2, MatrixShape
      <4>4. QED
        BY <1>2, <4>1, <4>3, MatrixShape
    <3>2. CASE pc = "symmetrized" /\ Sound(loaded)
      <4>1. /\ nrows = loaded.nrows /\ nnz = len /\ U.nr = nrows /\ U.nnz = nnz
            /\ aj \in [SlotIndices(loaded) -> 0 .. (ncols - 1)]
            /\ Starts(U, ai)
        BY <1>1, <1>3, <1>4, <3>2 DEF StageInv, SymmetrizingLabels, RowsInv, U, len
      <4>2. \A r \in 0 .. nrows : ai[r] = RowStart(U, r) /\ r \in Nat /\ r <= nrows
        BY <1>2, <4>1 DEF Starts, RowsOf
      <4>3. RowStart(U, 0) = 0 /\ RowStart(U, nrows) = nnz
        BY <1>2, <1>3, <4>1, RowStartStep, RowStartLast
      <4>4. \A r \in 0 .. nrows : ai[r] \in 0 .. nnz
        <5> SUFFICES ASSUME NEW r \in 0 .. nrows
                     PROVE  ai[r] \in 0 .. nnz
          OBVIOUS
        <5>1. RowStart(U, r) \in Nat /\ RowStart(U, r) <= RowStart(U, nrows)
          BY <1>2, <1>3, <4>2, RowStartStep, RowStartGrows
        <5>2. QED
          BY <1>2, <4>2, <4>3, <5>1
      <4>5. \A r \in 0 .. (nrows - 1) : ai[r] <= ai[r + 1]
        <5> SUFFICES ASSUME NEW r \in 0 .. (nrows - 1)
                     PROVE  ai[r] <= ai[r + 1]
          OBVIOUS
        <5>1. /\ r \in 0 .. nrows /\ r + 1 \in 0 .. nrows /\ r \in Nat /\ r + 1 \in Nat
              /\ r <= r + 1
          BY <1>2
        <5>2. RowStart(U, r) <= RowStart(U, r + 1)
          BY <1>3, <5>1, RowStartGrows
        <5>3. QED
          BY <4>2, <5>1, <5>2
      <4>6. /\ 0 \in 0 .. nrows /\ nrows \in 0 .. nrows
            /\ RowIndices(loaded) = 0 .. nrows /\ SlotIndices(loaded) = 0 .. (nnz - 1)
            /\ nrows >= 1
        BY <1>2, <4>1 DEF RowIndices, SlotIndices, len
      <4>7. ai \in [0 .. nrows -> 0 .. nnz]
        BY <1>2, <4>4, <4>6
      <4>8. ai[0] = 0 /\ ai[nrows] = nnz
        BY <4>2, <4>3, <4>6
      <4>9. QED
        BY <4>1, <4>5, <4>6, <4>7, <4>8
    <3>3. QED
      BY <2>3, <3>1, <3>2
  <2>5. mlarge' # NoMatrix
    <3>1. NoMatrix.nrows = 0
      BY DEF NoMatrix
    <3>2. mlarge'.nrows # 0
      BY <1>2, <2>2, <2>4
    <3>3. QED
      BY <3>1, <3>2
  <2>6. HandsOnCompressedRows'
    BY <2>2, <2>4 DEF HandsOnCompressedRows
  <2>7. TypeInv'
    BY <1>1, <2>1 DEF TypeInv, PipeTypeOK, Labels
  <2>8. StageInv' /\ WalkInv' /\ RowsInv'
    BY <1>1, <2>1, <2>5
       DEF StageInv, WalkInv, RowsInv, SymmetrizingLabels, PackingLabels
  <2>9. QED
    BY <2>6, <2>7, <2>8 DEF PipelineInv
<1>9. CASE Packing
  <2>1. /\ Pack!Next
        /\ UNCHANGED <<loaded, nrows, ncols, nnz, it, nzcount, i, warning, written, symmetrize,
                       matrix_loaded>>
    BY <1>9 DEF Packing
  <2>2. /\ pc \in PackingLabels /\ pc' \in PackingLabels /\ mlarge' = mlarge
        /\ cur_elem' \in Nat
        /\ ai' \in [RowIndices(loaded) -> Nat]
        /\ DOMAIN aj' = DOMAIN aj /\ DOMAIN a' = DOMAIN a
    <3>1. cur_elem \in Nat
      BY <1>1 DEF TypeInv
    <3>2. CASE Pack!StartRow
      BY <1>2, <3>1, <3>2 DEF Pack!StartRow, Pack!StartMoved, PackingLabels
    <3>3. CASE Pack!NewElement
      BY <1>2, <3>1, <3>3 DEF Pack!NewElement, PackingLabels
    <3>4. CASE Pack!DuplicateElement
      BY <1>2, <3>1, <3>4 DEF Pack!DuplicateElement, Pack!Added, PackingLabels
    <3>5. CASE Pack!RowPacked
      BY <1>2, <3>1, <3>5 DEF Pack!RowPacked, PackingLabels
    <3>6. CASE Pack!ResetColumn
      BY <1>2, <3>1, <3>6 DEF Pack!ResetColumn, PackingLabels
    <3>7. CASE Pack!RowReset
      BY <1>2, <3>1, <3>7 DEF Pack!RowReset, PackingLabels
    <3>8. CASE Pack!AllPacked
      BY <1>2, <3>1, <3>8 DEF Pack!AllPacked, PackingLabels
    <3>9. CASE Pack!SortRow
      BY <1>2, <3>1, <3>9 DEF Pack!SortRow, Pack!Permuted, Pack!ValuesMoved, PackingLabels
    <3>10. CASE Pack!AllSorted
      BY <1>2, <3>1, <3>10 DEF Pack!AllSorted, PackingLabels
    <3>11. QED
      BY <2>1, <3>2, <3>3, <3>4, <3>5, <3>6, <3>7, <3>8, <3>9, <3>10 DEF Pack!Next
  <2>3. TypeInv'
    BY <1>1, <2>1, <2>2 DEF TypeInv, PipeTypeOK, Labels, PackingLabels
  <2>4. StageInv' /\ WalkInv' /\ RowsInv' /\ HandsOnCompressedRows'
    BY <1>1, <2>1, <2>2
       DEF StageInv, WalkInv, RowsInv, HandsOnCompressedRows, SymmetrizingLabels, PackingLabels
  <2>5. QED
    BY <2>3, <2>4 DEF PipelineInv
<1>10. CASE Loaded
  <2>1. /\ pc = "done" /\ pc' = pc /\ nnz' = ai[loaded.nrows] /\ matrix_loaded' = TRUE
        /\ UNCHANGED <<loaded, nrows, ncols, ai, aj, a, it, nzcount, i, warning, written,
                       symmetrize, mlarge, cur_elem>>
    BY <1>10 DEF Loaded, EndOfRows, packing
  <2>2. nnz' \in Nat
    BY <1>2, <2>1 DEF RowIndices
  <2>3. TypeInv'
    <3>1. matrix_loaded' \in BOOLEAN
      BY <2>1, Zenon
    <3>2. QED
      BY <1>1, <2>1, <2>2, <3>1 DEF TypeInv, PipeTypeOK
  <2>4. QED
    BY <1>1, <2>1, <2>3 DEF PipelineInv, StageInv, WalkInv, RowsInv,
       HandsOnCompressedRows, SymmetrizingLabels, PackingLabels
<1>11. CASE UNCHANGED pipevars
  BY <1>1, <1>11 DEF pipevars, vars, arrays, packing, PipelineInv, TypeInv, PipeTypeOK, StageInv,
     WalkInv, RowsInv, HandsOnCompressedRows, AtEntry, Taken
<1>12. QED
  BY <1>6, <1>7, <1>8, <1>9, <1>10, <1>11 DEF PipeNext

LEMMA PipelineInvariant == PipeSpec => []PipelineInv
<1>1. QED
  BY PipelineInvInit, PipelineInvStep, PTL DEF PipeSpec

----------------------------------------------------------------------------
\* Typing of the whole of load_matrix, for any matrices.
THEOREM PipeTypeCorrect == PipeSpec => []PipeTypeOK
<1>1. PipelineInv => PipeTypeOK
  BY DEF PipelineInv, TypeInv
<1>2. QED
  BY <1>1, PipelineInvariant, PTL

\* load_matrix may ignore what load_matrix_to_crm returns for the union: it is
\* never false, whatever was loaded.
THEOREM SecondLoadSucceeds == PipeSpec => []IgnoredResultIsTrue
<1>1. PipelineInv => IgnoredResultIsTrue
  BY DEF PipelineInv, WalkInv, IgnoredResultIsTrue
<1>2. QED
  BY <1>1, PipelineInvariant, PTL

\* load_matrix reads and writes inside the arrays unless it symmetrizes a
\* matrix with more columns than rows, or one without entries.
THEOREM PipelineStaysInArrays == PipeSpec => []LoadingStaysInArrays
<1>1. PipelineInv => LoadingStaysInArrays
  BY DEF PipelineInv, StageInv, RowsInv, SymmetrizingLabels, LoadingStaysInArrays
<1>2. QED
  BY <1>1, PipelineInvariant, PTL

\* The rows of the enlarged matrix that pack_storage works on are compressed
\* rows, symmetrized or not.
THEOREM PackingGetsCompressedRows == PipeSpec => []HandsOnCompressedRows
<1>1. PipelineInv => HandsOnCompressedRows
  BY DEF PipelineInv
<1>2. QED
  BY <1>1, PipelineInvariant, PTL

\* The four together, as the run checks them.
THEOREM PipelineIsSafe == PipeSpec => []PipeInv
<1>1. QED
  BY PipeTypeCorrect, SecondLoadSucceeds, PipelineStaysInArrays, PackingGetsCompressedRows, PTL
     DEF PipeInv

----------------------------------------------------------------------------
\* Symmetrizing is a load of the union's entries.

\* How the stages are seen by CrmLoad.
LEMMA SeenAs ==
    ASSUME PipelineInv
    PROVE  /\ ~Symmetrized => ToUnionLoad = "degrees"
           /\ pc \in {"start", "rejected"} => ToUnionLoad = "degrees"
           /\ Symmetrized /\ pc \in {"count", "sum", "place", "shift"} =>
                 ToUnionLoad = pc /\ UnionRows = ai /\ mlarge = NoMatrix
           /\ Symmetrized /\ pc = "symmetrized" =>
                 ToUnionLoad = "done" /\ UnionRows = ai /\ mlarge = NoMatrix
           /\ Symmetrized /\ pc \in PackingLabels =>
                 ToUnionLoad = "done" /\ UnionRows = mlarge.ai /\ mlarge # NoMatrix
           /\ Symmetrized =>
                 pc \in {"start", "rejected", "count", "sum", "place", "shift", "symmetrized"}
                          \cup PackingLabels
<1>1. StageInv /\ WalkInv /\ RowsInv /\ pc \in Labels
  BY DEF PipelineInv, TypeInv, PipeTypeOK
<1>2. mlarge = NoMatrix <=> pc \notin PackingLabels
  BY <1>1 DEF StageInv
<1>3. Symmetrized => pc # "undefined" /\ pc # "failed"
  BY <1>1 DEF WalkInv, RowsInv, Symmetrized
<1>4. QED
  BY <1>1, <1>2, <1>3 DEF ToUnionLoad, UnionRows, PackingLabels, Labels

\* load_matrix_to_crm, given the union of a sound matrix and its transpose,
\* does to the arrays step by step what it does when it reads a file with the
\* union's entries: the counts, the sums, the cursors and the stored entries.
THEOREM SymmetrizingImplementsLoading == PipeSpec => SymmetrizingIsLoading
<1>1. PipeInit => UnionLoad!Init
  <2> SUFFICES ASSUME PipeInit
               PROVE  UnionLoad!Init
    OBVIOUS
  <2>1. loaded \in Matrices /\ pc = "start" /\ written = {}
    BY DEF PipeInit, Init
  <2>2. ToUnionLoad = "degrees"
    BY <2>1 DEF ToUnionLoad
  <2>3. UnionFile(loaded) \in {UnionFile(m) : m \in Matrices}
    BY <2>1
  <2>4. /\ UnionFile(loaded).nr = Larger(loaded.nrows, loaded.ncols)
        /\ UnionFile(loaded).nnz = 2 * loaded.nnz
    BY <2>1, UnionIsWellFormed
  <2>5. UnionRows = [r \in UnionLoad!RowsOf(UnionFile(loaded)) |-> 0]
    BY <2>2, <2>4 DEF UnionRows, UnionLoad!RowsOf
  <2>6. UnionCells = [s \in UnionLoad!SlotsOf(UnionFile(loaded)) |-> UnionLoad!ZeroPair]
    BY <2>1, <2>4 DEF UnionCells, UnionLoad!SlotsOf, UnionLoad!ZeroPair, SlotIndices
  <2>7. QED
    BY <2>2, <2>3, <2>5, <2>6 DEF UnionLoad!Init
<1>2. PipelineInv /\ PipelineInv' /\ [PipeNext]_pipevars =>
         [UnionLoad!Next]_(UnionLoad!vars)
  <2> SUFFICES ASSUME PipelineInv, PipelineInv', [PipeNext]_pipevars
               PROVE  [UnionLoad!Next]_(UnionLoad!vars)
    OBVIOUS
  <2> DEFINE U == UnionFile(loaded)
             len == 2 * loaded.nnz
  <2>1. loaded \in Matrices /\ loaded' = loaded /\ symmetrize' = symmetrize
    <3>1. loaded \in Matrices
      BY DEF PipelineInv, TypeInv, PipeTypeOK
    <3>2. loaded' = loaded /\ symmetrize' = symmetrize
      <4>1. CASE LoadFailed
        BY <4>1 DEF LoadFailed
      <4>2. CASE Symmetrizing
        BY <4>2 DEF Symmetrizing, Next, Start, CountEntry, CountDone, SumStep, SumDone,
           PlaceEntry, PlaceDone, ShiftStep, ShiftDone, Undefined
      <4>3. CASE StartPacking \/ Packing \/ Loaded
        BY <4>3 DEF StartPacking, Packing, Loaded
      <4>4. CASE UNCHANGED pipevars
        BY <4>4 DEF pipevars, vars
      <4>5. QED
        BY <4>1, <4>2, <4>3, <4>4 DEF PipeNext
    <3>3. QED
      BY <3>1, <3>2
  <2>2. Symmetrized' = Symmetrized
    BY <2>1, Zenon DEF Symmetrized
  <2>3. /\ ~Symmetrized => ToUnionLoad' = "degrees"
        /\ pc' \in {"start", "rejected"} => ToUnionLoad' = "degrees"
        /\ Symmetrized /\ pc' \in {"count", "sum", "place", "shift"} =>
              ToUnionLoad' = pc' /\ UnionRows' = ai' /\ mlarge' = NoMatrix
        /\ Symmetrized /\ pc' = "symmetrized" =>
              ToUnionLoad' = "done" /\ UnionRows' = ai' /\ mlarge' = NoMatrix
        /\ Symmetrized /\ pc' \in PackingLabels =>
              ToUnionLoad' = "done" /\ UnionRows' = mlarge'.ai /\ mlarge' # NoMatrix
    <3>1. (/\ ~Symmetrized => ToUnionLoad = "degrees"
           /\ pc \in {"start", "rejected"} => ToUnionLoad = "degrees"
           /\ Symmetrized /\ pc \in {"count", "sum", "place", "shift"} =>
                 ToUnionLoad = pc /\ UnionRows = ai /\ mlarge = NoMatrix
           /\ Symmetrized /\ pc = "symmetrized" =>
                 ToUnionLoad = "done" /\ UnionRows = ai /\ mlarge = NoMatrix
           /\ Symmetrized /\ pc \in PackingLabels =>
                 ToUnionLoad = "done" /\ UnionRows = mlarge.ai /\ mlarge # NoMatrix)'
      BY SeenAs, PTL
    <3>2. QED
      BY <2>2, <3>1
  <2>4. CASE ~Symmetrized
    <3>1. ToUnionLoad = "degrees" /\ ToUnionLoad' = "degrees"
      BY <2>3, <2>4, SeenAs
    <3>2. UnionRows' = UnionRows /\ UnionCells' = UnionCells
      BY <2>1, <2>2, <2>4, <3>1 DEF UnionRows, UnionCells
    <3>3. QED
      BY <2>1, <3>1, <3>2 DEF UnionLoad!vars
  <2>5. CASE Symmetrized
    <3>1. /\ symmetrize /\ Sound(loaded) /\ loaded.nnz \in Nat
          /\ PipeTypeOK /\ StageInv /\ WalkInv /\ RowsInv
          /\ StageInv' /\ WalkInv' /\ RowsInv'
      BY <2>1, <2>5, MatrixShape DEF Symmetrized, PipelineInv, TypeInv
    <3>2. /\ Larger(loaded.nrows, loaded.ncols) = loaded.nrows
          /\ U.nr = loaded.nrows /\ U.nc = loaded.nrows /\ U.nnz = len
          /\ loaded.nrows \in Nat /\ loaded.nrows >= 1
          /\ UnionLoad!RowsOf(U) = RowIndices(loaded)
          /\ UnionLoad!SlotsOf(U) = SlotIndices(loaded)
          /\ Len(U.entries) = len
          /\ \A n \in 1 .. len : U.entries[n] = UnionEntry(loaded, n)
      BY <2>1, <3>1, SoundRows, UnionIsWellFormed, MatrixShape
         DEF UnionLoad!RowsOf, UnionLoad!SlotsOf, RowIndices, SlotIndices
    <3>3. U.degs = UnionLoad!NoDegrees /\ UnionFile(loaded') = U
      BY <2>1 DEF UnionFile, UnionLoad!NoDegrees
    <3>4. pc' # "undefined" /\ pc' # "failed"
      BY <2>1, <3>1 DEF WalkInv, RowsInv
    <3>5. /\ pc \in {"count", "sum", "place", "shift"} =>
               /\ ToUnionLoad = pc /\ UnionRows = ai /\ mlarge = NoMatrix
               /\ nrows = U.nr /\ ncols = U.nc /\ nnz = U.nnz
               /\ aj \in [SlotIndices(loaded) -> 0 .. (ncols - 1)]
          /\ pc' \in {"count", "sum", "place", "shift"} =>
               ToUnionLoad' = pc' /\ UnionRows' = ai' /\ mlarge' = NoMatrix
          /\ pc' = "symmetrized" =>
               ToUnionLoad' = "done" /\ UnionRows' = ai' /\ mlarge' = NoMatrix
      BY <2>3, <2>5, <3>1, <3>2, SeenAs DEF StageInv, SymmetrizingLabels
    <3>6. aj' = aj /\ a' = a /\ written' = written /\ mlarge' = mlarge =>
             UnionCells' = UnionCells
      BY <2>1, <2>2 DEF UnionCells
    <3>7. DOMAIN a = DOMAIN aj
      BY <3>1 DEF PipeTypeOK
    <3> HIDE DEF U, len
    <3>8. CASE LoadFailed
      <4>1. /\ pc = "start" /\ pc' = "rejected"
            /\ UNCHANGED <<aj, a, written, mlarge>>
        BY <3>8 DEF LoadFailed, arrays
      <4>2. ToUnionLoad = "degrees" /\ ToUnionLoad' = "degrees"
        BY <2>3, <4>1, SeenAs
      <4>3. UnionRows' = UnionRows
        BY <2>1, <4>2 DEF UnionRows
      <4>4. QED
        BY <2>1, <3>6, <4>1, <4>2, <4>3 DEF UnionLoad!vars
    <3>9. CASE Symmetrizing
      <4>1. Next /\ mlarge' = mlarge
        BY <3>9 DEF Symmetrizing
      <4>2. CASE Start
        <5>1. /\ pc = "start" /\ pc' = "count" /\ ai' = RowsCleared
              /\ UNCHANGED <<nzcount, i, warning, written>>
          BY <4>2 DEF Start
        <5>2. nzcount = 0 /\ i = 0 /\ ~warning /\ written = {} /\ written' = {}
          BY <3>1, <5>1 DEF StageInv
        <5>3. warning = FALSE
          BY <3>1, <5>2, Zenon DEF PipeTypeOK
        <5>4. ToUnionLoad = "degrees" /\ ToUnionLoad' = "count" /\ UnionRows' = ai'
          BY <3>5, <5>1, SeenAs
        <5>5. UnionRows' = UnionRows
          BY <3>2, <5>1, <5>4 DEF UnionRows, RowsCleared, RowIndices
        <5>6. UnionCells' = UnionCells
          BY <2>1, <5>2 DEF UnionCells
        <5>7. UnionLoad!NoDegreeFile
          <6>1. (IF ToUnionLoad' = "degrees" THEN FALSE ELSE warning')
                   = (IF ToUnionLoad = "degrees" THEN FALSE ELSE warning)
            BY <5>1, <5>3, <5>4, Zenon
          <6>2. /\ (IF ToUnionLoad' = "degrees" THEN 0 ELSE nzcount') = 0
                /\ (IF ToUnionLoad = "degrees" THEN 0 ELSE nzcount) = 0
                /\ (IF ToUnionLoad' = "degrees" THEN 0 ELSE i') = 0
                /\ (IF ToUnionLoad = "degrees" THEN 0 ELSE i) = 0
            BY <5>1, <5>2
          <6>3. ~(UnionFile(loaded).nr < 1)
            BY <3>2 DEF U
          <6>4. /\ UnionFile(loaded').degs = UnionLoad!NoDegrees
                /\ UnionFile(loaded') = UnionFile(loaded)
            BY <3>3 DEF U
          <6>5. QED
            BY <5>4, <5>5, <5>6, <6>1, <6>2, <6>3, <6>4
               DEF UnionLoad!NoDegreeFile, UnionLoad!Goto
        <5>8. QED
          BY <5>7 DEF UnionLoad!Next
      <4>3. CASE CountEntry
        <5>1. /\ pc = "count" /\ it.half # Over
              /\ UNCHANGED <<aj, a, i, written>>
          BY <4>3 DEF CountEntry
        <5>2. AtEntry(it) /\ nzcount = Taken(it)
          BY <3>1, <5>1 DEF WalkInv, Sound
        <5>3. /\ Readable(it) /\ Current(it) = UnionEntry(loaded, Taken(it) + 1)
              /\ Taken(it) \in 0 .. (len - 1)
          BY <2>1, <5>2, DeliversNext, AdvancesByOne DEF len
        <5>4. /\ nzcount + 1 \in 1 .. len /\ nzcount < Len(U.entries)
              /\ Current(it) = U.entries[nzcount + 1]
          BY <3>1, <3>2, <5>2, <5>3, SMTT(30) DEF len
        <5> DEFINE e == U.entries[nzcount + 1]
                   bad == warning \/ OutOfBounds(e)
                   slot == (IF bad THEN 0 ELSE e.row) + 1
        <5>5. /\ warning' = bad /\ nzcount' = nzcount + 1 /\ pc' = pc
              /\ IsRow(slot) /\ ai' = [ai EXCEPT ![slot] = @ + 1]
          BY <3>4, <4>3, <5>3, <5>4 DEF CountEntry, Undefined
        <5>6. OutOfBounds(e) <=> (e.row >= U.nr \/ e.col >= U.nc)
          BY <3>5, <5>1 DEF OutOfBounds
        <5>7. UnionLoad!CountEntry
          BY <3>2, <3>3, <3>5, <3>6, <4>1, <5>1, <5>4, <5>5, <5>6
             DEF UnionLoad!CountEntry, UnionLoad!Entries, UnionLoad!OutOfBounds, IsRow, U
        <5>8. QED
          BY <5>7 DEF UnionLoad!Next
      <4>4. CASE CountDone
        <5>1. /\ pc = "count" /\ it.half = Over /\ pc' = "sum" /\ i' = 1
              /\ PassAccepted
              /\ UNCHANGED <<ai, aj, a, nzcount, warning, written>>
          BY <3>4, <4>4 DEF CountDone, arrays
        <5>2. nzcount = len
          BY <3>1, <5>1 DEF WalkInv, Taken, len
        <5>3. UnionLoad!CountDone
          BY <3>2, <3>3, <3>5, <3>6, <4>1, <5>1, <5>2
             DEF UnionLoad!CountDone, UnionLoad!Entries, UnionLoad!PassAccepted, PassAccepted,
                 UnionLoad!Goto, U
        <5>4. QED
          BY <5>3 DEF UnionLoad!Next
      <4>5. CASE SumStep
        <5>1. /\ pc = "sum" /\ pc' = "sum" /\ i <= nrows /\ i' = i + 1
              /\ ai' = [ai EXCEPT ![i] = ai[i - 1] + @]
              /\ UNCHANGED <<aj, a, nzcount, warning, written>>
          BY <3>4, <4>5 DEF SumStep, Undefined
        <5>2. UnionLoad!SumStep
          BY <3>3, <3>5, <3>6, <4>1, <5>1 DEF UnionLoad!SumStep, U
        <5>3. QED
          BY <5>2 DEF UnionLoad!Next
      <4>6. CASE SumDone
        <5>1. /\ pc = "sum" /\ pc' = "place" /\ i = nrows + 1 /\ nzcount' = 0
              /\ UNCHANGED <<ai, aj, a, i, warning, written>>
          BY <4>6 DEF SumDone, arrays
        <5>2. UnionLoad!SumDone
          BY <3>3, <3>5, <3>6, <4>1, <5>1 DEF UnionLoad!SumDone, UnionLoad!Goto, U
        <5>3. QED
          BY <5>2 DEF UnionLoad!Next
      <4>7. CASE PlaceEntry
        <5>1. pc = "place" /\ it.half # Over /\ i' = i
          BY <4>7 DEF PlaceEntry
        <5>2. AtEntry(it) /\ nzcount = Taken(it)
          BY <3>1, <5>1 DEF WalkInv, Sound
        <5>3. /\ Readable(it) /\ Current(it) = UnionEntry(loaded, Taken(it) + 1)
              /\ Taken(it) \in 0 .. (len - 1)
          BY <2>1, <5>2, DeliversNext, AdvancesByOne DEF len
        <5>4. /\ nzcount + 1 \in 1 .. len /\ nzcount < Len(U.entries)
              /\ Current(it) = U.entries[nzcount + 1]
          BY <3>1, <3>2, <5>2, <5>3, SMTT(30) DEF len
        <5> DEFINE e == U.entries[nzcount + 1]
                   slot == ai[e.row]
        <5>5. /\ IsRow(e.row) /\ IsSlot(slot)
              /\ aj' = [aj EXCEPT ![slot] = e.col]
              /\ a' = [a EXCEPT ![slot] = e.val]
              /\ ai' = [ai EXCEPT ![e.row] = @ + 1]
              /\ written' = written \cup {slot}
              /\ pc' = pc /\ nzcount' = nzcount + 1
              /\ warning' = (warning \/ OutOfBounds(e))
          BY <3>4, <4>7, <5>3, <5>4 DEF PlaceEntry, Undefined
        <5>6. OutOfBounds(e) <=> (e.row >= U.nr \/ e.col >= U.nc)
          BY <3>5, <5>1 DEF OutOfBounds
        <5>7. slot \in SlotIndices(loaded)
          BY <3>2, <3>5, <5>1, <5>5 DEF IsSlot, SlotIndices, len
        <5>8. UnionCells' = [UnionCells EXCEPT ![slot] = [col |-> e.col, val |-> e.val]]
          <6> HIDE DEF e, slot
          <6>1. mlarge = NoMatrix /\ mlarge' = NoMatrix /\ Symmetrized'
            BY <2>2, <2>5, <3>5, <4>1, <5>1
          <6>2. /\ UnionCells = [s \in SlotIndices(loaded) |->
                       IF s \in written THEN [col |-> aj[s], val |-> a[s]]
                       ELSE [col |-> 0, val |-> 0]]
                /\ UnionCells' = [s \in SlotIndices(loaded) |->
                       IF s \in written' THEN [col |-> aj'[s], val |-> a'[s]]
                       ELSE [col |-> 0, val |-> 0]]
            BY <2>1, <2>5, <6>1 DEF UnionCells
          <6>3. \A s \in SlotIndices(loaded) :
                   /\ aj'[s] = IF s = slot THEN e.col ELSE aj[s]
                   /\ a'[s] = IF s = slot THEN e.val ELSE a[s]
                   /\ s \in written' <=> s = slot \/ s \in written
            BY <3>5, <3>7, <5>1, <5>5, <5>7
          <6>4. QED
            BY <5>7, <6>2, <6>3
        <5>9. UnionLoad!PlaceEntry
          BY <3>2, <3>3, <3>5, <4>1, <5>1, <5>4, <5>5, <5>6, <5>7, <5>8
             DEF UnionLoad!PlaceEntry, UnionLoad!Entries, UnionLoad!OutOfBounds,
                 UnionLoad!CursorMoved, UnionLoad!Pair, IsRow, U
        <5>10. QED
          BY <5>9 DEF UnionLoad!Next
      <4>8. CASE PlaceDone
        <5>1. /\ pc = "place" /\ it.half = Over /\ pc' = "shift" /\ i' = nrows - 1
              /\ PassAccepted
              /\ UNCHANGED <<ai, aj, a, nzcount, warning, written>>
          BY <3>4, <4>8 DEF PlaceDone, arrays
        <5>2. nzcount = len
          BY <3>1, <5>1 DEF WalkInv, Taken, len
        <5>3. UnionLoad!PlaceDone
          BY <3>2, <3>3, <3>5, <3>6, <4>1, <5>1, <5>2
             DEF UnionLoad!PlaceDone, UnionLoad!Entries, UnionLoad!PassAccepted, PassAccepted,
                 UnionLoad!Goto, UnionLoad!LastShifted, U
        <5>4. QED
          BY <5>3 DEF UnionLoad!Next
      <4>9. CASE ShiftStep
        <5>1. /\ pc = "shift" /\ pc' = "shift" /\ i >= 1 /\ i' = i - 1
              /\ ai' = [ai EXCEPT ![i] = ai[i - 1]]
              /\ UNCHANGED <<aj, a, nzcount, warning, written>>
          BY <4>9 DEF ShiftStep
        <5>2. UnionLoad!ShiftStep
          BY <3>3, <3>5, <3>6, <4>1, <5>1 DEF UnionLoad!ShiftStep, U
        <5>3. QED
          BY <5>2 DEF UnionLoad!Next
      <4>10. CASE ShiftDone
        <5>1. /\ pc = "shift" /\ pc' = "symmetrized" /\ i = 0
              /\ ai' = [ai EXCEPT ![0] = 0]
              /\ UNCHANGED <<aj, a, nzcount, i, warning, written>>
          BY <4>10 DEF ShiftDone
        <5>2. UnionLoad!ShiftDone
          BY <3>3, <3>5, <3>6, <4>1, <5>1
             DEF UnionLoad!ShiftDone, UnionLoad!FirstRowReset, UnionLoad!Goto, U
        <5>3. QED
          BY <5>2 DEF UnionLoad!Next
      <4>11. QED
        BY <4>1, <4>2, <4>3, <4>4, <4>5, <4>6, <4>7, <4>8, <4>9, <4>10 DEF Next
    <3>10. CASE StartPacking
      <4>1. /\ pc = "symmetrized" /\ pc' = "row"
            /\ mlarge' = [nrows |-> nrows, ncols |-> ncols, nnz |-> nnz,
                          ai |-> ai, aj |-> aj, a |-> a]
            /\ UNCHANGED <<nzcount, i, warning, written>>
        BY <3>1, <3>10 DEF StartPacking, ReadyToPack, WalkInv
      <4>2. mlarge'.ai = ai /\ mlarge'.aj = aj /\ mlarge'.a = a
        BY <4>1
      <4>3. /\ ToUnionLoad = "done" /\ UnionRows = ai /\ mlarge = NoMatrix
            /\ ToUnionLoad' = "done" /\ UnionRows' = mlarge'.ai /\ mlarge' # NoMatrix
        BY <2>3, <2>5, <4>1, SeenAs DEF PackingLabels
      <4>4. UnionCells' = UnionCells
        BY <2>1, <2>2, <4>1, <4>2, <4>3 DEF UnionCells
      <4>5. QED
        BY <3>3, <4>1, <4>2, <4>3, <4>4 DEF UnionLoad!vars, U
    <3>11. CASE Packing \/ Loaded
      <4>1. /\ pc \in PackingLabels
            /\ UNCHANGED <<mlarge, nzcount, i, warning, written>>
        BY <3>11 DEF Packing, Loaded, packing, PackingLabels, Pack!Next, Pack!StartRow,
           Pack!NewElement, Pack!DuplicateElement, Pack!RowPacked, Pack!ResetColumn,
           Pack!RowReset, Pack!AllPacked, Pack!SortRow, Pack!AllSorted
      <4>2. mlarge # NoMatrix /\ mlarge' # NoMatrix
        BY <3>1, <4>1 DEF StageInv
      <4>3. pc' \in PackingLabels
        BY <3>1, <4>2 DEF StageInv
      <4>4. /\ ToUnionLoad = "done" /\ UnionRows = mlarge.ai
            /\ ToUnionLoad' = "done" /\ UnionRows' = mlarge'.ai
        BY <2>3, <2>5, <4>1, <4>3, SeenAs
      <4>5. UnionCells' = UnionCells
        BY <2>1, <2>2, <4>1, <4>2 DEF UnionCells
      <4>6. QED
        BY <3>3, <4>1, <4>4, <4>5 DEF UnionLoad!vars, U
    <3>12. CASE UNCHANGED pipevars
      <4>1. UNCHANGED <<loaded, pc, ai, aj, a, nzcount, i, warning, written, symmetrize, mlarge>>
        BY <3>12 DEF pipevars, vars, arrays
      <4>2. ToUnionLoad' = ToUnionLoad
        BY <2>2, <4>1, Zenon DEF ToUnionLoad
      <4>3. UnionRows' = UnionRows
        BY <4>1, <4>2 DEF UnionRows
      <4>4. QED
        BY <3>3, <3>6, <4>1, <4>2, <4>3 DEF UnionLoad!vars, U
    <3>13. QED
      BY <3>8, <3>9, <3>10, <3>11, <3>12 DEF PipeNext
  <2>6. QED
    BY <2>4, <2>5
<1>3. QED
  BY <1>1, <1>2, PipelineInvariant, PTL DEF PipeSpec, SymmetrizingIsLoading, UnionLoad!Spec

----------------------------------------------------------------------------
\* What is shown is the sum: packing, proved right for any compressed rows, is
\* handed the matrix, or the union with every entry in its slot.

Arrays == UNION {[0 .. n -> Int] : n \in Int}
CompressedMatrices ==
    {m \in [nrows : Nat \ {0}, ncols : Nat, nnz : Nat, ai : Arrays, aj : Arrays, a : Arrays] :
        /\ m.ai \in [0 .. m.nrows -> 0 .. m.nnz]
        /\ m.ai[0] = 0 /\ m.ai[m.nrows] = m.nnz
        /\ \A r \in 0 .. (m.nrows - 1) : m.ai[r] <= m.ai[r + 1]
        /\ m.aj \in [0 .. (m.nnz - 1) -> 0 .. (m.ncols - 1)]
        /\ m.a \in [0 .. (m.nnz - 1) -> Int]}

P == INSTANCE PackStorageProofs WITH loaded <- mlarge, Matrices <- CompressedMatrices

LEMMA CompressedShape ==
    ASSUME NEW m \in CompressedMatrices
    PROVE  /\ m.nrows \in Nat \ {0} /\ m.ncols \in Nat /\ m.nnz \in Nat
           /\ m.ai \in [0 .. m.nrows -> 0 .. m.nnz]
           /\ m.ai[0] = 0 /\ m.ai[m.nrows] = m.nnz
           /\ \A r \in 0 .. (m.nrows - 1) : m.ai[r] <= m.ai[r + 1]
           /\ m.aj \in [0 .. (m.nnz - 1) -> 0 .. (m.ncols - 1)]
           /\ m.a \in [0 .. (m.nnz - 1) -> Int]
BY DEF CompressedMatrices

LEMMA PackingAssumption == P!MatricesAssumption
  BY CompressedShape DEF P!MatricesAssumption

LEMMA IsCompressed ==
    ASSUME NEW nr \in Nat \ {0}, NEW nc \in Nat, NEW nz \in Nat,
           NEW rows \in [0 .. nr -> 0 .. nz],
           NEW columns \in [0 .. (nz - 1) -> 0 .. (nc - 1)],
           NEW values \in [0 .. (nz - 1) -> Int],
           rows[0] = 0, rows[nr] = nz,
           \A r \in 0 .. (nr - 1) : rows[r] <= rows[r + 1]
    PROVE  [nrows |-> nr, ncols |-> nc, nnz |-> nz, ai |-> rows, aj |-> columns, a |-> values]
              \in CompressedMatrices
<1> DEFINE m == [nrows |-> nr, ncols |-> nc, nnz |-> nz, ai |-> rows, aj |-> columns,
                 a |-> values]
<1>1. rows \in Arrays /\ columns \in Arrays /\ values \in Arrays
  <2>1. /\ rows \in [0 .. nr -> Int] /\ nr \in Int
        /\ columns \in [0 .. (nz - 1) -> Int] /\ values \in [0 .. (nz - 1) -> Int]
        /\ nz - 1 \in Int
    OBVIOUS
  <2>2. ASSUME NEW n \in Int, NEW f \in [0 .. n -> Int] PROVE f \in Arrays
    BY Zenon DEF Arrays
  <2>3. QED
    BY <2>1, <2>2
<1>2. m.nrows = nr /\ m.ncols = nc /\ m.nnz = nz /\ m.ai = rows /\ m.aj = columns /\ m.a = values
  OBVIOUS
<1>3. m \in [nrows : Nat \ {0}, ncols : Nat, nnz : Nat, ai : Arrays, aj : Arrays, a : Arrays]
  BY <1>1
<1> HIDE DEF m
<1>4. m \in CompressedMatrices
  BY <1>2, <1>3 DEF CompressedMatrices
<1>5. QED
  BY <1>4 DEF m

\* Packing is the same in both instances.
LEMMA SamePacking ==
    /\ Pack!Next => P!Next
    /\ \A r, c : Pack!LookUp(r, c) = P!LookUp(r, c)
    /\ \A f, n : P!SumTo(f, n) = SumTo(f, n)
    /\ \A S : P!Cardinality(S) = Cardinality(S)
    /\ Pack!Unused = P!Unused
<1>1. Pack!Next => P!Next
  BY DEF Pack!Next, Pack!StartRow, Pack!NewElement, Pack!DuplicateElement, Pack!RowPacked,
     Pack!ResetColumn, Pack!RowReset, Pack!AllPacked, Pack!SortRow, Pack!AllSorted,
     Pack!StartMoved, Pack!Added, Pack!ResetFrom, Pack!Orders, Pack!Permuted, Pack!ValuesMoved,
     Pack!RowSlots, Pack!Unused,
     P!Next, P!StartRow, P!NewElement, P!DuplicateElement, P!RowPacked,
     P!ResetColumn, P!RowReset, P!AllPacked, P!SortRow, P!AllSorted,
     P!StartMoved, P!Added, P!ResetFrom, P!Orders, P!Permuted, P!ValuesMoved,
     P!RowSlots, P!Unused
<1>2. ASSUME NEW r, NEW c PROVE Pack!LookUp(r, c) = P!LookUp(r, c)
  BY Zenon DEF Pack!LookUp, P!LookUp, Pack!RowSlots, P!RowSlots, Pack!Rows, P!Rows,
     Pack!Columns, P!Columns
<1>3. ASSUME NEW f, NEW n PROVE P!SumTo(f, n) = SumTo(f, n)
  BY Zenon DEF P!SumTo, SumTo
<1>4. ASSUME NEW S PROVE P!Cardinality(S) = Cardinality(S)
  BY Zenon DEF P!Cardinality, Cardinality
<1>5. Pack!Unused = P!Unused
  BY DEF Pack!Unused, P!Unused
<1>6. QED
  BY <1>1, <1>2, <1>3, <1>4, <1>5

LEMMA PackingKeeps ==
    /\ P!Init => P!PackInv /\ P!SumInv
    /\ P!PackInv /\ P!SumInv /\ (P!Next \/ UNCHANGED P!vars) => P!PackInv' /\ P!SumInv'
    /\ P!PackInv /\ P!SumInv => P!ValuesAreTotals
  BY PackingAssumption, P!InitPackInv, P!InitSumInv, P!PackInvStep, P!SumInvStep, P!DoneTotals

\* The first n entries of a file are in their slots.
Placed(f, columns, values, n) ==
    \A j \in 1 .. n :
        columns[SlotOf(f, j)] = f.entries[j].col /\ values[SlotOf(f, j)] = f.entries[j].val

LEMMA PlacedStep ==
    ASSUME NEW f, IsMatrixFile(f), WellFormed(f), NEW n \in 0 .. (Len(f.entries) - 1),
           NEW columns, NEW values, Placed(f, columns, values, n),
           SlotsOf(f) \subseteq DOMAIN columns, SlotsOf(f) \subseteq DOMAIN values
    PROVE  LET e == f.entries[n + 1]
               s == SlotOf(f, n + 1)
           IN  Placed(f, [columns EXCEPT ![s] = e.col], [values EXCEPT ![s] = e.val], n + 1)
<1> DEFINE e == f.entries[n + 1]
           s == SlotOf(f, n + 1)
           columns2 == [columns EXCEPT ![s] = e.col]
           values2 == [values EXCEPT ![s] = e.val]
<1>1. Len(f.entries) \in Nat /\ n \in Nat /\ n + 1 \in 1 .. Len(f.entries)
  <2>1. Len(f.entries) \in Nat
    BY FileShape
  <2>2. QED
    BY <2>1
<1>2. s \in SlotsOf(f)
  BY <1>1, SlotInRow
<1>3. columns2[s] = e.col /\ values2[s] = e.val
  BY <1>2
<1>4. ASSUME NEW j \in 1 .. n
      PROVE  columns2[SlotOf(f, j)] = f.entries[j].col /\ values2[SlotOf(f, j)] = f.entries[j].val
  <2>1. j \in 1 .. Len(f.entries) /\ j < n + 1
    BY <1>1
  <2>2. SlotOf(f, j) # s /\ SlotOf(f, j) \in SlotsOf(f)
    BY <1>1, <2>1, SlotInRow, SlotsDiffer
  <2>3. columns[SlotOf(f, j)] = f.entries[j].col /\ values[SlotOf(f, j)] = f.entries[j].val
    BY DEF Placed
  <2> HIDE DEF s, e
  <2>4. QED
    BY <2>2, <2>3
<1>5. \A j \in 1 .. (n + 1) : j \in 1 .. n \/ j = n + 1
  BY <1>1
<1> HIDE DEF columns2, values2
<1>6. Placed(f, columns2, values2, n + 1)
  BY <1>3, <1>4, <1>5 DEF Placed
<1>7. QED
  BY <1>6, Zenon DEF columns2, values2

\* What pack_storage is handed.
IsUnionOf(m, l) ==
    /\ m.nrows = l.nrows /\ m.ncols = l.nrows /\ m.nnz = 2 * l.nnz
    /\ Starts(UnionFile(l), m.ai)
    /\ Placed(UnionFile(l), m.aj, m.a, 2 * l.nnz)
IsMatrixOf(m, l) ==
    /\ m.nrows = l.nrows /\ m.ncols = l.ncols /\ m.nnz = l.nnz
    /\ m.ai = l.ai /\ m.aj = l.aj /\ m.a = l.a

ContentsInv ==
    /\ pc \in SymmetrizingLabels => a \in [SlotIndices(loaded) -> Int]
    /\ pc \in {"place", "shift", "symmetrized"} => Placed(UnionFile(loaded), aj, a, nzcount)
    /\ pc \in {"shift", "symmetrized"} => nzcount = 2 * loaded.nnz
    /\ mlarge # NoMatrix =>
          /\ nrows = mlarge.nrows /\ ncols = mlarge.ncols
          /\ symmetrize => Sound(loaded)
          /\ IF symmetrize THEN IsUnionOf(mlarge, loaded) ELSE IsMatrixOf(mlarge, loaded)
          /\ P!PackInv /\ P!SumInv
    /\ matrix_loaded => pc = "done" /\ nnz = ai[loaded.nrows]

LEMMA InitContents == PipeInit => ContentsInv
<1> SUFFICES ASSUME PipeInit PROVE ContentsInv
  OBVIOUS
<1>1. pc = "start" /\ mlarge = NoMatrix /\ matrix_loaded = FALSE
  BY DEF PipeInit, Init
<1>2. QED
  BY <1>1 DEF ContentsInv, SymmetrizingLabels

\* An entry of the union is placed.
LEMMA EntryPlaced ==
    PipelineInv /\ ContentsInv /\ PlaceEntry =>
        /\ pc = "place" /\ pc' = "place" /\ nzcount' = nzcount + 1
        /\ UNCHANGED <<loaded, nrows, ncols, nnz>>
        /\ a' \in [SlotIndices(loaded) -> Int]
        /\ Placed(UnionFile(loaded), aj', a', nzcount + 1)
<1> SUFFICES ASSUME PipelineInv, ContentsInv, PlaceEntry
             PROVE  /\ pc = "place" /\ pc' = "place" /\ nzcount' = nzcount + 1
                    /\ UNCHANGED <<loaded, nrows, ncols, nnz>>
                    /\ a' \in [SlotIndices(loaded) -> Int]
                    /\ Placed(UnionFile(loaded), aj', a', nzcount + 1)
  OBVIOUS
<1> DEFINE U == UnionFile(loaded)
           len == 2 * loaded.nnz
           e == Current(it)
<1>1. TypeInv /\ PipeTypeOK /\ StageInv /\ WalkInv /\ RowsInv
  BY DEF PipelineInv, TypeInv
<1>2. /\ loaded \in Matrices /\ loaded.nnz \in Nat /\ len \in Nat
      /\ ai \in [RowIndices(loaded) -> Nat]
  BY <1>1, MatrixShape DEF PipeTypeOK
<1>3. /\ pc = "place" /\ it.half # Over
      /\ UNCHANGED <<loaded, nrows, ncols, nnz>>
  BY DEF PlaceEntry
<1>4. /\ nzcount = Taken(it) /\ Sound(loaded) /\ nnz = len
      /\ aj \in [SlotIndices(loaded) -> 0 .. (ncols - 1)]
      /\ a \in [SlotIndices(loaded) -> Int]
      /\ Placed(U, aj, a, nzcount)
  BY <1>1, <1>3 DEF StageInv, WalkInv, SymmetrizingLabels, len, ContentsInv
<1>5. /\ IsMatrixFile(U) /\ WellFormed(U) /\ Len(U.entries) = len
      /\ \A n \in 1 .. len : U.entries[n] = UnionEntry(loaded, n)
      /\ RowsOf(U) = RowIndices(loaded) /\ SlotsOf(U) = SlotIndices(loaded)
  BY <1>2, <1>4, UnionIsWellFormed, SoundRows
<1>6. AtEntry(it)
  BY <1>1, <1>3, <1>4 DEF WalkInv, Sound
<1>7. /\ Taken(it) \in 0 .. (len - 1) /\ Readable(it)
      /\ e = UnionEntry(loaded, Taken(it) + 1)
  BY <1>2, <1>6, AdvancesByOne, DeliversNext DEF len
<1> HIDE DEF U, len, e
<1>8. nzcount \in 0 .. (len - 1) /\ nzcount + 1 \in 1 .. len /\ e = U.entries[nzcount + 1]
  BY <1>2, <1>4, <1>5, <1>7
<1>9. e.val \in Int
  BY <1>5, <1>8, FileShape
<1>10. Moved(U, ai, nzcount)
  BY <1>1, <1>3, <1>4 DEF RowsInv, U
<1>11. /\ e.row \in RowsOf(U) /\ ai[e.row] = SlotOf(U, nzcount + 1)
       /\ ai[e.row] \in SlotsOf(U)
  BY <1>5, <1>8, <1>10, CursorAtSlot
<1>12. IsRow(e.row) /\ IsSlot(ai[e.row]) /\ ai[e.row] \in SlotIndices(loaded)
  BY <1>4, <1>5, <1>11 DEF IsRow, IsSlot, SlotIndices, len
<1>13. /\ aj' = [aj EXCEPT ![ai[e.row]] = e.col]
       /\ a' = [a EXCEPT ![ai[e.row]] = e.val]
       /\ pc' = pc /\ nzcount' = nzcount + 1
  BY <1>7, <1>12, Zenon DEF PlaceEntry, e
<1>14. a' \in [SlotIndices(loaded) -> Int]
  BY <1>4, <1>9, <1>13
<1>15. Placed(U, aj', a', nzcount + 1)
  <2>1. /\ aj' = [aj EXCEPT ![SlotOf(U, nzcount + 1)] = U.entries[nzcount + 1].col]
        /\ a' = [a EXCEPT ![SlotOf(U, nzcount + 1)] = U.entries[nzcount + 1].val]
    BY <1>8, <1>11, <1>13
  <2>2. nzcount \in 0 .. (Len(U.entries) - 1)
        /\ SlotsOf(U) \subseteq DOMAIN aj /\ SlotsOf(U) \subseteq DOMAIN a
    BY <1>4, <1>5, <1>8
  <2>3. QED
    BY <1>4, <1>5, <2>1, <2>2, PlacedStep
<1>16. QED
  BY <1>3, <1>13, <1>14, <1>15 DEF U

LEMMA SymmetrizingContents == PipelineInv /\ ContentsInv /\ Symmetrizing => ContentsInv'
<1> SUFFICES ASSUME PipelineInv, ContentsInv, Symmetrizing PROVE ContentsInv'
  OBVIOUS
<1>1. /\ PipeTypeOK /\ StageInv /\ WalkInv /\ loaded \in Matrices /\ loaded.nnz \in Nat
      /\ Next /\ mlarge' = mlarge /\ matrix_loaded' = matrix_loaded
  BY MatrixShape DEF PipelineInv, TypeInv, PipeTypeOK, Symmetrizing
<1>2. pc \in {"start", "count", "sum", "place", "shift"}
  BY <1>1 DEF Next, Start, CountEntry, CountDone, SumStep, SumDone, PlaceEntry, PlaceDone,
     ShiftStep, ShiftDone
<1>3. mlarge' = NoMatrix /\ ~matrix_loaded'
  BY <1>1, <1>2 DEF StageInv, PackingLabels, ContentsInv
<1>4. CASE Start
  <2>1. pc = "start" /\ pc' = "count" /\ loaded' = loaded /\ a' = Resized(a)
    BY <1>4 DEF Start
  <2>2. a = loaded.a
    BY <1>1, <2>1 DEF StageInv
  <2>3. a' \in [SlotIndices(loaded) -> Int]
    <3>1. ASSUME NEW s \in SlotIndices(loaded), s < loaded.nnz PROVE loaded.a[s] \in Int
      <4>1. s \in 0 .. (loaded.nnz - 1)
        BY <1>1, <3>1 DEF SlotIndices
      <4>2. QED
        BY <1>1, <4>1, MatrixShape
    <3>2. QED
      BY <2>1, <2>2, <3>1 DEF Resized
  <2>4. QED
    BY <1>3, <2>1, <2>3 DEF ContentsInv
<1>5. CASE PlaceEntry
  <2>1. /\ pc = "place" /\ pc' = "place" /\ nzcount' = nzcount + 1
        /\ UNCHANGED <<loaded, nrows, ncols, nnz>>
        /\ a' \in [SlotIndices(loaded) -> Int]
        /\ Placed(UnionFile(loaded), aj', a', nzcount + 1)
    BY <1>5, EntryPlaced
  <2>2. QED
    BY <1>3, <2>1 DEF ContentsInv
<1>6. CASE SumDone
  <2>1. pc = "sum" /\ pc' = "place" /\ nzcount' = 0 /\ UNCHANGED <<loaded, a>>
    BY <1>6 DEF SumDone, arrays
  <2>2. Placed(UnionFile(loaded), aj', a', 0)
    BY DEF Placed
  <2>3. QED
    BY <1>3, <2>1, <2>2 DEF ContentsInv, SymmetrizingLabels
<1>7. CASE PlaceDone
  <2>1. /\ pc = "place" /\ pc' \in {"shift", "failed"} /\ it.half = Over
        /\ UNCHANGED <<loaded, aj, a, nzcount>>
    BY <1>7 DEF PlaceDone, arrays
  <2>2. nzcount = 2 * loaded.nnz
    BY <1>1, <2>1 DEF WalkInv, Taken
  <2>3. QED
    BY <1>3, <2>1, <2>2 DEF ContentsInv, SymmetrizingLabels
<1>8. CASE ShiftStep \/ ShiftDone
  <2>1. /\ pc = "shift" /\ pc' \in {"shift", "symmetrized"}
        /\ UNCHANGED <<loaded, aj, a, nzcount>>
    BY <1>8 DEF ShiftStep, ShiftDone
  <2>2. QED
    BY <1>3, <2>1 DEF ContentsInv, SymmetrizingLabels
<1>9. CASE CountEntry \/ CountDone \/ SumStep
  <2>1. /\ pc \in {"count", "sum"} /\ pc' \in {"count", "sum", "failed", "undefined"}
        /\ UNCHANGED <<loaded, a>>
    BY <1>9 DEF CountEntry, CountDone, SumStep, Undefined, arrays
  <2>2. QED
    BY <1>3, <2>1 DEF ContentsInv, SymmetrizingLabels
<1>10. QED
  BY <1>1, <1>4, <1>5, <1>6, <1>7, <1>8, <1>9 DEF Next

LEMMA PackingBegins == PipelineInv /\ PipelineInv' /\ ContentsInv /\ StartPacking => ContentsInv'
<1> SUFFICES ASSUME PipelineInv, PipelineInv', ContentsInv, StartPacking PROVE ContentsInv'
  OBVIOUS
<1>1. /\ pc \in ReadyToPack /\ pc' = "row"
      /\ mlarge' = [nrows |-> nrows, ncols |-> ncols, nnz |-> nnz, ai |-> ai, aj |-> aj, a |-> a]
      /\ wa' = [c \in 0 .. (ncols - 1) |-> Pack!Unused]
      /\ ri' = 0 /\ k' = 0 /\ pos_end' = 0 /\ cur_elem' = 0
      /\ UNCHANGED <<loaded, nrows, ncols, nnz, ai, aj, a, symmetrize, matrix_loaded>>
  BY DEF StartPacking, arrays
<1>2. /\ mlarge'.nrows = nrows /\ mlarge'.ncols = ncols /\ mlarge'.nnz = nnz
      /\ mlarge'.ai = ai /\ mlarge'.aj = aj /\ mlarge'.a = a
  BY <1>1
<1>3. /\ loaded \in Matrices /\ StageInv /\ WalkInv /\ RowsInv
      /\ StageInv' /\ HandsOnCompressedRows'
      /\ nrows \in Nat /\ ncols \in Nat /\ nnz \in Nat
  BY DEF PipelineInv, TypeInv, PipeTypeOK
<1>4. mlarge' # NoMatrix
  BY <1>1, <1>3 DEF StageInv, PackingLabels
<1>5. \/ pc = "start" /\ ~symmetrize
      \/ pc = "symmetrized" /\ symmetrize /\ Sound(loaded)
  BY <1>1, <1>3 DEF ReadyToPack, WalkInv, StageInv, SymmetrizingLabels
<1>6. /\ IF symmetrize THEN IsUnionOf(mlarge', loaded) ELSE IsMatrixOf(mlarge', loaded)
      /\ nrows = loaded.nrows /\ a \in [0 .. (nnz - 1) -> Int]
  <2>1. CASE pc = "start" /\ ~symmetrize
    <3>1. /\ nrows = loaded.nrows /\ ncols = loaded.ncols /\ nnz = loaded.nnz
          /\ ai = loaded.ai /\ aj = loaded.aj /\ a = loaded.a
      BY <1>3, <2>1 DEF StageInv
    <3>2. QED
      BY <1>2, <1>3, <2>1, <3>1, MatrixShape DEF IsMatrixOf
  <2>2. CASE pc = "symmetrized" /\ symmetrize /\ Sound(loaded)
    <3>1. /\ nrows = loaded.nrows /\ ncols = loaded.nrows /\ nnz = 2 * loaded.nnz
          /\ Starts(UnionFile(loaded), ai)
          /\ Placed(UnionFile(loaded), aj, a, 2 * loaded.nnz)
          /\ a \in [SlotIndices(loaded) -> Int]
      BY <1>3, <2>2, SoundRows DEF StageInv, SymmetrizingLabels, RowsInv, ContentsInv
    <3>2. QED
      BY <1>2, <2>2, <3>1 DEF IsUnionOf, SlotIndices
  <2>3. QED
    BY <1>5, <2>1, <2>2
<1>7. mlarge' \in CompressedMatrices
  <2>1. /\ nrows \in Nat \ {0}
        /\ ai \in [0 .. nrows -> 0 .. nnz] /\ ai[0] = 0 /\ ai[nrows] = nnz
        /\ \A r \in 0 .. (nrows - 1) : ai[r] <= ai[r + 1]
        /\ aj \in [0 .. (nnz - 1) -> 0 .. (ncols - 1)]
    BY <1>2, <1>3, <1>4, <1>6, MatrixShape DEF HandsOnCompressedRows
  <2>2. QED
    BY <1>1, <1>3, <1>6, <2>1, IsCompressed
<1>8. P!Init'
  BY <1>1, <1>2, <1>7, SamePacking DEF P!Init, P!Columns
<1>9. (P!Init => P!PackInv /\ P!SumInv)'
  BY PackingKeeps, PTL
<1>10. ~matrix_loaded
  BY <1>5 DEF ContentsInv
<1>11. QED
  BY <1>1, <1>2, <1>4, <1>5, <1>6, <1>8, <1>9, <1>10 DEF ContentsInv, SymmetrizingLabels

LEMMA PackingContents == PipelineInv /\ PipelineInv' /\ ContentsInv /\ Packing => ContentsInv'
<1> SUFFICES ASSUME PipelineInv, PipelineInv', ContentsInv, Packing PROVE ContentsInv'
  OBVIOUS
<1>1. /\ Pack!Next
      /\ UNCHANGED <<loaded, nrows, ncols, nnz, symmetrize, matrix_loaded>>
  BY DEF Packing
<1>2. mlarge' = mlarge /\ pc \in {"row", "element", "reset", "sort"}
  BY <1>1 DEF Pack!Next, Pack!StartRow, Pack!NewElement, Pack!DuplicateElement, Pack!RowPacked,
     Pack!ResetColumn, Pack!RowReset, Pack!AllPacked, Pack!SortRow, Pack!AllSorted
<1>3. mlarge # NoMatrix /\ pc' \in PackingLabels
  BY <1>2 DEF PipelineInv, StageInv, PackingLabels
<1>4. P!PackInv' /\ P!SumInv'
  BY <1>1, <1>3, SamePacking, PackingKeeps DEF ContentsInv
<1>5. QED
  BY <1>1, <1>2, <1>3, <1>4 DEF ContentsInv, SymmetrizingLabels, PackingLabels

LEMMA LoadedContents == PipelineInv /\ ContentsInv /\ Loaded => ContentsInv'
<1> SUFFICES ASSUME PipelineInv, ContentsInv, Loaded PROVE ContentsInv'
  OBVIOUS
<1>1. /\ pc = "done" /\ nnz' = ai[loaded.nrows]
      /\ UNCHANGED <<loaded, pc, nrows, ncols, ai, aj, a, symmetrize, mlarge, wa, ri, k, pos_end,
                     cur_elem>>
  BY DEF Loaded, EndOfRows, packing
<1>2. mlarge # NoMatrix
  BY <1>1 DEF PipelineInv, StageInv, PackingLabels
<1>3. P!PackInv' /\ P!SumInv'
  <2>1. UNCHANGED P!vars
    BY <1>1 DEF P!vars
  <2>2. QED
    BY <1>2, <2>1, PackingKeeps DEF ContentsInv
<1>4. QED
  BY <1>1, <1>2, <1>3 DEF ContentsInv, SymmetrizingLabels

LEMMA ContentsStep ==
    PipelineInv /\ PipelineInv' /\ ContentsInv /\ [PipeNext]_pipevars => ContentsInv'
<1> SUFFICES ASSUME PipelineInv, PipelineInv', ContentsInv, [PipeNext]_pipevars
             PROVE  ContentsInv'
  OBVIOUS
<1>1. CASE LoadFailed
  <2>1. pc = "start" /\ pc' = "rejected" /\ UNCHANGED <<mlarge, matrix_loaded>>
    BY <1>1 DEF LoadFailed
  <2>2. mlarge = NoMatrix /\ ~matrix_loaded
    BY <2>1 DEF PipelineInv, StageInv, PackingLabels, ContentsInv
  <2>3. QED
    BY <2>1, <2>2 DEF ContentsInv, SymmetrizingLabels
<1>2. CASE UNCHANGED pipevars
  <2>1. UNCHANGED <<loaded, pc, nrows, ncols, nnz, ai, aj, a, nzcount, symmetrize, matrix_loaded,
                    mlarge, wa, ri, k, pos_end, cur_elem>>
    BY <1>2 DEF pipevars, vars, arrays, packing
  <2>2. UNCHANGED P!vars
    BY <2>1 DEF P!vars
  <2>3. mlarge # NoMatrix => P!PackInv' /\ P!SumInv'
    BY <2>2, PackingKeeps DEF ContentsInv
  <2>4. QED
    BY <2>1, <2>3 DEF ContentsInv
<1>3. QED
  BY <1>1, <1>2, SymmetrizingContents, PackingBegins, PackingContents, LoadedContents
     DEF PipeNext

LEMMA ContentsHold == PipeSpec => []ContentsInv
<1>1. QED
  BY InitContents, ContentsStep, PipelineInvariant, PTL DEF PipeSpec

\* An entry of the matrix, by its slot's row.
LEMMA EntryOfRow ==
    ASSUME NEW m \in Matrices, NEW s \in 0 .. (m.nnz - 1), NEW r \in 0 .. (m.nrows - 1)
    PROVE  m.ai[r] <= s /\ s < m.ai[r + 1] <=> RowOfSlot(m, s) = r
  BY OneRow, SlotHasRow

LEMMA MatrixTotals ==
    ASSUME loaded \in Matrices, NEW m, IsMatrixOf(m, loaded),
           NEW r \in 0 .. (m.nrows - 1), NEW c
    PROVE  SumTo(P!ValuesAt(m, r, c), m.nnz) = FileTotal(r, c)
<1> DEFINE V == P!ValuesAt(m, r, c)
           W == FileValues(r, c)
<1>1. /\ m.nrows = loaded.nrows /\ m.nnz = loaded.nnz /\ m.nnz \in Nat
      /\ m.ai = loaded.ai /\ m.aj = loaded.aj /\ m.a = loaded.a
  BY MatrixShape DEF IsMatrixOf
<1>2. \A s \in 0 .. m.nnz - 1 : V[s] \in Int /\ V[s] = W[s]
  <2> SUFFICES ASSUME NEW s \in 0 .. m.nnz - 1 PROVE V[s] \in Int /\ V[s] = W[s]
    OBVIOUS
  <2>1. /\ s \in 0 .. (loaded.nnz - 1) /\ r \in 0 .. (loaded.nrows - 1)
        /\ loaded.a[s] \in Int
    BY <1>1, SlotHasRow
  <2>2. loaded.ai[r] <= s /\ s < loaded.ai[r + 1] <=> RowOfSlot(loaded, s) = r
    BY <2>1, EntryOfRow
  <2>3. /\ V[s] = IF P!IsEntry(m, r, c, s) THEN m.a[s] ELSE 0
        /\ W[s] = IF RowOfSlot(loaded, s) = r /\ loaded.aj[s] = c THEN loaded.a[s] ELSE 0
    BY <2>1 DEF P!ValuesAt, FileValues
  <2>4. P!IsEntry(m, r, c, s) <=> RowOfSlot(loaded, s) = r /\ loaded.aj[s] = c
    BY <1>1, <2>2 DEF P!IsEntry
  <2> HIDE DEF V, W
  <2>5. QED
    BY <1>1, <2>1, <2>3, <2>4
<1> HIDE DEF V, W
<1>3. SumTo(V, m.nnz) = SumTo(W, m.nnz)
  BY <1>1, <1>2, SumToSame
<1>4. QED
  BY <1>1, <1>3 DEF V, W, FileTotal

\* A placed entry is an entry of the rows it is placed in.
LEMMA PlacedEntry ==
    ASSUME NEW f, IsMatrixFile(f), WellFormed(f), NEW m, Starts(f, m.ai),
           Placed(f, m.aj, m.a, f.nnz), NEW n \in 1 .. f.nnz,
           NEW r \in 0 .. (f.nr - 1), NEW c
    PROVE  /\ P!IsEntry(m, r, c, SlotOf(f, n)) <=> f.entries[n].row = r /\ f.entries[n].col = c
           /\ m.a[SlotOf(f, n)] = f.entries[n].val
<1> DEFINE e == f.entries[n]
           s == SlotOf(f, n)
<1>1. /\ Len(f.entries) = f.nnz /\ n \in 1 .. Len(f.entries) /\ f.nr \in Nat
      /\ e.row \in Nat /\ e.row + 1 \in Nat
  BY FileShape DEF WellFormed
<1>2. /\ s \in SlotsOf(f) /\ s \in Int
      /\ RowStart(f, e.row) <= s /\ s < RowStart(f, e.row + 1)
  <2>1. s \in SlotsOf(f) /\ RowStart(f, e.row) <= s /\ s < RowStart(f, e.row + 1)
    BY <1>1, SlotInRow
  <2> HIDE DEF s
  <2>2. QED
    BY <2>1 DEF SlotsOf
<1>3. m.aj[s] = e.col /\ m.a[s] = e.val
  BY DEF Placed
<1>4. /\ r \in Nat /\ r + 1 \in Nat /\ r \in RowsOf(f) /\ r + 1 \in RowsOf(f)
      /\ m.ai[r] = RowStart(f, r) /\ m.ai[r + 1] = RowStart(f, r + 1)
  BY <1>1 DEF Starts, RowsOf
<1>5. /\ RowStart(f, r) \in Nat /\ RowStart(f, r + 1) \in Nat
      /\ RowStart(f, e.row) \in Nat /\ RowStart(f, e.row + 1) \in Nat
  BY <1>1, <1>4, RowStartStep
<1>6. ASSUME RowStart(f, r) <= s, s < RowStart(f, r + 1) PROVE e.row = r
  <2>1. r + 1 <= e.row => RowStart(f, r + 1) <= RowStart(f, e.row)
    BY <1>1, <1>4, RowStartGrows
  <2>2. e.row + 1 <= r => RowStart(f, e.row + 1) <= RowStart(f, r)
    BY <1>1, <1>4, RowStartGrows
  <2> DEFINE q == e.row
             A(x) == RowStart(f, x)
  <2>3. /\ q \in Nat /\ r \in Nat /\ s \in Int
        /\ A(r) \in Nat /\ A(r + 1) \in Nat /\ A(q) \in Nat /\ A(q + 1) \in Nat
        /\ A(q) <= s /\ s < A(q + 1) /\ A(r) <= s /\ s < A(r + 1)
        /\ r + 1 <= q => A(r + 1) <= A(q)
        /\ q + 1 <= r => A(q + 1) <= A(r)
    BY <1>1, <1>2, <1>4, <1>5, <1>6, <2>1, <2>2
  <2> HIDE DEF q, s, A
  <2>4. ~(r + 1 <= q) /\ ~(q + 1 <= r)
    BY <2>3
  <2>5. q = r
    BY <2>3, <2>4
  <2>6. QED
    BY <2>5 DEF q
<1> HIDE DEF e, s
<1>7. P!IsEntry(m, r, c, s) <=> e.row = r /\ e.col = c
  BY <1>2, <1>3, <1>4, <1>6 DEF P!IsEntry
<1>8. QED
  BY <1>3, <1>7 DEF e, s

\* The slots of a file's entries, counted from 0: a renaming of the slots.
Renaming(f) == [j \in 0 .. f.nnz - 1 |-> SlotOf(f, j + 1)]

LEMMA RenamingOfSlots ==
    ASSUME NEW f, IsMatrixFile(f), WellFormed(f)
    PROVE  /\ f.nnz \in Nat
           /\ Renames(Renaming(f), f.nnz)
           /\ \A j \in 0 .. f.nnz - 1 : Renaming(f)[j] \in 0 .. f.nnz - 1
           /\ \A s \in 0 .. f.nnz - 1 : \E n \in 1 .. f.nnz : SlotOf(f, n) = s
<1> DEFINE p == Renaming(f)
           S == 0 .. f.nnz - 1
<1>1. f.nnz \in Nat /\ Len(f.entries) = f.nnz
  BY FileShape DEF WellFormed
<1>2. p \in [S -> S]
  <2>1. ASSUME NEW j \in S PROVE SlotOf(f, j + 1) \in S
    <3>1. j + 1 \in 1 .. Len(f.entries)
      BY <1>1
    <3>2. QED
      BY <3>1, SlotInRow DEF SlotsOf
  <2>2. QED
    BY <2>1 DEF Renaming
<1>3. ASSUME NEW s \in S, NEW t \in S, p[s] = p[t] PROVE s = t
  <2>1. /\ s + 1 \in 1 .. Len(f.entries) /\ t + 1 \in 1 .. Len(f.entries)
        /\ s \in Int /\ t \in Int
    BY <1>1
  <2>2. SlotOf(f, s + 1) = SlotOf(f, t + 1)
    BY <1>3 DEF Renaming
  <2>3. ~(s + 1 < t + 1) /\ ~(t + 1 < s + 1)
    BY <2>1, <2>2, SlotsDiffer
  <2>4. QED
    BY <2>1, <2>3
<1>4. Renames(p, f.nnz)
  <2> HIDE DEF p
  <2>1. QED
    BY <1>2, <1>3 DEF Renames
<1>5. \A t \in S : \E s \in S : p[s] = t
  BY <1>1, <1>4, RenamesOnto
<1>6. ASSUME NEW t \in S PROVE \E n \in 1 .. f.nnz : SlotOf(f, n) = t
  <2>1. PICK s \in S : p[s] = t
    BY <1>5
  <2>2. s + 1 \in 1 .. f.nnz /\ SlotOf(f, s + 1) = t
    BY <1>1, <2>1 DEF Renaming
  <2>3. QED
    BY <2>2
<1>7. QED
  BY <1>1, <1>2, <1>4, <1>6

\* What the entries of a file add up to at a position.
EntryValues(f, r, c) ==
    [j \in 0 .. f.nnz - 1 |->
        IF f.entries[j + 1].row = r /\ f.entries[j + 1].col = c THEN f.entries[j + 1].val ELSE 0]

LEMMA PlacedTotals ==
    ASSUME NEW f, IsMatrixFile(f), WellFormed(f), NEW m, m.nnz = f.nnz, Starts(f, m.ai),
           Placed(f, m.aj, m.a, f.nnz), NEW r \in 0 .. (f.nr - 1), NEW c
    PROVE  SumTo(P!ValuesAt(m, r, c), m.nnz) = SumTo(EntryValues(f, r, c), f.nnz)
<1> DEFINE V == P!ValuesAt(m, r, c)
           W == EntryValues(f, r, c)
           p == Renaming(f)
           z == f.nnz
<1>1. /\ z \in Nat /\ Len(f.entries) = z /\ Renames(p, z)
      /\ \A j \in 0 .. z - 1 : p[j] \in 0 .. z - 1
  BY RenamingOfSlots DEF WellFormed
<1>2. ASSUME NEW j \in 0 .. z - 1 PROVE W[j] \in Int /\ V[p[j]] = W[j]
  <2> DEFINE n == j + 1
  <2>1. n \in 1 .. f.nnz /\ n \in 1 .. Len(f.entries) /\ p[j] = SlotOf(f, n) /\ p[j] \in 0 .. z - 1
    <3>1. p[j] = SlotOf(f, n)
      BY DEF Renaming
    <3>2. n \in 1 .. z
      BY <1>1
    <3> HIDE DEF p
    <3>3. QED
      BY <1>1, <3>1, <3>2
  <2>2. W[j] = IF f.entries[n].row = r /\ f.entries[n].col = c THEN f.entries[n].val ELSE 0
    BY DEF EntryValues
  <2>3. V[p[j]] = IF P!IsEntry(m, r, c, p[j]) THEN m.a[p[j]] ELSE 0
    BY <2>1 DEF P!ValuesAt
  <2> HIDE DEF n, W, V, p
  <2>4. f.entries[n].val \in Int
    BY <2>1, FileShape
  <2>5. /\ P!IsEntry(m, r, c, SlotOf(f, n)) <=> f.entries[n].row = r /\ f.entries[n].col = c
        /\ m.a[SlotOf(f, n)] = f.entries[n].val
    BY <2>1, PlacedEntry
  <2>6. QED
    BY <2>1, <2>2, <2>3, <2>4, <2>5
<1> HIDE DEF V, W, p, z
<1>3. SumTo(V, z) = SumTo(W, z)
  <2>1. \A j \in 0 .. z - 1 : W[j] \in Int
    BY <1>2
  <2>2. \A j \in 0 .. z - 1 : V[p[j]] = W[j]
    BY <1>2
  <2>3. QED
    BY <1>1, <2>1, <2>2, SumToRenamed
<1>4. QED
  BY <1>3 DEF V, W, z

\* The union's entries add up to those of the matrix and its transpose.
LEMMA UnionTotals ==
    ASSUME loaded \in Matrices, NEW r, NEW c
    PROVE  SumTo(EntryValues(UnionFile(loaded), r, c), 2 * loaded.nnz) =
               FileTotal(r, c) + FileTotal(c, r)
<1> DEFINE U == UnionFile(loaded)
           W == EntryValues(U, r, c)
           F == FileValues(r, c)
           G == FileValues(c, r)
           z == loaded.nnz
<1>1. z \in Nat /\ z + z = 2 * z
  BY MatrixShape
<1>2. /\ U.nnz = 2 * z
      /\ \A n \in 1 .. (2 * z) : U.entries[n] = UnionEntry(loaded, n)
  BY UnionIsWellFormed
<1>3. ASSUME NEW j \in 0 .. z - 1
      PROVE  /\ W[j] = F[j] /\ W[z + j] = G[j]
             /\ F[j] \in Int /\ G[j] \in Int
  <2>1. /\ j + 1 \in 1 .. (2 * z) /\ j + 1 <= z /\ (j + 1) - 1 = j
        /\ (z + j) + 1 \in 1 .. (2 * z) /\ ~((z + j) + 1 <= z) /\ ((z + j) + 1) - z - 1 = j
        /\ j \in 0 .. (2 * z) - 1 /\ z + j \in 0 .. (2 * z) - 1
    BY <1>1
  <2>2. loaded.a[j] \in Int
    BY SlotHasRow
  <2>3. /\ U.entries[j + 1] = [row |-> RowOfSlot(loaded, j), col |-> loaded.aj[j],
                               val |-> loaded.a[j]]
        /\ U.entries[(z + j) + 1] = [row |-> loaded.aj[j], col |-> RowOfSlot(loaded, j),
                                     val |-> loaded.a[j]]
    <3> HIDE DEF U
    <3>1. QED
      BY <1>2, <2>1 DEF UnionEntry
  <2>4. /\ W[j] = IF U.entries[j + 1].row = r /\ U.entries[j + 1].col = c
                    THEN U.entries[j + 1].val ELSE 0
        /\ W[z + j] = IF U.entries[(z + j) + 1].row = r /\ U.entries[(z + j) + 1].col = c
                        THEN U.entries[(z + j) + 1].val ELSE 0
    <3> HIDE DEF U, z
    <3>1. QED
      BY <1>2, <2>1 DEF EntryValues
  <2>5. /\ F[j] = IF RowOfSlot(loaded, j) = r /\ loaded.aj[j] = c THEN loaded.a[j] ELSE 0
        /\ G[j] = IF RowOfSlot(loaded, j) = c /\ loaded.aj[j] = r THEN loaded.a[j] ELSE 0
    BY DEF FileValues
  <2> HIDE DEF U, W, F, G, z
  <2>6. QED
    BY <2>2, <2>3, <2>4, <2>5
<1> HIDE DEF U, W, F, G, z
<1>4. \A j \in 0 .. (2 * z) - 1 : W[j] \in Int
  <2> SUFFICES ASSUME NEW j \in 0 .. (2 * z) - 1 PROVE W[j] \in Int
    OBVIOUS
  <2>1. j \in 0 .. z - 1 \/ (j - z \in 0 .. z - 1 /\ z + (j - z) = j)
    BY <1>1
  <2>2. CASE j \in 0 .. z - 1
    BY <1>3, <2>2
  <2>3. CASE j - z \in 0 .. z - 1 /\ z + (j - z) = j
    <3>1. W[z + (j - z)] \in Int
      BY <1>3, <2>3
    <3>2. QED
      BY <2>3, <3>1
  <2>4. QED
    BY <2>1, <2>2, <2>3
<1>5. SumTo(W, 2 * z) = SumTo(W, z) + SumTo(G, z)
  <2>1. \A j \in 0 .. z - 1 : G[j] = W[z + j]
    BY <1>3
  <2> DEFINE l == 2 * z
  <2>2. z \in Nat /\ l = z + z
    BY <1>1
  <2>3. \A j \in 0 .. l - 1 : W[j] \in Int
    BY <1>4
  <2> HIDE DEF l
  <2>4. SumTo(W, l) = SumTo(W, z) + SumTo(G, z)
    BY <2>1, <2>2, <2>3, SumToSplit
  <2>5. QED
    BY <2>4 DEF l
<1>6. SumTo(W, z) = SumTo(F, z)
  <2>1. \A j \in 0 .. z - 1 : W[j] \in Int /\ W[j] = F[j]
    BY <1>3
  <2>2. QED
    BY <1>1, <2>1, SumToSame
<1>7. QED
  BY <1>1, <1>5, <1>6 DEF U, W, F, G, z, FileTotal

\* The positions that have an entry in the matrix handed to pack_storage.
HeldPositions ==
    {p \in P!Rows \X P!Columns : \E s \in P!Slots : P!IsEntry(mlarge, p[1], p[2], s)}
Places == {<<RowOfSlot(loaded, s), loaded.aj[s]>> : s \in 0 .. (loaded.nnz - 1)}

LEMMA PositionsAre ==
    Positions = Places \cup (IF symmetrize THEN {<<p[2], p[1]>> : p \in Places} ELSE {})
  BY DEF Positions, Places

LEMMA HeldInMatrix ==
    ASSUME loaded \in Matrices, IsMatrixOf(mlarge, loaded)
    PROVE  HeldPositions = Places
<1>1. /\ mlarge.nrows = loaded.nrows /\ mlarge.ncols = loaded.ncols /\ mlarge.nnz = loaded.nnz
      /\ mlarge.ai = loaded.ai /\ mlarge.aj = loaded.aj
  BY DEF IsMatrixOf
<1>2. ASSUME NEW s \in 0 .. (loaded.nnz - 1), NEW r \in 0 .. (loaded.nrows - 1), NEW c
      PROVE  P!IsEntry(mlarge, r, c, s) <=> RowOfSlot(loaded, s) = r /\ loaded.aj[s] = c
  BY <1>1, EntryOfRow DEF P!IsEntry
<1>3. ASSUME NEW s \in 0 .. (loaded.nnz - 1)
      PROVE  RowOfSlot(loaded, s) \in P!Rows /\ loaded.aj[s] \in P!Columns
  BY <1>1, SlotHasRow DEF P!Rows, P!Columns
<1>4. P!Slots = 0 .. (loaded.nnz - 1) /\ P!Rows = 0 .. (loaded.nrows - 1)
  BY <1>1 DEF P!Slots, P!Rows
<1>5. ASSUME NEW p \in HeldPositions PROVE p \in Places
  <2>1. PICK s \in 0 .. (loaded.nnz - 1) : P!IsEntry(mlarge, p[1], p[2], s)
    BY <1>4 DEF HeldPositions
  <2>2. p = <<p[1], p[2]>> /\ p[1] \in 0 .. (loaded.nrows - 1)
    BY <1>4 DEF HeldPositions
  <2>3. p = <<RowOfSlot(loaded, s), loaded.aj[s]>>
    BY <1>2, <2>1, <2>2
  <2>4. QED
    BY <2>3 DEF Places
<1>6. ASSUME NEW p \in Places PROVE p \in HeldPositions
  <2>1. PICK s \in 0 .. (loaded.nnz - 1) : p = <<RowOfSlot(loaded, s), loaded.aj[s]>>
    BY DEF Places
  <2>2. P!IsEntry(mlarge, p[1], p[2], s)
    BY <1>2, <1>3, <1>4, <2>1
  <2>3. p \in P!Rows \X P!Columns
    BY <1>3, <2>1
  <2>4. QED
    BY <1>4, <2>2, <2>3 DEF HeldPositions
<1>7. QED
  BY <1>5, <1>6

LEMMA HeldInUnion ==
    ASSUME loaded \in Matrices, Sound(loaded), IsUnionOf(mlarge, loaded)
    PROVE  HeldPositions = Places \cup {<<p[2], p[1]>> : p \in Places}
<1> DEFINE U == UnionFile(loaded)
           z == loaded.nnz
<1>1. /\ mlarge.nrows = loaded.nrows /\ mlarge.ncols = loaded.nrows /\ mlarge.nnz = 2 * z
      /\ Starts(U, mlarge.ai) /\ Placed(U, mlarge.aj, mlarge.a, 2 * z)
      /\ z \in Nat /\ loaded.nrows \in Nat /\ loaded.ncols <= loaded.nrows /\ loaded.ncols \in Nat
  BY MatrixShape DEF IsUnionOf, Sound
<1>2. /\ IsMatrixFile(U) /\ WellFormed(U) /\ U.nnz = 2 * z /\ U.nr = loaded.nrows
      /\ \A n \in 1 .. (2 * z) : U.entries[n] = UnionEntry(loaded, n)
  BY UnionIsWellFormed, SoundRows
<1>3. /\ P!Slots = 0 .. (U.nnz - 1) /\ P!Rows = 0 .. (U.nr - 1)
      /\ P!Columns = 0 .. (loaded.nrows - 1) /\ P!Rows = 0 .. (loaded.nrows - 1)
  BY <1>1, <1>2 DEF P!Slots, P!Rows, P!Columns
<1> HIDE DEF U
<1>4. ASSUME NEW n \in 1 .. U.nnz, NEW r \in P!Rows, NEW c
      PROVE  P!IsEntry(mlarge, r, c, SlotOf(U, n))
                 <=> U.entries[n].row = r /\ U.entries[n].col = c
  <2>1. Placed(U, mlarge.aj, mlarge.a, U.nnz)
    BY <1>1, <1>2
  <2>2. r \in 0 .. (U.nr - 1)
    BY <1>3
  <2>3. QED
    BY <1>1, <1>2, <2>1, <2>2, PlacedEntry
<1>5. ASSUME NEW s \in 0 .. z - 1
      PROVE  RowOfSlot(loaded, s) \in P!Rows /\ loaded.aj[s] \in P!Rows
  <2>1. RowOfSlot(loaded, s) \in 0 .. (loaded.nrows - 1) /\ loaded.aj[s] \in 0 .. (loaded.ncols - 1)
    BY SlotHasRow
  <2>2. RowOfSlot(loaded, s) \in P!Rows
    BY <1>3, <2>1
  <2>3. loaded.aj[s] \in 0 .. (loaded.nrows - 1)
    <3> DEFINE c == loaded.aj[s]
    <3> HIDE DEF c
    <3>1. c \in 0 .. (loaded.ncols - 1)
      BY <2>1 DEF c
    <3>2. c \in 0 .. (loaded.nrows - 1)
      BY <1>1, <3>1
    <3>3. QED
      BY <3>2 DEF c
  <2>4. QED
    BY <1>3, <2>2, <2>3
<1>6. ASSUME NEW s \in 0 .. z - 1, NEW n, n = s + 1
      PROVE  /\ n \in 1 .. U.nnz
             /\ U.entries[n].row = RowOfSlot(loaded, s) /\ U.entries[n].col = loaded.aj[s]
  <2>1. n \in 1 .. (2 * z) /\ n <= z /\ n - 1 = s
    BY <1>1, <1>6
  <2>2. U.entries[n] = [row |-> RowOfSlot(loaded, s), col |-> loaded.aj[s],
                        val |-> loaded.a[s]]
    BY <1>2, <2>1 DEF UnionEntry
  <2>3. QED
    BY <1>2, <2>1, <2>2
<1>7. ASSUME NEW s \in 0 .. z - 1, NEW n, n = z + s + 1
       PROVE  /\ n \in 1 .. U.nnz
              /\ U.entries[n].row = loaded.aj[s] /\ U.entries[n].col = RowOfSlot(loaded, s)
  <2>1. n \in 1 .. (2 * z) /\ ~(n <= z) /\ n - z - 1 = s
    BY <1>1, <1>7
  <2>2. U.entries[n] = [row |-> loaded.aj[s], col |-> RowOfSlot(loaded, s),
                        val |-> loaded.a[s]]
    BY <1>2, <2>1 DEF UnionEntry
  <2>3. QED
    BY <1>2, <2>1, <2>2
<1>8. ASSUME NEW n \in 1 .. U.nnz
      PROVE  <<U.entries[n].row, U.entries[n].col>>
                 \in Places \cup {<<p[2], p[1]>> : p \in Places}
  <2>1. (n - 1 \in 0 .. z - 1 /\ (n - 1) + 1 = n)
        \/ (n - z - 1 \in 0 .. z - 1 /\ z + (n - z - 1) + 1 = n)
    BY <1>1, <1>2
  <2>2. CASE n - 1 \in 0 .. z - 1 /\ (n - 1) + 1 = n
    <3>1. PICK s \in 0 .. z - 1 : n = s + 1
      BY <2>2
    <3>2. <<U.entries[n].row, U.entries[n].col>> = <<RowOfSlot(loaded, s), loaded.aj[s]>>
      BY <1>6, <3>1
    <3>3. QED
      BY <3>2 DEF Places
  <2>3. CASE n - z - 1 \in 0 .. z - 1 /\ z + (n - z - 1) + 1 = n
    <3>1. PICK s \in 0 .. z - 1 : n = z + s + 1
      BY <2>3
    <3>2. <<U.entries[n].row, U.entries[n].col>> = <<loaded.aj[s], RowOfSlot(loaded, s)>>
      BY <1>7, <3>1
    <3>3. <<RowOfSlot(loaded, s), loaded.aj[s]>> \in Places
      BY DEF Places
    <3>4. QED
      BY <3>2, <3>3
  <2>4. QED
    BY <2>1, <2>2, <2>3
<1>9. ASSUME NEW p \in HeldPositions PROVE p \in Places \cup {<<q[2], q[1]>> : q \in Places}
  <2>1. PICK s \in 0 .. (U.nnz - 1) : P!IsEntry(mlarge, p[1], p[2], s)
    BY <1>3 DEF HeldPositions
  <2>2. p = <<p[1], p[2]>> /\ p[1] \in P!Rows
    BY DEF HeldPositions
  <2>3. PICK n \in 1 .. U.nnz : SlotOf(U, n) = s
    BY <1>2, RenamingOfSlots
  <2>4. p = <<U.entries[n].row, U.entries[n].col>>
    BY <1>4, <2>1, <2>2, <2>3
  <2>5. QED
    BY <1>8, <2>4
<1>10. ASSUME NEW n \in 1 .. U.nnz, NEW r \in P!Rows, NEW c \in P!Rows,
             U.entries[n].row = r, U.entries[n].col = c
      PROVE  <<r, c>> \in HeldPositions
  <2>1. SlotOf(U, n) \in P!Slots
    <3>1. n \in 1 .. Len(U.entries)
      BY <1>2 DEF WellFormed
    <3>2. QED
      BY <1>2, <1>3, <3>1, SlotInRow DEF SlotsOf
  <2>2. P!IsEntry(mlarge, r, c, SlotOf(U, n))
    BY <1>4, <1>10
  <2>3. c \in P!Columns
    BY <1>3
  <2>4. QED
    BY <2>1, <2>2, <2>3 DEF HeldPositions
<1>11. ASSUME NEW s \in 0 .. z - 1
       PROVE  /\ <<RowOfSlot(loaded, s), loaded.aj[s]>> \in HeldPositions
              /\ <<loaded.aj[s], RowOfSlot(loaded, s)>> \in HeldPositions
  <2> DEFINE n == s + 1
             o == z + s + 1
  <2>1. n = s + 1 /\ o = z + s + 1
    OBVIOUS
  <2> HIDE DEF n, o
  <2>2. /\ n \in 1 .. U.nnz /\ U.entries[n].row = RowOfSlot(loaded, s)
        /\ U.entries[n].col = loaded.aj[s]
    BY <1>6, <2>1
  <2>3. /\ o \in 1 .. U.nnz /\ U.entries[o].row = loaded.aj[s]
        /\ U.entries[o].col = RowOfSlot(loaded, s)
    BY <1>7, <2>1
  <2>4. QED
    BY <1>5, <1>10, <2>2, <2>3
<1>12. ASSUME NEW p \in Places PROVE p \in HeldPositions /\ <<p[2], p[1]>> \in HeldPositions
  BY <1>11 DEF Places
<1>13. QED
  BY <1>9, <1>12

LEMMA ShownIsSum == PipelineInv /\ ContentsInv => ShowsSum
<1> SUFFICES ASSUME PipelineInv, ContentsInv, matrix_loaded
             PROVE  /\ \A r \in 0 .. (nrows - 1), c \in 0 .. (ncols - 1) :
                          Pack!LookUp(r, c) =
                              FileTotal(r, c) + (IF symmetrize THEN FileTotal(c, r) ELSE 0)
                    /\ nnz = Cardinality(Positions)
  BY DEF ShowsSum
<1>1. loaded \in Matrices /\ pc = "done" /\ nnz = ai[loaded.nrows] /\ mlarge # NoMatrix
  BY DEF PipelineInv, TypeInv, PipeTypeOK, StageInv, PackingLabels, ContentsInv
<1>2. /\ nrows = mlarge.nrows /\ ncols = mlarge.ncols
      /\ symmetrize => Sound(loaded) /\ IsUnionOf(mlarge, loaded)
      /\ ~symmetrize => IsMatrixOf(mlarge, loaded)
      /\ P!ValuesAreTotals
  BY <1>1, PackingKeeps DEF ContentsInv
<1>3. /\ \A r \in 0 .. (nrows - 1), c \in 0 .. (ncols - 1) :
            P!LookUp(r, c) = P!TotalOf(mlarge, r, c)
      /\ ai[mlarge.nrows] = P!Cardinality(HeldPositions)
  BY <1>1, <1>2 DEF P!ValuesAreTotals, P!Rows, P!Columns, HeldPositions
<1>4. ASSUME NEW r \in 0 .. (nrows - 1), NEW c \in 0 .. (ncols - 1)
      PROVE  Pack!LookUp(r, c) = FileTotal(r, c) + (IF symmetrize THEN FileTotal(c, r) ELSE 0)
  <2>1. Pack!LookUp(r, c) = SumTo(P!ValuesAt(mlarge, r, c), mlarge.nnz)
    BY <1>3, SamePacking DEF P!TotalOf
  <2>2. CASE ~symmetrize
    <3>1. SumTo(P!ValuesAt(mlarge, r, c), mlarge.nnz) = FileTotal(r, c)
      BY <1>1, <1>2, <2>2, MatrixTotals
    <3>2. FileTotal(r, c) \in Int
      <4>1. loaded.nnz \in Nat
        BY <1>1, MatrixShape
      <4>2. \A s \in 0 .. loaded.nnz - 1 : FileValues(r, c)[s] \in Int
        BY <1>1, SlotHasRow DEF FileValues
      <4>3. QED
        BY <4>1, <4>2, SumToInt DEF FileTotal
    <3>3. QED
      BY <2>1, <2>2, <3>1, <3>2
  <2>3. CASE symmetrize
    <3> DEFINE U == UnionFile(loaded)
    <3>1. /\ IsMatrixFile(U) /\ WellFormed(U) /\ U.nnz = 2 * loaded.nnz /\ U.nr = mlarge.nrows
          /\ mlarge.nnz = U.nnz /\ Starts(U, mlarge.ai) /\ Placed(U, mlarge.aj, mlarge.a, U.nnz)
      BY <1>1, <1>2, <2>3, UnionIsWellFormed, SoundRows DEF IsUnionOf
    <3> HIDE DEF U
    <3>2. r \in 0 .. (U.nr - 1)
      BY <1>2, <3>1
    <3>3. SumTo(P!ValuesAt(mlarge, r, c), mlarge.nnz) = SumTo(EntryValues(U, r, c), U.nnz)
      BY <3>1, <3>2, PlacedTotals
    <3>4. SumTo(EntryValues(U, r, c), U.nnz) = FileTotal(r, c) + FileTotal(c, r)
      BY <1>1, <3>1, UnionTotals DEF U
    <3>5. QED
      BY <2>1, <2>3, <3>3, <3>4
  <2>4. QED
    BY <2>2, <2>3
<1>5. nnz = Cardinality(Positions)
  <2>1. HeldPositions = Positions
    BY <1>1, <1>2, PositionsAre, HeldInMatrix, HeldInUnion
  <2>2. mlarge.nrows = loaded.nrows
    BY <1>2 DEF IsUnionOf, IsMatrixOf
  <2>3. QED
    BY <1>1, <1>3, <2>1, <2>2, SamePacking
<1>6. QED
  BY <1>4, <1>5

\* The value shown for a position is the sum of the file's entries there, and
\* with --symmetrize of those at the transposed position; nnz counts the
\* positions that have an entry.
THEOREM ShowsTheSum == PipeSpec => []ShowsSum
<1>1. QED
  BY PipelineInvariant, ContentsHold, ShownIsSum, PTL
=============================================================================
