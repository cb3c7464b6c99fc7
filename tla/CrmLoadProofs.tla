---------------------------- MODULE CrmLoadProofs ----------------------------
(***************************************************************************)
(* What CrmLoad promises for every set of files: any number of rows and of *)
(* entries, in any order, with or without a degree file; and what the      *)
(* readers of MatrixReaders deliver in its two passes, for every set of    *)
(* sessions: entries in order of their lines, the same in both passes, and *)
(* of a file that was written in a format what was written.                *)
(***************************************************************************)
EXTENDS LoadRefinement, MatrixReaders, CompressedRowsProofs

----------------------------------------------------------------------------
\* Files.

LEMMA FileType ==
    ASSUME NEW f \in Inputs
    PROVE  /\ IsMatrixFile(f)
           /\ f.nr \in Nat /\ f.nc \in Nat /\ f.nnz \in Nat
           /\ Len(f.entries) \in Nat
           /\ \A k \in 1 .. Len(f.entries) :
                 /\ f.entries[k] \in [row : Nat, col : Nat, val : Int]
                 /\ f.entries[k].row \in Nat
                 /\ f.entries[k].col \in Nat
                 /\ f.entries[k].val \in Int
<1>1. IsMatrixFile(f)
  BY InputsAssumption
<1>2. QED
  BY <1>1, FileShape

LEMMA DegreesType ==
    ASSUME NEW f \in Inputs
    PROVE  /\ f.degs.form \in {"absent", "text", "binary"}
           /\ f.degs.form = "absent" => f.degs = NoDegrees
           /\ f.degs.bytes \in Nat
           /\ f.degs.counts \in Seq(Nat)
BY InputsAssumption

----------------------------------------------------------------------------
\* Typing, and what the checks between the passes establish: whatever the
\* degree file says, nothing gets past them that does not fit the header.
PassInv ==
    /\ TypeOK
    /\ pc \in {"count", "sum", "place", "shift", "done"} => input.nr >= 1
    /\ pc = "degrees" => nzcount = 0
    /\ pc = "sum" => i >= 1
    /\ pc \in {"degrees", "sum"} => ~warning
    /\ pc \in {"count", "place"} =>
          (warning <=> \E k \in 1 .. nzcount : OutOfBounds(Entries[k]))
    /\ pc \in {"shift", "done"} => WellFormed(input)

\* An entry is out of bounds exactly if the file is not well formed by it.
LEMMA PassChecks ==
    ASSUME TypeOK, input.nr >= 1, nzcount = Len(Entries),
           warning <=> \E k \in 1 .. nzcount : OutOfBounds(Entries[k])
    PROVE  PassAccepted <=> WellFormed(input)
<1>1. input \in Inputs
  BY DEF TypeOK
<1>2. /\ input.nr \in Nat /\ input.nc \in Nat /\ input.nnz \in Nat
      /\ \A k \in 1 .. Len(Entries) :
            Entries[k].row \in Nat /\ Entries[k].col \in Nat
  BY <1>1, FileType DEF Entries
<1>3. ~warning <=> \A k \in 1 .. Len(Entries) :
                      Entries[k].row < input.nr /\ Entries[k].col < input.nc
  BY <1>2 DEF OutOfBounds
<1>4. QED
  BY <1>3 DEF PassAccepted, WellFormed, Entries

LEMMA DegreesTyped ==
    ASSUME input \in Inputs, NEW binary \in BOOLEAN
    PROVE  RowsFromDegrees(input.degs, binary) \in [RowsOf(input) -> Nat]
<1>1. input.degs.counts \in Seq(Nat) /\ input.nr \in Nat
  BY DegreesType, FileType
<1> DEFINE number == IF binary THEN input.degs.counts ELSE NumbersInText(input.degs)
<1>2. number \in Seq(Nat)
  BY <1>1 DEF NumbersInText
<1> HIDE DEF number
<1>3. \A r \in RowsOf(input) : r # 0 /\ r <= Len(number) => number[r] \in Nat
  BY <1>1, <1>2 DEF RowsOf
<1>4. QED
  BY <1>3, TextAsIntAssumption DEF RowsFromDegrees, number

LEMMA PassInvInit == Init => PassInv
<1> SUFFICES ASSUME Init
             PROVE  PassInv
  OBVIOUS
<1>1. input \in Inputs
  BY DEF Init
<1>2. input.nr \in Nat /\ Len(Entries) \in Nat
  BY <1>1, FileType DEF Entries
<1>3. ai \in [RowsOf(input) -> Nat] /\ cell \in [SlotsOf(input) -> [col : Nat, val : Int]]
  BY DEF Init, ZeroPair
<1>4. pc = "degrees" /\ nzcount = 0 /\ i = 0
  BY DEF Init
<1>5. warning \in BOOLEAN /\ ~warning
  BY Zenon DEF Init
<1>6. nzcount \in 0 .. Len(Entries) /\ i \in 0 .. (input.nr + 1) /\ pc \in Labels
  BY <1>2, <1>4 DEF Labels
<1>7. TypeOK
  BY <1>1, <1>3, <1>5, <1>6, Zenon DEF TypeOK
<1>8. QED
  BY <1>4, <1>5, <1>7 DEF PassInv

LEMMA PassInvStep == PassInv /\ [Next]_vars => PassInv'
<1> SUFFICES ASSUME PassInv, [Next]_vars
             PROVE  PassInv'
  OBVIOUS
<1> USE DEF Goto, Fail
<1>1. input \in Inputs /\ TypeOK
  BY DEF PassInv, TypeOK
<1>2. /\ input.nr \in Nat /\ input.nc \in Nat /\ input.nnz \in Nat
      /\ Len(Entries) \in Nat
      /\ \A k \in 1 .. Len(Entries) :
            /\ Entries[k].row \in Nat /\ Entries[k].col \in Nat
            /\ Pair(Entries[k]) \in [col : Nat, val : Int]
  BY <1>1, FileType DEF Entries, Pair
<1>3. input' = input
  BY DEF Next, ReadDegrees, NoDegreeFile, CountEntry, CountDone, SumStep, SumDone,
         PlaceEntry, PlaceDone, ShiftStep, ShiftDone, vars
<1>4. ASSUME nzcount < Len(Entries),
             warning <=> \E k \in 1 .. nzcount : OutOfBounds(Entries[k])
      PROVE  /\ nzcount + 1 \in 1 .. Len(Entries)
             /\ warning \/ OutOfBounds(Entries[nzcount + 1]) <=>
                   \E k \in 1 .. (nzcount + 1) : OutOfBounds(Entries[k])
  <2>1. nzcount \in Nat
    BY <1>1, <1>2 DEF TypeOK
  <2>2. \A k : k \in 1 .. (nzcount + 1) <=> k \in 1 .. nzcount \/ k = nzcount + 1
    BY <2>1
  <2>3. QED
    BY <1>2, <1>4, <2>1, <2>2
<1>5. \A k : (OutOfBounds(Entries[k]))' <=> OutOfBounds(Entries[k])
  BY <1>3 DEF OutOfBounds, Entries
<1>6. Entries' = Entries /\ RowsOf(input)' = RowsOf(input) /\ SlotsOf(input)' = SlotsOf(input)
  BY <1>3 DEF Entries
<1>7. CASE ReadDegrees
  <2>1. PICK binary \in TakenForBinary(input.degs) :
           /\ ai' = RowsFromDegrees(input.degs, binary)
           /\ IF ~binary /\ Len(NumbersInText(input.degs)) > input.nr
                THEN pc' = "undefined"
                ELSE IF input.nr < 1 THEN pc' = "failed" ELSE pc' = "sum"
    BY <1>7 DEF ReadDegrees
  <2>2. binary \in BOOLEAN
    BY DEF TakenForBinary
  <2>3. ai' \in [RowsOf(input) -> Nat]
    BY <1>1, <2>1, <2>2, DegreesTyped
  <2>4. pc' \in {"undefined", "failed", "sum"} /\ (pc' = "sum" => input.nr >= 1)
    BY <1>2, <2>1
  <2>5. i' = 1 /\ cell' = cell /\ nzcount' = nzcount /\ warning' = warning
    BY <1>7 DEF ReadDegrees
  <2>6. ~warning
    BY <1>7 DEF ReadDegrees, PassInv
  <2>7. QED
    BY <1>1, <1>2, <1>3, <1>6, <2>3, <2>4, <2>5, <2>6 DEF PassInv, TypeOK, Labels
<1>8. CASE NoDegreeFile
  <2>1. /\ pc = "degrees" /\ pc' \in {"failed", "count"} /\ (pc' = "count" => input.nr >= 1)
        /\ UNCHANGED <<ai, cell, nzcount, i, warning>>
    BY <1>2, <1>8 DEF NoDegreeFile
  <2>2. ~warning /\ nzcount = 0
    BY <2>1 DEF PassInv
  <2>3. QED
    BY <1>1, <1>2, <1>3, <1>6, <2>1, <2>2 DEF PassInv, TypeOK, Labels
<1>9. CASE CountEntry
  <2> DEFINE e == Entries[nzcount + 1]
             slot == (IF warning \/ OutOfBounds(e) THEN 0 ELSE e.row) + 1
  <2>1. /\ pc = "count" /\ nzcount < Len(Entries)
        /\ input.nr >= 1
        /\ warning <=> \E k \in 1 .. nzcount : OutOfBounds(Entries[k])
    BY <1>9 DEF CountEntry, PassInv
  <2>2. /\ nzcount + 1 \in 1 .. Len(Entries)
        /\ warning \/ OutOfBounds(e) <=>
              \E k \in 1 .. (nzcount + 1) : OutOfBounds(Entries[k])
    BY <1>4, <2>1
  <2>3. /\ warning' = (warning \/ OutOfBounds(e)) /\ nzcount' = nzcount + 1
        /\ cell' = cell /\ i' = i
        /\ \/ ai' = [ai EXCEPT ![slot] = @ + 1] /\ pc' = pc
           \/ ai' = ai /\ pc' = "undefined"
    BY <1>9, Zenon DEF CountEntry
  <2>4. ai' \in [RowsOf(input) -> Nat]
    BY <1>1, <2>3 DEF TypeOK
  <2>5. TypeOK'
    <3>1. warning' \in BOOLEAN
      BY <2>3, Zenon DEF OutOfBounds, TypeOK
    <3>2. QED
      BY <1>1, <1>2, <1>3, <1>6, <2>1, <2>2, <2>3, <2>4, <3>1 DEF TypeOK, Labels
  <2>6. (warning <=> \E k \in 1 .. nzcount : OutOfBounds(Entries[k]))'
    BY <1>5, <2>2, <2>3
  <2>7. QED
    BY <1>3, <2>1, <2>3, <2>5, <2>6 DEF PassInv
<1>10. CASE CountDone
  <2>1. /\ pc = "count" /\ nzcount = Len(Entries)
        /\ input.nr >= 1
        /\ warning <=> \E k \in 1 .. nzcount : OutOfBounds(Entries[k])
    BY <1>10 DEF CountDone, PassInv
  <2>2. /\ i' = 1 /\ UNCHANGED <<ai, cell, nzcount, warning>>
        /\ \/ PassAccepted /\ pc' = "sum"
           \/ pc' = "failed"
    BY <1>10 DEF CountDone
  <2>3. QED
    BY <1>1, <1>2, <1>3, <1>6, <2>1, <2>2 DEF PassInv, TypeOK, Labels, PassAccepted
<1>11. CASE SumStep
  <2>1. /\ pc = "sum" /\ i <= input.nr /\ i >= 1 /\ i \in Nat /\ input.nr >= 1 /\ ~warning
        /\ ai' = [ai EXCEPT ![i] = ai[i - 1] + @] /\ i' = i + 1
        /\ UNCHANGED <<pc, cell, nzcount, warning>>
    BY <1>1, <1>2, <1>11 DEF SumStep, PassInv, TypeOK
  <2>2. ai' \in [RowsOf(input) -> Nat]
    <3>1. i - 1 \in RowsOf(input) /\ i \in RowsOf(input)
      BY <1>2, <2>1 DEF RowsOf
    <3>2. ai[i - 1] + ai[i] \in Nat
      BY <1>1, <3>1 DEF TypeOK
    <3>3. QED
      BY <1>1, <2>1, <3>2 DEF TypeOK
  <2>3. QED
    BY <1>1, <1>2, <1>3, <1>6, <2>1, <2>2, SMTT(30) DEF PassInv, TypeOK, Labels
<1>12. CASE SumDone
  <2>1. /\ pc = "sum" /\ ~warning /\ input.nr >= 1 /\ pc' = "place" /\ nzcount' = 0
        /\ UNCHANGED <<ai, cell, i, warning>>
    BY <1>12 DEF SumDone, PassInv
  <2>2. QED
    BY <1>1, <1>2, <1>3, <1>6, <2>1 DEF PassInv, TypeOK, Labels
<1>13. CASE PlaceEntry
  <2> DEFINE e == Entries[nzcount + 1]
  <2>1. /\ pc = "place" /\ nzcount < Len(Entries)
        /\ input.nr >= 1
        /\ warning <=> \E k \in 1 .. nzcount : OutOfBounds(Entries[k])
    BY <1>13 DEF PlaceEntry, PassInv
  <2>2. /\ nzcount + 1 \in 1 .. Len(Entries)
        /\ warning \/ OutOfBounds(e) <=>
              \E k \in 1 .. (nzcount + 1) : OutOfBounds(Entries[k])
    BY <1>4, <2>1
  <2>3. /\ warning' = (warning \/ OutOfBounds(e)) /\ nzcount' = nzcount + 1
        /\ i' = i
        /\ \/ /\ ai' = [ai EXCEPT ![e.row] = @ + 1] /\ pc' = pc
              /\ cell' = [cell EXCEPT ![ai[e.row]] = Pair(e)]
           \/ ai' = ai /\ cell' = cell /\ pc' = "undefined"
    BY <1>13, Zenon DEF PlaceEntry, CursorMoved
  <2>4. /\ ai' \in [RowsOf(input) -> Nat]
        /\ cell' \in [SlotsOf(input) -> [col : Nat, val : Int]]
    <3>1. Pair(e) \in [col : Nat, val : Int]
      BY <1>2, <2>2
    <3>2. ai' \in [RowsOf(input) -> Nat]
      BY <1>1, <2>3 DEF TypeOK
    <3>3. cell' \in [SlotsOf(input) -> [col : Nat, val : Int]]
      BY <1>1, <2>3, <3>1 DEF TypeOK
    <3>4. QED
      BY <3>2, <3>3
  <2>5. TypeOK'
    <3>1. warning' \in BOOLEAN
      BY <2>3, Zenon DEF OutOfBounds, TypeOK
    <3>2. QED
      BY <1>1, <1>2, <1>3, <1>6, <2>1, <2>2, <2>3, <2>4, <3>1, SMTT(30) DEF TypeOK, Labels
  <2>6. (warning <=> \E k \in 1 .. nzcount : OutOfBounds(Entries[k]))'
    BY <1>5, <2>2, <2>3
  <2>7. QED
    BY <1>3, <2>1, <2>3, <2>5, <2>6 DEF PassInv
<1>14. CASE PlaceDone
  <2>1. /\ pc = "place" /\ nzcount = Len(Entries)
        /\ input.nr >= 1
        /\ warning <=> \E k \in 1 .. nzcount : OutOfBounds(Entries[k])
    BY <1>14 DEF PlaceDone, PassInv
  <2>2. /\ i' = input.nr - 1 /\ UNCHANGED <<ai, cell, nzcount, warning>>
        /\ \/ PassAccepted /\ pc' = "shift"
           \/ pc' = "failed"
    BY <1>14 DEF PlaceDone, LastShifted
  <2>3. PassAccepted <=> WellFormed(input)
    BY <1>1, <2>1, PassChecks
  <2>4. QED
    BY <1>1, <1>2, <1>3, <1>6, <2>1, <2>2, <2>3, SMTT(30) DEF PassInv, TypeOK, Labels
<1>15. CASE ShiftStep
  <2>1. /\ pc = "shift" /\ i >= 1 /\ i \in Nat /\ i <= input.nr + 1
        /\ WellFormed(input) /\ input.nr >= 1
        /\ ai' = [ai EXCEPT ![i] = ai[i - 1]] /\ i' = i - 1
        /\ UNCHANGED <<pc, cell, nzcount, warning>>
    BY <1>1, <1>2, <1>15 DEF ShiftStep, PassInv, TypeOK
  <2>2. ai' \in [RowsOf(input) -> Nat]
    <3>1. i - 1 \in RowsOf(input)
      BY <1>2, <2>1, <1>1 DEF RowsOf, TypeOK
    <3>2. ai[i - 1] \in Nat
      BY <1>1, <3>1 DEF TypeOK
    <3>3. QED
      BY <1>1, <2>1, <3>2 DEF TypeOK
  <2>3. QED
    BY <1>1, <1>2, <1>3, <1>6, <2>1, <2>2 DEF PassInv, TypeOK, Labels
<1>16. CASE ShiftDone
  <2>1. /\ pc = "shift" /\ WellFormed(input) /\ input.nr >= 1
        /\ ai' = [ai EXCEPT ![0] = 0] /\ pc' = "done"
        /\ UNCHANGED <<cell, nzcount, i, warning>>
    BY <1>16 DEF ShiftDone, FirstRowReset, PassInv
  <2>2. ai' \in [RowsOf(input) -> Nat]
    BY <1>1, <2>1 DEF TypeOK
  <2>3. QED
    BY <1>1, <1>2, <1>3, <1>6, <2>1, <2>2 DEF PassInv, TypeOK, Labels
<1>17. CASE UNCHANGED vars
  BY <1>1, <1>5, <1>6, <1>17 DEF PassInv, TypeOK, vars
<1>18. QED
  BY <1>7, <1>8, <1>9, <1>10, <1>11, <1>12, <1>13, <1>14, <1>15, <1>16, <1>17 DEF Next

\* Typing, for any files.
THEOREM TypeCorrect == Spec => []TypeOK
<1>1. PassInv => TypeOK
  BY DEF PassInv
<1>2. QED
  BY <1>1, PassInvInit, PassInvStep, PTL DEF Spec

----------------------------------------------------------------------------
\* The contents of the arrays while the load goes on, if the row counts are
\* those of the entries.

\* rows at each stage: row counts one place to the right, their running sum,
\* the cursors, and again the starts.
RowsHold ==
    /\ pc = "degrees" => \A r \in RowsOf(input) : ai[r] = 0
    /\ (pc = "count" /\ ~warning) => Counted(input, ai, nzcount)
    /\ pc = "sum" => Summed(input, ai, i)
    /\ pc = "place" => Moved(input, ai, nzcount)
    /\ pc = "shift" => Shifted(input, ai, i)
    /\ pc = "done" => Starts(input, ai)

\* The first n entries are stored and no other slot has been written.
Stored(n) ==
    /\ \A k \in 1 .. n : cell[SlotOf(input, k)] = Pair(Entries[k])
    /\ \A s \in SlotsOf(input) :
          (\A k \in 1 .. n : s # SlotOf(input, k)) => cell[s] = ZeroPair

CellsHold ==
    /\ pc \in {"degrees", "count", "sum"} => \A s \in SlotsOf(input) : cell[s] = ZeroPair
    /\ pc = "place" => Stored(nzcount)
    /\ pc \in {"shift", "done"} => Stored(Len(Entries))

StorageInv ==
    DegreesRight(input) =>
        /\ pc # "undefined"
        /\ pc = "failed" => ~WellFormed(input)
        /\ pc = "count" => input.degs = NoDegrees
        /\ pc \in {"sum", "place"} => WellFormed(input)
        /\ pc = "shift" => i <= input.nr - 1
        /\ pc = "sum" => i <= input.nr + 1
        /\ RowsHold
        /\ CellsHold

LoadInv == PassInv /\ StorageInv

\* The degree file that DegreesRight describes is read as what it is, and
\* leaves the row counts in rows.
LEMMA RightDegreesRead ==
    ASSUME input \in Inputs, DegreesRight(input), input.degs # NoDegrees,
           NEW binary \in TakenForBinary(input.degs)
    PROVE  /\ WellFormed(input)
           /\ ~(~binary /\ Len(NumbersInText(input.degs)) > input.nr)
           /\ \A r \in RowsOf(input) : r # 0 =>
                 RowsFromDegrees(input.degs, binary)[r] =
                    Earlier(input, r - 1, Len(Entries))
           /\ RowsFromDegrees(input.degs, binary)[0] = 0
<1> DEFINE d == input.degs
<1>1. /\ WellFormed(input)
      /\ d.counts = [r \in 1 .. input.nr |-> Earlier(input, r - 1, Len(input.entries))]
      /\ IF d.form = "binary" THEN d.bytes = 4 * input.nr ELSE d.bytes < 4 * input.nr
  BY DEF DegreesRight
<1>2. /\ d.form \in {"text", "binary"} /\ d.bytes \in Nat /\ d.counts \in Seq(Nat)
      /\ input.nr \in Nat
  BY DegreesType, FileType
<1>3. /\ d.form = "binary" => binary
      /\ d.form = "text" => ~binary
  <2>1. CASE d.form = "binary"
    <3>1. d.bytes = 4 * input.nr
      BY <1>1, <2>1
    <3>2. TakenForBinary(d) = {TRUE}
      BY <3>1, Zenon DEF TakenForBinary
    <3>3. binary = TRUE
      BY <3>2
    <3>4. QED
      BY <2>1, <3>3
  <2>2. CASE d.form = "text"
    <3>1. d.bytes < 4 * input.nr
      BY <1>1, <2>2
    <3>2. ~(d.bytes = 4 * input.nr) /\ ~(d.bytes > 4 * input.nr)
      BY <1>2, <3>1
    <3>3. TakenForBinary(d) = {FALSE}
      BY <3>2, Zenon DEF TakenForBinary
    <3>4. binary = FALSE
      BY <3>3
    <3>5. QED
      BY <2>2, <3>4
  <2>3. QED
    BY <1>2, <2>1, <2>2
<1>4. Len(d.counts) = input.nr
  <2>1. DOMAIN d.counts = 1 .. input.nr
    BY <1>1
  <2>2. Len(d.counts) \in Nat /\ DOMAIN d.counts = 1 .. Len(d.counts)
    BY <1>2
  <2>3. QED
    BY <1>2, <2>1, <2>2
<1>5. (IF binary THEN d.counts ELSE NumbersInText(d)) = d.counts
  BY <1>2, <1>3 DEF NumbersInText
<1>6. \A r \in RowsOf(input) : RowsFromDegrees(d, binary)[r] =
         IF r = 0 THEN 0 ELSE d.counts[r]
  BY <1>2, <1>3, <1>4, <1>5 DEF RowsFromDegrees, RowsOf
<1>7. \A r \in RowsOf(input) : r # 0 => d.counts[r] = Earlier(input, r - 1, Len(Entries))
  BY <1>1, <1>2 DEF RowsOf, Entries
<1>8. 0 \in RowsOf(input)
  BY <1>2 DEF RowsOf
<1>9. ~(~binary /\ Len(NumbersInText(d)) > input.nr)
  BY <1>2, <1>3, <1>4 DEF NumbersInText
<1>10. QED
  BY <1>1, <1>6, <1>7, <1>8, <1>9

LEMMA StorageInvInit == Init => StorageInv
<1> SUFFICES ASSUME Init
             PROVE  StorageInv
  OBVIOUS
<1>1. pc = "degrees" /\ i = 0
  BY DEF Init
<1>2. \A r \in RowsOf(input) : ai[r] = 0
  BY DEF Init
<1>3. \A s \in SlotsOf(input) : cell[s] = ZeroPair
  BY DEF Init
<1>4. QED
  BY <1>1, <1>2, <1>3 DEF StorageInv, RowsHold, CellsHold

LEMMA StorageInvStep == LoadInv /\ PassInv' /\ [Next]_vars => StorageInv'
<1> SUFFICES ASSUME PassInv, PassInv', StorageInv, [Next]_vars
             PROVE  StorageInv'
  BY DEF LoadInv
<1> USE DEF Goto, Fail
<1>1. input' = input
  BY DEF Next, ReadDegrees, NoDegreeFile, CountEntry, CountDone, SumStep, SumDone,
         PlaceEntry, PlaceDone, ShiftStep, ShiftDone, vars
<1> SUFFICES ASSUME DegreesRight(input)
             PROVE  StorageInv'
  BY <1>1 DEF StorageInv
<1>2. Entries' = Entries /\ RowsOf(input)' = RowsOf(input) /\ SlotsOf(input)' = SlotsOf(input)
  BY <1>1 DEF Entries
<1>3. /\ input \in Inputs
      /\ input.nr \in Nat /\ input.nc \in Nat /\ input.nnz \in Nat
      /\ Len(Entries) \in Nat /\ Entries = input.entries
      /\ \A k \in 1 .. Len(Entries) : Entries[k].row \in Nat /\ Entries[k].col \in Nat
  <2>1. input \in Inputs
    BY DEF PassInv, TypeOK
  <2>2. QED
    BY <2>1, FileType DEF Entries
<1>file. IsMatrixFile(input)
  BY <1>3, FileType
<1>4. /\ ai \in [RowsOf(input) -> Nat] /\ DOMAIN cell = SlotsOf(input)
      /\ nzcount \in Nat /\ nzcount <= Len(Entries) /\ i \in Nat
  BY <1>3 DEF PassInv, TypeOK
<1>5. RowsHold /\ CellsHold
  BY DEF StorageInv
<1>6. CASE ReadDegrees
  <2>1. PICK binary \in TakenForBinary(input.degs) :
           /\ ai' = RowsFromDegrees(input.degs, binary)
           /\ IF ~binary /\ Len(NumbersInText(input.degs)) > input.nr
                THEN pc' = "undefined"
                ELSE IF input.nr < 1 THEN pc' = "failed" ELSE pc' = "sum"
    BY <1>6 DEF ReadDegrees
  <2>2. /\ WellFormed(input)
        /\ ~(~binary /\ Len(NumbersInText(input.degs)) > input.nr)
        /\ \A r \in RowsOf(input) : r # 0 =>
              RowsFromDegrees(input.degs, binary)[r] =
                 Earlier(input, r - 1, Len(Entries))
        /\ RowsFromDegrees(input.degs, binary)[0] = 0
    BY <1>3, <1>6, RightDegreesRead DEF ReadDegrees
  <2>3. pc' = "sum" /\ i' = 1 /\ cell' = cell /\ pc = "degrees"
    BY <1>3, <1>6, <2>1, <2>2 DEF ReadDegrees, WellFormed
  <2>4. RowStart(input, 0) = 0
    BY <1>file, RowStartStep
  <2>5. Summed(input, ai', 1)
    BY <1>3, <2>1, <2>2, <2>4 DEF Summed, RowsOf
  <2>6. RowsHold'
    BY <1>1, <2>3, <2>5 DEF RowsHold
  <2>7. CellsHold'
    BY <1>2, <1>5, <2>3 DEF CellsHold
  <2>8. QED
    BY <1>1, <1>3, <2>2, <2>3, <2>6, <2>7 DEF StorageInv, WellFormed
<1>7. CASE NoDegreeFile
  <2>1. /\ pc = "degrees" /\ input.degs = NoDegrees /\ nzcount = 0
        /\ pc' = IF input.nr < 1 THEN "failed" ELSE "count"
        /\ UNCHANGED <<ai, cell, nzcount, i, warning>>
    BY <1>7 DEF NoDegreeFile, PassInv
  <2>2. Counted(input, ai, 0)
    BY <1>file, <1>5, <2>1, CountedAtFirst DEF RowsHold
  <2>3. RowsHold'
    BY <1>1, <2>1, <2>2 DEF RowsHold
  <2>4. CellsHold'
    BY <1>2, <1>5, <2>1 DEF CellsHold
  <2>5. input.nr < 1 => ~WellFormed(input)
    BY <1>3 DEF WellFormed
  <2>6. QED
    BY <1>1, <2>1, <2>3, <2>4, <2>5 DEF StorageInv
<1>8. CASE CountEntry
  <2> DEFINE e == Entries[nzcount + 1]
             bad == warning \/ OutOfBounds(e)
             slot == (IF bad THEN 0 ELSE e.row) + 1
  <2>1. /\ pc = "count" /\ nzcount < Len(Entries) /\ input.nr >= 1
        /\ input.degs = NoDegrees
        /\ nzcount + 1 \in 1 .. Len(Entries)
    BY <1>3, <1>4, <1>8 DEF CountEntry, PassInv, StorageInv
  <2>2. slot \in RowsOf(input)
    BY <1>3, <2>1 DEF RowsOf, OutOfBounds
  <2>3. /\ warning' = bad /\ nzcount' = nzcount + 1
        /\ cell' = cell /\ i' = i
        /\ ai' = [ai EXCEPT ![slot] = @ + 1] /\ pc' = pc
    BY <1>8, <2>2, Zenon DEF CountEntry
  <2>4. nzcount \in 0 .. (Len(input.entries) - 1) /\ e = input.entries[nzcount + 1]
    BY <1>3, <1>4, <2>1
  <2>5. ~bad => Counted(input, ai', nzcount + 1)
    <3>1. SUFFICES ASSUME ~bad PROVE Counted(input, ai', nzcount + 1)
      OBVIOUS
    <3>2. Counted(input, ai, nzcount) /\ slot = input.entries[nzcount + 1].row + 1
      BY <1>5, <2>1, <2>4, <3>1 DEF RowsHold
    <3>3. ai' = [ai EXCEPT ![input.entries[nzcount + 1].row + 1] = @ + 1]
      BY <2>3, <3>2
    <3>4. QED
      BY <1>file, <1>4, <2>4, <3>2, <3>3, CountedStep
  <2>6. RowsHold'
    BY <1>1, <2>1, <2>3, <2>5 DEF RowsHold
  <2>7. CellsHold'
    BY <1>2, <1>5, <2>1, <2>3 DEF CellsHold
  <2>8. QED
    BY <1>1, <2>1, <2>3, <2>6, <2>7 DEF StorageInv
<1>9. CASE CountDone
  <2>1. /\ pc = "count" /\ nzcount = Len(Entries)
        /\ i' = 1 /\ UNCHANGED <<ai, cell, nzcount, warning>>
        /\ pc' = IF PassAccepted THEN "sum" ELSE "failed"
    BY <1>9 DEF CountDone
  <2>2. PassAccepted <=> WellFormed(input)
    BY <2>1, PassChecks DEF PassInv
  <2>3. PassAccepted => Summed(input, ai, 1)
    BY <1>file, <1>3, <1>5, <2>1, SummedAtFirst DEF RowsHold, PassAccepted
  <2>4. RowsHold'
    BY <1>1, <2>1, <2>3 DEF RowsHold
  <2>5. CellsHold'
    BY <1>2, <1>5, <2>1 DEF CellsHold
  <2>6. QED
    BY <1>1, <1>3, <2>1, <2>2, <2>4, <2>5 DEF StorageInv
<1>10. CASE SumStep
  <2>1. /\ pc = "sum" /\ i <= input.nr /\ i >= 1 /\ WellFormed(input)
        /\ ai' = [ai EXCEPT ![i] = ai[i - 1] + @] /\ i' = i + 1
        /\ UNCHANGED <<pc, cell, nzcount, warning>>
    BY <1>10 DEF SumStep, PassInv, StorageInv
  <2>2. Summed(input, ai, i) /\ i \in 1 .. input.nr
    BY <1>3, <1>4, <1>5, <2>1 DEF RowsHold
  <2>3. Summed(input, ai', i + 1)
    BY <1>file, <1>4, <2>1, <2>2, SummedStep
  <2>4. RowsHold'
    BY <1>1, <2>1, <2>3 DEF RowsHold
  <2>5. CellsHold'
    BY <1>2, <1>5, <2>1 DEF CellsHold
  <2>6. i' <= input.nr + 1
    BY <1>3, <1>4, <2>1
  <2>7. QED
    BY <1>1, <2>1, <2>4, <2>5, <2>6 DEF StorageInv
<1>11. CASE SumDone
  <2>1. /\ pc = "sum" /\ i = input.nr + 1 /\ WellFormed(input)
        /\ pc' = "place" /\ nzcount' = 0 /\ UNCHANGED <<ai, cell, i, warning>>
    BY <1>11 DEF SumDone, StorageInv
  <2>2. Moved(input, ai, 0)
    BY <1>file, <1>5, <2>1, MovedAtFirst DEF RowsHold
  <2>3. RowsHold'
    BY <1>1, <2>1, <2>2 DEF RowsHold
  <2>4. Stored(0)
    BY <1>5, <2>1 DEF CellsHold, Stored
  <2>5. CellsHold'
    BY <1>1, <1>2, <2>1, <2>4 DEF CellsHold, Stored
  <2>6. QED
    BY <1>1, <2>1, <2>3, <2>5 DEF StorageInv
<1>12. CASE PlaceEntry
  <2> DEFINE k == nzcount + 1
             e == Entries[k]
             slot == SlotOf(input, k)
  <2>1. pc = "place" /\ nzcount < Len(Entries) /\ WellFormed(input)
    BY <1>12 DEF PlaceEntry, StorageInv
  <2>2. k \in 1 .. Len(Entries) /\ k - 1 = nzcount
    BY <1>3, <1>4, <2>1
  <2>3. e.row \in Nat /\ e.row < input.nr /\ e.row \in RowsOf(input)
    BY <1>3, <2>1, <2>2 DEF WellFormed, RowsOf
  <2>n. /\ nzcount \in 0 .. (Len(input.entries) - 1) /\ e = input.entries[nzcount + 1]
        /\ Moved(input, ai, nzcount)
    BY <1>3, <1>4, <1>5, <2>1 DEF RowsHold
  <2>4. ai[e.row] = slot /\ slot \in SlotsOf(input)
    BY <1>file, <2>1, <2>n, CursorAtSlot
  <2>5. /\ cell' = [cell EXCEPT ![slot] = Pair(e)]
        /\ ai' = [ai EXCEPT ![e.row] = @ + 1] /\ pc' = pc
        /\ nzcount' = nzcount + 1 /\ i' = i
    BY <1>12, <2>3, <2>4, Zenon DEF PlaceEntry, CursorMoved
  <2>6. Moved(input, ai', nzcount + 1)
    BY <1>file, <1>4, <2>5, <2>n, MovedStep
  <2>7. RowsHold'
    BY <1>1, <2>1, <2>5, <2>6 DEF RowsHold
  <2>8. \A j \in 1 .. nzcount : SlotOf(input, j) # slot /\ SlotOf(input, j) \in SlotsOf(input)
    <3>1. \A j \in 1 .. nzcount : j \in 1 .. Len(Entries) /\ j < k
      BY <1>3, <1>4
    <3>2. QED
      BY <1>3, <1>file, <2>1, <2>2, <3>1, SlotsDiffer, SlotInRow
  <2>9. /\ \A j \in 1 .. k : cell'[SlotOf(input, j)] = Pair(Entries[j])
        /\ \A s \in SlotsOf(input) :
              (\A j \in 1 .. k : s # SlotOf(input, j)) => cell'[s] = ZeroPair
    <3>1. Stored(nzcount)
      BY <1>5, <2>1 DEF CellsHold
    <3>2. \A j : j \in 1 .. k <=> j \in 1 .. nzcount \/ j = k
      BY <1>4
    <3>3. \A s \in SlotsOf(input) : cell'[s] = IF s = slot THEN Pair(e) ELSE cell[s]
      <4> HIDE DEF slot, e
      <4>1. QED
        BY <1>4, <2>5
    <3>4. \A j \in 1 .. k : cell'[SlotOf(input, j)] = Pair(Entries[j])
      BY <2>4, <2>8, <3>1, <3>2, <3>3 DEF Stored
    <3>5. \A s \in SlotsOf(input) :
             (\A j \in 1 .. k : s # SlotOf(input, j)) => cell'[s] = ZeroPair
      BY <3>1, <3>2, <3>3 DEF Stored
    <3>6. QED
      BY <3>4, <3>5
  <2>10. CellsHold'
    BY <1>1, <1>2, <2>1, <2>5, <2>9 DEF CellsHold, Stored
  <2>11. QED
    BY <1>1, <2>1, <2>5, <2>7, <2>10 DEF StorageInv
<1>13. CASE PlaceDone
  <2>1. /\ pc = "place" /\ nzcount = Len(Entries) /\ WellFormed(input)
        /\ i' = input.nr - 1 /\ UNCHANGED <<ai, cell, nzcount, warning>>
        /\ pc' = IF PassAccepted THEN "shift" ELSE "failed"
    BY <1>13 DEF PlaceDone, LastShifted, StorageInv
  <2>2. PassAccepted
    BY <2>1, PassChecks DEF PassInv
  <2>3. Shifted(input, ai, input.nr - 1)
    BY <1>file, <1>3, <1>5, <2>1, ShiftedAtFirst DEF RowsHold
  <2>4. RowsHold'
    BY <1>1, <2>1, <2>2, <2>3 DEF RowsHold
  <2>5. CellsHold'
    BY <1>1, <1>2, <1>5, <2>1, <2>2 DEF CellsHold, Stored
  <2>6. QED
    BY <1>1, <1>3, <2>1, <2>2, <2>4, <2>5 DEF StorageInv
<1>14. CASE ShiftStep
  <2>1. /\ pc = "shift" /\ i >= 1 /\ i <= input.nr - 1
        /\ ai' = [ai EXCEPT ![i] = ai[i - 1]] /\ i' = i - 1
        /\ UNCHANGED <<pc, cell, nzcount, warning>>
    BY <1>14 DEF ShiftStep, StorageInv
  <2>2. Shifted(input, ai, i) /\ i \in 1 .. input.nr
    BY <1>3, <1>4, <1>5, <2>1 DEF RowsHold
  <2>3. Shifted(input, ai', i - 1)
    BY <1>file, <1>4, <2>1, <2>2, ShiftedStep
  <2>5. RowsHold'
    BY <1>1, <2>1, <2>3 DEF RowsHold
  <2>6. CellsHold'
    BY <1>1, <1>2, <1>5, <2>1 DEF CellsHold, Stored
  <2>7. i' <= input.nr - 1
    BY <1>3, <1>4, <2>1
  <2>8. QED
    BY <1>1, <2>1, <2>5, <2>6, <2>7 DEF StorageInv
<1>15. CASE ShiftDone
  <2>1. /\ pc = "shift" /\ i = 0 /\ ai' = [ai EXCEPT ![0] = 0] /\ pc' = "done"
        /\ UNCHANGED <<cell, nzcount, i, warning>>
    BY <1>15 DEF ShiftDone, FirstRowReset
  <2>2. Starts(input, ai')
    BY <1>file, <1>4, <1>5, <2>1, StartsAtLast DEF RowsHold
  <2>3. RowsHold'
    BY <1>1, <2>1, <2>2 DEF RowsHold
  <2>4. CellsHold'
    BY <1>1, <1>2, <1>5, <2>1 DEF CellsHold, Stored
  <2>5. QED
    BY <1>1, <2>1, <2>3, <2>4 DEF StorageInv
<1>16. CASE UNCHANGED vars
  <2>1. UNCHANGED <<pc, ai, cell, nzcount, i, warning>>
    BY <1>16 DEF vars
  <2>2. RowsHold' /\ CellsHold'
    BY <1>1, <1>2, <1>5, <2>1 DEF RowsHold, CellsHold, Stored
  <2>3. QED
    BY <1>1, <2>1, <2>2 DEF StorageInv
<1>17. QED
  BY <1>6, <1>7, <1>8, <1>9, <1>10, <1>11, <1>12, <1>13, <1>14, <1>15, <1>16 DEF Next

LEMMA LoadInvariant == Spec => []LoadInv
<1>1. Init => LoadInv
  BY PassInvInit, StorageInvInit DEF LoadInv
<1>2. LoadInv /\ [Next]_vars => LoadInv'
  BY PassInvStep, StorageInvStep DEF LoadInv
<1>3. QED
  BY <1>1, <1>2, PTL DEF Spec

----------------------------------------------------------------------------
\* load_matrix_to_crm never leaves its arrays when the row counts are those of
\* the entries, whatever rows and columns the entries name: the fold of bad
\* rows into rows[1] and the check between the passes suffice.
THEOREM LoadStaysInArrays == Spec => []StaysInArrays
<1>1. LoadInv => StaysInArrays
  BY DEF LoadInv, StorageInv, StaysInArrays
<1>2. QED
  BY <1>1, LoadInvariant, PTL

\* The loader returns true only on files whose header fits, whatever the degree
\* file says, and returns false only on files whose header does not.
THEOREM LoadAcceptsWellFormed == Spec => []AcceptsWellFormed
<1>1. LoadInv => AcceptsWellFormed
  BY DEF LoadInv, PassInv, StorageInv, AcceptsWellFormed
<1>2. QED
  BY <1>1, LoadInvariant, PTL

\* In the second pass every row's cursor stands exactly behind the entries of
\* the row read so far.
THEOREM LoadCursorsInOwnRow == Spec => []CursorsInOwnRow
<1>1. LoadInv => CursorsInOwnRow
  <2> SUFFICES ASSUME LoadInv, pc = "place", DegreesRight(input),
                      NEW r \in 0 .. (input.nr - 1)
               PROVE  ai[r] = RowStart(input, r) + Earlier(input, r, nzcount)
    BY DEF CursorsInOwnRow
  <2>1. input \in Inputs
    BY DEF LoadInv, PassInv, TypeOK
  <2>2. r \in RowsOf(input)
    BY <2>1, FileType DEF RowsOf
  <2>3. QED
    BY <2>2 DEF LoadInv, StorageInv, RowsHold, Moved
<1>2. QED
  BY <1>1, LoadInvariant, PTL

\* What load_matrix_to_crm leaves behind is compressed row storage of the file.
THEOREM LoadStorageIsExact == Spec => []StorageIsExact
<1>1. LoadInv => StorageIsExact
  BY DEF LoadInv, StorageInv, RowsHold, Starts, CellsHold, Stored, StorageIsExact
<1>2. QED
  BY <1>1, LoadInvariant, PTL

\* No step of the second pass overwrites a slot that holds an entry: the slot
\* at the cursor belongs to no entry stored before.
THEOREM LoadWritesSlotsOnce == Spec => SlotsWrittenOnce
<1> DEFINE WriteOnce == \A s \in DOMAIN cell :
              (DegreesRight(input) /\ cell'[s] # cell[s]) => cell[s] = ZeroPair
<1>1. LoadInv /\ [Next]_vars => [WriteOnce]_vars
  <2> SUFFICES ASSUME LoadInv, Next, NEW s \in DOMAIN cell, DegreesRight(input),
                      cell'[s] # cell[s]
               PROVE  cell[s] = ZeroPair
    OBVIOUS
  <2> DEFINE k == nzcount + 1
             e == Entries[k]
  <2>1. /\ pc = "place" /\ nzcount < Len(Entries)
        /\ e.row \in RowsOf(input) /\ ai[e.row] \in SlotsOf(input)
        /\ cell' = [cell EXCEPT ![ai[e.row]] = Pair(e)]
    <3>1. PlaceEntry /\ cell' # cell
      BY DEF Next, ReadDegrees, NoDegreeFile, CountEntry, CountDone, SumStep, SumDone,
             PlaceEntry, PlaceDone, ShiftStep, ShiftDone
    <3>2. QED
      BY <3>1, Zenon DEF PlaceEntry
  <2>2. /\ input \in Inputs /\ DOMAIN cell = SlotsOf(input)
        /\ nzcount \in Nat /\ Len(Entries) \in Nat /\ Entries = input.entries
    <3>1. input \in Inputs
      BY DEF LoadInv, PassInv, TypeOK
    <3>2. QED
      BY <3>1, FileType DEF LoadInv, PassInv, TypeOK, Entries
  <2>3. WellFormed(input) /\ RowsHold /\ Stored(nzcount)
    BY <2>1 DEF LoadInv, StorageInv, CellsHold
  <2>4. k \in 1 .. Len(Entries) /\ k - 1 = nzcount
    BY <2>1, <2>2
  <2>5. s = ai[e.row]
    BY <2>1, <2>2
  <2>6. s = SlotOf(input, k)
    <3>1. ai[e.row] = RowStart(input, e.row) + Earlier(input, e.row, nzcount)
      BY <2>1, <2>3 DEF RowsHold, Moved
    <3>2. QED
      BY <2>2, <2>4, <2>5, <3>1 DEF SlotOf
  <2>7. \A j \in 1 .. nzcount : s # SlotOf(input, j)
    <3>1. \A j \in 1 .. nzcount : j \in 1 .. Len(Entries) /\ j < k
      BY <2>1, <2>2
    <3>2. QED
      BY <2>2, <2>3, <2>4, <2>6, <3>1, SlotsDiffer, FileType
  <2>8. QED
    BY <2>2, <2>3, <2>7 DEF Stored
<1>2. QED
  BY <1>1, LoadInvariant, PTL DEF Spec, SlotsWrittenOnce
----------------------------------------------------------------------------
\* CrmLoad implements MatrixLoad, as far as safety goes.

\* Both modules count with the Cardinality of FiniteSets.
LEMMA SameCardinality == ASSUME NEW S PROVE Abstract!Cardinality(S) = Cardinality(S)
BY DEF Cardinality, Abstract!Cardinality

\* The entry of row r with n - 1 entries of the row before it exists, and
\* MatrixLoad chooses it.
LEMMA PlaceIsRanked ==
    ASSUME NEW f \in Inputs, NEW r \in Nat, NEW n \in 1 .. Earlier(f, r, Len(f.entries))
    PROVE  LET k == Abstract!PlaceOf(f, r, n)
           IN  /\ k \in 1 .. Len(f.entries)
               /\ f.entries[k].row = r
               /\ Earlier(f, r, k - 1) = n - 1
<1> DEFINE len == Len(f.entries)
           T == {k \in 1 .. len : n <= Earlier(f, r, k)}
<1>1. len \in Nat /\ DOMAIN f.entries = 1 .. len
  <2>1. f.entries \in Seq([row : Nat, col : Nat, val : Int])
    BY InputsAssumption DEF IsMatrixFile
  <2>2. QED
    BY <2>1
<1>2. \A k \in Nat : Earlier(f, r, k) \in Nat /\ Earlier(f, r, 0) = 0
  BY FileType, EarlierStep
<1>n. n \in Nat /\ n >= 1 /\ Earlier(f, r, len) \in Nat
  BY <1>1, <1>2
<1>3. \A k \in 1 .. len : /\ k - 1 \in Nat
                          /\ f.entries[k].row = r => Earlier(f, r, k) = Earlier(f, r, k - 1) + 1
                          /\ f.entries[k].row # r => Earlier(f, r, k) = Earlier(f, r, k - 1)
  <2> SUFFICES ASSUME NEW k \in 1 .. len
               PROVE  /\ k - 1 \in Nat
                      /\ f.entries[k].row = r => Earlier(f, r, k) = Earlier(f, r, k - 1) + 1
                      /\ f.entries[k].row # r => Earlier(f, r, k) = Earlier(f, r, k - 1)
    OBVIOUS
  <2>1. k - 1 \in Nat /\ (k - 1) + 1 = k
    BY <1>1
  <2>2. Earlier(f, r, (k - 1) + 1) =
           IF f.entries[(k - 1) + 1].row = r THEN Earlier(f, r, k - 1) + 1
                                             ELSE Earlier(f, r, k - 1)
    <3>1. IsMatrixFile(f) /\ r \in Nat /\ k - 1 \in Nat
      BY <2>1, FileType
    <3>2. QED
      BY <3>1, EarlierStep, Zenon
  <2>3. QED
    BY <2>1, <2>2
<1>4. \A k \in 1 .. len :
         Cardinality({j \in Abstract!PlacesOf(f, r) : j <= k}) = Earlier(f, r, k)
  <2> SUFFICES ASSUME NEW k \in 1 .. len
               PROVE  Cardinality({j \in Abstract!PlacesOf(f, r) : j <= k}) = Earlier(f, r, k)
    OBVIOUS
  <2>1. {j \in Abstract!PlacesOf(f, r) : j <= k} = {j \in 1 .. k : f.entries[j].row = r}
    BY <1>1 DEF Abstract!PlacesOf
  <2>2. QED
    BY <2>1 DEF Earlier
<1>5. PICK k \in T : \A j \in T : k <= j
  <2>1. n <= Earlier(f, r, len) /\ Earlier(f, r, 0) = 0 /\ n >= 1
    BY <1>1, <1>2
  <2>2. len # 0
    BY <1>1, <1>2, <2>1
  <2>3. len \in T
    BY <1>1, <2>1, <2>2
  <2>4. T # {} /\ T \subseteq Nat
    BY <1>1, <2>3
  <2> HIDE DEF T
  <2>5. QED
    BY <2>4, LeastOf
<1>6. Earlier(f, r, k - 1) < n
  <2>1. k - 1 \in Nat /\ Earlier(f, r, k - 1) \in Nat
    BY <1>1, <1>2, <1>3, <1>5
  <2>2. CASE k = 1
    BY <1>2, <1>n, <2>1, <2>2
  <2>3. CASE k # 1
    <3>1. k - 1 \in 1 .. len /\ ~(k <= k - 1)
      BY <1>1, <1>5, <2>3
    <3>2. k - 1 \notin T
      BY <1>5, <3>1
    <3>3. QED
      BY <1>n, <2>1, <3>1, <3>2
  <2>4. QED
    BY <2>2, <2>3
<1>7. /\ k \in 1 .. len /\ n <= Earlier(f, r, k) /\ k - 1 \in Nat
      /\ Earlier(f, r, k - 1) \in Nat /\ Earlier(f, r, k) \in Nat
  <2>1. k \in 1 .. len /\ n <= Earlier(f, r, k)
    BY <1>5
  <2>2. k \in Nat /\ k - 1 \in Nat
    BY <1>1, <2>1
  <2>3. QED
    BY <1>2, <2>1, <2>2
<1>8. f.entries[k].row = r /\ Earlier(f, r, k) = n
  BY <1>n, <1>3, <1>6, <1>7
<1>9. k \in Abstract!PlacesOf(f, r)
  BY <1>1, <1>7, <1>8 DEF Abstract!PlacesOf
<1> DEFINE c == Abstract!PlaceOf(f, r, n)
<1>10. /\ c \in Abstract!PlacesOf(f, r)
       /\ Cardinality({j \in Abstract!PlacesOf(f, r) : j <= c}) = n
  <2>1. Cardinality({j \in Abstract!PlacesOf(f, r) : j <= k}) = n
    BY <1>4, <1>7, <1>8
  <2>2. QED
    BY <1>9, <2>1, SameCardinality, Zenon DEF Abstract!PlaceOf
<1>11. c \in 1 .. len /\ f.entries[c].row = r
  BY <1>1, <1>10 DEF Abstract!PlacesOf
<1>12. Earlier(f, r, c) = n
  BY <1>4, <1>10, <1>11
<1> HIDE DEF c
<1>13. Earlier(f, r, c - 1) = n - 1
  <2>1. c - 1 \in Nat /\ Earlier(f, r, c) = Earlier(f, r, c - 1) + 1
    BY <1>3, <1>11
  <2>2. QED
    BY <1>2, <1>12, <2>1
<1>14. QED
  BY <1>11, <1>13 DEF c

LEMMA RowEntriesCount ==
    ASSUME NEW f \in Inputs, NEW r \in Nat
    PROVE  Cardinality(Abstract!PlacesOf(f, r)) = Earlier(f, r, Len(f.entries))
<1>1. DOMAIN f.entries = 1 .. Len(f.entries)
  <2>1. f.entries \in Seq([row : Nat, col : Nat, val : Int])
    BY InputsAssumption DEF IsMatrixFile
  <2>2. QED
    BY <2>1
<1>2. QED
  BY <1>1 DEF Abstract!PlacesOf, Earlier

LEMMA FitsIsWellFormed ==
    ASSUME NEW f \in Inputs
    PROVE  Abstract!Fits(f) <=> WellFormed(f)
<1>1. DOMAIN f.entries = 1 .. Len(f.entries)
  <2>1. f.entries \in Seq([row : Nat, col : Nat, val : Int])
    BY InputsAssumption DEF IsMatrixFile
  <2>2. QED
    BY <2>1
<1>2. QED
  BY <1>1 DEF Abstract!Fits, WellFormed

\* The arrays of a finished load, read as rows.
LEMMA RowsAreEntries ==
    ASSUME LoadInv, pc = "done", DegreesRight(input), NEW r \in 0 .. (input.nr - 1)
    PROVE  StoredRow(r) = Abstract!RowEntries(input, r)
<1> DEFINE f == input
           n == Earlier(f, r, Len(f.entries))
<1>1. f \in Inputs /\ f.nr \in Nat /\ Len(f.entries) \in Nat /\ r \in Nat
  <2>1. f \in Inputs
    BY DEF LoadInv, PassInv, TypeOK
  <2>2. f.nr \in Nat /\ Len(f.entries) \in Nat
    BY <2>1, FileType
  <2>3. QED
    BY <2>1, <2>2
<1>2. WellFormed(f) /\ StorageIsExact
  BY DEF LoadInv, PassInv, StorageInv, RowsHold, Starts, CellsHold, Stored, StorageIsExact
<1>3. ai[r] = RowStart(f, r) /\ ai[r + 1] = RowStart(f, r + 1)
  <2>1. r \in RowsOf(f) /\ r + 1 \in RowsOf(f)
    BY <1>1 DEF RowsOf
  <2>2. QED
    BY <1>2, <2>1 DEF StorageIsExact
<1>4. /\ RowStart(f, r) \in Nat /\ n \in Nat
      /\ RowStart(f, r + 1) = RowStart(f, r) + n
  BY <1>1, FileType, RowStartStep, EarlierStep
<1>5. ai[r + 1] - ai[r] = n
  BY <1>3, <1>4
<1>6. ASSUME NEW m \in 1 .. n
      PROVE  cell[ai[r] + m - 1] =
                LET e == f.entries[Abstract!PlaceOf(f, r, m)]
                IN  [col |-> e.col, val |-> e.val]
  <2> DEFINE k == Abstract!PlaceOf(f, r, m)
  <2>1. /\ k \in 1 .. Len(f.entries) /\ f.entries[k].row = r
        /\ Earlier(f, r, k - 1) = m - 1
    BY <1>1, PlaceIsRanked
  <2> HIDE DEF k
  <2>2. SlotOf(f, k) = ai[r] + m - 1
    BY <1>3, <1>4, <2>1 DEF SlotOf
  <2>3. cell[SlotOf(f, k)] = Pair(f.entries[k])
    BY <1>2, <2>1 DEF StorageIsExact, Entries
  <2>4. QED
    BY <2>2, <2>3 DEF Pair, k
<1>7. Cardinality(Abstract!PlacesOf(f, r)) = n
  BY <1>1, RowEntriesCount
<1>8. StoredRow(r) = [m \in 1 .. n |-> cell[ai[r] + m - 1]]
  BY <1>5, Zenon DEF StoredRow
<1>9. Abstract!RowEntries(f, r) =
         [m \in 1 .. n |-> LET e == f.entries[Abstract!PlaceOf(f, r, m)]
                           IN  [col |-> e.col, val |-> e.val]]
  BY <1>7, SameCardinality, Zenon DEF Abstract!RowEntries
<1> HIDE DEF f, n
<1>10. QED
  BY <1>6, <1>8, <1>9 DEF f

LEMMA DoneIsEntries ==
    LoadInv /\ pc = "done" /\ DegreesRight(input) =>
        \A r \in 0 .. (input.nr - 1) : StoredRow(r) = Abstract!RowEntries(input, r)
BY RowsAreEntries

\* Seen through Matrix, the many steps of a load are one step of MatrixLoad,
\* which turns the file into its rows, in file order, or rejects a file whose
\* header does not fit: load_crm_graph_type shows nothing in between, and the
\* rows it shows in the end are those of the file.
THEOREM LoadImplementsMatrixLoad == Spec => Abstract!SafeSpec
<1>1. Init => Abstract!Init
  BY DEF Init, Abstract!Init, Matrix
<1>2. LoadInv /\ LoadInv' /\ [Next]_vars => [Abstract!Load]_(Abstract!avars)
  <2> SUFFICES ASSUME LoadInv, LoadInv', [Next]_vars
               PROVE  [Abstract!Load]_(Abstract!avars)
    OBVIOUS
  <2> USE DEF Goto, Fail
  <2>1. input' = input
    BY DEF Next, ReadDegrees, NoDegreeFile, CountEntry, CountDone, SumStep, SumDone,
           PlaceEntry, PlaceDone, ShiftStep, ShiftDone, vars
  <2>2. input \in Inputs /\ (Abstract!Fits(input) <=> WellFormed(input))
    <3>1. input \in Inputs
      BY DEF LoadInv, PassInv, TypeOK
    <3>2. QED
      BY <3>1, FitsIsWellFormed
  <2>3. CASE UNCHANGED vars
    BY <2>3 DEF vars, Abstract!avars, Matrix, StoredRow
  <2>4. CASE Next /\ pc' \notin {"done", "failed", "undefined"}
    <3>1. Matrix = Unread /\ Matrix' = Unread
      BY <2>4 DEF Matrix, Next, ReadDegrees, NoDegreeFile, CountEntry, CountDone, SumStep,
             SumDone, PlaceEntry, PlaceDone, ShiftStep, ShiftDone
    <3>2. QED
      BY <2>1, <3>1 DEF Abstract!avars
  <2>5. CASE Next /\ pc' \in {"done", "failed", "undefined"}
    <3>1. Matrix = Unread
      BY <2>5 DEF Matrix, Next, ReadDegrees, NoDegreeFile, CountEntry, CountDone, SumStep,
             SumDone, PlaceEntry, PlaceDone, ShiftStep, ShiftDone
    <3>2. CASE ~DegreesRight(input)
      <4>1. Matrix' = Unknown
        BY <2>1, <2>5, <3>2 DEF Matrix
      <4>2. QED
        BY <2>1, <3>1, <3>2, <4>1 DEF Abstract!Load, DegreesWrong
    <3>3. CASE DegreesRight(input) /\ pc' = "done"
      <4>1. WellFormed(input)
        BY <2>1, <3>3 DEF LoadInv, PassInv
      <4>2. \A r \in 0 .. (input.nr - 1) : StoredRow(r)' = Abstract!RowEntries(input, r)
        <5>1. (\A r \in 0 .. (input.nr - 1) : StoredRow(r) = Abstract!RowEntries(input, r))'
          <6>1. (LoadInv /\ pc = "done" /\ DegreesRight(input))'
            BY <2>1, <3>3
          <6>2. QED
            BY <6>1, DoneIsEntries, PTL
        <5>2. QED
          BY <2>1, <5>1
      <4>3. Matrix' = [r \in 0 .. (input.nr - 1) |-> Abstract!RowEntries(input, r)]
        BY <2>1, <3>3, <4>2 DEF Matrix
      <4>4. QED
        BY <2>1, <2>2, <3>1, <3>3, <4>1, <4>3 DEF Abstract!Load, DegreesWrong
    <3>4. CASE DegreesRight(input) /\ pc' = "failed"
      <4>1. ~WellFormed(input) /\ Matrix' = Rejected
        BY <2>1, <3>4 DEF LoadInv, StorageInv, Matrix
      <4>2. QED
        BY <2>1, <2>2, <3>1, <3>4, <4>1 DEF Abstract!Load, DegreesWrong
    <3>5. CASE DegreesRight(input) /\ pc' = "undefined"
      BY <2>1, <3>5 DEF LoadInv, StorageInv
    <3>6. QED
      BY <2>5, <3>2, <3>3, <3>4, <3>5
  <2>6. QED
    BY <2>3, <2>4, <2>5
<1>3. QED
  BY <1>1, <1>2, LoadInvariant, PTL DEF Spec, Abstract!SafeSpec
----------------------------------------------------------------------------
\* MatrixReaders: what the readers deliver, whatever is in the file.

Tokens == Nat \cup {Word}

LEMMA MinOf ==
    ASSUME NEW S, S \subseteq Nat, S # {}
    PROVE  Min(S) \in S /\ \A y \in S : Min(S) <= y
BY LeastOf DEF Min

\* NumbersOf is the longest beginning without a word.
LEMMA NumbersAreAhead ==
    ASSUME NEW tokens \in Seq(Tokens)
    PROVE  /\ NumbersOf(tokens) \in Seq(Nat)
           /\ Len(NumbersOf(tokens)) \in 0 .. Len(tokens)
           /\ \A j \in 1 .. Len(NumbersOf(tokens)) :
                 NumbersOf(tokens)[j] = tokens[j] /\ tokens[j] \in Nat
           /\ Len(NumbersOf(tokens)) < Len(tokens) =>
                 tokens[Len(NumbersOf(tokens)) + 1] = Word
<1> DEFINE words == {j \in DOMAIN tokens : ~IsNumber(tokens[j])}
           q == IF words = {} THEN Len(tokens) ELSE Min(words) - 1
<1>1. Len(tokens) \in Nat /\ DOMAIN tokens = 1 .. Len(tokens)
  OBVIOUS
<1>2. words \subseteq 1 .. Len(tokens) /\ words \subseteq Nat
  BY <1>1
<1>3. \A j \in 1 .. Len(tokens) : j \notin words => tokens[j] \in Nat
  BY <1>1 DEF IsNumber, Tokens
<1>4. \A j \in words : tokens[j] = Word
  BY DEF IsNumber
<1>5. NumbersOf(tokens) = SubSeq(tokens, 1, q)
  BY DEF NumbersOf
<1> HIDE DEF words
<1>6. /\ q \in 0 .. Len(tokens)
      /\ \A j \in 1 .. q : j \notin words
      /\ q < Len(tokens) => q + 1 \in words
  <2>1. CASE words = {}
    BY <2>1, <1>1
  <2>2. CASE words # {}
    <3> DEFINE least == Min(words)
    <3>1. least \in words /\ \A y \in words : least <= y
      BY <2>2, <1>2, MinOf
    <3>2. q = least - 1
      BY <2>2
    <3> HIDE DEF least, q
    <3>3. least \in 1 .. Len(tokens)
      BY <3>1, <1>2
    <3>4. QED
      BY <3>1, <3>2, <3>3, <1>1
  <2>3. QED
    BY <2>1, <2>2
<1> HIDE DEF q
<1>7. \A j \in 1 .. q : tokens[j] \in Nat
  BY <1>1, <1>3, <1>6
<1>8. Len(SubSeq(tokens, 1, q)) = q /\ \A j \in 1 .. q : SubSeq(tokens, 1, q)[j] = tokens[j]
  BY <1>1, <1>6
<1>9. SubSeq(tokens, 1, q) \in Seq(Nat)
  BY <1>1, <1>6, <1>7
<1>10. QED
  BY <1>1, <1>4, <1>5, <1>6, <1>7, <1>8, <1>9

\* What is left of a line after m tokens.
LEMMA RestAt ==
    ASSUME NEW tokens \in Seq(Tokens), NEW m \in Nat, NEW j \in 1 .. Len(tokens) - m
    PROVE  SubSeq(tokens, m + 1, Len(tokens))[j] = tokens[m + j]
<1>1. /\ m + 1 \in Int /\ Len(tokens) \in Nat
      /\ j \in 1 .. (Len(tokens) - (m + 1)) + 1
  OBVIOUS
<1>2. QED
  BY <1>1

\* Taking tokens from the numbers at the beginning leaves the others.
LEMMA NumbersOfRest ==
    ASSUME NEW tokens \in Seq(Tokens),
           NEW m \in 0 .. Len(NumbersOf(tokens)),
           NEW rest, rest = SubSeq(tokens, m + 1, Len(tokens))
    PROVE  /\ rest \in Seq(Tokens)
           /\ Len(NumbersOf(rest)) = Len(NumbersOf(tokens)) - m
           /\ \A j \in 1 .. Len(NumbersOf(tokens)) - m : rest[j] = tokens[m + j]
<1> DEFINE n == Len(NumbersOf(tokens))
           p == Len(NumbersOf(rest))
<1>1. /\ Len(tokens) \in Nat /\ n \in 0 .. Len(tokens)
      /\ \A j \in 1 .. n : tokens[j] \in Nat
      /\ n < Len(tokens) => tokens[n + 1] = Word
  BY NumbersAreAhead
<1> HIDE DEF n
<1>2. m \in 0 .. n
  BY DEF n
<1>3. /\ Len(rest) = Len(tokens) - m
      /\ \A j \in 1 .. Len(tokens) - m : rest[j] = tokens[m + j]
      /\ rest \in Seq(Tokens)
  BY <1>1, <1>2
<1>4. /\ p \in 0 .. Len(rest)
      /\ \A j \in 1 .. p : rest[j] \in Nat
      /\ p < Len(rest) => rest[p + 1] = Word
  BY <1>3, NumbersAreAhead
<1> HIDE DEF p
<1>5. Word \notin Nat
  BY DEF Word
<1>6. ~(p > n - m)
  <2>1. SUFFICES ASSUME p > n - m PROVE FALSE
    OBVIOUS
  <2>2. n - m + 1 \in 1 .. p /\ n < Len(tokens)
    BY <2>1, <1>1, <1>2, <1>3, <1>4
  <2>3. rest[n - m + 1] = tokens[n + 1]
    BY <2>2, <1>1, <1>2, <1>3, <1>4
  <2>4. QED
    BY <2>2, <2>3, <1>1, <1>4, <1>5
<1>7. ~(p < n - m)
  <2>1. SUFFICES ASSUME p < n - m PROVE FALSE
    OBVIOUS
  <2>2. p < Len(rest) /\ m + (p + 1) \in 1 .. n /\ p + 1 \in 1 .. Len(tokens) - m
    BY <2>1, <1>1, <1>2, <1>3, <1>4
  <2>3. rest[p + 1] = tokens[m + (p + 1)]
    BY <2>2, <1>3
  <2>4. QED
    BY <2>2, <2>3, <1>1, <1>4, <1>5
<1>8. p = n - m
  BY <1>1, <1>2, <1>3, <1>4, <1>6, <1>7
<1>9. \A j \in 1 .. n - m : rest[j] = tokens[m + j]
  BY <1>1, <1>2, <1>3
<1>10. QED
  BY <1>3, <1>8, <1>9 DEF n, p

----------------------------------------------------------------------------
\* The invariant of reading: the file, types, which reader a stage has, that a
\* line has been fetched exactly if start is over, and what lies on it.
ReaderInv ==
    /\ session \in Sessions
    /\ ReadTypeOK
    /\ stage \in {"choose", "header", "check"} =>
          kind \in {"none", "cluto"} /\ entries = <<>> /\ col = -1
    /\ stage = "choose" => at = 0
    /\ stage \in {"header", "check"} => kind = "cluto"
    /\ stage \in {"size", "first", "second"} => kind \notin {"none", "cluto"}
    /\ InPass => at >= 1 /\ (start <=> at = 1)
    /\ (InPass /\ kind \notin Flat) =>
          /\ line \in Seq(Tokens)
          /\ \A j \in 1 .. Len(entries) : entries[j].row <= row

\* In a file that is read line by line, the entries of the rows that are over
\* stand in their places, and those taken from the present line are as many as
\* its tokens that are gone.
EarlierRows(r) == {k \in DOMAIN entries : entries[k].row < r}
EntriesOn(r) == Len(NumbersOf(Lines[r + 2])) \div Width
Taken == Len(entries) - Before(row)

RowsUpTo(r) ==
    /\ \A j \in 0 .. r : Before(j) \in 0 .. Len(entries) /\ EarlierRows(j) = 1 .. Before(j)
    /\ \A j \in 0 .. r - 1 : Before(j + 1) = Before(j) + EntriesOn(j)
EntriesPlaced ==
    \A k \in DOMAIN entries :
        LET e == entries[k] IN PlacedAs(e, k - Before(e.row), NumbersOf(Lines[e.row + 2]))

RowsSoFar ==
    /\ RowsUpTo(row)
    /\ Width * Taken <= Len(NumbersOf(Lines[at]))
    /\ line = SubSeq(Lines[at], Width * Taken + 1, Len(Lines[at]))
    /\ IsDense(kind) => col = Taken - 1
    /\ EntriesPlaced

LinesInv ==
    (InPass /\ kind \notin Flat) =>
        /\ at = 1 => line = <<>> /\ entries = <<>>
        /\ at > 1 => RowsSoFar

\* The lines of a session, and as its reader k sees them.
LinesOf(s, k) ==
    IF s.gz /\ ~(s.gz /\ s.hint = "none" /\ k \in Flat) THEN <<<<Word>>>> ELSE s.lines
SeenOf(s, k) ==
    IF k \in Flat
      THEN LET all == FlattenSeq(LinesOf(s, k))
               three == Min({3, Len(all)})
           IN  <<SubSeq(all, 1, three), SubSeq(all, three + 1, Len(all))>>
      ELSE LinesOf(s, k)

LEMMA LinesOfSession == Lines = LinesOf(session, kind) /\ Lines' = LinesOf(session', kind')
BY DEF Lines, Decompressed, LinesOf

LEMMA SeenOfSession == Seen = SeenOf(session, kind) /\ Seen' = SeenOf(session', kind')
<1>1. Seen = SeenOf(session, kind)
  BY LinesOfSession, Zenon DEF Seen, SeenOf
<1>2. Seen' = SeenOf(session', kind')
  BY LinesOfSession, Zenon DEF Seen, SeenOf
<1>3. QED
  BY <1>1, <1>2

LEMMA LinesType ==
    ASSUME NEW s \in Sessions, NEW k
    PROVE  /\ LinesOf(s, k) \in Seq(Seq(Tokens))
           /\ Len(LinesOf(s, k)) \in Nat /\ Len(LinesOf(s, k)) >= 1
           /\ Len(SeenOf(s, k)) \in Nat /\ Len(SeenOf(s, k)) >= 1
           /\ k \notin Flat => SeenOf(s, k) = LinesOf(s, k)
           /\ k \in Flat => Len(SeenOf(s, k)) = 2
<1>1. s.lines \in Seq(Seq(Tokens)) /\ Len(s.lines) >= 1
  <2>1. s.lines \in Seq(Seq(Tokens)) /\ s.lines # <<>>
    BY SessionsAssumption DEF Tokens
  <2>2. QED
    BY <2>1
<1>2. <<<<Word>>>> \in Seq(Seq(Tokens)) /\ Len(<<<<Word>>>>) = 1
  BY DEF Tokens
<1>3. LinesOf(s, k) \in {<<<<Word>>>>, s.lines}
  BY DEF LinesOf
<1> DEFINE L == LinesOf(s, k)
<1> HIDE DEF L
<1>4. L \in Seq(Seq(Tokens)) /\ Len(L) \in Nat /\ Len(L) >= 1
  <2>1. L \in Seq(Seq(Tokens)) /\ Len(L) >= 1
    <3>1. CASE L = <<<<Word>>>>
      BY <3>1, <1>2
    <3>2. CASE L = s.lines
      BY <3>2, <1>1, Zenon
    <3>3. QED
      BY <3>1, <3>2, <1>3 DEF L
  <2>2. QED
    BY <2>1
<1>5. k \notin Flat => SeenOf(s, k) = L
  BY DEF SeenOf, L
<1>6. k \in Flat => Len(SeenOf(s, k)) = 2
  BY DEF SeenOf
<1>7. Len(SeenOf(s, k)) \in Nat /\ Len(SeenOf(s, k)) >= 1
  <2>1. CASE k \in Flat
    BY <2>1, <1>6
  <2>2. CASE k \notin Flat
    BY <2>2, <1>4, <1>5, Zenon
  <2>3. QED
    BY <2>1, <2>2
<1>8. QED
  BY <1>4, <1>5, <1>6, <1>7, Zenon DEF L

\* What a step that keeps session and reader keeps.
LEMMA FileKept ==
    ASSUME session' = session, kind' = kind
    PROVE  /\ Lines' = Lines /\ Seen' = Seen /\ Width' = Width
           /\ \A tokens : Readable(tokens)' <=> Readable(tokens)
BY LinesOfSession, SeenOfSession, Zenon DEF Width, Readable

IsSparse(k) == k \in {"sparse matrix", "sparse graph"}

LEMMA WidthType ==
    ASSUME kind \notin Flat
    PROVE  /\ Width \in {1, 2}
           /\ IsSparse(kind) => Width = 2
           /\ ~IsSparse(kind) => Width = 1
<1>1. IsSparse(kind) => Width = 2
  BY DEF Width, IsSparse
<1>2. ~IsSparse(kind) => Width = 1
  BY DEF Width, Flat, IsSparse
<1>3. QED
  BY <1>1, <1>2, Zenon

\* An entry that is read from a line.
RowEntry == [row : Nat, col : Int, val : Int]

LEMMA EntryTyped ==
    ASSUME kind \notin Flat, NEW tokens \in Seq(Tokens), Readable(tokens),
           NEW r \in Nat, NEW j \in Int, j >= -1
    PROVE  /\ EntryOf(r, j, tokens) \in RowEntry
           /\ EntryOf(r, j, tokens).row = r
           /\ EntryOf(r, j, tokens).col \in Int /\ EntryOf(r, j, tokens).col >= -1
           /\ Width <= Len(tokens)
           /\ SubSeq(tokens, Width + 1, Len(tokens)) \in Seq(Tokens)
<1>1. /\ Len(NumbersOf(tokens)) \in 0 .. Len(tokens) /\ Len(tokens) \in Nat
      /\ \A q \in 1 .. Len(NumbersOf(tokens)) : tokens[q] \in Nat
  BY NumbersAreAhead
<1>2. Width \in {1, 2} /\ (IsSparse(kind) => Width = 2) /\ (~IsSparse(kind) => Width = 1)
  BY WidthType, Zenon
<1>3. Width <= Len(NumbersOf(tokens))
  BY DEF Readable
<1> DEFINE n == Len(NumbersOf(tokens))
           w == Width
<1>a. n <= Len(tokens) /\ n \in Nat /\ w <= n /\ w \in {1, 2}
  <2>1. n \in 0 .. Len(tokens) /\ w <= n /\ w \in {1, 2}
    BY <1>1, <1>2, <1>3, Zenon DEF n, w
  <2> HIDE DEF n, w
  <2>2. QED
    BY <2>1, <1>1
<1>b. \A q \in 1 .. n : tokens[q] \in Nat
  BY <1>1, Zenon DEF n
<1> HIDE DEF n, w
<1>4. tokens[1] \in Nat /\ (w = 2 => tokens[2] \in Nat)
  BY <1>a, <1>b
<1>5. \A col_, val_ : Entry(r, col_, val_) = [row |-> r, col |-> col_, val |-> val_]
  BY DEF Entry
<1>6. EntryOf(r, j, tokens) \in
         {Entry(r, tokens[1] - 1, 1), Entry(r, j + 1, tokens[1])}
           \cup (IF Width = 2 THEN {Entry(r, tokens[1] - 1, tokens[2])} ELSE {})
  BY <1>2, Zenon DEF EntryOf, Flat, IsSparse
<1> DEFINE e == EntryOf(r, j, tokens)
<1> HIDE DEF e
<1>7. e \in RowEntry /\ e.row = r /\ e.col \in Int /\ e.col >= -1
  <2>1. CASE e = Entry(r, tokens[1] - 1, 1)
    BY <2>1, <1>4, <1>5 DEF RowEntry
  <2>2. CASE e = Entry(r, j + 1, tokens[1])
    BY <2>2, <1>4, <1>5 DEF RowEntry
  <2>3. CASE w = 2 /\ e = Entry(r, tokens[1] - 1, tokens[2])
    BY <2>3, <1>4, <1>5 DEF RowEntry
  <2>4. QED
    BY <2>1, <2>2, <2>3, <1>6 DEF e, w
<1>8. w <= Len(tokens) /\ SubSeq(tokens, w + 1, Len(tokens)) \in Seq(Tokens)
  <2>1. w \in Nat /\ w <= Len(tokens)
    BY <1>1, <1>a
  <2>2. QED
    BY <2>1
<1>9. QED
  BY <1>7, <1>8 DEF e, w

\* The first state of a pass is in its types.
LEMMA FreshPass ==
    ASSUME ReaderInv, StartPass, session' = session, kind' = kind,
           stage' \in {"first", "second", "rejected"},
           stage' \in {"first", "second"} => kind \notin {"none", "cluto"}
    PROVE  ReaderInv'
<1>1. session \in Sessions /\ kind \in Kinds
  BY DEF ReaderInv, ReadTypeOK
<1>2. 1 \in 0 .. Len(Seen')
  <2>1. Len(SeenOf(session, kind)) \in Nat /\ Len(SeenOf(session, kind)) >= 1
    BY <1>1, LinesType
  <2>2. QED
    BY <2>1, SeenOfSession
<1>3. /\ at' = 1 /\ line' = <<>> /\ start' = TRUE /\ row' = 0 /\ col' = -1
      /\ entries' = <<>>
  BY DEF StartPass, Discarded
<1>4. ReadTypeOK'
  BY <1>1, <1>2, <1>3 DEF ReadTypeOK, InPass, Finished
<1>5. QED
  BY <1>3, <1>4 DEF ReaderInv, InPass

LEMMA ReaderInvInit == ReadInit => ReaderInv
<1> SUFFICES ASSUME ReadInit PROVE ReaderInv
  OBVIOUS
<1>1. session \in Sessions
  BY DEF ReadInit
<1>2. 0 \in 0 .. Len(Seen)
  <2>1. Len(SeenOf(session, kind)) \in Nat
    BY <1>1, LinesType
  <2>2. QED
    BY <2>1, SeenOfSession
<1>3. ReadTypeOK
  BY <1>1, <1>2 DEF ReadInit, ReadTypeOK, Kinds, InPass, Finished
<1>4. QED
  BY <1>3 DEF ReadInit, ReaderInv, InPass

\* A step of the choice or of the detection: at is within the lines for any
\* reader that follows.
LEMMA DetectionTyped ==
    ASSUME ReaderInv, session' = session, kind' \in Kinds,
           stage \in {"choose", "header", "check"}, UNCHANGED <<row, col, entries, start>>,
           stage' \in {"header", "check", "size", "rejected", "looping"},
           stage' \in {"header", "check"} => kind' = "cluto",
           stage' = "size" => kind' \notin {"none", "cluto"},
           at' \in 0 .. Len(Lines'), at' >= 1 => kind' \notin Flat
    PROVE  ReaderInv'
<1>1. /\ session \in Sessions /\ start \in BOOLEAN
      /\ entries = <<>> /\ col = -1
  BY DEF ReaderInv, ReadTypeOK
<1>2. at' \in 0 .. Len(Seen')
  <2>1. kind' \notin Flat => Seen' = Lines'
    BY <1>1, LinesType, SeenOfSession, LinesOfSession
  <2>2. Len(Seen') \in Nat
    BY <1>1, LinesType, SeenOfSession
  <2>3. at' \in Nat
    <3>1. Len(Lines') \in Nat
      BY <1>1, LinesType, LinesOfSession
    <3>2. QED
      BY <3>1
  <2>4. CASE at' >= 1
    BY <2>1, <2>4
  <2>5. CASE at' = 0
    BY <2>2, <2>5
  <2>6. QED
    BY <2>3, <2>4, <2>5
<1>3. ReadTypeOK'
  BY <1>1, <1>2 DEF ReadTypeOK, InPass, Finished
<1>4. QED
  BY <1>1, <1>3 DEF ReaderInv, InPass

LEMMA ReaderInvDetection ==
    ASSUME ReaderInv, Choose \/ DetectHeader \/ CheckLine \/ NoMoreLines
    PROVE  ReaderInv'
<1>1. /\ session \in Sessions /\ kind \in Kinds /\ at \in 0 .. Len(Seen)
      /\ stage \in {"choose", "header", "check"} => kind \in {"none", "cluto"}
  BY DEF ReaderInv, ReadTypeOK
<1>2. /\ Len(Lines) \in Nat /\ Len(Lines) >= 1
      /\ session' = session => Len(Lines') \in Nat /\ Len(Lines') >= 1
  <2>1. \A k : Len(LinesOf(session, k)) \in Nat /\ Len(LinesOf(session, k)) >= 1
    BY <1>1, LinesType
  <2>2. QED
    BY <2>1, LinesOfSession
<1>3. kind \in {"none", "cluto"} => Seen = Lines
  BY <1>1, LinesType, SeenOfSession, LinesOfSession DEF Flat
<1>4. "cluto" \notin Flat /\ "dense matrix" \notin Flat /\ "sparse graph" \notin Flat
        /\ "dense graph" \notin Flat /\ "sparse matrix" \notin Flat
  BY DEF Flat
<1>5. CASE Choose
  <2>1. Reader \in Kinds
    BY <1>1, SessionsAssumption DEF Reader, Kinds, Flat
  <2>2. /\ session' = session /\ at' = at /\ UNCHANGED <<row, col, entries, start>>
        /\ kind' = Reader /\ stage = "choose"
        /\ stage' = CASE kind' = "none" -> "rejected"
                      [] kind' = "cluto" -> "header"
                      [] OTHER -> "size"
    BY <1>5 DEF Choose, iterator
  <2>3. /\ stage' \in {"header", "size", "rejected"}
        /\ stage' = "header" => kind' = "cluto"
        /\ stage' = "size" => kind' \notin {"none", "cluto"}
    BY <2>2
  <2>4. at = 0
    BY <2>2 DEF ReaderInv
  <2>5. at' \in 0 .. Len(Lines') /\ ~(at' >= 1)
    <3>1. at' = 0 /\ Len(Lines') \in Nat
      BY <1>2, <2>2, <2>4, Zenon
    <3>2. QED
      BY <3>1
  <2>6. QED
    BY <2>1, <2>2, <2>3, <2>5, DetectionTyped
<1>6. CASE DetectHeader
  <2>1. /\ session' = session /\ at' = 1 /\ UNCHANGED <<row, col, entries, start>>
        /\ stage = "header" /\ kind = "cluto"
        /\ stage' \in {"looping", "check", "size"}
        /\ kind' \in {"cluto", "dense graph", "sparse matrix"}
        /\ stage' = "check" => kind' = "cluto"
        /\ stage' = "size" => kind' # "cluto"
    BY <1>6 DEF DetectHeader, iterator, ByHeader, ReaderInv
  <2>2. kind' \in Kinds /\ kind' \notin Flat /\ kind' # "none"
    BY <2>1, <1>4 DEF Kinds, Cluto
  <2>3. at' \in 0 .. Len(Lines')
    <3>1. at' = 1 /\ Len(Lines') \in Nat /\ Len(Lines') >= 1
      BY <1>2, <2>1, Zenon
    <3>2. QED
      BY <3>1
  <2>4. QED
    BY <2>1, <2>2, <2>3, DetectionTyped
<1>7. CASE CheckLine
  <2>1. /\ session' = session /\ at' = at + 1 /\ UNCHANGED <<row, col, entries, start>>
        /\ stage = "check" /\ kind = "cluto" /\ at < Len(Lines)
        /\ stage' \in {"check", "size"}
        /\ kind' \in {"cluto", "dense matrix", "sparse graph"}
        /\ stage' = "check" => kind' = "cluto"
        /\ stage' = "size" => kind' # "cluto"
    BY <1>7 DEF CheckLine, LineAfter, ReaderInv
  <2>2. kind' \in Kinds /\ kind' \notin Flat /\ kind' # "none"
    BY <2>1, <1>4 DEF Kinds, Cluto
  <2>3. Lines' = Lines
    BY <2>1, <2>2, <1>4, LinesOfSession DEF LinesOf
  <2>4. at' \in 0 .. Len(Lines')
    <3>1. /\ at' = at + 1 /\ at < Len(Lines') /\ Len(Lines') \in Nat
          /\ at \in 0 .. Len(Lines')
      BY <1>1, <1>2, <1>3, <2>1, <2>3, Zenon
    <3>2. QED
      BY <3>1
  <2>5. QED
    BY <2>1, <2>2, <2>4, DetectionTyped
<1>8. CASE NoMoreLines
  <2>1. /\ session' = session /\ at' = at /\ UNCHANGED <<row, col, entries, start>>
        /\ stage = "check" /\ kind = "cluto" /\ at = Len(Lines)
        /\ stage' = "size" /\ kind' = "dense matrix"
    BY <1>8 DEF NoMoreLines, iterator, ReaderInv
  <2>2. kind' \in Kinds /\ kind' \notin Flat /\ kind' \notin {"none", "cluto"}
    BY <2>1, <1>4 DEF Kinds, Cluto
  <2>3. Lines' = Lines
    BY <2>1, <2>2, <1>4, LinesOfSession DEF LinesOf
  <2>4. at' \in 0 .. Len(Lines')
    <3>1. at' = Len(Lines') /\ Len(Lines') \in Nat
      BY <1>2, <2>1, <2>3, Zenon
    <3>2. QED
      BY <3>1
  <2>5. QED
    BY <2>1, <2>2, <2>4, DetectionTyped
<1>9. QED
  BY <1>5, <1>6, <1>7, <1>8

LEMMA ReaderInvPasses ==
    ASSUME ReaderInv, Size \/ FirstPassOver \/ SecondPassOver
    PROVE  ReaderInv'
<1>1. CASE StartPass /\ stage' \in {"first", "second", "rejected"}
  <2>1. session' = session /\ kind' = kind
    BY DEF Size, FirstPassOver, SecondPassOver
  <2>2. stage \in {"size", "first", "second"}
    BY DEF Size, FirstPassOver, SecondPassOver
  <2>3. kind \notin {"none", "cluto"}
    BY <2>2 DEF ReaderInv
  <2>4. QED
    BY <1>1, <2>1, <2>3, FreshPass
<1>2. CASE UNCHANGED <<at, iterator>> /\ stage' \in {"undefined", "rejected", "loaded"}
  <2>1. session' = session /\ kind' = kind
    BY DEF Size, FirstPassOver, SecondPassOver
  <2>2. Seen' = Seen
    BY <2>1, SeenOfSession
  <2>3. ReadTypeOK'
    BY <1>2, <2>1, <2>2 DEF ReaderInv, ReadTypeOK, InPass, Finished, iterator
  <2>4. QED
    BY <1>2, <2>1, <2>3 DEF ReaderInv, InPass
<1>3. QED
  BY <1>1, <1>2 DEF Size, FirstPassOver, SecondPassOver

\* Appending an entry of a row that is not less keeps the rows in order.
LEMMA OrderKept ==
    ASSUME NEW s \in Seq(RowEntry), NEW e \in RowEntry, NEW r \in Nat, e.row = r,
           \A j \in 1 .. Len(s) : s[j].row <= r,
           \A j \in 2 .. Len(s) : s[j - 1].row <= s[j].row,
           NEW t, t = Append(s, e)
    PROVE  /\ t \in Seq(RowEntry) /\ t[Len(t)] = e
           /\ \A j \in 1 .. Len(t) : t[j].row <= r
           /\ \A j \in 2 .. Len(t) : t[j - 1].row <= t[j].row
<1> DEFINE n == Len(s)
<1>1. /\ n \in Nat /\ t \in Seq(RowEntry) /\ Len(t) = n + 1 /\ t[n + 1] = e
      /\ \A j \in 1 .. n : t[j] = s[j]
  OBVIOUS
<1>2. \A j \in 1 .. n + 1 : t[j].row <= r
  <2>1. TAKE j \in 1 .. n + 1
  <2>2. CASE j = n + 1
    BY <1>1, <2>2
  <2>3. CASE j # n + 1
    <3>1. j \in 1 .. n
      BY <1>1, <2>3
    <3>2. QED
      BY <1>1, <3>1
  <2>4. QED
    BY <2>2, <2>3
<1>3. \A j \in 2 .. n + 1 : t[j - 1].row <= t[j].row
  <2>1. TAKE j \in 2 .. n + 1
  <2>2. j - 1 \in 1 .. n /\ t[j - 1] = s[j - 1]
    BY <1>1
  <2>3. CASE j = n + 1
    BY <1>1, <2>2, <2>3
  <2>4. CASE j # n + 1
    <3>1. j \in 1 .. n /\ j \in 2 .. n
      BY <1>1, <2>4
    <3>2. t[j] = s[j]
      BY <1>1, <3>1
    <3>3. QED
      BY <2>2, <3>1, <3>2
  <2>5. QED
    BY <2>3, <2>4
<1>4. QED
  BY <1>1, <1>2, <1>3

LEMMA ReaderInvTake ==
    ASSUME ReaderInv, TakeEntry
    PROVE  ReaderInv'
<1>1. /\ InPass /\ Readable(line)
      /\ UNCHANGED <<session, stage, kind, at, start, row, first>>
  BY DEF TakeEntry
<1>2. Seen' = Seen
  BY <1>1, SeenOfSession
<1>3. CASE kind \in Flat
  BY <1>1, <1>2, <1>3 DEF ReaderInv, ReadTypeOK, InPass
<1>4. CASE kind \notin Flat
  <2> DEFINE e == EntryOf(row, col, line)
  <2>1. /\ row \in Nat /\ col \in Int /\ col >= -1 /\ line \in Seq(Tokens)
        /\ entries \in Seq(RowEntry)
        /\ \A j \in 1 .. Len(entries) : entries[j].row <= row
        /\ \A j \in 2 .. Len(entries) : entries[j - 1].row <= entries[j].row
    <3>1. row = (IF at > 1 THEN at - 2 ELSE 0) /\ at \in 0 .. Len(Seen)
      BY <1>1, <1>4 DEF ReaderInv, ReadTypeOK
    <3>2. row \in Nat
      BY <3>1
    <3>3. QED
      BY <1>1, <1>4, <3>2 DEF ReaderInv, ReadTypeOK, RowEntry
  <2>2. /\ e \in RowEntry /\ e.row = row
        /\ e.col \in Int /\ e.col >= -1
        /\ SubSeq(line, Width + 1, Len(line)) \in Seq(Tokens)
    BY <1>1, <1>4, <2>1, EntryTyped
  <2>3. /\ entries' = Append(entries, e)
        /\ col' = entries'[Len(entries')].col
        /\ line' = SubSeq(line, Width + 1, Len(line))
    BY DEF TakeEntry
  <2> HIDE DEF e
  <2>4. /\ entries' \in Seq(RowEntry) /\ col' = e.col
        /\ \A j \in 1 .. Len(entries') : entries'[j].row <= row
        /\ \A j \in 2 .. Len(entries') : entries'[j - 1].row <= entries'[j].row
    <3>1. /\ entries' \in Seq(RowEntry) /\ entries'[Len(entries')] = e
          /\ \A j \in 1 .. Len(entries') : entries'[j].row <= row
          /\ \A j \in 2 .. Len(entries') : entries'[j - 1].row <= entries'[j].row
      BY <2>1, <2>2, <2>3, OrderKept, Zenon
    <3>2. QED
      BY <3>1, <2>3, Zenon
  <2>5. line' \in Seq(Tokens) /\ col' \in Int /\ col' >= -1
    BY <2>2, <2>3, <2>4
  <2>6. QED
    BY <1>1, <1>2, <2>4, <2>5 DEF ReaderInv, ReadTypeOK, InPass, RowEntry
<1>5. QED
  BY <1>3, <1>4

LEMMA ReaderInvFetch ==
    ASSUME ReaderInv, FetchLine
    PROVE  ReaderInv'
<1>1. /\ InPass /\ at < Len(Seen) /\ line' = Seen[at + 1] /\ at' = at + 1
      /\ row' = (IF start THEN row ELSE row + 1)
      /\ col' = -1 /\ start' = FALSE
      /\ UNCHANGED <<session, stage, kind, entries, first>>
  BY DEF FetchLine, RowOf
<1>2. Seen' = Seen
  BY <1>1, SeenOfSession
<1>3. /\ session \in Sessions /\ at \in 0 .. Len(Seen) /\ at >= 1 /\ (start <=> at = 1)
      /\ row = (IF at > 1 /\ kind \notin Flat THEN at - 2 ELSE 0)
  BY <1>1 DEF ReaderInv, ReadTypeOK
<1>4. /\ Len(Seen) \in Nat
      /\ kind \in Flat => Len(Seen) = 2
      /\ kind \notin Flat => Seen \in Seq(Seq(Tokens))
  BY <1>3, LinesType, SeenOfSession
<1> DEFINE n == Len(Seen)
<1>5. at' \in 0 .. n /\ at' > 1
  BY <1>1, <1>3, <1>4
<1>6. CASE kind \in Flat
  <2>1. at = 1
    <3>1. at < 2 /\ at \in 0 .. 2 /\ at >= 1
      BY <1>1, <1>3, <1>4, <1>6, Zenon
    <3>2. QED
      BY <3>1
  <2>2. row' = 0
    BY <1>1, <1>3, <1>6, <2>1, Zenon
  <2>3. at' \in 0 .. Len(Seen') /\ at' >= 1 /\ at' # 1 /\ start' = FALSE
    BY <1>1, <1>2, <1>5
  <2>4. ReadTypeOK'
    BY <1>1, <1>6, <2>2, <2>3 DEF ReaderInv, ReadTypeOK, InPass
  <2>5. QED
    BY <1>1, <1>6, <2>3, <2>4 DEF ReaderInv, InPass
<1>7. CASE kind \notin Flat
  <2>1. row' = at' - 2 /\ row' >= row /\ row \in Nat /\ row' \in Nat
    BY <1>1, <1>3, <1>4, <1>7
  <2>2. Seen[at + 1] \in Seq(Tokens)
    BY <1>1, <1>3, <1>4, <1>7
  <2>3. entries \in Seq(RowEntry) /\ \A j \in 1 .. Len(entries) : entries[j].row <= row
    BY <1>1, <1>7 DEF ReaderInv, ReadTypeOK, RowEntry
  <2>4. \A j \in 1 .. Len(entries) : entries[j].row <= row'
    <3>1. TAKE j \in 1 .. Len(entries)
    <3>2. entries[j] \in RowEntry
      BY <2>3
    <3>3. entries[j].row \in Nat
      BY <3>2 DEF RowEntry
    <3>4. QED
      BY <2>1, <2>3, <3>3
  <2>5. at' \in 0 .. Len(Seen') /\ at' >= 1 /\ at' # 1 /\ start' = FALSE
    BY <1>1, <1>2, <1>5
  <2>6. col' \in Int /\ col' >= -1
    BY <1>1
  <2>7. ReadTypeOK'
    BY <1>1, <1>5, <1>7, <2>1, <2>5, <2>6 DEF ReaderInv, ReadTypeOK, InPass
  <2>8. QED
    BY <1>1, <1>7, <2>2, <2>4, <2>5, <2>7 DEF ReaderInv, InPass
<1>8. QED
  BY <1>6, <1>7

LEMMA ReaderInvStep == ReaderInv /\ [ReadNext]_readvars => ReaderInv'
<1> SUFFICES ASSUME ReaderInv, [ReadNext]_readvars PROVE ReaderInv'
  OBVIOUS
<1>1. CASE Choose \/ DetectHeader \/ CheckLine \/ NoMoreLines
  BY <1>1, ReaderInvDetection
<1>2. CASE Size \/ FirstPassOver \/ SecondPassOver
  BY <1>2, ReaderInvPasses
<1>3. CASE TakeEntry
  BY <1>3, ReaderInvTake
<1>4. CASE FetchLine
  BY <1>4, ReaderInvFetch
<1>5. CASE UNCHANGED readvars
  <2>1. Seen' = Seen
    BY <1>5, SeenOfSession DEF readvars
  <2>2. QED
    BY <1>5, <2>1 DEF readvars, ReaderInv, ReadTypeOK, InPass
<1>6. QED
  BY <1>1, <1>2, <1>3, <1>4, <1>5 DEF ReadNext

\* Whatever is in a file, a reader stays within its lines, counts a row for each
\* line it has fetched, and delivers the rows in order.
THEOREM ReadersTypeCorrect == ReadSpec => []ReadTypeOK
<1>1. ReaderInv => ReadTypeOK
  BY DEF ReaderInv
<1>2. QED
  BY <1>1, ReaderInvInit, ReaderInvStep, PTL DEF ReadSpec

----------------------------------------------------------------------------
\* The two passes.  What an iterator does next depends on the file and its own
\* state only, which Now puts into a record; a set of such states is closed if
\* it has the next one of each that is not the last.
Now == [at |-> at, line |-> line, start |-> start, row |-> row, col |-> col,
        entries |-> entries]
Fresh == [at |-> 1, line |-> <<>>, start |-> TRUE, row |-> 0, col |-> -1,
          entries |-> <<>>]

WithOneMore(x) == Append(x.entries, EntryOf(x.row, x.col, x.line))
After(x) ==
    IF Readable(x.line)
      THEN [at |-> x.at, line |-> SubSeq(x.line, Width + 1, Len(x.line)),
            start |-> x.start, row |-> x.row,
            col |-> WithOneMore(x)[Len(WithOneMore(x))].col,
            entries |-> WithOneMore(x)]
      ELSE [at |-> x.at + 1, line |-> Seen[x.at + 1], start |-> FALSE,
            row |-> IF x.start THEN x.row ELSE x.row + 1, col |-> -1,
            entries |-> x.entries]
Over(x) == ~Readable(x.line) /\ x.at = Len(Seen)
Closed(T) == \A x \in T : Over(x) \/ After(x) \in T

\* The first pass is where every closed set that has the fresh state has been
\* led, and there is a set closed up to here.  In the second, each closed set
\* leads to where the first has ended.
FirstInv ==
    /\ \A T : Closed(T) /\ Fresh \in T => Now \in T
    /\ \E T : /\ Fresh \in T /\ Now \in T
              /\ \A x \in T : x = Now \/ Over(x) \/ After(x) \in T
SecondInv ==
    /\ \E T : Closed(T) /\ Now \in T
    /\ \A T : Closed(T) /\ Now \in T => \E x \in T : Over(x) /\ x.entries = first
IsSequence(s) == \E S : s \in Seq(S)

PassesInv ==
    /\ IsSequence(entries)
    /\ stage = "first" => FirstInv
    /\ stage = "second" => SecondInv
    /\ stage = "loaded" => entries = first

LEMMA NowIsFresh == StartPass => Now' = Fresh
BY DEF StartPass, Discarded, Now, Fresh

LEMMA StepIsAfter ==
    ASSUME TakeEntry \/ FetchLine
    PROVE  Now' = After(Now) /\ ~Over(Now)
<1>1. CASE TakeEntry
  <2>1. Readable(Now.line) /\ WithOneMore(Now) = Append(entries, EntryOf(row, col, line))
    BY <1>1 DEF TakeEntry, Now, WithOneMore
  <2>2. /\ entries' = Append(entries, EntryOf(row, col, line))
        /\ col' = entries'[Len(entries')].col
        /\ line' = SubSeq(line, Width + 1, Len(line))
        /\ at' = at /\ start' = start /\ row' = row
    BY <1>1 DEF TakeEntry
  <2>3. Now' = After(Now)
    BY <2>1, <2>2 DEF After, Now
  <2>4. QED
    BY <2>1, <2>3 DEF Over
<1>2. CASE FetchLine
  <2>1. /\ ~Readable(line) /\ at < Len(Seen) /\ line' = Seen[at + 1] /\ at' = at + 1
        /\ row' = (IF start THEN row ELSE row + 1)
        /\ col' = -1 /\ start' = FALSE /\ entries' = entries
    BY <1>2 DEF FetchLine, RowOf
  <2>2. Now' = After(Now)
    BY <2>1 DEF After, Now
  <2>3. at # Len(Seen)
    BY <2>1
  <2>4. QED
    BY <2>2, <2>3 DEF Over, Now
<1>3. QED
  BY <1>1, <1>2

LEMMA StepsKept ==
    ASSUME session' = session, kind' = kind
    PROVE  /\ \A x : After(x)' = After(x)
           /\ \A x : Over(x)' <=> Over(x)
           /\ \A T : Closed(T)' <=> Closed(T)
<1>1. Seen' = Seen /\ Width' = Width /\ \A tokens : Readable(tokens)' <=> Readable(tokens)
  BY FileKept
<1>2. \A r, j, tokens : EntryOf(r, j, tokens)' = EntryOf(r, j, tokens)
  BY DEF EntryOf
<1>3. \A x : WithOneMore(x)' = WithOneMore(x)
  BY <1>2 DEF WithOneMore
<1>4. \A x : After(x)' = After(x)
  BY <1>1, <1>3, Zenon DEF After
<1>5. \A x : Over(x)' <=> Over(x)
  BY <1>1, Zenon DEF Over
<1>6. \A T : Closed(T)' <=> Closed(T)
  BY <1>4, <1>5, Zenon DEF Closed
<1>7. QED
  BY <1>4, <1>5, <1>6

\* A pass begins.
LEMMA FirstInvBegins ==
    ASSUME StartPass
    PROVE  FirstInv'
<1>1. Now' = Fresh
  BY NowIsFresh
<1>2. \A T : (Closed(T) /\ Fresh \in T => Now \in T)'
  BY <1>1, Zenon
<1>3. (\E T : /\ Fresh \in T /\ Now \in T
              /\ \A x \in T : x = Now \/ Over(x) \/ After(x) \in T)'
  <2>1. Fresh \in {Fresh} /\ \A x \in {Fresh} : x = Fresh
    OBVIOUS
  <2>2. Fresh' = Fresh
    BY DEF Fresh
  <2>3. QED
    BY <1>1, <2>1, <2>2, Zenon
<1>4. QED
  BY <1>2, <1>3, Zenon DEF FirstInv

LEMMA SecondInvBegins ==
    ASSUME FirstInv, Over(Now), StartPass, first' = entries,
           session' = session, kind' = kind
    PROVE  SecondInv'
<1>1. Now' = Fresh
  BY NowIsFresh
<1>2. Now.entries = entries
  BY DEF Now
<1>3. PICK S : /\ Fresh \in S /\ Now \in S
               /\ \A x \in S : x = Now \/ Over(x) \/ After(x) \in S
  BY DEF FirstInv
<1>4. Closed(S)
  BY <1>3, Zenon DEF Closed
<1>5. \A T : Closed(T) /\ Fresh \in T => \E x \in T : Over(x) /\ x.entries = entries
  BY <1>2, Zenon DEF FirstInv
<1>6. (\A x : Over(x)' <=> Over(x)) /\ (\A T : Closed(T)' <=> Closed(T))
  BY StepsKept
<1>7. (\E T : Closed(T) /\ Now \in T)'
  BY <1>1, <1>3, <1>4, <1>6, Zenon
<1>8. (\A T : Closed(T) /\ Now \in T => \E x \in T : Over(x) /\ x.entries = first)'
  BY <1>1, <1>5, <1>6, Zenon
<1>9. QED
  BY <1>7, <1>8, Zenon DEF SecondInv

\* A pass goes on.
LEMMA FirstInvStep ==
    ASSUME FirstInv, TakeEntry \/ FetchLine
    PROVE  FirstInv'
<1>1. Now' = After(Now) /\ ~Over(Now)
  BY StepIsAfter
<1>2. session' = session /\ kind' = kind
  BY DEF TakeEntry, FetchLine
<1>3. /\ \A x : After(x)' = After(x)
      /\ \A x : Over(x)' <=> Over(x)
      /\ \A T : Closed(T)' <=> Closed(T)
  BY <1>2, StepsKept
<1>4. Fresh' = Fresh
  BY DEF Fresh
<1>5. (\A T : Closed(T) /\ Fresh \in T => Now \in T)'
  <2>1. \A T : Closed(T) /\ Fresh \in T => After(Now) \in T
    BY <1>1, Zenon DEF FirstInv, Closed
  <2>2. QED
    BY <2>1, <1>1, <1>3, <1>4, Zenon
<1>6. (\E T : /\ Fresh \in T /\ Now \in T
              /\ \A x \in T : x = Now \/ Over(x) \/ After(x) \in T)'
  <2>1. PICK S : /\ Fresh \in S /\ Now \in S
                 /\ \A x \in S : x = Now \/ Over(x) \/ After(x) \in S
    BY DEF FirstInv
  <2> DEFINE U == S \cup {After(Now)}
  <2>2. /\ Fresh \in U /\ After(Now) \in U
        /\ \A x \in U : x = After(Now) \/ Over(x) \/ After(x) \in U
    BY <2>1, Zenon
  <2> HIDE DEF U
  <2>3. /\ Fresh \in U /\ Now' \in U
        /\ \A x \in U : x = Now' \/ Over(x)' \/ After(x)' \in U
    BY <2>2, <1>1, <1>3, Zenon
  <2>4. QED
    BY <2>3, <1>4, Zenon
<1>7. QED
  BY <1>5, <1>6, Zenon DEF FirstInv

LEMMA SecondInvStep ==
    ASSUME SecondInv, TakeEntry \/ FetchLine
    PROVE  SecondInv'
<1>1. Now' = After(Now) /\ ~Over(Now)
  BY StepIsAfter
<1>2. session' = session /\ kind' = kind /\ first' = first
  BY DEF TakeEntry, FetchLine
<1>3. (\A x : Over(x)' <=> Over(x)) /\ (\A T : Closed(T)' <=> Closed(T))
  BY <1>2, StepsKept
<1>4. (\E T : Closed(T) /\ Now \in T)'
  <2>1. \E T : Closed(T) /\ After(Now) \in T
    BY <1>1, Zenon DEF SecondInv, Closed
  <2>2. QED
    BY <2>1, <1>1, <1>3, Zenon
<1>5. ASSUME NEW T, Closed(T), After(Now) \in T
      PROVE  \E x \in T : Over(x) /\ x.entries = first
  <2> DEFINE U == T \cup {Now}
  <2>1. Closed(U) /\ Now \in U
    BY <1>5, Zenon DEF Closed
  <2>2. PICK x \in U : Over(x) /\ x.entries = first
    BY <2>1, Zenon DEF SecondInv
  <2>3. x \in T
    BY <2>2, <1>1, Zenon
  <2>4. QED
    BY <2>2, <2>3, Zenon
<1>6. (\A T : Closed(T) /\ Now \in T => \E x \in T : Over(x) /\ x.entries = first)'
  BY <1>1, <1>2, <1>3, <1>5, Zenon
<1>7. QED
  BY <1>4, <1>6, Zenon DEF SecondInv

\* The second pass is at its end only where the first was.
LEMMA SecondPassSame ==
    ASSUME SecondInv, Over(Now)
    PROVE  entries = first
<1> DEFINE T == {Now}
<1>1. Closed(T) /\ Now \in T /\ \A x \in T : x = Now
  BY Zenon DEF Closed
<1> HIDE DEF T
<1>2. PICK x \in T : Over(x) /\ x.entries = first
  BY <1>1, Zenon DEF SecondInv
<1>3. Now.entries = first
  BY <1>1, <1>2, Zenon
<1>4. QED
  BY <1>3 DEF Now

LEMMA PrefixKept ==
    ASSUME NEW s, NEW t, NEW e, IsSequence(s), IsSequence(t), IsPrefix(s, t)
    PROVE  IsSequence(Append(t, e)) /\ IsPrefix(s, Append(t, e))
<1>1. PICK S : s \in Seq(S)
  BY DEF IsSequence
<1>2. PICK T : t \in Seq(T)
  BY DEF IsSequence
<1>3. Append(t, e) \in Seq(T \cup {e})
  <2>1. t \in Seq(T \cup {e})
    BY <1>2
  <2>2. QED
    BY <2>1
<1>4. /\ Len(s) \in Nat /\ Len(t) \in Nat /\ Len(s) <= Len(t)
      /\ Len(Append(t, e)) = Len(t) + 1
      /\ \A j \in 1 .. Len(t) : Append(t, e)[j] = t[j]
  BY <1>1, <1>2 DEF IsPrefix
<1>5. SubSeq(Append(t, e), 1, Len(s)) = SubSeq(t, 1, Len(s))
  BY <1>2, <1>3, <1>4
<1>6. QED
  BY <1>3, <1>4, <1>5 DEF IsPrefix, IsSequence

\* What has been delivered in the second pass begins what was delivered in the
\* first.
LEMMA SecondPassFollows ==
    ASSUME SecondInv, IsSequence(entries)
    PROVE  IsPrefix(entries, first)
<1>1. PICK T : Closed(T) /\ Now \in T
  BY Zenon DEF SecondInv
<1> DEFINE Later(x) == IsSequence(x.entries) /\ IsPrefix(entries, x.entries)
           U == {x \in T : Later(x)}
<1>2. ASSUME NEW x, Later(x)
      PROVE  Later(After(x))
  <2>1. CASE Readable(x.line)
    <3>1. After(x).entries = Append(x.entries, EntryOf(x.row, x.col, x.line))
      BY <2>1 DEF After, WithOneMore
    <3>2. QED
      BY <3>1, <1>2, PrefixKept, Zenon
  <2>2. CASE ~Readable(x.line)
    <3>1. After(x).entries = x.entries
      BY <2>2 DEF After
    <3>2. QED
      BY <3>1, <1>2, Zenon
  <2>3. QED
    BY <2>1, <2>2
<1>3. Later(Now)
  <2>1. Now.entries = entries
    BY DEF Now
  <2>2. PICK S : entries \in Seq(S)
    BY DEF IsSequence
  <2>3. IsPrefix(entries, entries)
    BY <2>2 DEF IsPrefix
  <2>4. QED
    BY <2>1, <2>3, Zenon
<1> HIDE DEF Later
<1>4. Closed(U) /\ Now \in U
  BY <1>1, <1>2, <1>3, Zenon DEF Closed
<1>5. PICK x \in U : Over(x) /\ x.entries = first
  BY <1>4, Zenon DEF SecondInv
<1>6. QED
  BY <1>5, Zenon DEF Later

LEMMA PassesInvInit == ReadInit => PassesInv
<1> SUFFICES ASSUME ReadInit PROVE PassesInv
  OBVIOUS
<1>1. stage = "choose" /\ entries = <<>>
  BY DEF ReadInit
<1>2. entries \in Seq({})
  BY <1>1
<1>3. QED
  BY <1>1, <1>2 DEF PassesInv, IsSequence

LEMMA PassesInvStep == PassesInv /\ [ReadNext]_readvars => PassesInv'
<1> SUFFICES ASSUME PassesInv, [ReadNext]_readvars PROVE PassesInv'
  OBVIOUS
<1>1. CASE TakeEntry \/ FetchLine
  <2>1. InPass /\ stage' = stage
    BY <1>1 DEF TakeEntry, FetchLine
  <2>2. IsSequence(entries)'
    <3>1. PICK S : entries \in Seq(S)
      BY DEF PassesInv, IsSequence
    <3>2. CASE TakeEntry
      <4> DEFINE e == EntryOf(row, col, line)
      <4>1. entries' = Append(entries, e)
        BY <3>2 DEF TakeEntry
      <4> HIDE DEF e
      <4>2. entries \in Seq(S \cup {e})
        BY <3>1
      <4>3. entries' \in Seq(S \cup {e})
        BY <4>1, <4>2
      <4>4. QED
        BY <4>3 DEF IsSequence
    <3>3. CASE FetchLine
      BY <3>1, <3>3 DEF FetchLine, IsSequence
    <3>4. QED
      BY <1>1, <3>2, <3>3
  <2>3. stage = "first" => FirstInv'
    BY <1>1, FirstInvStep DEF PassesInv
  <2>4. stage = "second" => SecondInv'
    BY <1>1, SecondInvStep DEF PassesInv
  <2>5. QED
    BY <2>1, <2>2, <2>3, <2>4 DEF PassesInv, InPass
<1>2. CASE Size \/ FirstPassOver
  <2>1. CASE StartPass /\ stage' \in {"first", "second", "rejected"}
    <3>2. FirstInv'
      BY <2>1, FirstInvBegins
    <3>3. stage' = "second" => SecondInv'
      <4> SUFFICES ASSUME stage' = "second" PROVE SecondInv'
        OBVIOUS
      <4>1. FirstPassOver
        BY <1>2 DEF Size
      <4>2. /\ FirstInv /\ Over(Now) /\ first' = entries
            /\ session' = session /\ kind' = kind
        BY <4>1 DEF FirstPassOver, PassesInv, AtEnd, Over, Now
      <4>3. QED
        BY <2>1, <4>2, SecondInvBegins
    <3>4. IsSequence(entries)'
      <4>1. entries' = <<>>
        BY <2>1 DEF StartPass
      <4>2. entries' \in Seq({})
        BY <4>1
      <4>3. QED
        BY <4>2 DEF IsSequence
    <3>5. QED
      BY <2>1, <3>2, <3>3, <3>4 DEF PassesInv
  <2>2. CASE entries' = entries /\ stage' \in {"undefined", "rejected"}
    BY <2>2 DEF PassesInv, IsSequence
  <2>3. QED
    BY <1>2, <2>1, <2>2 DEF Size, FirstPassOver, iterator
<1>3. CASE SecondPassOver
  <2>1. /\ entries' = entries /\ first' = first
        /\ stage = "second" /\ stage' \in {"loaded", "rejected"}
        /\ Over(Now)
    BY <1>3 DEF SecondPassOver, iterator, AtEnd, Over, Now
  <2>2. entries = first
    BY <2>1, SecondPassSame DEF PassesInv
  <2>3. QED
    BY <2>1, <2>2 DEF PassesInv, IsSequence
<1>4. CASE Choose \/ DetectHeader \/ CheckLine \/ NoMoreLines
  <2>1. entries' = entries /\ stage' \notin {"first", "second", "loaded"}
    BY <1>4 DEF Choose, DetectHeader, CheckLine, NoMoreLines, iterator
  <2>2. QED
    BY <2>1 DEF PassesInv, IsSequence
<1>5. CASE UNCHANGED readvars
  <2>1. /\ session' = session /\ kind' = kind /\ stage' = stage
        /\ entries' = entries /\ first' = first /\ Now' = Now
    BY <1>5 DEF readvars, Now
  <2>2. /\ \A x : After(x)' = After(x)
        /\ \A x : Over(x)' <=> Over(x)
        /\ \A T : Closed(T)' <=> Closed(T)
    BY <2>1, StepsKept
  <2>3. Fresh' = Fresh
    BY DEF Fresh
  <2>4. (FirstInv => FirstInv') /\ (SecondInv => SecondInv')
    BY <2>1, <2>2, <2>3, Zenon DEF FirstInv, SecondInv
  <2>5. QED
    BY <2>1, <2>4 DEF PassesInv, IsSequence
<1>6. QED
  BY <1>1, <1>2, <1>3, <1>4, <1>5 DEF ReadNext

\* The two passes are over the same entries, whatever is in the file and
\* wherever the detection of the format has left the stream.
THEOREM PassesDeliverTheSame == ReadSpec => []PassesAgree
<1>1. PassesInv => PassesAgree
  BY SecondPassFollows DEF PassesInv, PassesAgree
<1>2. QED
  BY <1>1, PassesInvInit, PassesInvStep, PTL DEF ReadSpec

\* Together: what a reader is at any time.
THEOREM ReadersAreSafe == ReadSpec => []Inv
BY ReadersTypeCorrect, PassesDeliverTheSame, PTL DEF Inv

----------------------------------------------------------------------------
\* Rows are lines.

LEMMA RestOfRest ==
    ASSUME NEW tokens \in Seq(Tokens), NEW m \in Nat, NEW d \in Nat,
           m + d <= Len(tokens)
    PROVE  LET rest == SubSeq(tokens, m + 1, Len(tokens)) IN
           SubSeq(rest, d + 1, Len(rest)) = SubSeq(tokens, m + d + 1, Len(tokens))
<1> DEFINE rest == SubSeq(tokens, m + 1, Len(tokens))
           left == SubSeq(rest, d + 1, Len(rest))
           right == SubSeq(tokens, m + d + 1, Len(tokens))
           n == Len(tokens)
<1>1. /\ n \in Nat /\ rest \in Seq(Tokens) /\ Len(rest) = n - m
      /\ \A j \in 1 .. n - m : rest[j] = tokens[m + j]
  OBVIOUS
<1>2. /\ right \in Seq(Tokens) /\ Len(right) = n - m - d
      /\ \A j \in 1 .. n - m - d : right[j] = tokens[m + d + j]
  OBVIOUS
<1> HIDE DEF rest, n
<1>3. /\ left \in Seq(Tokens) /\ Len(left) = n - m - d
      /\ \A j \in 1 .. n - m - d : left[j] = rest[d + j]
  BY <1>1 DEF n
<1> HIDE DEF left, right
<1>4. \A j \in 1 .. n - m - d : left[j] = right[j]
  <2>1. TAKE j \in 1 .. n - m - d
  <2>2. d + j \in 1 .. n - m /\ m + (d + j) = m + d + j
    BY <1>1 DEF n
  <2>3. QED
    BY <1>1, <1>2, <1>3, <2>2
<1>5. left = right
  BY <1>1, <1>2, <1>3, <1>4
<1>6. QED
  BY <1>5 DEF left, right, rest, n

LEMMA OneBack ==
    ASSUME NEW x \in Nat, NEW y, y = x - 1
    PROVE  y + 1 = x
OBVIOUS

LEMMA DenseEntry ==
    ASSUME NEW e, NEW j, NEW tokens,
           IsDense(kind), e.col = j - 1, e.val = tokens[j]
    PROVE  PlacedAs(e, j, tokens)
BY DEF PlacedAs, IsDense

\* The next entry of a line of which n are taken is placed as the next.
LEMMA EntryPlaced ==
    ASSUME kind \in Kinds, kind \notin Flat, kind \notin {"none", "cluto"},
           NEW tokens \in Seq(Tokens), NEW n \in Nat,
           Width * n <= Len(NumbersOf(tokens)),
           NEW rest, rest = SubSeq(tokens, Width * n + 1, Len(tokens)),
           Readable(rest), NEW r \in Nat, NEW j \in Int, IsDense(kind) => j = n - 1
    PROVE  /\ PlacedAs(EntryOf(r, j, rest), n + 1, NumbersOf(tokens))
           /\ Width * (n + 1) <= Len(NumbersOf(tokens))
           /\ SubSeq(rest, Width + 1, Len(rest))
                = SubSeq(tokens, Width * (n + 1) + 1, Len(tokens))
<1> DEFINE w == Width
           N == NumbersOf(tokens)
           len == Len(N)
<1>1. w \in {1, 2} /\ (IsSparse(kind) => w = 2) /\ (~IsSparse(kind) => w = 1)
  BY WidthType, Zenon
<1>2. /\ len \in 0 .. Len(tokens) /\ Len(tokens) \in Nat
      /\ \A q \in 1 .. len : N[q] = tokens[q] /\ tokens[q] \in Nat
  BY NumbersAreAhead
<1>3. w * n <= len /\ w <= Len(NumbersOf(rest))
  BY DEF Readable
<1>0. rest = SubSeq(tokens, w * n + 1, Len(tokens))
  OBVIOUS
<1> HIDE DEF w, N
<1>4. w * n \in 0 .. len
  <2>1. CASE w = 1
    BY <2>1, <1>2, <1>3
  <2>2. CASE w = 2
    BY <2>2, <1>2, <1>3
  <2>3. QED
    BY <1>1, <2>1, <2>2
<1> DEFINE m == w * n
<1>5. /\ Len(NumbersOf(rest)) = len - m
      /\ \A q \in 1 .. len - m : rest[q] = tokens[m + q]
  <2>1. m \in 0 .. Len(NumbersOf(tokens)) /\ rest = SubSeq(tokens, m + 1, Len(tokens))
    BY <1>4, <1>0, Zenon DEF N
  <2> HIDE DEF m
  <2>2. Len(NumbersOf(rest)) = Len(NumbersOf(tokens)) - m
    BY <2>1, NumbersOfRest, Zenon
  <2> HIDE DEF len
  <2>3. \A q \in 1 .. len - m : rest[q] = tokens[m + q]
    <3>1. TAKE q \in 1 .. len - m
    <3>2. m \in Nat /\ q \in 1 .. Len(tokens) - m
      BY <1>2, <1>4 DEF m
    <3>3. SubSeq(tokens, m + 1, Len(tokens))[q] = tokens[m + q]
      BY <3>2, RestAt, Zenon
    <3>4. QED
      BY <3>3, <2>1, Zenon
  <2>4. QED
    BY <2>2, <2>3, Zenon DEF N, len
<1>6. m \in Nat /\ m + w <= len /\ len \in Nat
  <2> HIDE DEF m, len
  <2>1. m \in 0 .. len /\ w <= len - m /\ w \in {1, 2}
    BY <1>1, <1>3, <1>4, <1>5 DEF m
  <2>2. QED
    BY <2>1, <1>2
<1>7. w * (n + 1) = m + w
  <2>1. CASE w = 1
    BY <2>1
  <2>2. CASE w = 2
    BY <2>2
  <2>3. QED
    BY <1>1, <2>1, <2>2
<1> HIDE DEF len, m
<1>8. SubSeq(rest, w + 1, Len(rest)) = SubSeq(tokens, m + w + 1, Len(tokens))
  <2>1. m \in Nat /\ w \in Nat /\ m + w <= Len(tokens)
    BY <1>1, <1>2, <1>6
  <2>2. rest = SubSeq(tokens, m + 1, Len(tokens))
    BY <1>0, Zenon DEF m
  <2>3. SubSeq(SubSeq(tokens, m + 1, Len(tokens)), w + 1, Len(SubSeq(tokens, m + 1, Len(tokens))))
          = SubSeq(tokens, m + w + 1, Len(tokens))
    BY <2>1, RestOfRest, Zenon
  <2>4. QED
    BY <2>2, <2>3, Zenon
<1>9. /\ rest[1] = N[m + 1] /\ rest[1] \in Nat
      /\ w = 2 => rest[2] = N[m + 2] /\ rest[2] \in Nat
  <2>1. /\ 1 \in 1 .. len - m /\ m + 1 \in 1 .. len
        /\ w = 2 => 2 \in 1 .. len - m /\ m + 2 \in 1 .. len
    BY <1>1, <1>6
  <2>2. QED
    BY <1>2, <1>5, <2>1, Zenon DEF len
<1> DEFINE e == EntryOf(r, j, rest)
<1> HIDE DEF e
<1>10. PlacedAs(e, n + 1, N)
  <2>1. CASE IsSparse(kind)
    <3>1. w = 2 /\ m = 2 * n
      BY <1>1, <2>1 DEF m
    <3>2. e = [row |-> r, col |-> rest[1] - 1, val |-> rest[2]]
      BY <2>1 DEF e, EntryOf, Entry, IsSparse, Flat
    <3>3. 2 * (n + 1) - 1 = m + 1 /\ 2 * (n + 1) = m + 2
      BY <3>1
    <3>4. ~IsDense(kind) /\ kind # "graph"
      BY <2>1 DEF IsSparse, IsDense
    <3>5. e.col + 1 = N[m + 1] /\ e.val = N[m + 2]
      <4>1. e.col = rest[1] - 1 /\ e.val = rest[2]
        BY <3>2
      <4>2. e.col + 1 = rest[1]
        BY <1>9, <4>1, OneBack, Zenon
      <4>3. QED
        BY <1>9, <3>1, <4>1, <4>2, Zenon
    <3>6. e.col + 1 = N[2 * (n + 1) - 1] /\ e.val = N[2 * (n + 1)]
      BY <3>3, <3>5
    <3>7. QED
      BY <3>4, <3>6, Zenon DEF PlacedAs
  <2>2. CASE kind = "graph"
    <3>1. w = 1 /\ m = n
      BY <1>1, <2>2 DEF IsSparse, m
    <3>2. e = [row |-> r, col |-> rest[1] - 1, val |-> 1]
      BY <2>2 DEF e, EntryOf, Entry, Flat
    <3>3. ~IsDense(kind)
      BY <2>2 DEF IsDense
    <3>4. e.col + 1 = N[n + 1] /\ e.val = 1
      <4>1. e.col = rest[1] - 1 /\ e.val = 1
        BY <3>2
      <4>2. e.col + 1 = rest[1]
        BY <1>9, <4>1, OneBack, Zenon
      <4>3. QED
        BY <1>9, <3>1, <4>1, <4>2, Zenon
    <3>5. QED
      BY <2>2, <3>3, <3>4, Zenon DEF PlacedAs
  <2>3. CASE ~IsSparse(kind) /\ kind # "graph"
    <3>1. w = 1 /\ m = n
      BY <1>1, <2>3 DEF m
    <3>2. e = [row |-> r, col |-> j + 1, val |-> rest[1]]
      BY <2>3 DEF e, EntryOf, Entry, Flat, IsSparse
    <3>3. IsDense(kind)
      BY <2>3 DEF IsDense, IsSparse, Kinds, Cluto, Flat
    <3> DEFINE k == n + 1
    <3>4. e.col = k - 1 /\ e.val = N[k]
      BY <1>9, <3>1, <3>2, <3>3
    <3> HIDE DEF k
    <3>5. PlacedAs(e, k, N)
      BY <3>3, <3>4, DenseEntry, Zenon
    <3>6. QED
      BY <3>5, Zenon DEF k
  <2>4. QED
    BY <2>1, <2>2, <2>3, Zenon
<1>11. QED
  BY <1>6, <1>7, <1>8, <1>10, Zenon DEF e, w, N, len, m

\* A line that cannot be read further has given all its entries.
LEMMA LineDone ==
    ASSUME kind \notin Flat,
           NEW tokens \in Seq(Tokens), NEW n \in Nat,
           Width * n <= Len(NumbersOf(tokens)),
           NEW rest, rest = SubSeq(tokens, Width * n + 1, Len(tokens)),
           ~Readable(rest)
    PROVE  Len(NumbersOf(tokens)) \div Width = n
<1> DEFINE w == Width
           len == Len(NumbersOf(tokens))
           m == w * n
<1>1. w \in {1, 2}
  BY WidthType, Zenon
<1>2. len \in 0 .. Len(tokens) /\ Len(tokens) \in Nat
  BY NumbersAreAhead
<1>3. m <= len /\ ~(Len(NumbersOf(rest)) >= w)
  BY DEF Readable
<1>4. len \in Nat /\ m \in Nat /\ (w = 1 => m = n) /\ (w = 2 => m = 2 * n)
  BY <1>1, <1>2
<1>5. Len(NumbersOf(rest)) = len - m
  <2>1. m \in 0 .. Len(NumbersOf(tokens)) /\ rest = SubSeq(tokens, m + 1, Len(tokens))
    BY <1>3, <1>4
  <2> HIDE DEF m
  <2>2. QED
    BY <2>1, NumbersOfRest, Zenon
<1> HIDE DEF w, len, m
<1>6. len \div w = n
  <2>1. CASE w = 1
    BY <1>2, <1>3, <1>4, <1>5, <2>1
  <2>2. CASE w = 2
    <3>1. len = 2 * n \/ len = 2 * n + 1
      BY <1>2, <1>3, <1>4, <1>5, <2>2
    <3>2. len \div 2 = n
      BY <3>1
    <3>3. QED
      BY <2>2, <3>2
  <2>3. QED
    BY <1>1, <2>1, <2>2
<1>7. QED
  BY <1>6 DEF w, len

LEMMA InRows ==
    ASSUME ReaderInv, InPass, kind \notin Flat
    PROVE  /\ kind \in Kinds /\ kind \notin {"none", "cluto"}
           /\ Seen = Lines /\ Len(Lines) \in Nat
           /\ \A j \in 1 .. Len(Lines) : Lines[j] \in Seq(Tokens)
           /\ at \in 1 .. Len(Lines)
           /\ row \in Nat /\ (at > 1 => at = row + 2) /\ (at = 1 => row = 0)
           /\ col \in Int
           /\ DOMAIN entries = 1 .. Len(entries) /\ Len(entries) \in Nat
           /\ \A k \in 1 .. Len(entries) : entries[k].row \in Nat /\ entries[k].row <= row
<1>1. /\ session \in Sessions /\ kind \in Kinds /\ kind \notin {"none", "cluto"}
      /\ at \in 0 .. Len(Seen) /\ at >= 1 /\ col \in Int
      /\ row = (IF at > 1 THEN at - 2 ELSE 0)
      /\ entries \in Seq(RowEntry)
      /\ \A k \in 1 .. Len(entries) : entries[k].row <= row
  BY DEF ReaderInv, ReadTypeOK, RowEntry, InPass
<1>2. Seen = Lines /\ Lines \in Seq(Seq(Tokens))
  BY <1>1, LinesType, SeenOfSession, LinesOfSession
<1> DEFINE n == Len(Lines)
<1>3. n \in Nat /\ (\A j \in 1 .. n : Lines[j] \in Seq(Tokens)) /\ at \in 0 .. n
  BY <1>1, <1>2
<1> HIDE DEF n
<1>4. at \in 1 .. n /\ row \in Nat /\ (at > 1 => at = row + 2) /\ (at = 1 => row = 0)
  BY <1>1, <1>3
<1>5. /\ DOMAIN entries = 1 .. Len(entries) /\ Len(entries) \in Nat
      /\ \A k \in 1 .. Len(entries) : entries[k] \in RowEntry
  BY <1>1
<1>6. \A e \in RowEntry : e.row \in Nat
  BY DEF RowEntry
<1>7. \A k \in 1 .. Len(entries) : entries[k].row \in Nat /\ entries[k].row <= row
  BY <1>1, <1>5, <1>6
<1>8. QED
  BY <1>1, <1>2, <1>3, <1>4, <1>5, <1>7, Zenon DEF n

\* All that has been delivered is before the next row.
LEMMA AllBefore ==
    ASSUME ReaderInv, InPass, kind \notin Flat, NEW r \in Nat, r > row
    PROVE  EarlierRows(r) = 1 .. Len(entries) /\ Before(r) = Len(entries)
<1>1. /\ row \in Nat /\ DOMAIN entries = 1 .. Len(entries) /\ Len(entries) \in Nat
      /\ \A k \in 1 .. Len(entries) : entries[k].row \in Nat /\ entries[k].row <= row
  BY InRows
<1>2. EarlierRows(r) = 1 .. Len(entries)
  BY <1>1 DEF EarlierRows
<1> DEFINE n == Len(entries)
<1>3. Cardinality(1 .. n) = n
  <2> HIDE DEF n
  <2>1. n \in Nat
    BY <1>1 DEF n
  <2>2. Cardinality(1 .. n) = IF 1 > n THEN 0 ELSE n - 1 + 1
    BY <2>1, FS_Interval
  <2>3. QED
    BY <2>1, <2>2
<1>4. QED
  BY <1>2, <1>3 DEF Before, EarlierRows

LEMMA RowDone ==
    ASSUME ReaderInv, InPass, kind \notin Flat, at > 1, RowsSoFar, ~Readable(line)
    PROVE  Len(entries) = Before(row) + EntriesOn(row)
<1>1. /\ row \in Nat /\ at = row + 2 /\ Lines[at] \in Seq(Tokens) /\ Len(entries) \in Nat
  BY InRows
<1>2. /\ Before(row) \in 0 .. Len(entries)
      /\ Width * Taken <= Len(NumbersOf(Lines[at]))
      /\ line = SubSeq(Lines[at], Width * Taken + 1, Len(Lines[at]))
  BY <1>1 DEF RowsSoFar, RowsUpTo
<1>3. Taken \in Nat /\ Len(entries) = Before(row) + Taken
  BY <1>1, <1>2 DEF Taken
<1>4. Len(NumbersOf(Lines[at])) \div Width = Taken
  BY <1>1, <1>2, <1>3, LineDone
<1>5. EntriesOn(row) = Taken
  BY <1>1, <1>4 DEF EntriesOn
<1>6. QED
  BY <1>3, <1>5

\* With the present line read to its end, the rows up to the next stand.
LEMMA NextRowStands ==
    ASSUME ReaderInv, InPass, kind \notin Flat, at > 1, RowsSoFar, ~Readable(line)
    PROVE  RowsUpTo(row + 1) /\ Before(row + 1) = Len(entries)
<1>1. row \in Nat /\ Len(entries) \in Nat
  BY InRows
<1> DEFINE next == row + 1
<1>2. next \in Nat /\ next > row
  BY <1>1
<1>3. EarlierRows(next) = 1 .. Len(entries) /\ Before(next) = Len(entries)
  <2> HIDE DEF next
  <2>1. QED
    BY <1>2, AllBefore
<1>4. Len(entries) = Before(row) + EntriesOn(row)
  BY RowDone
<1>5. RowsUpTo(row)
  BY Zenon DEF RowsSoFar
<1>6. \A j \in 0 .. next : Before(j) \in 0 .. Len(entries) /\ EarlierRows(j) = 1 .. Before(j)
  <2>1. TAKE j \in 0 .. next
  <2>2. CASE j = next
    BY <1>1, <1>3, <2>2
  <2>3. CASE j # next
    <3>1. j \in 0 .. row
      BY <1>1, <2>3
    <3>2. QED
      BY <1>5, <3>1, Zenon DEF RowsUpTo
  <2>4. QED
    BY <2>2, <2>3
<1>7. \A j \in 0 .. row : Before(j + 1) = Before(j) + EntriesOn(j)
  <2>1. TAKE j \in 0 .. row
  <2>2. CASE j = row
    BY <1>3, <1>4, <2>2
  <2>3. CASE j # row
    <3>1. j \in 0 .. row - 1
      BY <1>1, <2>3
    <3>2. QED
      BY <1>5, <3>1, Zenon DEF RowsUpTo
  <2>4. QED
    BY <2>2, <2>3
<1>8. 0 .. next - 1 = 0 .. row
  BY <1>1
<1>9. RowsUpTo(next)
  BY <1>6, <1>7, <1>8, Zenon DEF RowsUpTo
<1>10. QED
  BY <1>3, <1>9

\* What stays as long as the file and the entries do.
LEMMA EntriesKept ==
    ASSUME session' = session, kind' = kind, entries' = entries
    PROVE  /\ \A r : RowsUpTo(r)' <=> RowsUpTo(r)
           /\ EntriesPlaced' <=> EntriesPlaced
           /\ \A r : Before(r)' = Before(r)
<1>1. Lines' = Lines /\ Width' = Width
  BY FileKept
<1>2. /\ \A r : EarlierRows(r)' = EarlierRows(r) /\ Before(r)' = Before(r)
      /\ \A r : EntriesOn(r)' = EntriesOn(r)
      /\ \A e, j, tokens : PlacedAs(e, j, tokens)' = PlacedAs(e, j, tokens)
  BY <1>1, Zenon DEF EarlierRows, Before, EntriesOn, PlacedAs
<1>3. \A r : RowsUpTo(r)' <=> RowsUpTo(r)
  BY <1>2, Zenon DEF RowsUpTo
<1>4. EntriesPlaced' <=> EntriesPlaced
  BY <1>1, <1>2, Zenon DEF EntriesPlaced
<1>5. QED
  BY <1>2, <1>3, <1>4

LEMMA LinesInvFetch ==
    ASSUME ReaderInv, LinesInv, FetchLine
    PROVE  LinesInv'
<1>1. /\ InPass /\ ~Readable(line) /\ line' = Seen[at + 1] /\ at' = at + 1
      /\ row' = (IF start THEN row ELSE row + 1) /\ at < Len(Seen)
      /\ col' = -1 /\ UNCHANGED <<session, stage, kind, entries, first>>
  BY DEF FetchLine, RowOf
<1>2. SUFFICES ASSUME kind \notin Flat PROVE RowsSoFar' /\ at' > 1
  BY <1>1 DEF LinesInv, InPass
<1>3. /\ Seen = Lines /\ Len(Lines) \in Nat /\ at \in 1 .. Len(Lines)
      /\ \A j \in 1 .. Len(Lines) : Lines[j] \in Seq(Tokens)
      /\ row \in Nat /\ (at > 1 => at = row + 2) /\ (at = 1 => row = 0)
      /\ start <=> at = 1
      /\ Len(entries) \in Nat
  BY <1>1, <1>2, InRows DEF ReaderInv
<1>4. at' > 1 /\ line' = Lines[at'] /\ line' \in Seq(Tokens)
  <2>1. at + 1 \in 1 .. Len(Lines)
    BY <1>1, <1>3
  <2>2. QED
    BY <1>1, <1>3, <2>1
<1>5. Lines' = Lines /\ Width' = Width
  BY <1>1, FileKept
<1>6. RowsUpTo(row') /\ Before(row') = Len(entries) /\ EntriesPlaced
  <2>1. CASE at = 1
    <3>1. entries = <<>> /\ row' = 0
      BY <1>1, <1>2, <1>3, <2>1 DEF LinesInv
    <3>2. \A j : EarlierRows(j) = {}
      BY <3>1 DEF EarlierRows
    <3>3. \A j : Before(j) = 0
      BY <3>2, FS_EmptySet, Zenon DEF Before, EarlierRows
    <3>4. Len(entries) = 0 /\ DOMAIN entries = {}
      BY <3>1
    <3>5. RowsUpTo(0)
      BY <3>2, <3>3, <3>4 DEF RowsUpTo
    <3>6. EntriesPlaced
      BY <3>4 DEF EntriesPlaced
    <3>7. QED
      BY <3>1, <3>3, <3>4, <3>5, <3>6
  <2>2. CASE at # 1
    <3>1. at > 1 /\ row' = row + 1
      BY <1>1, <1>3, <2>2
    <3>2. RowsSoFar
      BY <1>1, <1>2, <3>1 DEF LinesInv
    <3>3. EntriesPlaced
      BY <3>2 DEF RowsSoFar
    <3>4. QED
      BY <1>1, <1>2, <3>1, <3>2, <3>3, NextRowStands
  <2>3. QED
    BY <2>1, <2>2
<1>7. RowsUpTo(row)' /\ Before(row)' = Len(entries') /\ EntriesPlaced'
  <2>1. /\ \A r : RowsUpTo(r)' <=> RowsUpTo(r)
        /\ EntriesPlaced' <=> EntriesPlaced
        /\ \A r : Before(r)' = Before(r)
    BY <1>1, EntriesKept
  <2>2. QED
    BY <1>1, <1>6, <2>1
<1>8. Taken' = 0
  BY <1>1, <1>3, <1>7 DEF Taken
<1>9. Width' * Taken' = 0
  <2> DEFINE w == Width
             t == Taken
  <2>1. w' \in {1, 2} /\ t' = 0
    BY <1>2, <1>5, <1>8, WidthType
  <2>2. w' * 0 = 0
    <3>1. CASE w' = 1
      BY <3>1
    <3>2. CASE w' = 2
      BY <3>2
    <3>3. QED
      BY <2>1, <3>1, <3>2
  <2>3. QED
    BY <2>1, <2>2, Zenon
<1>10. Width' * Taken' <= Len(NumbersOf(line'))
  <2>1. Len(NumbersOf(line')) \in 0 .. Len(line') /\ Len(line') \in Nat
    BY <1>4, NumbersAreAhead
  <2>2. QED
    BY <1>9, <2>1
<1>11. line' = SubSeq(line', Width' * Taken' + 1, Len(line'))
  BY <1>4, <1>9
<1>12. col' = Taken' - 1
  BY <1>1, <1>8
<1>13. RowsSoFar'
  BY <1>4, <1>5, <1>7, <1>10, <1>11, <1>12, Zenon DEF RowsSoFar
<1>14. QED
  BY <1>4, <1>13

\* Nothing can be taken from an empty line.
LEMMA EmptyUnreadable ==
    ASSUME kind \notin Flat
    PROVE  ~Readable(<<>>)
<1>1. <<>> \in Seq(Tokens) /\ Len(<<>>) = 0
  OBVIOUS
<1>2. Len(NumbersOf(<<>>)) \in 0 .. 0
  BY <1>1, NumbersAreAhead
<1>3. Width \in {1, 2}
  BY WidthType
<1>4. QED
  BY <1>2, <1>3 DEF Readable

\* An entry of the last row leaves the rows before it where they are.
LEMMA RowsUnmoved ==
    ASSUME session' = session, kind' = kind, NEW n \in Nat, NEW r \in Nat,
           DOMAIN entries = 1 .. n, Len(entries) = n,
           DOMAIN entries' = 1 .. n + 1, Len(entries') = n + 1,
           \A k \in 1 .. n : entries'[k] = entries[k],
           entries'[n + 1].row = r, RowsUpTo(r)
    PROVE  /\ \A j \in 0 .. r : Before(j)' = Before(j)
           /\ RowsUpTo(r)'
<1>1. ASSUME NEW j \in 0 .. r PROVE EarlierRows(j)' = EarlierRows(j)
  <2>1. ~(entries'[n + 1].row < j)
    BY <1>1
  <2>2. 1 .. n + 1 = 1 .. n \cup {n + 1}
    OBVIOUS
  <2>3. {k \in 1 .. n + 1 : entries'[k].row < j} = {k \in 1 .. n : entries[k].row < j}
    BY <2>1, <2>2, Zenon
  <2>4. QED
    BY <2>3, Zenon DEF EarlierRows
<1>2. \A j \in 0 .. r : Before(j)' = Before(j)
  <2>1. \A j : Before(j) = Cardinality(EarlierRows(j)) /\ Before(j)' = Cardinality(EarlierRows(j)')
    BY Zenon DEF Before, EarlierRows
  <2>2. QED
    BY <1>1, <2>1, Zenon
<1>3. \A j : EntriesOn(j)' = EntriesOn(j)
  BY FileKept, Zenon DEF EntriesOn
<1>4. \A j \in 0 .. r : (Before(j) \in 0 .. Len(entries) /\ EarlierRows(j) = 1 .. Before(j))'
  <2>1. TAKE j \in 0 .. r
  <2>2. Before(j) \in 0 .. n /\ EarlierRows(j) = 1 .. Before(j)
    BY Zenon DEF RowsUpTo
  <2>3. Before(j)' = Before(j) /\ EarlierRows(j)' = EarlierRows(j)
    BY <1>1, <1>2, Zenon
  <2>4. Before(j) \in 0 .. n + 1
    BY <2>2
  <2>5. QED
    BY <2>2, <2>3, <2>4, Zenon
<1>5. \A j \in 0 .. r - 1 : (Before(j + 1) = Before(j) + EntriesOn(j))'
  <2>1. TAKE j \in 0 .. r - 1
  <2>2. j \in 0 .. r /\ j + 1 \in 0 .. r
    OBVIOUS
  <2>3. Before(j + 1) = Before(j) + EntriesOn(j)
    BY <2>1, Zenon DEF RowsUpTo
  <2>4. QED
    BY <1>2, <1>3, <2>2, <2>3, Zenon
<1>6. QED
  BY <1>2, <1>4, <1>5, Zenon DEF RowsUpTo

LEMMA LinesInvTake ==
    ASSUME ReaderInv, LinesInv, TakeEntry
    PROVE  LinesInv'
<1> DEFINE e == EntryOf(row, col, line)
           n == Len(entries)
           tokens == Lines[at]
           t == Taken
<1>1. /\ InPass /\ Readable(line)
      /\ entries' = Append(entries, e) /\ col' = entries'[Len(entries')].col
      /\ line' = SubSeq(line, Width + 1, Len(line))
      /\ UNCHANGED <<session, stage, kind, at, start, row, first>>
  BY DEF TakeEntry
<1>2. SUFFICES ASSUME kind \notin Flat PROVE at' > 1 /\ RowsSoFar'
  BY <1>1 DEF LinesInv, InPass
<1>3. /\ kind \in Kinds /\ kind \notin {"none", "cluto"}
      /\ \A j \in 1 .. Len(Lines) : Lines[j] \in Seq(Tokens)
      /\ at \in 1 .. Len(Lines) /\ row \in Nat /\ (at > 1 => at = row + 2)
      /\ col \in Int /\ DOMAIN entries = 1 .. n /\ n \in Nat
      /\ \A k \in 1 .. n : entries[k].row \in Nat /\ entries[k].row <= row
      /\ Len(Lines) \in Nat
  BY <1>1, <1>2, InRows
<1>4. at > 1
  <2>1. SUFFICES ASSUME at = 1 PROVE FALSE
    BY <1>3
  <2>2. line = <<>>
    BY <1>1, <1>2, <2>1 DEF LinesInv
  <2>3. QED
    BY <1>1, <1>2, <2>2, EmptyUnreadable
<1>5. RowsSoFar /\ at = row + 2 /\ tokens \in Seq(Tokens)
  BY <1>1, <1>2, <1>3, <1>4 DEF LinesInv
<1>6. /\ RowsUpTo(row) /\ EntriesPlaced
      /\ Width * t <= Len(NumbersOf(tokens))
      /\ line = SubSeq(tokens, Width * t + 1, Len(tokens))
      /\ IsDense(kind) => col = t - 1
  BY <1>5, Zenon DEF RowsSoFar
<1>7. Before(row) \in 0 .. n
  BY <1>3, <1>6 DEF RowsUpTo
<1>8. t \in Nat /\ t = n - Before(row)
  BY <1>3, <1>7 DEF Taken
<1> HIDE DEF t, tokens, e
<1>9. /\ PlacedAs(e, t + 1, NumbersOf(tokens))
      /\ Width * (t + 1) <= Len(NumbersOf(tokens))
      /\ line' = SubSeq(tokens, Width * (t + 1) + 1, Len(tokens))
  <2>1. /\ kind \in Kinds /\ kind \notin Flat /\ kind \notin {"none", "cluto"}
        /\ tokens \in Seq(Tokens) /\ t \in Nat /\ row \in Nat /\ col \in Int
        /\ Readable(line) /\ line' = SubSeq(line, Width + 1, Len(line))
    BY <1>1, <1>2, <1>3, <1>5, <1>8, Zenon
  <2>2. /\ PlacedAs(EntryOf(row, col, line), t + 1, NumbersOf(tokens))
        /\ Width * (t + 1) <= Len(NumbersOf(tokens))
        /\ SubSeq(line, Width + 1, Len(line))
             = SubSeq(tokens, Width * (t + 1) + 1, Len(tokens))
    BY <2>1, <1>6, EntryPlaced, Zenon
  <2>3. QED
    BY <2>1, <2>2, Zenon DEF e
<1>10. e.row = row /\ (IsDense(kind) => e.col = t)
  <2>1. e.row = row
    BY <1>1, <1>2 DEF e, EntryOf, Entry, Flat
  <2>2. ASSUME IsDense(kind) PROVE e.col = t
    <3>1. e = [row |-> row, col |-> col + 1, val |-> line[1]]
      BY <2>2 DEF e, EntryOf, Entry, IsDense, Flat
    <3>2. e.col = col + 1 /\ col = t - 1
      BY <1>6, <2>2, <3>1
    <3>3. QED
      BY <1>8, <3>2
  <2>3. QED
    BY <2>1, <2>2
<1>11. /\ DOMAIN entries' = 1 .. n + 1 /\ Len(entries') = n + 1
       /\ \A k \in 1 .. n : entries'[k] = entries[k]
       /\ entries'[n + 1] = e
  <2>1. entries \in Seq(RowEntry)
    BY <1>2 DEF ReaderInv, ReadTypeOK, RowEntry
  <2>2. entries \in Seq(RowEntry \cup {e})
    BY <2>1
  <2>3. QED
    BY <1>1, <2>2
<1> HIDE DEF n
<1>12. (\A j \in 0 .. row : Before(j)' = Before(j)) /\ RowsUpTo(row)'
  <2>1. session' = session /\ kind' = kind /\ row' = row
    BY <1>1
  <2>2. DOMAIN entries = 1 .. n /\ Len(entries) = n
    BY <1>3, Zenon DEF n
  <2>3. \A r : RowsUpTo(r)' = RowsUpTo(r)'
    OBVIOUS
  <2>4. entries'[n + 1].row = row
    BY <1>10, <1>11
  <2>5. ASSUME NEW r \in Nat, r = row
        PROVE  (\A j \in 0 .. r : Before(j)' = Before(j)) /\ RowsUpTo(r)'
    <3>1. entries'[n + 1].row = r /\ RowsUpTo(r)
      BY <1>6, <2>4, <2>5, Zenon
    <3>2. n \in Nat
      BY <1>3
    <3>3. QED
      BY <1>11, <2>1, <2>2, <3>1, <3>2, RowsUnmoved, Zenon
  <2>6. QED
    BY <1>3, <2>1, <2>5, Zenon DEF RowsUpTo
<1>13. Lines' = Lines /\ Width' = Width /\ tokens' = tokens
  BY <1>1, FileKept DEF tokens
<1>14. Taken' = t + 1
  <2>1. Before(row)' = Before(row)
    <3>1. row \in 0 .. row
      BY <1>3
    <3>2. QED
      BY <1>1, <1>12, <3>1, Zenon DEF Before
  <2>2. Taken' = (n + 1) - Before(row)
    BY <1>11, <2>1, Zenon DEF Taken
  <2>3. QED
    BY <1>3, <1>7, <1>8, <2>2
<1>15. EntriesPlaced'
  <2>1. SUFFICES ASSUME NEW k \in 1 .. n + 1, NEW r, r = entries'[k].row
                 PROVE  PlacedAs(entries'[k], k - Before(r)', NumbersOf(Lines[r + 2]))
    <3>1. \A x, j, y : PlacedAs(x, j, y)' <=> PlacedAs(x, j, y)
      BY <1>1, Zenon DEF PlacedAs
    <3>2. QED
      BY <1>11, <1>13, <3>1, Zenon DEF EntriesPlaced
  <2>2. CASE k = n + 1
    <3>1. entries'[k] = e /\ r = row /\ Lines[r + 2] = tokens
      BY <1>5, <1>10, <1>11, <2>1, <2>2 DEF tokens
    <3>2. r \in 0 .. row
      BY <1>3, <3>1
    <3>3. Before(r)' = Before(r) /\ Before(r) = Before(row)
      BY <1>12, <3>1, <3>2, Zenon
    <3>4. k - Before(r)' = t + 1
      <4>1. k - Before(row) = t + 1
        BY <1>3, <1>7, <1>8, <2>2
      <4>2. QED
        BY <4>1, <3>3, Zenon
    <3>5. QED
      BY <1>9, <3>1, <3>4, Zenon
  <2>3. CASE k # n + 1
    <3>1. k \in 1 .. n
      BY <1>3, <2>3
    <3>2. entries'[k] = entries[k] /\ r = entries[k].row
      BY <1>11, <2>1, <3>1, Zenon
    <3>3. r \in 0 .. row
      BY <1>3, <3>1, <3>2
    <3>4. PlacedAs(entries[k], k - Before(r), NumbersOf(Lines[r + 2]))
      BY <1>3, <1>6, <3>1, <3>2, Zenon DEF EntriesPlaced
    <3>5. QED
      BY <1>12, <3>2, <3>3, <3>4, Zenon
  <2>4. QED
    BY <2>2, <2>3
<1>16. IsDense(kind)' => col' = Taken' - 1
  <2>1. col' = e.col
    BY <1>1, <1>11, Zenon
  <2>2. IsDense(kind)' <=> IsDense(kind)
    BY <1>1, Zenon DEF IsDense
  <2>3. t = (t + 1) - 1
    BY <1>8
  <2>4. QED
    BY <1>10, <1>14, <2>1, <2>2, <2>3, Zenon
<1>17. QED
  BY <1>1, <1>4, <1>9, <1>12, <1>13, <1>14, <1>15, <1>16, Zenon DEF RowsSoFar, tokens

LEMMA LinesInvInit == ReadInit => LinesInv
BY DEF ReadInit, LinesInv, InPass

LEMMA LinesInvStep == ReaderInv /\ LinesInv /\ [ReadNext]_readvars => LinesInv'
<1> SUFFICES ASSUME ReaderInv, LinesInv, [ReadNext]_readvars PROVE LinesInv'
  OBVIOUS
<1>1. CASE TakeEntry
  BY <1>1, LinesInvTake
<1>2. CASE FetchLine
  BY <1>2, LinesInvFetch
<1>3. CASE Size \/ FirstPassOver \/ SecondPassOver
  <2>1. CASE StartPass
    BY <2>1 DEF StartPass, Discarded, LinesInv
  <2>2. CASE stage' \in {"undefined", "rejected", "loaded"}
    BY <2>2 DEF LinesInv, InPass
  <2>3. QED
    BY <1>3, <2>1, <2>2 DEF Size, FirstPassOver, SecondPassOver
<1>4. CASE Choose \/ DetectHeader \/ CheckLine \/ NoMoreLines
  <2>1. stage' \notin {"first", "second"}
    BY <1>4 DEF Choose, DetectHeader, CheckLine, NoMoreLines
  <2>2. QED
    BY <2>1 DEF LinesInv, InPass
<1>5. CASE UNCHANGED readvars
  <2>1. /\ session' = session /\ kind' = kind /\ stage' = stage /\ entries' = entries
        /\ at' = at /\ line' = line /\ row' = row /\ col' = col
    BY <1>5 DEF readvars
  <2>2. /\ \A r : RowsUpTo(r)' <=> RowsUpTo(r)
        /\ EntriesPlaced' <=> EntriesPlaced
        /\ \A r : Before(r)' = Before(r)
    BY <2>1, EntriesKept
  <2>3. Lines' = Lines /\ Width' = Width
    BY <2>1, FileKept
  <2>4. Taken' = Taken
    BY <2>1, <2>2 DEF Taken
  <2>5. RowsSoFar => RowsSoFar'
    BY <2>1, <2>2, <2>3, <2>4, Zenon DEF RowsSoFar, IsDense
  <2>6. QED
    BY <2>1, <2>5 DEF LinesInv, InPass
<1>6. QED
  BY <1>1, <1>2, <1>3, <1>4, <1>5 DEF ReadNext

\* At the end of the first pass each row has its line's entries.
LEMMA RowsAtTheEnd ==
    ASSUME ReaderInv, LinesInv
    PROVE  RowsAreLines
<1>1. SUFFICES ASSUME stage = "first", AtEnd, kind \notin Flat,
                      NEW r \in 0 .. Len(Lines) - 2
               PROVE  LET readable == NumbersOf(Lines[r + 2])
                          ofRow == {k \in DOMAIN entries : entries[k].row = r}
                      IN  /\ ofRow = Before(r) + 1 .. Before(r) + Len(readable) \div Width
                          /\ \A k \in ofRow : PlacedAs(entries[k], k - Before(r), readable)
  BY Zenon DEF RowsAreLines
<1> DEFINE n == Len(entries)
           ofRow == {k \in DOMAIN entries : entries[k].row = r}
<1>2. InPass /\ ~Readable(line) /\ at = Len(Seen)
  BY <1>1 DEF InPass, AtEnd
<1>3. /\ Seen = Lines /\ Len(Lines) \in Nat /\ row \in Nat
      /\ (at > 1 => at = row + 2) /\ at \in 1 .. Len(Lines)
      /\ DOMAIN entries = 1 .. n /\ n \in Nat
      /\ \A k \in 1 .. n : entries[k].row \in Nat /\ entries[k].row <= row
  BY <1>1, <1>2, InRows
<1>4. at > 1 /\ r \in 0 .. row /\ r \in Nat
  BY <1>1, <1>2, <1>3
<1>5. RowsSoFar
  BY <1>1, <1>2, <1>4 DEF LinesInv
<1>6. RowsUpTo(row + 1) /\ EntriesPlaced
  BY <1>1, <1>2, <1>4, <1>5, NextRowStands DEF RowsSoFar
<1> DEFINE next == r + 1
<1>7. /\ Before(r) \in 0 .. n /\ EarlierRows(r) = 1 .. Before(r)
      /\ Before(next) \in 0 .. n /\ EarlierRows(next) = 1 .. Before(next)
      /\ Before(next) = Before(r) + EntriesOn(r)
  <2>1. r \in 0 .. row + 1 /\ next \in 0 .. row + 1 /\ r \in 0 .. (row + 1) - 1
    BY <1>3, <1>4
  <2>2. QED
    BY <1>6, <2>1, Zenon DEF RowsUpTo
<1>8. ofRow = EarlierRows(next) \ EarlierRows(r)
  <2>1. \A k \in 1 .. n : entries[k].row = r <=> entries[k].row < next /\ ~(entries[k].row < r)
    BY <1>3, <1>4
  <2>2. QED
    BY <1>3, <2>1, Zenon DEF EarlierRows
<1> HIDE DEF next
<1>9. ofRow = Before(r) + 1 .. Before(r) + EntriesOn(r)
  <2> DEFINE b == Before(r)
             d == Before(next)
  <2>1. b \in Nat /\ d \in Nat /\ ofRow = (1 .. d) \ (1 .. b) /\ d = b + EntriesOn(r)
    BY <1>3, <1>7, <1>8
  <2> HIDE DEF b, d, ofRow
  <2>2. (1 .. d) \ (1 .. b) = b + 1 .. d
    BY <2>1
  <2>3. QED
    BY <2>1, <2>2, Zenon DEF b
<1>10. ASSUME NEW k \in ofRow
       PROVE  PlacedAs(entries[k], k - Before(r), NumbersOf(Lines[r + 2]))
  BY <1>6, <1>10, Zenon DEF EntriesPlaced
<1>11. QED
  BY <1>9, <1>10, Zenon DEF EntriesOn

\* Whatever is in a file that is read line by line, its entries are those of its
\* lines: in their rows, in their order, and as far as each line can be read.
THEOREM RowsFollowLines == ReadSpec => []RowsAreLines
BY ReaderInvInit, ReaderInvStep, LinesInvInit, LinesInvStep, RowsAtTheEnd, PTL DEF ReadSpec

----------------------------------------------------------------------------
\* Joined sequences.

IsJoining(s, S, n) ==
    s = [j \in 1 .. n |-> IF j = 1 THEN S[j] ELSE s[j - 1] \o S[j]]

LEMMA JoiningExists ==
    ASSUME NEW S
    PROVE  \A n \in Nat : \E s : IsJoining(s, S, n)
<1> DEFINE T == {n \in Nat : \E s : IsJoining(s, S, n)}
<1>1. 0 \in T
  <2> DEFINE s == [j \in 1 .. 0 |-> 0]
  <2>1. IsJoining(s, S, 0)
    BY DEF IsJoining
  <2>2. QED
    BY <2>1
<1>2. ASSUME NEW n \in Nat, n \in T PROVE n + 1 \in T
  <2>1. PICK s : IsJoining(s, S, n)
    BY <1>2
  <2> DEFINE t == [j \in 1 .. n + 1 |->
                     IF j # n + 1 THEN s[j] ELSE IF n = 0 THEN S[j] ELSE s[n] \o S[j]]
  <2>2. \A j \in 1 .. n : s[j] = IF j = 1 THEN S[j] ELSE s[j - 1] \o S[j]
    BY <2>1 DEF IsJoining
  <2>3. \A j \in 1 .. n + 1 : t[j] = IF j = 1 THEN S[j] ELSE t[j - 1] \o S[j]
    <3>1. TAKE j \in 1 .. n + 1
    <3>2. CASE j = n + 1
      <4>1. CASE n = 0
        BY <3>2, <4>1
      <4>2. CASE n # 0
        <5>1. j - 1 = n /\ j # 1 /\ n \in 1 .. n + 1 /\ n # n + 1 /\ j \in 1 .. n + 1
          BY <3>2, <4>2
        <5>3. t[n] = s[n]
          BY <5>1
        <5>4. t[j] = s[n] \o S[j]
          BY <3>2, <4>2
        <5> HIDE DEF t
        <5>2. QED
          BY <5>1, <5>3, <5>4
      <4>3. QED
        BY <4>1, <4>2
    <3>3. CASE j # n + 1
      <4>1. /\ j \in 1 .. n /\ t[j] = s[j]
            /\ j # 1 => j - 1 \in 1 .. n /\ j - 1 # n + 1 /\ t[j - 1] = s[j - 1]
        BY <3>3
      <4> HIDE DEF t
      <4>2. QED
        BY <2>2, <4>1
    <3>4. QED
      BY <3>2, <3>3
  <2>4. IsJoining(t, S, n + 1)
    <3>1. t = [j \in 1 .. n + 1 |-> t[j]]
      OBVIOUS
    <3> HIDE DEF t
    <3>2. QED
      BY <2>3, <3>1 DEF IsJoining
  <2>5. QED
    BY <2>4
<1> HIDE DEF T
<1>3. \A n \in Nat : n \in T
  BY <1>1, <1>2, AllNaturals
<1>4. QED
  BY <1>3 DEF T

LEMMA FlattenIsJoining ==
    ASSUME NEW S, Len(S) \in Nat, Len(S) # 0
    PROVE  \E s : IsJoining(s, S, Len(S)) /\ FlattenSeq(S) = s[Len(S)]
<1> DEFINE F == CHOOSE s : s = [j \in 1 .. Len(S) |-> IF j = 1 THEN S[j] ELSE s[j - 1] \o S[j]]
<1>1. FlattenSeq(S) = F[Len(S)]
  BY Zenon DEF FlattenSeq
<1>2. \E s : s = [j \in 1 .. Len(S) |-> IF j = 1 THEN S[j] ELSE s[j - 1] \o S[j]]
  BY JoiningExists, Zenon DEF IsJoining
<1>3. F = [j \in 1 .. Len(S) |-> IF j = 1 THEN S[j] ELSE F[j - 1] \o S[j]]
  BY <1>2, Zenon
<1>4. IsJoining(F, S, Len(S))
  BY <1>3, Zenon DEF IsJoining
<1>5. QED
  BY <1>1, <1>4, Zenon

\* Where the first n of the sequences end when they are joined.
Lengths(S) == [j \in 0 .. Len(S) - 1 |-> Len(S[j + 1])]
Ends(S, n) == SumTo(Lengths(S), n)

LEMMA EndsFirst ==
    ASSUME NEW S
    PROVE  Ends(S, 0) = 0
<1>1. 0 \in Nat
  OBVIOUS
<1>2. QED
  BY <1>1, SumToStep, Zenon DEF Ends

LEMMA EndsStep ==
    ASSUME NEW S, Len(S) \in Nat, NEW n \in Nat, NEW p \in 1 .. Len(S), p = n + 1
    PROVE  Ends(S, p) = Ends(S, n) + Len(S[p])
<1>1. SumTo(Lengths(S), n + 1) = SumTo(Lengths(S), n) + Lengths(S)[n]
  BY SumToStep, Zenon
<1>2. Lengths(S)[n] = Len(S[n + 1])
  BY DEF Lengths
<1>3. QED
  BY <1>1, <1>2, Zenon DEF Ends

LEMMA EndsNat ==
    ASSUME NEW S, Len(S) \in Nat, \A p \in 1 .. Len(S) : Len(S[p]) \in Nat
    PROVE  \A n \in 0 .. Len(S) : Ends(S, n) \in Nat
<1> DEFINE T == {n \in Nat : n <= Len(S) => Ends(S, n) \in Nat}
<1>1. 0 \in T
  BY EndsFirst
<1>2. ASSUME NEW n \in Nat, n \in T PROVE n + 1 \in T
  <2> DEFINE p == n + 1
  <2> SUFFICES ASSUME p <= Len(S) PROVE Ends(S, p) \in Nat
    OBVIOUS
  <2>1. p \in 1 .. Len(S) /\ p = n + 1 /\ Ends(S, n) \in Nat
    BY <1>2
  <2> HIDE DEF p
  <2>2. Ends(S, p) = Ends(S, n) + Len(S[p])
    BY <2>1, EndsStep, Zenon
  <2>3. Len(S[p]) \in Nat
    BY <2>1
  <2>4. QED
    BY <2>1, <2>2, <2>3
<1> HIDE DEF T
<1>3. \A n \in Nat : n \in T
  BY <1>1, <1>2, AllNaturals
<1>4. QED
  BY <1>3 DEF T

\* The ends do not decrease, and an element of any sequence lies between two of them.
LEMMA EndsGrow ==
    ASSUME NEW S, Len(S) \in Nat, \A p \in 1 .. Len(S) : Len(S[p]) \in Nat,
           NEW n \in 0 .. Len(S)
    PROVE  \A o \in 0 .. n : Ends(S, o) <= Ends(S, n)
<1>0. \A m \in 0 .. Len(S) : Ends(S, m) \in Nat
  BY EndsNat
<1> DEFINE T == {p \in Nat : p <= Len(S) => \A o \in 0 .. p : Ends(S, o) <= Ends(S, p)}
<1>1. 0 \in T
  BY EndsFirst
<1>2. ASSUME NEW m \in Nat, m \in T PROVE m + 1 \in T
  <2> DEFINE p == m + 1
  <2> SUFFICES ASSUME p <= Len(S), NEW o \in 0 .. p PROVE Ends(S, o) <= Ends(S, p)
    OBVIOUS
  <2>1. p = m + 1 /\ p \in 1 .. Len(S) /\ m \in 0 .. Len(S) /\ p \in 0 .. Len(S)
        /\ o \in 0 .. Len(S) /\ (o = p \/ o \in 0 .. m)
    OBVIOUS
  <2>2. \A q \in 0 .. m : Ends(S, q) <= Ends(S, m)
    BY <1>2, <2>1
  <2> HIDE DEF p
  <2>3. Ends(S, p) = Ends(S, m) + Len(S[p])
    BY <2>1, EndsStep, Zenon
  <2>4. Len(S[p]) \in Nat /\ Ends(S, m) \in Nat /\ Ends(S, p) \in Nat /\ Ends(S, o) \in Nat
    BY <1>0, <2>1
  <2>5. QED
    BY <2>1, <2>2, <2>3, <2>4
<1> HIDE DEF T
<1>3. \A p \in Nat : p \in T
  BY <1>1, <1>2, AllNaturals
<1>4. QED
  BY <1>3 DEF T

LEMMA EndsCover ==
    ASSUME NEW S, Len(S) \in Nat, \A p \in 1 .. Len(S) : Len(S[p]) \in Nat,
           NEW q \in 1 .. Ends(S, Len(S))
    PROVE  \E p \in 1 .. Len(S), n \in Nat, o \in Nat :
              p = n + 1 /\ o \in 1 .. Len(S[p]) /\ q = Ends(S, n) + o
<1> DEFINE T == {n \in Nat : n <= Len(S) /\ q <= Ends(S, n)}
<1>0. \A m \in 0 .. Len(S) : Ends(S, m) \in Nat
  BY EndsNat
<1>1. Ends(S, Len(S)) \in Nat /\ Ends(S, 0) = 0 /\ q \in Nat /\ q >= 1 /\ q <= Ends(S, Len(S))
  BY <1>0, EndsFirst
<1>2. Len(S) \in T
  BY <1>1
<1>3. PICK p \in T : \A n \in T : p <= n
  <2>1. T \subseteq Nat
    OBVIOUS
  <2> HIDE DEF T
  <2>2. QED
    BY <1>2, <2>1, LeastOf
<1>4. p \in Nat /\ p <= Len(S) /\ q <= Ends(S, p) /\ p # 0
  BY <1>1, <1>3
<1> DEFINE n == p - 1
<1>5. n \in Nat /\ n \in 0 .. Len(S) /\ p = n + 1 /\ p \in 1 .. Len(S) /\ ~(p <= n)
  BY <1>1, <1>4
<1> HIDE DEF n
<1>6. ~(q <= Ends(S, n))
  <2>1. n \notin T
    BY <1>3, <1>5
  <2>2. QED
    BY <2>1, <1>5
<1> HIDE DEF T
<1>7. Ends(S, p) = Ends(S, n) + Len(S[p]) /\ Ends(S, n) \in Nat /\ Len(S[p]) \in Nat
  <2>1. Ends(S, p) = Ends(S, n) + Len(S[p])
    BY <1>5, EndsStep, Zenon
  <2>2. QED
    BY <1>0, <1>5, <2>1
<1> DEFINE o == q - Ends(S, n)
<1>8. o \in Nat /\ o \in 1 .. Len(S[p]) /\ q = Ends(S, n) + o
  BY <1>1, <1>4, <1>6, <1>7
<1> HIDE DEF o
<1>9. QED
  BY <1>5, <1>8, Zenon

LEMMA OneAfterOther ==
    ASSUME NEW X, NEW u \in Seq(X), NEW v \in Seq(X), NEW n, n = Len(u)
    PROVE  /\ u \o v \in Seq(X) /\ Len(u \o v) = n + Len(v) /\ Len(v) \in Nat
           /\ \A q \in 1 .. n : (u \o v)[q] = u[q]
           /\ \A q \in 1 .. Len(v) : (u \o v)[n + q] = v[q]
<1>1. u \o v \in Seq(X) /\ Len(u \o v) = n + Len(v) /\ Len(v) \in Nat
  OBVIOUS
<1>2. \A q \in 1 .. n : (u \o v)[q] = u[q]
  OBVIOUS
<1>3. \A q \in 1 .. Len(v) : (u \o v)[n + q] = v[q]
  OBVIOUS
<1>4. QED
  BY <1>1, <1>2, <1>3

\* Joining loses nothing and keeps the order.
LEMMA Flattened ==
    ASSUME NEW X, NEW S \in Seq(Seq(X))
    PROVE  /\ FlattenSeq(S) \in Seq(X)
           /\ Len(FlattenSeq(S)) = Ends(S, Len(S))
           /\ \A p \in 1 .. Len(S) : \A n \in Nat : p = n + 1 =>
                 \A q \in 1 .. Len(S[p]) : FlattenSeq(S)[Ends(S, n) + q] = S[p][q]
<1>0. Len(S) \in Nat /\ (\A p \in 1 .. Len(S) : S[p] \in Seq(X) /\ Len(S[p]) \in Nat)
  OBVIOUS
<1>1. CASE Len(S) = 0
  <2>1. S = <<>>
    BY <1>1
  <2>2. FlattenSeq(S) = <<>>
    BY <2>1, Zenon DEF FlattenSeq
  <2>3. Len(FlattenSeq(S)) = 0 /\ Ends(S, Len(S)) = 0
    <3>1. Len(FlattenSeq(S)) = 0
      BY <2>2
    <3>2. Ends(S, Len(S)) = 0
      BY <1>1, EndsFirst, Zenon
    <3>3. QED
      BY <3>1, <3>2
  <2>4. FlattenSeq(S) \in Seq(X)
    BY <2>2
  <2>5. QED
    BY <1>1, <2>3, <2>4
<1>2. CASE Len(S) # 0
  <2>1. Len(S) >= 1
    BY <1>0, <1>2
  <2>2. PICK s : IsJoining(s, S, Len(S)) /\ FlattenSeq(S) = s[Len(S)]
    BY <1>0, <1>2, FlattenIsJoining
  <2>3. \A j \in 1 .. Len(S) : s[j] = IF j = 1 THEN S[j] ELSE s[j - 1] \o S[j]
    BY <2>2 DEF IsJoining
  <2> DEFINE Good(j) ==
        /\ s[j] \in Seq(X) /\ Len(s[j]) = Ends(S, j)
        /\ \A p \in 1 .. j : \A n \in Nat : p = n + 1 =>
              \A q \in 1 .. Len(S[p]) : s[j][Ends(S, n) + q] = S[p][q]
  <2> DEFINE T == {j \in Nat : j + 1 <= Len(S) => Good(j + 1)}
  <2>4. 0 \in T
    <3>1. s[1] = S[1] /\ S[1] \in Seq(X) /\ Len(S[1]) \in Nat
      BY <1>0, <2>1, <2>3
    <3>2. 1 \in 1 .. Len(S) /\ 0 \in Nat /\ 1 = 0 + 1
      BY <1>0, <2>1
    <3>3. Ends(S, 1) = Ends(S, 0) + Len(S[1])
      BY <1>0, <3>2, EndsStep, Zenon
    <3>4. Ends(S, 0) = 0
      BY EndsFirst, Zenon
    <3>5. Len(s[1]) = Ends(S, 1)
      BY <3>1, <3>3, <3>4
    <3>6. ASSUME NEW p \in 1 .. 1, NEW n \in Nat, p = n + 1, NEW q \in 1 .. Len(S[p])
          PROVE  s[1][Ends(S, n) + q] = S[p][q]
      <4>1. p = 1 /\ n = 0 /\ q \in Nat
        BY <3>6
      <4>2. Ends(S, n) + q = q
        BY <3>4, <4>1
      <4>3. QED
        BY <3>1, <4>1, <4>2, Zenon
    <3>7. Good(1)
      BY <3>1, <3>5, <3>6, Zenon
    <3> HIDE DEF Good
    <3>8. QED
      BY <3>7
  <2>5. ASSUME NEW m \in Nat, m \in T PROVE m + 1 \in T
    <3> DEFINE a == m + 1
               b == m + 2
    <3>1. SUFFICES ASSUME b <= Len(S) PROVE Good(b)
      OBVIOUS
    <3>2. /\ a \in 1 .. Len(S) /\ b \in 1 .. Len(S) /\ b = a + 1 /\ b # 1 /\ b - 1 = a
          /\ a \in Nat /\ b \in Nat /\ a \in 0 .. Len(S) /\ a \in 0 .. a
      BY <1>0, <3>1
    <3>3. Good(a)
      BY <2>5, <3>1
    <3> HIDE DEF a, b, T
    <3>4. s[b] = s[a] \o S[b]
      BY <2>3, <3>2
    <3>5. s[a] \in Seq(X) /\ S[b] \in Seq(X) /\ Ends(S, a) = Len(s[a])
      BY <1>0, <3>2, <3>3, Zenon
    <3>6. Ends(S, b) = Ends(S, a) + Len(S[b])
      BY <1>0, <3>2, EndsStep, Zenon
    <3>7. /\ s[b] \in Seq(X) /\ Len(s[b]) = Ends(S, a) + Len(S[b])
          /\ \A q \in 1 .. Ends(S, a) : s[b][q] = s[a][q]
          /\ \A q \in 1 .. Len(S[b]) : s[b][Ends(S, a) + q] = S[b][q]
      <4> DEFINE u == s[a]
                 v == S[b]
                 l == Ends(S, a)
      <4>1. u \in Seq(X) /\ v \in Seq(X) /\ l = Len(u) /\ s[b] = u \o v
        BY <3>4, <3>5, Zenon
      <4> HIDE DEF u, v, l
      <4>2. /\ u \o v \in Seq(X) /\ Len(u \o v) = l + Len(v)
            /\ \A q \in 1 .. l : (u \o v)[q] = u[q]
            /\ \A q \in 1 .. Len(v) : (u \o v)[l + q] = v[q]
        BY <4>1, OneAfterOther
      <4>3. QED
        BY <4>1, <4>2, Zenon DEF u, v, l
    <3>8. ASSUME NEW p \in 1 .. b, NEW n \in Nat, p = n + 1, NEW q \in 1 .. Len(S[p])
          PROVE  s[b][Ends(S, n) + q] = S[p][q]
      <4>1. p = b \/ p \in 1 .. a
        BY <3>2
      <4>2. CASE p = b
        <5>1. n = a
          BY <3>2, <3>8, <4>2
        <5>2. QED
          BY <3>7, <4>2, <5>1, Zenon
      <4>3. CASE p \in 1 .. a
        <5>1. s[a][Ends(S, n) + q] = S[p][q]
          BY <3>3, <3>8, <4>3, Zenon
        <5>2. p \in 1 .. Len(S) /\ n \in 0 .. Len(S) /\ p \in 0 .. a /\ p \in 0 .. Len(S)
          BY <1>0, <3>2, <3>8, <4>3
        <5>3. Ends(S, p) = Ends(S, n) + Len(S[p])
          BY <1>0, <3>8, <5>2, EndsStep, Zenon
        <5>4. Ends(S, p) <= Ends(S, a)
          <6>1. \A o \in 0 .. a : Ends(S, o) <= Ends(S, a)
            BY <1>0, <3>2, EndsGrow, Zenon
          <6>2. QED
            BY <5>2, <6>1, Zenon
        <5>5. Ends(S, n) \in Nat /\ Ends(S, p) \in Nat /\ Ends(S, a) \in Nat /\ Len(S[p]) \in Nat
          <6>1. \A o \in 0 .. Len(S) : Ends(S, o) \in Nat
            BY <1>0, EndsNat, Zenon
          <6>2. QED
            BY <1>0, <3>2, <5>2, <6>1, Zenon
        <5>6. Ends(S, n) + q \in 1 .. Ends(S, a)
          BY <5>3, <5>4, <5>5
        <5>7. QED
          BY <3>7, <5>1, <5>6, Zenon
      <4>4. QED
        BY <4>1, <4>2, <4>3
    <3>9. QED
      BY <3>6, <3>7, <3>8, Zenon
  <2> HIDE DEF T
  <2>6. \A m \in Nat : m \in T
    BY <2>4, <2>5, AllNaturals
  <2>7. Good(Len(S))
    <3> DEFINE l == Len(S)
               m == l - 1
    <3>1. m \in Nat /\ m + 1 = l /\ m + 1 <= l
      BY <1>0, <2>1
    <3>2. m \in T
      BY <2>6, <3>1, Zenon
    <3> HIDE DEF m, Good
    <3>3. Good(m + 1)
      BY <3>1, <3>2 DEF T
    <3> HIDE DEF l
    <3>4. Good(l)
      BY <3>1, <3>3, Zenon
    <3>5. QED
      BY <3>4, Zenon DEF l
  <2>8. QED
    BY <2>2, <2>7, Zenon
<1>3. QED
  BY <1>1, <1>2

----------------------------------------------------------------------------
\* What is written for an entry.

WidthIn(f) ==
    CASE f \in {"smat", "bsmat"} -> 3
      [] f \in {"bssmat", "sparse matrix", "sparse graph"} -> 2
      [] OTHER -> 1

Coded(f, e) ==
    CASE IsDense(f) -> <<e.val>>
      [] f = "graph" -> <<e.col + 1>>
      [] f = "bssmat" -> <<e.row, e.col>>
      [] f \in {"smat", "bsmat"} -> <<e.row, e.col, e.val>>
      [] OTHER -> <<e.col + 1, e.val>>

\* The tokens are those of the entries, one after the other.
IsCoding(f, tokens, es) ==
    /\ Len(es) \in Nat /\ Len(tokens) = WidthIn(f) * Len(es)
    /\ \A q \in Nat : q < Len(es) =>
          \A d \in 1 .. WidthIn(f) : tokens[WidthIn(f) * q + d] = Coded(f, es[q + 1])[d]

LEMMA WidthsIn == \A f : WidthIn(f) \in {1, 2, 3}
BY DEF WidthIn

LEMMA TimesSum ==
    ASSUME NEW w \in {1, 2, 3}, NEW a \in Nat, NEW b \in Nat
    PROVE  w * (a + b) = w * a + w * b /\ w * a \in Nat /\ w * b \in Nat
<1>1. CASE w = 1
  BY <1>1
<1>2. CASE w = 2
  BY <1>2
<1>3. CASE w = 3
  BY <1>3
<1>4. QED
  BY <1>1, <1>2, <1>3

LEMMA TimesWithin ==
    ASSUME NEW w \in {1, 2, 3}, NEW q \in Nat, NEW l \in Nat, q < l, NEW d \in 1 .. w
    PROVE  w * q + d \in 1 .. w * l
<1>1. CASE w = 1
  BY <1>1
<1>2. CASE w = 2
  BY <1>2
<1>3. CASE w = 3
  BY <1>3
<1>4. QED
  BY <1>1, <1>2, <1>3

AreScaled(w, S, E) ==
    /\ Len(S) \in Nat /\ Len(E) = Len(S)
    /\ \A p \in 1 .. Len(S) : Len(E[p]) \in Nat /\ Len(S[p]) = w * Len(E[p])

LEMMA EndsScaled ==
    ASSUME NEW w \in {1, 2, 3}, NEW S, NEW E, AreScaled(w, S, E)
    PROVE  \A n \in 0 .. Len(S) : Ends(S, n) = w * Ends(E, n)
<1>s. /\ Len(S) \in Nat /\ Len(E) = Len(S)
      /\ \A p \in 1 .. Len(S) : Len(E[p]) \in Nat /\ Len(S[p]) = w * Len(E[p])
  BY Zenon DEF AreScaled
<1>e. Len(E) \in Nat /\ \A p \in 1 .. Len(E) : Len(E[p]) \in Nat
  BY <1>s, Zenon
<1> DEFINE T == {n \in Nat : n <= Len(S) => Ends(S, n) = w * Ends(E, n)}
<1>0. \A n \in 0 .. Len(S) : Ends(E, n) \in Nat
  BY <1>s, <1>e, EndsNat, Zenon
<1>1. 0 \in T
  <2>1. Ends(S, 0) = 0 /\ Ends(E, 0) = 0
    BY EndsFirst, Zenon
  <2>2. w * 0 = 0
    BY TimesSum
  <2>3. QED
    BY <2>1, <2>2
<1>2. ASSUME NEW n \in Nat, n \in T PROVE n + 1 \in T
  <2> DEFINE p == n + 1
  <2> SUFFICES ASSUME p <= Len(S) PROVE Ends(S, p) = w * Ends(E, p)
    OBVIOUS
  <2>1. /\ p \in 1 .. Len(S) /\ p \in 1 .. Len(E) /\ p = n + 1 /\ n \in 0 .. Len(S)
        /\ Ends(S, n) = w * Ends(E, n)
    BY <1>2, <1>s
  <2> HIDE DEF p, T
  <2>2. Ends(S, p) = Ends(S, n) + Len(S[p])
    BY <1>s, <2>1, EndsStep, Zenon
  <2>3. Len(E) \in Nat
    BY <1>s
  <2>4. Ends(E, p) = Ends(E, n) + Len(E[p])
    BY <2>1, <2>3, EndsStep, Zenon
  <2> DEFINE a == Ends(E, n)
             b == Len(E[p])
  <2>5. a \in Nat /\ b \in Nat /\ Len(S[p]) = w * b
    BY <1>0, <1>s, <2>1
  <2> HIDE DEF a, b
  <2>6. w * (a + b) = w * a + w * b
    BY <2>5, TimesSum
  <2>7. QED
    BY <2>1, <2>2, <2>4, <2>5, <2>6, Zenon DEF a, b
<1> HIDE DEF T
<1>3. \A n \in Nat : n \in T
  BY <1>1, <1>2, AllNaturals
<1>4. QED
  BY <1>3, <1>s DEF T

\* Codings of parts join to a coding of all.
LEMMA CodingJoined ==
    ASSUME NEW f, NEW X, NEW Y, NEW S \in Seq(Seq(X)), NEW E \in Seq(Seq(Y)),
           Len(E) = Len(S), \A p \in 1 .. Len(S) : IsCoding(f, S[p], E[p])
    PROVE  IsCoding(f, FlattenSeq(S), FlattenSeq(E))
<1> DEFINE w == WidthIn(f)
           s == FlattenSeq(S)
           e == FlattenSeq(E)
<1>1. /\ w \in {1, 2, 3} /\ Len(S) \in Nat /\ Len(E) \in Nat
      /\ \A p \in 1 .. Len(S) : Len(S[p]) \in Nat /\ Len(E[p]) \in Nat
  BY WidthsIn
<1>2. \A p \in 1 .. Len(S) :
         /\ Len(S[p]) = w * Len(E[p])
         /\ \A q \in Nat : q < Len(E[p]) =>
               \A d \in 1 .. w : S[p][w * q + d] = Coded(f, E[p][q + 1])[d]
  BY Zenon DEF IsCoding
<1> HIDE DEF w
<1>3. \A n \in 0 .. Len(S) : Ends(S, n) = w * Ends(E, n)
  <2>1. AreScaled(w, S, E)
    BY <1>1, <1>2, Zenon DEF AreScaled
  <2>2. w \in {1, 2, 3}
    BY <1>1
  <2> HIDE DEF s, e
  <2>4. \A v \in {1, 2, 3} : AreScaled(v, S, E) => \A n \in 0 .. Len(S) : Ends(S, n) = v * Ends(E, n)
    BY EndsScaled
  <2>3. QED
    BY <2>1, <2>2, <2>4, Zenon
<1>4. Len(s) = Ends(S, Len(S)) /\ Len(e) = Ends(E, Len(E))
  BY Flattened
<1>5. \A p \in 1 .. Len(S) : \A n \in Nat : p = n + 1 =>
         \A q \in 1 .. Len(S[p]) : s[Ends(S, n) + q] = S[p][q]
  BY Flattened
<1>6. \A p \in 1 .. Len(E) : \A n \in Nat : p = n + 1 =>
         \A q \in 1 .. Len(E[p]) : e[Ends(E, n) + q] = E[p][q]
  BY Flattened
<1>7. \A n \in 0 .. Len(S) : Ends(E, n) \in Nat
  BY <1>1, EndsNat
<1>8. Len(s) = w * Len(e) /\ Len(e) \in Nat
  <2>1. Len(S) \in 0 .. Len(S)
    BY <1>1
  <2>2. QED
    BY <1>3, <1>4, <1>7, <2>1, Zenon
<1> HIDE DEF s, e
<1>9. ASSUME NEW q \in Nat, q < Len(e), NEW d \in 1 .. w
      PROVE  s[w * q + d] = Coded(f, e[q + 1])[d]
  <2> DEFINE z == q + 1
  <2>1. z \in 1 .. Ends(E, Len(E)) /\ z = q + 1
    BY <1>4, <1>8, <1>9
  <2> HIDE DEF z
  <2>2. \A p \in 1 .. Len(E) : Len(E[p]) \in Nat
    BY <1>1
  <2>3. PICK p \in 1 .. Len(E), n \in Nat, o \in Nat :
           p = n + 1 /\ o \in 1 .. Len(E[p]) /\ z = Ends(E, n) + o
    BY <1>1, <2>1, <2>2, EndsCover
  <2>4. e[z] = E[p][o]
    BY <1>6, <2>3, Zenon
  <2> DEFINE a == Ends(E, n)
             b == o - 1
             l == Len(E[p])
  <2>5. /\ n \in 0 .. Len(S) /\ a \in Nat /\ b \in Nat /\ l \in Nat /\ b < l /\ b + 1 = o
        /\ q = a + b /\ p \in 1 .. Len(S)
    <3>1. n \in 0 .. Len(S) /\ p \in 1 .. Len(S)
      BY <1>1, <2>3
    <3>2. a \in Nat /\ l \in Nat
      BY <1>1, <1>7, <3>1
    <3>3. z = a + o /\ o \in 1 .. l
      BY <2>3, Zenon
    <3> HIDE DEF a, l
    <3>4. b \in Nat /\ b < l /\ b + 1 = o /\ q = a + b
      BY <2>1, <3>2, <3>3
    <3>5. QED
      BY <3>1, <3>2, <3>4, Zenon
  <2> HIDE DEF b
  <2>6. S[p][w * b + d] = Coded(f, E[p][o])[d]
    <3>1. S[p][w * b + d] = Coded(f, E[p][b + 1])[d]
      BY <1>2, <2>5, Zenon
    <3>2. QED
      BY <2>5, <3>1, Zenon
  <2>7. w * b + d \in 1 .. Len(S[p])
    <3> HIDE DEF l
    <3>1. w * b + d \in 1 .. w * l
      BY <1>1, <2>5, TimesWithin
    <3>2. Len(S[p]) = w * l
      BY <1>2, <2>5 DEF l
    <3>3. QED
      BY <3>1, <3>2
  <2>8. s[Ends(S, n) + (w * b + d)] = S[p][w * b + d]
    BY <1>5, <2>3, <2>5, <2>7, Zenon
  <2>9. Ends(S, n) + (w * b + d) = w * q + d
    <3>1. Ends(S, n) = w * a
      BY <1>3, <2>5
    <3> HIDE DEF a
    <3>2. w * (a + b) = w * a + w * b /\ w * a \in Nat /\ w * b \in Nat
      BY <1>1, <2>5, TimesSum
    <3> DEFINE x == w * a
               y == w * b
    <3>3. x \in Nat /\ y \in Nat /\ w * q = x + y /\ Ends(S, n) = x /\ d \in Int
      BY <1>1, <2>5, <3>1, <3>2
    <3> HIDE DEF x, y
    <3>4. Ends(S, n) + (y + d) = w * q + d
      BY <3>3
    <3>5. QED
      BY <3>4 DEF y
  <2>10. QED
    BY <2>1, <2>4, <2>6, <2>8, <2>9, Zenon
<1>10. QED
  BY <1>8, <1>9, Zenon DEF IsCoding, w, s, e

----------------------------------------------------------------------------
\* What writing a matrix gives.

EntriesOf(f, m, r) ==
    [row : {r - 1}, col : 0 .. m.nc - 1, val : IF IsPattern(f) THEN {1} ELSE Nat]
AllEntriesOf(f, m) ==
    [row : 0 .. m.nr - 1, col : 0 .. m.nc - 1, val : IF IsPattern(f) THEN {1} ELSE Nat]
Body(f, m) == [r \in 1 .. m.nr |-> TokensInRow(f, m, r)]

LEMMA EndsAlike ==
    ASSUME NEW S, Len(S) \in Nat, NEW b \in Nat, \A p \in 1 .. Len(S) : Len(S[p]) = b
    PROVE  \A n \in 0 .. Len(S) : Ends(S, n) = n * b
<1> DEFINE T == {n \in Nat : n <= Len(S) => Ends(S, n) = n * b}
<1>1. 0 \in T
  <2>1. Ends(S, 0) = 0
    BY EndsFirst, Zenon
  <2>2. 0 * b = 0
    OBVIOUS
  <2>3. QED
    BY <2>1, <2>2
<1>2. ASSUME NEW n \in Nat, n \in T PROVE n + 1 \in T
  <2> DEFINE p == n + 1
  <2> SUFFICES ASSUME p <= Len(S) PROVE Ends(S, p) = p * b
    OBVIOUS
  <2>1. p \in 1 .. Len(S) /\ p = n + 1 /\ Ends(S, n) = n * b
    BY <1>2
  <2>2. p * b = n * b + b
    OBVIOUS
  <2> HIDE DEF p, T
  <2>3. Ends(S, p) = Ends(S, n) + Len(S[p])
    BY <2>1, EndsStep, Zenon
  <2>4. QED
    BY <2>1, <2>2, <2>3, Zenon
<1> HIDE DEF T
<1>3. \A n \in Nat : n \in T
  BY <1>1, <1>2, AllNaturals
<1>4. QED
  BY <1>3 DEF T

LEMMA MatrixType ==
    ASSUME NEW m, IsMatrix(m)
    PROVE  /\ m.nr \in Nat /\ m.nr >= 1 /\ m.nc \in Nat
           /\ \A r \in 1 .. m.nr, c \in 1 .. m.nc : m.value[r, c] \in Nat
<1>1. m.nr \in Nat /\ m.nr >= 1 /\ m.nc \in Nat
  BY DEF IsMatrix
<1>2. ASSUME NEW r \in 1 .. m.nr, NEW c \in 1 .. m.nc PROVE m.value[r, c] \in Nat
  <2>1. m.value \in [(1 .. m.nr) \X (1 .. m.nc) -> Nat]
    BY DEF IsMatrix
  <2>2. <<r, c>> \in (1 .. m.nr) \X (1 .. m.nc)
    OBVIOUS
  <2>3. m.value[<<r, c>>] \in Nat
    BY <2>1, <2>2, Zenon
  <2>4. QED
    BY <2>3
<1>3. QED
  BY <1>1, <1>2

LEMMA FormatCases ==
    ASSUME NEW f \in Formats
    PROVE  \/ IsDense(f) \/ f = "graph" \/ f = "bssmat"
           \/ f \in {"smat", "bsmat"} \/ f \in {"sparse matrix", "sparse graph"}
BY DEF Formats, Flat, Cluto, IsDense

LEMMA CellWritten ==
    ASSUME NEW f \in Formats, NEW m, IsMatrix(m), NEW r \in 1 .. m.nr, NEW c \in 1 .. m.nc
    PROVE  /\ EntriesAt(f, m, r, c) \in Seq(EntriesOf(f, m, r))
           /\ TokensAt(f, m, r, c) \in Seq(Nat)
           /\ IsCoding(f, TokensAt(f, m, r, c), EntriesAt(f, m, r, c))
           /\ IsDense(f) => Len(EntriesAt(f, m, r, c)) = 1 /\ EntriesAt(f, m, r, c)[1].col = c - 1
<1> DEFINE v == m.value[r, c]
           e == Entry(r - 1, c - 1, IF IsPattern(f) THEN 1 ELSE v)
<1>1. v \in Nat /\ m.nc \in Nat /\ m.nr \in Nat /\ r \in Nat /\ r >= 1 /\ c \in Nat /\ c >= 1
  <2>1. v \in Nat
    BY MatrixType, Zenon
  <2>2. m.nc \in Nat /\ m.nr \in Nat
    BY MatrixType, Zenon
  <2> HIDE DEF v
  <2>3. QED
    BY <2>1, <2>2
<1> HIDE DEF v
<1>2. /\ e \in EntriesOf(f, m, r)
      /\ e.row = r - 1 /\ e.col = c - 1 /\ (~IsPattern(f) => e.val = v)
  <2> DEFINE x == IF IsPattern(f) THEN 1 ELSE v
             Y == IF IsPattern(f) THEN {1} ELSE Nat
  <2>1. x \in Y /\ (~IsPattern(f) => x = v)
    <3>1. CASE IsPattern(f)
      BY <3>1
    <3>2. CASE ~IsPattern(f)
      BY <1>1, <3>2
    <3>3. QED
      BY <3>1, <3>2
  <2>2. r - 1 \in {r - 1} /\ c - 1 \in 0 .. m.nc - 1
    BY <1>1
  <2>3. e = [row |-> r - 1, col |-> c - 1, val |-> x]
    BY Zenon DEF Entry
  <2>4. EntriesOf(f, m, r) = [row : {r - 1}, col : 0 .. m.nc - 1, val : Y]
    BY Zenon DEF EntriesOf
  <2> HIDE DEF e, x, Y
  <2>5. QED
    BY <2>1, <2>2, <2>3, <2>4
<1>3. CASE v = 0 /\ ~IsDense(f)
  <2>1. EntriesAt(f, m, r, c) = <<>> /\ TokensAt(f, m, r, c) = <<>>
    BY <1>3 DEF EntriesAt, TokensAt, v
  <2>2. <<>> \in Seq(EntriesOf(f, m, r)) /\ <<>> \in Seq(Nat) /\ Len(<<>>) = 0
    OBVIOUS
  <2>3. WidthIn(f) * 0 = 0
    BY WidthsIn, TimesSum
  <2>4. IsCoding(f, <<>>, <<>>)
    BY <2>2, <2>3 DEF IsCoding
  <2>5. QED
    BY <1>3, <2>1, <2>2, <2>4
<1>4. CASE ~(v = 0 /\ ~IsDense(f))
  <2>1. EntriesAt(f, m, r, c) = <<e>>
    BY <1>4 DEF EntriesAt, v
  <2>2. TokensAt(f, m, r, c) = Coded(f, e)
    <3>1. CASE IsDense(f)
      <4>1. Coded(f, e) = <<e.val>> /\ TokensAt(f, m, r, c) = <<v>>
        BY <3>1 DEF Coded, TokensAt, IsDense, v
      <4>2. ~IsPattern(f)
        BY <3>1 DEF IsDense, IsPattern
      <4>3. QED
        BY <1>2, <4>1, <4>2
    <3>2. CASE f = "graph"
      <4>1. ~IsDense(f)
        BY <3>2 DEF IsDense
      <4>2. Coded(f, e) = <<e.col + 1>> /\ TokensAt(f, m, r, c) = <<c>>
        BY <1>4, <3>2, <4>1 DEF Coded, TokensAt, IsDense, v
      <4>3. QED
        BY <1>1, <1>2, <4>2
    <3>3. CASE f = "bssmat"
      <4>1. ~IsDense(f)
        BY <3>3 DEF IsDense
      <4>2. Coded(f, e) = <<e.row, e.col>> /\ TokensAt(f, m, r, c) = <<r - 1, c - 1>>
        BY <1>4, <3>3, <4>1 DEF Coded, TokensAt, IsDense, v
      <4>3. QED
        BY <1>1, <1>2, <4>2
    <3>4. CASE f \in {"smat", "bsmat"}
      <4>1. ~IsDense(f) /\ ~IsPattern(f)
        BY <3>4 DEF IsDense, IsPattern
      <4>2. Coded(f, e) = <<e.row, e.col, e.val>> /\ TokensAt(f, m, r, c) = <<r - 1, c - 1, v>>
        BY <1>4, <3>4, <4>1 DEF Coded, TokensAt, IsDense, v
      <4>3. QED
        BY <1>1, <1>2, <4>1, <4>2
    <3>5. CASE f \in {"sparse matrix", "sparse graph"}
      <4>1. ~IsDense(f) /\ ~IsPattern(f)
        BY <3>5 DEF IsDense, IsPattern
      <4>2. Coded(f, e) = <<e.col + 1, e.val>> /\ TokensAt(f, m, r, c) = <<c, v>>
        BY <1>4, <3>5, <4>1 DEF Coded, TokensAt, IsDense, v
      <4>3. QED
        BY <1>1, <1>2, <4>1, <4>2
    <3>6. QED
      BY <3>1, <3>2, <3>3, <3>4, <3>5, FormatCases, Zenon
  <2>3. e.row \in Nat /\ e.col \in Nat /\ e.val \in Nat /\ e.col + 1 \in Nat
    <3>1. e.val \in Nat
      BY <1>1, <1>2 DEF Entry
    <3> HIDE DEF e
    <3>2. QED
      BY <1>1, <1>2, <3>1
  <2> HIDE DEF e
  <2>4. Coded(f, e) \in Seq(Nat) /\ Len(Coded(f, e)) = WidthIn(f)
    <3> DEFINE x == e.row
               y == e.col
               z == e.val
               y1 == e.col + 1
    <3>0. \A a, b \in Nat : <<a>> \in Seq(Nat) /\ <<a, b>> \in Seq(Nat) /\ Len(<<a>>) = 1 /\ Len(<<a, b>>) = 2
      OBVIOUS
    <3>a. \A a, b, o \in Nat : <<a, b, o>> \in Seq(Nat) /\ Len(<<a, b, o>>) = 3
      OBVIOUS
    <3>b. x \in Nat /\ y \in Nat /\ z \in Nat /\ y1 \in Nat
      BY <2>3
    <3>1. CASE IsDense(f)
      <4>1. Coded(f, e) = <<z>> /\ WidthIn(f) = 1
        BY <3>1 DEF Coded, WidthIn, IsDense
      <4> HIDE DEF z
      <4>2. QED
        BY <3>0, <3>b, <4>1
    <3>2. CASE f = "graph"
      <4>1. Coded(f, e) = <<y1>> /\ WidthIn(f) = 1
        BY <3>2 DEF Coded, WidthIn, IsDense
      <4> HIDE DEF y1
      <4>2. QED
        BY <3>0, <3>b, <4>1
    <3>3. CASE f = "bssmat"
      <4>1. Coded(f, e) = <<x, y>> /\ WidthIn(f) = 2
        BY <3>3 DEF Coded, WidthIn, IsDense
      <4> HIDE DEF x, y
      <4>2. QED
        BY <3>0, <3>b, <4>1
    <3>4. CASE f \in {"smat", "bsmat"}
      <4>1. Coded(f, e) = <<x, y, z>> /\ WidthIn(f) = 3
        BY <3>4 DEF Coded, WidthIn, IsDense
      <4> HIDE DEF x, y, z
      <4>2. QED
        BY <3>a, <3>b, <4>1
    <3>5. CASE f \in {"sparse matrix", "sparse graph"}
      <4>1. Coded(f, e) = <<y1, z>> /\ WidthIn(f) = 2
        BY <3>5 DEF Coded, WidthIn, IsDense
      <4> HIDE DEF y1, z
      <4>2. QED
        BY <3>0, <3>b, <4>1
    <3>6. QED
      BY <3>1, <3>2, <3>3, <3>4, <3>5, FormatCases, Zenon
  <2>5. IsCoding(f, Coded(f, e), <<e>>)
    <3> DEFINE w == WidthIn(f)
    <3>1. w \in {1, 2, 3}
      BY WidthsIn
    <3> HIDE DEF w
    <3>2. Len(<<e>>) = 1 /\ w * 1 = w
      BY <3>1
    <3>3. ASSUME NEW q \in Nat, q < 1, NEW d \in 1 .. w
          PROVE  Coded(f, e)[w * q + d] = Coded(f, <<e>>[q + 1])[d]
      <4>1. q = 0 /\ <<e>>[1] = e
        BY <3>3
      <4>2. w * 0 + d = d /\ 0 + 1 = 1
        BY <3>1
      <4>3. QED
        BY <4>1, <4>2, Zenon
    <3>4. QED
      BY <2>4, <3>2, <3>3, Zenon DEF IsCoding, w
  <2>6. <<e>> \in Seq(EntriesOf(f, m, r)) /\ Len(<<e>>) = 1 /\ <<e>>[1].col = c - 1
    BY <1>2
  <2>7. QED
    BY <2>1, <2>2, <2>4, <2>5, <2>6, Zenon
<1>5. QED
  BY <1>3, <1>4

LEMMA SequenceOf ==
    ASSUME NEW X, NEW n \in Nat, NEW E, E = [c \in 1 .. n |-> E[c]],
           \A c \in 1 .. n : E[c] \in X
    PROVE  E \in Seq(X) /\ Len(E) = n
<1>1. E \in [1 .. n -> X] /\ DOMAIN E = 1 .. n
  OBVIOUS
<1>2. E \in Seq(X)
  BY <1>1
<1>3. QED
  BY <1>1, <1>2

LEMMA RowWritten ==
    ASSUME NEW f \in Formats, NEW m, IsMatrix(m), NEW r \in 1 .. m.nr
    PROVE  /\ EntriesInRow(f, m, r) \in Seq(EntriesOf(f, m, r))
           /\ TokensInRow(f, m, r) \in Seq(Nat)
           /\ IsCoding(f, TokensInRow(f, m, r), EntriesInRow(f, m, r))
           /\ IsDense(f) =>
                 /\ Len(EntriesInRow(f, m, r)) = m.nc
                 /\ \A c \in 1 .. m.nc : EntriesInRow(f, m, r)[c].col = c - 1
<1> DEFINE E == [c \in 1 .. m.nc |-> EntriesAt(f, m, r, c)]
           S == [c \in 1 .. m.nc |-> TokensAt(f, m, r, c)]
           X == EntriesOf(f, m, r)
<1>1. m.nc \in Nat
  BY MatrixType
<1>2. \A c \in 1 .. m.nc :
         /\ E[c] \in Seq(X) /\ S[c] \in Seq(Nat) /\ IsCoding(f, S[c], E[c])
         /\ IsDense(f) => Len(E[c]) = 1 /\ E[c][1].col = c - 1
  BY CellWritten
<1>3. EntriesInRow(f, m, r) = FlattenSeq(E) /\ TokensInRow(f, m, r) = FlattenSeq(S)
  BY Zenon DEF EntriesInRow, TokensInRow
<1>4. DOMAIN E = 1 .. m.nc /\ DOMAIN S = 1 .. m.nc
  OBVIOUS
<1>5. E = [c \in 1 .. m.nc |-> E[c]] /\ S = [c \in 1 .. m.nc |-> S[c]]
  OBVIOUS
<1> HIDE DEF E, S, X
<1>6. E \in Seq(Seq(X)) /\ S \in Seq(Seq(Nat)) /\ Len(E) = m.nc /\ Len(S) = m.nc
  <2> DEFINE n == m.nc
             XX == Seq(X)
             NN == Seq(Nat)
  <2>1. n \in Nat /\ E = [c \in 1 .. n |-> E[c]] /\ \A c \in 1 .. n : E[c] \in XX
    BY <1>1, <1>2, <1>5, Zenon
  <2>2. S = [c \in 1 .. n |-> S[c]] /\ \A c \in 1 .. n : S[c] \in NN
    BY <1>2, <1>5, Zenon
  <2> HIDE DEF n, XX, NN
  <2>3. E \in Seq(XX) /\ Len(E) = n
    BY <2>1, SequenceOf
  <2>4. S \in Seq(NN) /\ Len(S) = n
    BY <2>1, <2>2, SequenceOf
  <2>5. QED
    BY <2>3, <2>4, Zenon DEF n, XX, NN
<1>7. FlattenSeq(E) \in Seq(X) /\ FlattenSeq(S) \in Seq(Nat)
  BY <1>6, Flattened
<1>8. IsCoding(f, FlattenSeq(S), FlattenSeq(E))
  <2>1. Len(E) = Len(S) /\ \A p \in 1 .. Len(S) : IsCoding(f, S[p], E[p])
    BY <1>2, <1>6
  <2>2. QED
    BY <1>6, <2>1, CodingJoined
<1>9. ASSUME IsDense(f)
      PROVE  Len(FlattenSeq(E)) = m.nc /\ \A c \in 1 .. m.nc : FlattenSeq(E)[c].col = c - 1
  <2>1. \A p \in 1 .. Len(E) : Len(E[p]) = 1
    BY <1>2, <1>6, <1>9
  <2>2. \A n \in 0 .. Len(E) : Ends(E, n) = n * 1
    <3>1. Len(E) \in Nat /\ 1 \in Nat
      BY <1>1, <1>6
    <3>2. QED
      BY <2>1, <3>1, EndsAlike, Zenon
  <2>3. \A n \in 0 .. m.nc : Ends(E, n) = n
    BY <1>1, <1>6, <2>2
  <2>4. /\ Len(FlattenSeq(E)) = Ends(E, Len(E))
        /\ \A p \in 1 .. Len(E) : \A n \in Nat : p = n + 1 =>
              \A q \in 1 .. Len(E[p]) : FlattenSeq(E)[Ends(E, n) + q] = E[p][q]
    BY <1>6, Flattened
  <2>5. m.nc \in 0 .. m.nc
    BY <1>1
  <2>6. ASSUME NEW c \in 1 .. m.nc PROVE FlattenSeq(E)[c].col = c - 1
    <3> DEFINE n == c - 1
    <3>1. n \in Nat /\ c = n + 1 /\ n \in 0 .. m.nc /\ c \in 1 .. Len(E)
      BY <1>1, <1>6
    <3> HIDE DEF n
    <3>2. 1 \in 1 .. Len(E[c])
      <4>1. Len(E[c]) = 1
        BY <2>1, <3>1, Zenon
      <4>2. QED
        BY <4>1
    <3>3. FlattenSeq(E)[Ends(E, n) + 1] = E[c][1]
      BY <2>4, <3>1, <3>2, Zenon
    <3>4. Ends(E, n) + 1 = c
      BY <2>3, <3>1
    <3>5. QED
      BY <1>2, <1>9, <3>3, <3>4
  <2>7. QED
    BY <1>6, <2>3, <2>4, <2>5, <2>6, Zenon
<1>10. QED
  BY <1>3, <1>7, <1>8, <1>9, Zenon DEF X

LEMMA RowsWritten ==
    ASSUME NEW f \in Formats, NEW m, IsMatrix(m), NEW r \in 1 .. m.nr
    PROVE  EntriesInRow(f, m, r) \in Seq(AllEntriesOf(f, m))
<1> DEFINE cols == 0 .. m.nc - 1
           vals == IF IsPattern(f) THEN {1} ELSE Nat
           rows == 0 .. m.nr - 1
           one == {r - 1}
           X == AllEntriesOf(f, m)
           Y == EntriesOf(f, m, r)
<1>1. m.nr \in Nat /\ EntriesInRow(f, m, r) \in Seq(Y)
  BY MatrixType, RowWritten
<1>2. one \subseteq rows
  BY <1>1
<1>3. Y = [row : one, col : cols, val : vals] /\ X = [row : rows, col : cols, val : vals]
  BY Zenon DEF EntriesOf, AllEntriesOf
<1> HIDE DEF cols, vals, rows, one, X, Y
<1>4. Y \subseteq X
  BY <1>2, <1>3
<1>5. QED
  BY <1>1, <1>4 DEF X

LEMMA AllWritten ==
    ASSUME NEW f \in Formats, NEW m, IsMatrix(m)
    PROVE  /\ WrittenEntries(f, m) \in Seq(AllEntriesOf(f, m))
           /\ Len(WrittenEntries(f, m)) \in Nat
           /\ Body(f, m) \in Seq(Seq(Nat)) /\ Len(Body(f, m)) = m.nr
           /\ FlattenSeq(Body(f, m)) \in Seq(Nat)
           /\ IsCoding(f, FlattenSeq(Body(f, m)), WrittenEntries(f, m))
           /\ IsDense(f) => Len(WrittenEntries(f, m)) = m.nr * m.nc
<1> DEFINE E == [r \in 1 .. m.nr |-> EntriesInRow(f, m, r)]
           S == Body(f, m)
           n == m.nr
           X == AllEntriesOf(f, m)
           XX == Seq(X)
           NN == Seq(Nat)
<1>1. n \in Nat /\ m.nc \in Nat
  BY MatrixType, Zenon
<1>2. \A r \in 1 .. n :
         /\ E[r] \in XX /\ S[r] \in NN /\ IsCoding(f, S[r], E[r])
         /\ IsDense(f) => Len(E[r]) = m.nc
  <2>1. TAKE r \in 1 .. n
  <2>2. E[r] = EntriesInRow(f, m, r) /\ S[r] = TokensInRow(f, m, r)
    BY DEF Body
  <2>3. EntriesInRow(f, m, r) \in XX
    BY RowsWritten, Zenon
  <2>4. QED
    BY <2>2, <2>3, RowWritten, Zenon
<1>3. E = [r \in 1 .. n |-> E[r]] /\ S = [r \in 1 .. n |-> S[r]]
  BY DEF Body
<1>4. WrittenEntries(f, m) = FlattenSeq(E)
  BY Zenon DEF WrittenEntries
<1> HIDE DEF E, S, n, X, XX, NN
<1>5. E \in Seq(XX) /\ Len(E) = n
  BY <1>1, <1>2, <1>3, SequenceOf
<1>6. S \in Seq(NN) /\ Len(S) = n
  BY <1>1, <1>2, <1>3, SequenceOf
<1>7. FlattenSeq(E) \in Seq(X) /\ Len(FlattenSeq(E)) = Ends(E, Len(E)) /\ FlattenSeq(S) \in Seq(Nat)
  BY <1>5, <1>6, Flattened DEF XX, NN
<1>8. IsCoding(f, FlattenSeq(S), FlattenSeq(E))
  <2>1. Len(E) = Len(S) /\ \A p \in 1 .. Len(S) : IsCoding(f, S[p], E[p])
    BY <1>2, <1>5, <1>6
  <2>2. QED
    BY <1>5, <1>6, <2>1, CodingJoined DEF XX, NN
<1>9. ASSUME IsDense(f) PROVE Ends(E, Len(E)) = n * m.nc
  <2>1. Len(E) \in Nat /\ \A p \in 1 .. Len(E) : Len(E[p]) = m.nc
    BY <1>1, <1>2, <1>5, <1>9
  <2>2. \A o \in 0 .. Len(E) : Ends(E, o) = o * m.nc
    BY <1>1, <2>1, EndsAlike, Zenon
  <2>3. Len(E) \in 0 .. Len(E)
    BY <2>1
  <2>4. QED
    BY <1>5, <2>2, <2>3, Zenon
<1>10. Len(FlattenSeq(E)) \in Nat
  BY <1>7
<1>11. QED
  BY <1>4, <1>5, <1>6, <1>7, <1>8, <1>9, <1>10, Zenon DEF S, n, X, NN

\* A file written in a format, where it is read as what it is.
LEMMA FileIs ==
    ASSUME NEW s \in Sessions, s.format \in Formats
    PROVE  /\ IsMatrix(s.matrix) /\ Holds(s.format, s.matrix)
           /\ \E last \in {<<>>, << <<>> >>} : s.lines = Written(s.format, s.matrix) \o last
           /\ s.gz => s.hint = "none" /\ s.format \in Flat
           /\ s.format \in Cluto =>
                 \/ s.hint = "cluto"
                 \/ s.hint = "none" /\ s.ext \in {"mat", "cmat", "cgraph"}
BY WrittenAssumption, Zenon

HeadLength(f) ==
    IF f = "dense graph" THEN 1
    ELSE IF f \in {"graph", "sparse graph", "dense matrix"} THEN 2 ELSE 3
IsHeading(f, h, nr, nc, n) ==
    /\ h \in Seq(Nat) /\ Len(h) = HeadLength(f) /\ h[1] = nr
    /\ f = "graph" => 2 * h[2] = n
    /\ f = "sparse graph" => h[2] = n
    /\ f \in Flat \cup {"sparse matrix", "dense matrix"} => h[2] = nc
    /\ f \in Flat \cup {"sparse matrix"} => h[3] = n

LEMMA HeadingType ==
    ASSUME NEW f \in Formats, NEW m, IsMatrix(m), Holds(f, m)
    PROVE  IsHeading(f, Heading(f, m), m.nr, m.nc, Len(WrittenEntries(f, m)))
<1> DEFINE n == Len(WrittenEntries(f, m))
           half == n \div 2
           a == m.nr
           b == m.nc
<1>1. n \in Nat /\ a \in Nat /\ b \in Nat
  BY AllWritten, MatrixType, Zenon
<1>2. f = "graph" => n % 2 = 0
  BY DEF Holds
<1>3. Heading(f, m) = CASE f = "graph" -> <<a, half>>
      [] f = "sparse graph" -> <<a, n>>
      [] f = "dense graph" -> <<a>>
      [] f = "dense matrix" -> <<a, b>>
      [] OTHER -> <<a, b, n>>
  BY Zenon DEF Heading
<1> HIDE DEF n, a, b
<1>4. half \in Nat /\ (n % 2 = 0 => 2 * half = n)
  BY <1>1
<1> HIDE DEF half
<1>5. \A u, v, w \in Nat :
         /\ <<u>> \in Seq(Nat) /\ <<u, v>> \in Seq(Nat) /\ <<u, v, w>> \in Seq(Nat)
         /\ Len(<<u>>) = 1 /\ Len(<<u, v>>) = 2 /\ Len(<<u, v, w>>) = 3
  OBVIOUS
<1>6. CASE f = "graph"
  <2>1. Heading(f, m) = <<a, half>> /\ 2 * half = n
    BY <1>2, <1>3, <1>4, <1>6
  <2>2. IsHeading(f, <<a, half>>, a, b, n)
    BY <1>1, <1>4, <1>5, <1>6, <2>1 DEF IsHeading, HeadLength, Flat
  <2>3. QED
    BY <2>1, <2>2 DEF n, a, b
<1>7. CASE f = "sparse graph"
  <2>1. Heading(f, m) = <<a, n>>
    BY <1>3, <1>7
  <2>2. IsHeading(f, <<a, n>>, a, b, n)
    BY <1>1, <1>5, <1>7 DEF IsHeading, HeadLength, Flat
  <2>3. QED
    BY <2>1, <2>2 DEF n, a, b
<1>8. CASE f = "dense graph"
  <2>1. Heading(f, m) = <<a>>
    BY <1>3, <1>8
  <2>2. IsHeading(f, <<a>>, a, b, n)
    BY <1>1, <1>5, <1>8 DEF IsHeading, HeadLength, Flat
  <2>3. QED
    BY <2>1, <2>2 DEF n, a, b
<1>9. CASE f = "dense matrix"
  <2>1. Heading(f, m) = <<a, b>>
    BY <1>3, <1>9
  <2>2. IsHeading(f, <<a, b>>, a, b, n)
    BY <1>1, <1>5, <1>9 DEF IsHeading, HeadLength, Flat
  <2>3. QED
    BY <2>1, <2>2 DEF n, a, b
<1>10. CASE f \in Flat \cup {"sparse matrix"}
  <2>1. Heading(f, m) = <<a, b, n>>
    BY <1>3, <1>10 DEF Flat
  <2>2. IsHeading(f, <<a, b, n>>, a, b, n)
    BY <1>1, <1>5, <1>10 DEF IsHeading, HeadLength, Flat
  <2>3. QED
    BY <2>1, <2>2 DEF n, a, b
<1>11. QED
  BY <1>6, <1>7, <1>8, <1>9, <1>10 DEF Formats, Cluto

\* Its lines: the heading, the rows, and perhaps an empty one.
IsWritten(f, m, lines) ==
    /\ Len(lines) \in {m.nr + 1, m.nr + 2}
    /\ lines[1] = Heading(f, m)
    /\ \A r \in 1 .. m.nr : \A p : p = r + 1 => lines[p] = TokensInRow(f, m, r)
    /\ Len(lines) = m.nr + 2 => lines[m.nr + 2] = <<>>
    /\ lines \in Seq(Seq(Nat))

LEMMA LinesWritten ==
    ASSUME NEW s \in Sessions, s.format \in Formats
    PROVE  IsWritten(s.format, s.matrix, s.lines)
<1> DEFINE f == s.format
           m == s.matrix
           n == m.nr
           H == << Heading(f, m) >>
           B == Body(f, m)
           NN == Seq(Nat)
<1>1. IsMatrix(m) /\ Holds(f, m) /\ f \in Formats
  BY FileIs, Zenon
<1>2. PICK last \in {<<>>, << <<>> >>} : s.lines = Written(f, m) \o last
  BY FileIs, Zenon
<1>3. Written(f, m) = H \o B
  BY Zenon DEF Written, Body
<1>4. Heading(f, m) \in NN
  BY <1>1, HeadingType DEF IsHeading
<1>5. B \in Seq(NN) /\ Len(B) = n /\ n \in Nat
  BY <1>1, AllWritten, MatrixType, Zenon
<1>6. \A r \in 1 .. n : B[r] = TokensInRow(f, m, r)
  BY DEF Body
<1>7. <<>> \in NN
  OBVIOUS
<1> HIDE DEF f, m, B, NN
<1>8. H \in Seq(NN) /\ Len(H) = 1 /\ H[1] = Heading(f, m)
  BY <1>4
<1>9. /\ last \in Seq(NN)
      /\ Len(last) = 0 \/ (Len(last) = 1 /\ last[1] = <<>>)
  <2>1. CASE last = <<>>
    BY <2>1
  <2>2. CASE last = << <<>> >>
    BY <1>7, <2>2
  <2>3. QED
    BY <1>2, <2>1, <2>2
<1> HIDE DEF n, H
<1> DEFINE l == n + 1
<1>10. /\ H \o B \in Seq(NN) /\ Len(H \o B) = l
       /\ (H \o B)[1] = H[1]
       /\ \A r \in 1 .. n : (H \o B)[1 + r] = B[r]
  <2>1. 1 = Len(H) /\ 1 \in 1 .. 1
    BY <1>8
  <2>2. /\ H \o B \in Seq(NN) /\ Len(H \o B) = 1 + Len(B)
        /\ \A q \in 1 .. 1 : (H \o B)[q] = H[q]
        /\ \A q \in 1 .. Len(B) : (H \o B)[1 + q] = B[q]
    <3> DEFINE o == 1
    <3>1. o = Len(H)
      BY <2>1
    <3> HIDE DEF o
    <3>2. /\ H \o B \in Seq(NN) /\ Len(H \o B) = o + Len(B)
          /\ \A q \in 1 .. o : (H \o B)[q] = H[q]
          /\ \A q \in 1 .. Len(B) : (H \o B)[o + q] = B[q]
      <4>1. H \in Seq(NN) /\ B \in Seq(NN)
        BY <1>5, <1>8
      <4>2. H \o B \in Seq(NN) /\ Len(H \o B) = o + Len(B)
        BY <3>1, <4>1
      <4>3. \A q \in 1 .. o : (H \o B)[q] = H[q]
        BY <3>1, <4>1
      <4>4. \A q \in 1 .. Len(B) : (H \o B)[o + q] = B[q]
        BY <3>1, <4>1
      <4>5. QED
        BY <4>2, <4>3, <4>4, Zenon
    <3>3. QED
      BY <3>2, Zenon DEF o
  <2>3. l = 1 + n
    BY <1>5
  <2>4. QED
    BY <1>5, <2>1, <2>2, <2>3, Zenon
<1> DEFINE u == H \o B
<1>11. l \in Nat /\ l >= 1
  BY <1>5
<1>a. \A r \in 1 .. n : 1 + r \in 1 .. l /\ \A p : p = r + 1 => p = 1 + r
  BY <1>5
<1> HIDE DEF u, l
<1>12. u \in Seq(NN) /\ l = Len(u) /\ s.lines = u \o last
  BY <1>2, <1>3, <1>10, Zenon DEF u
<1>13. /\ s.lines \in Seq(NN) /\ Len(s.lines) = l + Len(last)
       /\ \A q \in 1 .. l : s.lines[q] = u[q]
       /\ \A q \in 1 .. Len(last) : s.lines[l + q] = last[q]
  <2>1. /\ u \o last \in Seq(NN) /\ Len(u \o last) = l + Len(last)
        /\ \A q \in 1 .. l : (u \o last)[q] = u[q]
        /\ \A q \in 1 .. Len(last) : (u \o last)[l + q] = last[q]
    BY <1>9, <1>12, OneAfterOther
  <2>2. QED
    BY <1>12, <2>1, Zenon
<1>14. Len(s.lines) \in {n + 1, n + 2}
  <2>1. Len(s.lines) = (n + 1) + Len(last)
    BY <1>13, Zenon DEF l
  <2>2. CASE Len(last) = 0
    BY <1>5, <2>1, <2>2
  <2>3. CASE Len(last) = 1
    BY <1>5, <2>1, <2>3
  <2>4. QED
    BY <1>9, <2>2, <2>3
<1>15. s.lines[1] = Heading(f, m)
  <2>1. 1 \in 1 .. l
    BY <1>11
  <2>2. QED
    BY <1>8, <1>10, <1>13, <2>1, Zenon DEF u
<1>16. \A r \in 1 .. n : \A p : p = r + 1 => s.lines[p] = TokensInRow(f, m, r)
  <2>1. TAKE r \in 1 .. n
  <2>2. TAKE p
  <2>3. SUFFICES ASSUME p = r + 1 PROVE s.lines[p] = TokensInRow(f, m, r)
    OBVIOUS
  <2>4. 1 + r \in 1 .. l /\ p = 1 + r
    BY <1>a, <2>1, <2>3, Zenon
  <2>5. s.lines[1 + r] = u[1 + r] /\ u[1 + r] = B[r]
    BY <1>10, <1>13, <2>4, Zenon DEF u
  <2>6. QED
    BY <1>6, <2>4, <2>5, Zenon
<1>17. ASSUME Len(s.lines) = n + 2 PROVE s.lines[n + 2] = <<>>
  <2>1. l + 1 = n + 2
    BY <1>5 DEF l
  <2>2. Len(last) # 0
    BY <1>11, <1>13, <1>17, <2>1
  <2>3. Len(last) = 1 /\ last[1] = <<>>
    BY <1>9, <2>2
  <2>4. s.lines[l + 1] = last[1]
    BY <1>13, <2>3
  <2>5. QED
    BY <2>1, <2>3, <2>4, Zenon
<1>18. QED
  BY <1>13, <1>14, <1>15, <1>16, <1>17, Zenon DEF IsWritten, n, f, m, NN

----------------------------------------------------------------------------
\* Reading what was written, line by line.

LEMMA AllNumbers ==
    ASSUME NEW tokens \in Seq(Nat)
    PROVE  NumbersOf(tokens) = tokens
<1>1. {j \in DOMAIN tokens : ~IsNumber(tokens[j])} = {}
  BY DEF IsNumber, Word
<1>2. NumbersOf(tokens) = SubSeq(tokens, 1, Len(tokens))
  BY <1>1, Zenon DEF NumbersOf
<1>3. QED
  BY <1>2

LEMMA WidthIsIn ==
    ASSUME kind \in Formats
    PROVE  Width = WidthIn(kind)
BY DEF Width, WidthIn, Formats, Flat, Cluto

\* What stands in its row where an entry was written is that entry.
LEMMA EntryFound ==
    ASSUME kind \in Formats, kind \notin Flat, NEW m, IsMatrix(m), NEW r \in 1 .. m.nr,
           NEW o \in 1 .. Len(EntriesInRow(kind, m, r)),
           NEW e \in RowEntry, e.row = r - 1, PlacedAs(e, o, TokensInRow(kind, m, r))
    PROVE  e = EntriesInRow(kind, m, r)[o]
<1> DEFINE E == EntriesInRow(kind, m, r)
           tokens == TokensInRow(kind, m, r)
           x == E[o]
           w == WidthIn(kind)
           q == o - 1
<1>1. /\ E \in Seq(EntriesOf(kind, m, r)) /\ IsCoding(kind, tokens, E)
      /\ IsDense(kind) =>
            /\ Len(E) = m.nc
            /\ \A c \in 1 .. m.nc : E[c].col = c - 1
  BY RowWritten, Zenon
<1>2. m.nc \in Nat /\ m.nr \in Nat
  BY MatrixType, Zenon
<1> HIDE DEF E, tokens
<1>3. /\ Len(E) \in Nat /\ x \in EntriesOf(kind, m, r)
      /\ q \in Nat /\ q < Len(E) /\ o \in Nat /\ q + 1 = o
      /\ o \in 1 .. Len(E)
  <2>1. o \in 1 .. Len(E)
    BY DEF E
  <2>2. QED
    BY <1>1, <2>1
<1>4. \A d \in 1 .. w : tokens[w * q + d] = Coded(kind, x)[d]
  <2> HIDE DEF q, x
  <2>1. \A d \in 1 .. w : tokens[w * q + d] = Coded(kind, E[q + 1])[d]
    BY <1>1, <1>3, Zenon DEF IsCoding
  <2>2. E[q + 1] = x
    BY <1>3 DEF x
  <2>3. QED
    BY <2>1, <2>2, Zenon
<1>5. x = [row |-> x.row, col |-> x.col, val |-> x.val] /\ x.row = r - 1 /\ x.col \in Int
      /\ (IsPattern(kind) => x.val = 1)
  <2> DEFINE vals == IF IsPattern(kind) THEN {1} ELSE Nat
  <2>1. x \in [row : {r - 1}, col : 0 .. m.nc - 1, val : vals]
    BY <1>3, Zenon DEF EntriesOf
  <2>2. IsPattern(kind) => vals = {1}
    OBVIOUS
  <2> HIDE DEF vals, x
  <2>3. QED
    BY <2>1, <2>2
<1>6. e = [row |-> e.row, col |-> e.col, val |-> e.val] /\ e.col \in Int
  BY DEF RowEntry
<1>7. PlacedAs(e, o, tokens)
  BY Zenon DEF tokens
<1> HIDE DEF x
<1>8. e.col = x.col /\ e.val = x.val
  <2>1. CASE IsDense(kind)
    <3>1. w = 1 /\ e.col = o - 1 /\ e.val = tokens[o]
      BY <1>7, <2>1 DEF PlacedAs, WidthIn, IsDense
    <3>2. x.col = o - 1
      BY <1>1, <1>3, <2>1 DEF x
    <3>3. w * q + 1 = o /\ 1 \in 1 .. w
      BY <1>3, <3>1
    <3>4. tokens[o] = Coded(kind, x)[1]
      BY <1>4, <3>3
    <3>5. Coded(kind, x)[1] = x.val
      BY <2>1 DEF Coded, IsDense
    <3>6. QED
      BY <3>1, <3>2, <3>4, <3>5
  <2>2. CASE kind = "graph"
    <3>1. w = 1 /\ e.col + 1 = tokens[o] /\ e.val = 1
      BY <1>7, <2>2 DEF PlacedAs, WidthIn, IsDense
    <3>2. x.val = 1
      BY <1>5, <2>2 DEF IsPattern
    <3>3. w * q + 1 = o /\ 1 \in 1 .. w
      BY <1>3, <3>1
    <3>4. tokens[o] = Coded(kind, x)[1]
      BY <1>4, <3>3
    <3>5. Coded(kind, x)[1] = x.col + 1
      BY <2>2 DEF Coded, IsDense
    <3>6. QED
      BY <1>5, <1>6, <3>1, <3>2, <3>4, <3>5
  <2>3. CASE kind \in {"sparse matrix", "sparse graph"}
    <3>1. w = 2 /\ e.col + 1 = tokens[2 * o - 1] /\ e.val = tokens[2 * o]
      BY <1>7, <2>3 DEF PlacedAs, WidthIn, IsDense
    <3>2. 1 \in 1 .. w /\ 2 \in 1 .. w
      BY <3>1
    <3>3. tokens[w * q + 1] = Coded(kind, x)[1] /\ tokens[w * q + 2] = Coded(kind, x)[2]
      BY <1>4, <3>2, Zenon
    <3>4. w * q + 1 = 2 * o - 1 /\ w * q + 2 = 2 * o
      BY <1>3, <3>1
    <3>5. Coded(kind, x)[1] = x.col + 1 /\ Coded(kind, x)[2] = x.val
      BY <2>3 DEF Coded, IsDense
    <3>6. e.col + 1 = x.col + 1 /\ e.val = x.val
      BY <3>1, <3>3, <3>4, <3>5, Zenon
    <3>7. QED
      BY <1>5, <1>6, <3>6
  <2>4. QED
    BY <2>1, <2>2, <2>3, FormatCases DEF Flat
<1>9. QED
  BY <1>5, <1>6, <1>8 DEF x, E

\* A row has as many entries as can be read from its line.
LEMMA RowCount ==
    ASSUME kind \in Formats, kind \notin Flat, NEW m, IsMatrix(m), NEW r \in 1 .. m.nr
    PROVE  /\ NumbersOf(TokensInRow(kind, m, r)) = TokensInRow(kind, m, r)
           /\ Len(NumbersOf(TokensInRow(kind, m, r))) \div Width = Len(EntriesInRow(kind, m, r))
<1> DEFINE tokens == TokensInRow(kind, m, r)
           n == Len(EntriesInRow(kind, m, r))
           w == WidthIn(kind)
<1>1. tokens \in Seq(Nat) /\ n \in Nat /\ Len(tokens) = w * n
  <2>1. tokens \in Seq(Nat) /\ IsCoding(kind, tokens, EntriesInRow(kind, m, r))
    BY RowWritten, Zenon
  <2>2. QED
    BY <2>1, Zenon DEF IsCoding
<1>2. Width = w /\ w \in {1, 2}
  <2>1. Width = w
    BY WidthIsIn
  <2>2. Width \in {1, 2}
    BY WidthType, Zenon
  <2>3. QED
    BY <2>1, <2>2, Zenon
<1>3. NumbersOf(tokens) = tokens
  BY <1>1, AllNumbers, Zenon
<1> HIDE DEF tokens, n, w
<1>4. Len(tokens) \div w = n
  <2>1. CASE w = 1
    BY <1>1, <2>1
  <2>2. CASE w = 2
    BY <1>1, <2>2
  <2>3. QED
    BY <1>2, <2>1, <2>2
<1>5. QED
  BY <1>2, <1>3, <1>4, Zenon DEF tokens, n

\* A written file that is read as what it is has its lines.
LEMMA LinesAsWritten ==
    ASSUME session \in Sessions, session.format \in Formats,
           kind = session.format \/ session.format \notin Flat
    PROVE  /\ Lines = session.lines
           /\ IsWritten(session.format, session.matrix, Lines)
           /\ IsMatrix(session.matrix) /\ Holds(session.format, session.matrix)
<1>1. session.gz => session.hint = "none" /\ session.format \in Flat
  BY FileIs, Zenon
<1>2. session.gz => session.hint = "none" /\ kind \in Flat
  BY <1>1
<1>3. ~(session.gz /\ ~(session.gz /\ session.hint = "none" /\ kind \in Flat))
  BY <1>2
<1>4. Lines = session.lines
  BY <1>3, Zenon DEF Lines, Decompressed
<1>5. IsWritten(session.format, session.matrix, session.lines)
  BY LinesWritten, Zenon
<1>6. QED
  BY <1>4, <1>5, FileIs, Zenon

\* A pass over a file that is read line by line delivers what was written.
LEMMA LinesRead ==
    ASSUME ReaderInv, LinesInv, InPass, AtEnd, kind \notin Flat,
           session.format = kind, kind \in Formats
    PROVE  entries = WrittenEntries(kind, session.matrix)
<1> DEFINE m == session.matrix
           nr == m.nr
           E == [r \in 1 .. nr |-> EntriesInRow(kind, m, r)]
           n == Len(entries)
<1>1. session \in Sessions
  BY DEF ReaderInv, ReadTypeOK
<1>2. IsWritten(kind, m, Lines) /\ IsMatrix(m)
  BY <1>1, LinesAsWritten, Zenon
<1>3. nr \in Nat /\ nr >= 1 /\ m.nc \in Nat
  BY <1>2, MatrixType, Zenon
<1>4. /\ Seen = Lines /\ Len(Lines) \in Nat /\ row \in Nat
      /\ (at > 1 => at = row + 2) /\ at \in 1 .. Len(Lines)
      /\ DOMAIN entries = 1 .. n /\ n \in Nat
      /\ \A k \in 1 .. n : entries[k].row \in Nat /\ entries[k].row <= row
  BY InRows
<1>5. /\ Len(Lines) \in {nr + 1, nr + 2}
      /\ \A r \in 1 .. nr : \A p : p = r + 1 => Lines[p] = TokensInRow(kind, m, r)
      /\ Len(Lines) = nr + 2 => Lines[nr + 2] = <<>>
  BY <1>2, Zenon DEF IsWritten
<1>6. ~Readable(line) /\ at = Len(Lines)
  BY <1>4, Zenon DEF AtEnd
<1> HIDE DEF n, nr
<1>7. at > 1 /\ (row + 1 = nr \/ (row = nr /\ Len(Lines) = nr + 2)) /\ row + 1 \in Nat
  BY <1>3, <1>4, <1>5, <1>6
<1>8. RowsSoFar
  BY <1>4, <1>7 DEF LinesInv
<1>9. RowsUpTo(row + 1) /\ Before(row + 1) = n /\ EntriesPlaced
  <2>1. RowsUpTo(row + 1) /\ Before(row + 1) = Len(entries)
    BY <1>6, <1>7, <1>8, NextRowStands
  <2>2. EntriesPlaced
    BY <1>8, Zenon DEF RowsSoFar
  <2>3. QED
    BY <2>1, <2>2, Zenon DEF n
<1>10. /\ \A j \in 0 .. row + 1 : Before(j) \in 0 .. n /\ EarlierRows(j) = 1 .. Before(j)
       /\ \A j \in 0 .. row : Before(j + 1) = Before(j) + EntriesOn(j)
  <2>1. /\ \A j \in 0 .. row + 1 : Before(j) \in 0 .. n /\ EarlierRows(j) = 1 .. Before(j)
        /\ \A j \in 0 .. (row + 1) - 1 : Before(j + 1) = Before(j) + EntriesOn(j)
    BY <1>9, Zenon DEF RowsUpTo, n
  <2>2. 0 .. (row + 1) - 1 = 0 .. row
    BY <1>4
  <2>3. QED
    BY <2>1, <2>2, Zenon
<1>11. nr - 1 <= row /\ (\A j \in 0 .. nr : j \in 0 .. row + 1) /\ (\A j \in 0 .. nr - 1 : j \in 0 .. row)
  BY <1>3, <1>4, <1>7
<1>12. Before(0) = 0
  <2>1. 0 \in 0 .. row + 1
    BY <1>4
  <2>2. Before(0) \in 0 .. n /\ EarlierRows(0) = 1 .. Before(0)
    BY <1>10, <2>1, Zenon
  <2>3. EarlierRows(0) = {}
    <3>1. \A k \in 1 .. n : ~(entries[k].row < 0)
      BY <1>4
    <3>2. QED
      BY <1>4, <3>1, Zenon DEF EarlierRows
  <2> DEFINE b == Before(0)
  <2>4. b \in 0 .. n /\ 1 .. b = {}
    BY <2>2, <2>3, Zenon
  <2> HIDE DEF b
  <2>5. b = 0
    <3>1. CASE b >= 1
      <4>1. 1 \in 1 .. b
        BY <1>4, <2>4, <3>1
      <4>2. QED
        BY <2>4, <4>1
    <3>2. QED
      BY <1>4, <2>4, <3>1
  <2>6. QED
    BY <2>5 DEF b
<1>13. \A r \in 1 .. nr : E[r] = EntriesInRow(kind, m, r)
  OBVIOUS
<1>a. E = [r \in 1 .. nr |-> E[r]]
  OBVIOUS
<1>w. WrittenEntries(kind, m) = FlattenSeq(E)
  BY Zenon DEF WrittenEntries, nr
<1> DEFINE X == AllEntriesOf(kind, m)
           XX == Seq(X)
<1>14. \A r \in 1 .. nr : E[r] \in XX
  BY <1>2, <1>13, RowsWritten DEF nr
<1> HIDE DEF E, m, X, XX
<1>15. E \in Seq(XX) /\ Len(E) = nr
  BY <1>3, <1>14, <1>a, SequenceOf
<1>16. \A p \in 1 .. Len(E) : Len(E[p]) \in Nat
  BY <1>14, <1>15 DEF XX
<1>17. ASSUME NEW j \in 0 .. nr - 1, NEW r \in 1 .. nr, r = j + 1
       PROVE  EntriesOn(j) = Len(E[r]) /\ NumbersOf(Lines[j + 2]) = TokensInRow(kind, m, r)
  <2>1. j + 2 = r + 1
    BY <1>17
  <2>2. Lines[j + 2] = TokensInRow(kind, m, r)
    BY <1>5, <2>1, Zenon
  <2>3. /\ NumbersOf(TokensInRow(kind, m, r)) = TokensInRow(kind, m, r)
        /\ Len(NumbersOf(TokensInRow(kind, m, r))) \div Width = Len(E[r])
    BY <1>2, <1>13, RowCount DEF nr
  <2>4. QED
    BY <2>2, <2>3, Zenon DEF EntriesOn
<1>18. \A j \in 0 .. nr : Before(j) = Ends(E, j)
  <2> DEFINE T == {j \in Nat : j <= nr => Before(j) = Ends(E, j)}
  <2>1. 0 \in T
    BY <1>12, EndsFirst
  <2>2. ASSUME NEW j \in Nat, j \in T PROVE j + 1 \in T
    <3> DEFINE p == j + 1
    <3> SUFFICES ASSUME p <= nr PROVE Before(p) = Ends(E, p)
      OBVIOUS
    <3>1. /\ p = j + 1 /\ p \in 1 .. nr /\ p \in 1 .. Len(E) /\ j \in 0 .. nr - 1
          /\ Before(j) = Ends(E, j) /\ j \in 0 .. row
      BY <1>3, <1>11, <1>15, <2>2
    <3>2. Before(p) = Before(j) + EntriesOn(j)
      BY <1>10, <3>1, Zenon
    <3> HIDE DEF p, T
    <3>3. Len(E) \in Nat
      BY <1>3, <1>15
    <3>4. Ends(E, p) = Ends(E, j) + Len(E[p])
      BY <3>1, <3>3, EndsStep, Zenon
    <3>5. EntriesOn(j) = Len(E[p])
      BY <1>17, <3>1, Zenon
    <3>6. QED
      BY <3>1, <3>2, <3>4, <3>5, Zenon
  <2> HIDE DEF T
  <2>3. \A j \in Nat : j \in T
    BY <2>1, <2>2, AllNaturals
  <2>4. QED
    BY <1>3, <2>3 DEF T
<1>19. n = Ends(E, nr)
  <2>1. CASE row + 1 = nr
    BY <1>3, <1>9, <1>18, <2>1
  <2>2. CASE row = nr /\ Len(Lines) = nr + 2
    <3>1. EntriesOn(nr) = 0
      <4>1. Lines[nr + 2] = <<>>
        BY <1>5, <2>2
      <4>2. <<>> \in Seq(Nat) /\ Len(<<>>) = 0
        OBVIOUS
      <4>3. NumbersOf(<<>>) = <<>>
        BY <4>2, AllNumbers, Zenon
      <4>4. Width \in {1, 2}
        BY WidthType, Zenon
      <4>5. 0 \div Width = 0
        BY <4>4
      <4>6. QED
        BY <4>1, <4>2, <4>3, <4>5, Zenon DEF EntriesOn
    <3>2. nr \in 0 .. row /\ nr \in 0 .. nr
      BY <1>3, <2>2
    <3>3. Before(nr + 1) = Before(nr) + EntriesOn(nr)
      BY <1>10, <3>2, Zenon
    <3>4. Before(nr) \in 0 .. n
      BY <1>10, <1>11, <3>2, Zenon
    <3>5. Before(nr + 1) = n
      BY <1>9, <2>2
    <3>6. Before(nr) = Ends(E, nr)
      BY <1>18, <3>2, Zenon
    <3>7. QED
      BY <1>4, <3>1, <3>3, <3>4, <3>5, <3>6
  <2>3. QED
    BY <1>7, <2>1, <2>2
<1>20. /\ FlattenSeq(E) \in Seq(X) /\ Len(FlattenSeq(E)) = Ends(E, Len(E))
       /\ \A p \in 1 .. Len(E) : \A j \in Nat : p = j + 1 =>
             \A q \in 1 .. Len(E[p]) : FlattenSeq(E)[Ends(E, j) + q] = E[p][q]
  BY <1>15, Flattened DEF XX
<1>21. ASSUME NEW k \in 1 .. n PROVE entries[k] = FlattenSeq(E)[k]
  <2>1. k \in 1 .. Ends(E, Len(E)) /\ Len(E) \in Nat
    BY <1>3, <1>15, <1>19
  <2>2. PICK p \in 1 .. Len(E), j \in Nat, o \in Nat :
           p = j + 1 /\ o \in 1 .. Len(E[p]) /\ k = Ends(E, j) + o
    BY <1>16, <2>1, EndsCover
  <2>3. FlattenSeq(E)[k] = E[p][o]
    BY <1>20, <2>2, Zenon
  <2>4. j \in 0 .. nr /\ p \in 0 .. nr /\ p \in 1 .. nr /\ j \in 0 .. nr - 1 /\ j \in 0 .. row /\ p = j + 1
    BY <1>3, <1>11, <1>15, <2>2
  <2>5. Before(j) = Ends(E, j) /\ Before(p) = Ends(E, p)
    BY <1>18, <2>4, Zenon
  <2>6. Ends(E, p) = Ends(E, j) + Len(E[p])
    BY <2>1, <2>2, EndsStep, Zenon
  <2>7. Before(j) \in 0 .. n /\ Before(p) \in 0 .. n /\ EarlierRows(j) = 1 .. Before(j) /\ EarlierRows(p) = 1 .. Before(p)
    BY <1>10, <1>11, <2>4, Zenon
  <2>8. k - Before(j) = o /\ k \in 1 .. Before(p) /\ ~(k \in 1 .. Before(j))
    <3> DEFINE b == Before(j)
               c == Before(p)
               l == Len(E[p])
    <3>1. b \in Nat /\ c \in Nat /\ c = b + l /\ k = b + o /\ o \in 1 .. l /\ l \in Nat /\ o \in Nat
      BY <1>4, <1>16, <2>2, <2>5, <2>6, <2>7
    <3> HIDE DEF b, c, l
    <3>2. k - b = o /\ k \in 1 .. c /\ ~(k \in 1 .. b)
      BY <3>1
    <3>3. QED
      BY <3>2 DEF b, c
  <2>9. entries[k].row < p /\ ~(entries[k].row < j)
    BY <1>4, <2>7, <2>8, Zenon DEF EarlierRows
  <2>10. entries[k].row = j /\ j = p - 1
    BY <1>4, <2>4, <2>9
  <2>11. PlacedAs(entries[k], k - Before(entries[k].row), NumbersOf(Lines[entries[k].row + 2]))
    BY <1>4, <1>9, Zenon DEF EntriesPlaced
  <2>12. PlacedAs(entries[k], o, TokensInRow(kind, m, p))
    <3>1. NumbersOf(Lines[j + 2]) = TokensInRow(kind, m, p)
      BY <1>17, <2>4, Zenon
    <3>2. QED
      BY <2>8, <2>10, <2>11, <3>1, Zenon
  <2>13. entries[k] \in RowEntry
    <3>1. entries \in Seq(RowEntry)
      BY DEF ReaderInv, ReadTypeOK, RowEntry
    <3>2. QED
      BY <1>4, <3>1
  <2>14. E[p] = EntriesInRow(kind, m, p) /\ p \in 1 .. m.nr /\ o \in 1 .. Len(EntriesInRow(kind, m, p))
    <3>1. E[p] = EntriesInRow(kind, m, p)
      BY <1>13, <2>4, Zenon
    <3>2. QED
      BY <2>2, <2>4, <3>1, Zenon DEF nr
  <2>15. entries[k].row = p - 1
    BY <2>10
  <2>16. entries[k] = EntriesInRow(kind, m, p)[o]
    BY <1>2, <2>12, <2>13, <2>14, <2>15, EntryFound
  <2>17. QED
    BY <2>3, <2>14, <2>16, Zenon
<1>22. entries = FlattenSeq(E)
  <2> DEFINE F == FlattenSeq(E)
  <2>1. F \in Seq(X) /\ Len(F) = n /\ \A k \in 1 .. n : entries[k] = F[k]
    BY <1>15, <1>19, <1>20, <1>21, Zenon
  <2>2. entries \in Seq(RowEntry) /\ Len(entries) = n
    BY DEF ReaderInv, ReadTypeOK, RowEntry, n
  <2> HIDE DEF F
  <2>3. entries = F
    BY <1>4, <2>1, <2>2
  <2>4. QED
    BY <2>3 DEF F
<1>23. QED
  BY <1>22, <1>w, Zenon DEF m

----------------------------------------------------------------------------
\* The header of a written file is found by every reader.
LEMMA HeaderWritten ==
    ASSUME session \in Sessions, session.format \in Formats,
           kind = session.format \/ session.format \notin Flat
    PROVE  LET heading == Heading(session.format, session.matrix) IN
           /\ Header = FlattenSeq(Lines)
           /\ Len(Header) \in Nat /\ Len(Header) >= Len(heading) /\ Len(heading) \in 1 .. 3
           /\ \A j \in 1 .. Len(heading) : Header[j] = heading[j]
<1> DEFINE h == Heading(session.format, session.matrix)
           f == session.format
           m == session.matrix
           L == Lines
           F == FlattenSeq(L)
<1>1. IsWritten(f, m, L) /\ IsMatrix(m) /\ Holds(f, m)
  BY LinesAsWritten, Zenon
<1>2. m.nr \in Nat /\ m.nr >= 1
  BY <1>1, MatrixType, Zenon
<1>3. L \in Seq(Seq(Nat)) /\ Len(L) \in {m.nr + 1, m.nr + 2} /\ L[1] = h
  BY <1>1, Zenon DEF IsWritten
<1>4. h \in Seq(Nat) /\ Len(h) = HeadLength(f)
  BY <1>1, HeadingType, Zenon DEF IsHeading
<1>5. Len(h) \in 1 .. 3
  <2>1. HeadLength(f) \in 1 .. 3
    BY DEF HeadLength
  <2>2. QED
    BY <1>4, <2>1, Zenon
<1> HIDE DEF f, m, h, L
<1>6. /\ F \in Seq(Nat) /\ Len(F) = Ends(L, Len(L))
      /\ \A p \in 1 .. Len(L) : \A n \in Nat : p = n + 1 =>
            \A q \in 1 .. Len(L[p]) : F[Ends(L, n) + q] = L[p][q]
  BY <1>3, Flattened
<1> HIDE DEF F
<1>7. Header = F
  BY <1>6, AllNumbers, Zenon DEF Header, F, L
<1>8. /\ Len(L) \in Nat /\ Len(L) >= 2
      /\ \A p \in 1 .. Len(L) : Len(L[p]) \in Nat
  BY <1>2, <1>3
<1>9. 1 \in 1 .. Len(L) /\ 0 \in Nat /\ 1 = 0 + 1 /\ 1 \in 0 .. Len(L) /\ Len(L) \in 0 .. Len(L)
  BY <1>8
<1>10. Ends(L, 0) = 0
  BY EndsFirst, Zenon
<1>11. Ends(L, 1) = Ends(L, 0) + Len(L[1])
  BY <1>8, <1>9, EndsStep, Zenon
<1>12. Len(h) <= Len(F)
  <2>1. \A o \in 0 .. Len(L) : Ends(L, o) <= Ends(L, Len(L))
    BY <1>8, <1>9, EndsGrow, Zenon
  <2>2. Ends(L, 1) <= Ends(L, Len(L))
    BY <1>9, <2>1, Zenon
  <2>3. QED
    BY <1>3, <1>5, <1>6, <1>10, <1>11, <2>2
<1>13. \A j \in 1 .. Len(h) : F[j] = h[j]
  <2>1. TAKE j \in 1 .. Len(h)
  <2>2. F[Ends(L, 0) + j] = h[j]
    BY <1>3, <1>6, <1>9, Zenon
  <2>3. Ends(L, 0) + j = j
    BY <1>5, <1>10
  <2>4. QED
    BY <2>2, <2>3, Zenon
<1>14. Len(F) \in Nat
  BY <1>6
<1>15. QED
  BY <1>5, <1>7, <1>12, <1>13, <1>14, Zenon DEF F, L, h, f, m

\* Beyond the header a flat file is the tokens of its rows.
LEMMA FlatBody ==
    ASSUME session \in Sessions, session.format = kind, kind \in Flat
    PROVE  LET all == FlattenSeq(Body(kind, session.matrix)) IN
           /\ Len(Seen) = 2 /\ Seen[2] = all
<1> DEFINE m == session.matrix
           nr == m.nr
           B == Body(kind, m)
           all == FlattenSeq(B)
           L == Lines
           F == FlattenSeq(L)
           b == Len(all)
<1>0. kind \in Formats /\ session.format \in Formats
  BY DEF Formats
<1>1. IsWritten(kind, m, L) /\ IsMatrix(m) /\ Holds(kind, m)
  BY <1>0, LinesAsWritten, Zenon
<1>2. nr \in Nat /\ nr >= 1
  BY <1>1, MatrixType, Zenon
<1>3. /\ L \in Seq(Seq(Nat)) /\ Len(L) \in {nr + 1, nr + 2} /\ L[1] = Heading(kind, m)
      /\ \A r \in 1 .. nr : \A p : p = r + 1 => L[p] = TokensInRow(kind, m, r)
      /\ Len(L) = nr + 2 => L[nr + 2] = <<>>
  BY <1>1, Zenon DEF IsWritten
<1>4. Len(L[1]) = 3
  <2>1. Len(Heading(kind, m)) = HeadLength(kind)
    BY <1>0, <1>1, HeadingType, Zenon DEF IsHeading
  <2>2. HeadLength(kind) = 3
    BY DEF HeadLength, Flat
  <2>3. QED
    BY <1>3, <2>1, <2>2, Zenon
<1>5. B \in Seq(Seq(Nat)) /\ Len(B) = nr /\ all \in Seq(Nat)
  BY <1>0, <1>1, AllWritten, Zenon
<1>6. \A r \in 1 .. nr : B[r] = TokensInRow(kind, m, r)
  BY DEF Body
<1>s. Seen = <<SubSeq(F, 1, Min({3, Len(F)})), SubSeq(F, Min({3, Len(F)}) + 1, Len(F))>>
  BY Zenon DEF Seen
<1> HIDE DEF m, nr, B, all, L
<1>7. /\ all \in Seq(Nat) /\ Len(all) = Ends(B, nr)
      /\ \A p \in 1 .. nr : \A n \in Nat : p = n + 1 =>
            \A q \in 1 .. Len(B[p]) : all[Ends(B, n) + q] = B[p][q]
  <2>1. /\ FlattenSeq(B) \in Seq(Nat) /\ Len(FlattenSeq(B)) = Ends(B, Len(B))
        /\ \A p \in 1 .. Len(B) : \A n \in Nat : p = n + 1 =>
              \A q \in 1 .. Len(B[p]) : FlattenSeq(B)[Ends(B, n) + q] = B[p][q]
    BY <1>5, Flattened
  <2>2. QED
    BY <1>5, <2>1, Zenon DEF all
<1>8. /\ F \in Seq(Nat) /\ Len(F) = Ends(L, Len(L))
      /\ \A p \in 1 .. Len(L) : \A n \in Nat : p = n + 1 =>
            \A q \in 1 .. Len(L[p]) : F[Ends(L, n) + q] = L[p][q]
  BY <1>3, Flattened
<1> HIDE DEF F
<1>9. /\ Len(L) \in Nat /\ Len(B) \in Nat /\ Len(B) = nr
      /\ \A p \in 1 .. Len(L) : Len(L[p]) \in Nat
      /\ \A p \in 1 .. Len(B) : Len(B[p]) \in Nat
  BY <1>2, <1>3, <1>5
<1>10. \A j \in 0 .. nr : \A p : p = j + 1 => Ends(L, p) = 3 + Ends(B, j)
  <2> DEFINE T == {j \in Nat : j <= nr => \A p : p = j + 1 => Ends(L, p) = 3 + Ends(B, j)}
  <2>1. 0 \in T
    <3>1. 1 \in 1 .. Len(L) /\ 0 \in Nat /\ 1 = 0 + 1
      BY <1>2, <1>3
    <3>2. Ends(L, 1) = Ends(L, 0) + Len(L[1])
      BY <1>9, <3>1, EndsStep, Zenon
    <3>3. Ends(L, 0) = 0 /\ Ends(B, 0) = 0
      BY EndsFirst, Zenon
    <3>4. QED
      BY <1>4, <3>2, <3>3
  <2>2. ASSUME NEW j \in Nat, j \in T PROVE j + 1 \in T
    <3> DEFINE o == j + 1
    <3> SUFFICES ASSUME o <= nr, NEW p, p = o + 1 PROVE Ends(L, p) = 3 + Ends(B, o)
      OBVIOUS
    <3>1. /\ o = j + 1 /\ o \in 1 .. nr /\ o \in 1 .. Len(B) /\ o \in Nat /\ j \in 0 .. Len(B)
          /\ p = o + 1 /\ p \in 1 .. Len(L) /\ Ends(L, o) = 3 + Ends(B, j)
      BY <1>2, <1>3, <1>9, <2>2
    <3> HIDE DEF o, T
    <3>2. Ends(L, p) = Ends(L, o) + Len(L[p])
      BY <1>9, <3>1, EndsStep, Zenon
    <3>3. Ends(B, o) = Ends(B, j) + Len(B[o])
      BY <1>9, <3>1, EndsStep, Zenon
    <3>4. L[p] = B[o]
      BY <1>3, <1>6, <3>1, Zenon
    <3>5. Ends(B, j) \in Nat /\ Len(B[o]) \in Nat
      <4>1. \A n \in 0 .. Len(B) : Ends(B, n) \in Nat
        BY <1>9, EndsNat, Zenon
      <4>2. QED
        BY <1>9, <3>1, <4>1, Zenon
    <3>6. QED
      BY <3>1, <3>2, <3>3, <3>4, <3>5
  <2> HIDE DEF T
  <2>3. \A j \in Nat : j \in T
    BY <2>1, <2>2, AllNaturals
  <2>4. QED
    BY <1>2, <2>3 DEF T
<1>11. b \in Nat /\ b = Ends(B, nr)
  BY <1>5, <1>7
<1>12. Len(F) = 3 + b
  <2> DEFINE p == nr + 1
  <2>1. p = nr + 1 /\ nr \in 0 .. nr /\ p \in Nat
    BY <1>2
  <2> HIDE DEF p
  <2>2. Ends(L, p) = 3 + b
    BY <1>10, <1>11, <2>1, Zenon
  <2>3. CASE Len(L) = nr + 1
    BY <1>8, <2>1, <2>2, <2>3, Zenon
  <2>4. CASE Len(L) = nr + 2
    <3> DEFINE l == nr + 2
    <3>1. l = p + 1 /\ l \in 1 .. Len(L) /\ Len(L) = l
      BY <1>2, <2>1, <2>4
    <3>2. Len(L[l]) = 0
      BY <1>3, <2>4
    <3> HIDE DEF l
    <3>3. Ends(L, l) = Ends(L, p) + Len(L[l])
      BY <1>9, <2>1, <3>1, EndsStep, Zenon
    <3>4. Len(F) = Ends(L, p) + 0
      BY <1>8, <3>1, <3>2, <3>3, Zenon
    <3>5. QED
      BY <1>11, <2>2, <3>4
  <2>5. QED
    BY <1>3, <2>3, <2>4
<1>13. \A z \in 1 .. b : F[3 + z] = all[z]
  <2>1. TAKE z \in 1 .. b
  <2>2. z \in 1 .. Ends(B, Len(B))
    BY <1>9, <1>11
  <2>3. PICK p \in 1 .. Len(B), j \in Nat, o \in Nat :
           p = j + 1 /\ o \in 1 .. Len(B[p]) /\ z = Ends(B, j) + o
    BY <1>9, <2>2, EndsCover
  <2> DEFINE l == p + 1
  <2>4. l = p + 1 /\ l \in 1 .. Len(L) /\ p \in Nat /\ p \in 1 .. nr /\ j \in 0 .. nr /\ j \in 0 .. Len(B)
    BY <1>2, <1>3, <1>9, <2>3
  <2> HIDE DEF l
  <2>5. L[l] = B[p]
    BY <1>3, <1>6, <2>4, Zenon
  <2>6. F[Ends(L, p) + o] = B[p][o]
    <3>1. o \in 1 .. Len(L[l])
      BY <2>3, <2>5, Zenon
    <3>2. F[Ends(L, p) + o] = L[l][o]
      BY <1>8, <2>4, <3>1, Zenon
    <3>3. QED
      BY <2>5, <3>2, Zenon
  <2>7. all[z] = B[p][o]
    BY <1>7, <2>3, <2>4, Zenon
  <2>8. Ends(L, p) = 3 + Ends(B, j)
    BY <1>10, <2>3, <2>4, Zenon
  <2>9. Ends(B, j) \in Nat
    <3>1. \A n \in 0 .. Len(B) : Ends(B, n) \in Nat
      BY <1>9, EndsNat, Zenon
    <3>2. QED
      BY <2>4, <3>1, Zenon
  <2>10. Ends(L, p) + o = 3 + z
    BY <2>3, <2>8, <2>9
  <2>11. QED
    BY <2>6, <2>7, <2>10, Zenon
<1> HIDE DEF b
<1>14. Min({3, Len(F)}) = 3
  <2> DEFINE s == {3, Len(F)}
  <2>1. s \subseteq Nat /\ s # {} /\ 3 \in s /\ \A y \in s : y >= 3
    BY <1>11, <1>12
  <2> HIDE DEF s
  <2>2. Min(s) \in s /\ \A y \in s : Min(s) <= y
    BY <2>1, MinOf
  <2>3. Min(s) = 3
    <3> DEFINE y == Min(s)
    <3>1. y \in Nat /\ y <= 3 /\ y >= 3
      BY <2>1, <2>2
    <3> HIDE DEF y
    <3>2. y = 3
      BY <3>1
    <3>3. QED
      BY <3>2 DEF y
  <2>4. QED
    BY <2>3 DEF s
<1>15. Len(Seen) = 2 /\ Seen[2] = SubSeq(F, 4, Len(F))
  <2> DEFINE x == SubSeq(F, 1, 3)
             y == SubSeq(F, 3 + 1, Len(F))
  <2>1. Seen = <<x, y>>
    BY <1>14, <1>s, Zenon
  <2>2. y = SubSeq(F, 4, Len(F))
    OBVIOUS
  <2> HIDE DEF x, y
  <2>3. QED
    BY <2>1, <2>2
<1>16. SubSeq(F, 4, Len(F)) = all
  <2> DEFINE s == SubSeq(F, 4, Len(F))
  <2>1. s \in Seq(Nat) /\ Len(s) = b /\ \A z \in 1 .. b : s[z] = F[3 + z]
    BY <1>8, <1>11, <1>12
  <2>2. Len(all) = b
    BY DEF b
  <2> HIDE DEF s
  <2>3. s = all
    <3>1. \A z \in 1 .. b : s[z] = all[z]
      BY <1>13, <2>1, Zenon
    <3>2. QED
      BY <1>5, <1>11, <2>1, <2>2, <3>1
  <2>4. QED
    BY <2>3 DEF s
<1>17. QED
  BY <1>15, <1>16, Zenon DEF all, B, m

----------------------------------------------------------------------------
\* Reading what was written in a flat file.

\* As much of what was written has been delivered as tokens are gone.
WrittenHere == WrittenEntries(kind, session.matrix)
FlatSoFar ==
    /\ Len(entries) <= Len(WrittenHere)
    /\ \A k \in 1 .. Len(entries) : entries[k] = WrittenHere[k]
    /\ line = SubSeq(Seen[2], Width * Len(entries) + 1, Len(Seen[2]))
FlatInv ==
    (InPass /\ kind \in Flat /\ session.format = kind) =>
        /\ entries \in Seq(RowEntry)
        /\ at = 1 => line = <<>> /\ entries = <<>>
        /\ at # 1 => at = 2 /\ FlatSoFar

\* What the written file holds beyond its header, in the terms of the reader.
LEMMA FlatWritten ==
    ASSUME session \in Sessions, session.format = kind, kind \in Flat
    PROVE  /\ Len(Seen) = 2 /\ Seen[2] \in Seq(Nat)
           /\ WrittenHere \in Seq(RowEntry) /\ Len(WrittenHere) \in Nat
           /\ IsCoding(kind, Seen[2], WrittenHere)
           /\ Width = WidthIn(kind) /\ Width \in {2, 3}
           /\ \A k \in 1 .. Len(WrittenHere) :
                 IsPattern(kind) => WrittenHere[k].val = 1
<1> DEFINE m == session.matrix
           W == WrittenEntries(kind, m)
<1>1. kind \in Formats /\ session.format \in Formats
  BY DEF Formats
<1>2. IsMatrix(m)
  BY <1>1, LinesAsWritten, Zenon
<1>3. /\ W \in Seq(AllEntriesOf(kind, m)) /\ Len(W) \in Nat
      /\ FlattenSeq(Body(kind, m)) \in Seq(Nat)
      /\ IsCoding(kind, FlattenSeq(Body(kind, m)), W)
  BY <1>1, <1>2, AllWritten, Zenon
<1>4. Len(Seen) = 2 /\ Seen[2] = FlattenSeq(Body(kind, m))
  BY FlatBody, Zenon
<1>5. Width = WidthIn(kind) /\ WidthIn(kind) \in {2, 3}
  <2>1. Width = WidthIn(kind)
    BY <1>1, WidthIsIn
  <2>2. WidthIn(kind) \in {2, 3}
    BY DEF WidthIn, Flat
  <2>3. QED
    BY <2>1, <2>2
<1>6. AllEntriesOf(kind, m) \subseteq RowEntry
  <2> DEFINE rows == 0 .. m.nr - 1
             cols == 0 .. m.nc - 1
             vals == IF IsPattern(kind) THEN {1} ELSE Nat
  <2>1. m.nr \in Nat /\ m.nc \in Nat
    BY <1>2, MatrixType, Zenon
  <2>2. rows \subseteq Nat /\ cols \subseteq Int /\ vals \subseteq Int
    BY <2>1
  <2>3. AllEntriesOf(kind, m) = [row : rows, col : cols, val : vals]
    BY Zenon DEF AllEntriesOf
  <2> HIDE DEF rows, cols, vals
  <2>4. ASSUME NEW e \in [row : rows, col : cols, val : vals] PROVE e \in RowEntry
    <3>1. e = [row |-> e.row, col |-> e.col, val |-> e.val]
          /\ e.row \in rows /\ e.col \in cols /\ e.val \in vals
      OBVIOUS
    <3>2. e.row \in Nat /\ e.col \in Int /\ e.val \in Int
      BY <2>2, <3>1
    <3>3. QED
      BY <3>1, <3>2 DEF RowEntry
  <2>5. QED
    BY <2>3, <2>4
<1>7. ASSUME IsPattern(kind) PROVE \A e \in AllEntriesOf(kind, m) : e.val = 1
  BY <1>7 DEF AllEntriesOf
<1> HIDE DEF W
<1>8. W \in Seq(RowEntry) /\ \A k \in 1 .. Len(W) : W[k] \in AllEntriesOf(kind, m)
  BY <1>3, <1>6
<1>9. QED
  BY <1>3, <1>4, <1>5, <1>7, <1>8, Zenon DEF WrittenHere, W

LEMMA RestIs ==
    ASSUME NEW tokens \in Seq(Nat), NEW t, t = Len(tokens), NEW d \in Nat, d <= t,
           NEW rest, rest = SubSeq(tokens, d + 1, t)
    PROVE  /\ rest \in Seq(Nat) /\ Len(rest) = t - d
           /\ \A z \in 1 .. t - d : rest[z] = tokens[d + z]
<1> DEFINE u == SubSeq(tokens, d + 1, t)
<1>1. t \in Nat /\ DOMAIN tokens = 1 .. t /\ \A z \in 1 .. t : tokens[z] \in Nat
  OBVIOUS
<1>2. Len(u) = t - d
  BY <1>1
<1>3. \A z \in 1 .. t - d : u[z] = tokens[d + z]
  <2>1. ASSUME NEW z \in 1 .. t - d PROVE u[z] = tokens[d + z]
    BY <1>1
  <2>2. QED
    BY <2>1
<1>4. u \in Seq(Nat)
  BY <1>1
<1> HIDE DEF u
<1>5. rest = u
  BY DEF u
<1>6. QED
  BY <1>2, <1>3, <1>4, <1>5, Zenon

LEMMA EntryPattern ==
    ASSUME kind = "bssmat", NEW r, NEW j, NEW tokens
    PROVE  EntryOf(r, j, tokens) = [row |-> tokens[1], col |-> tokens[2], val |-> 1]
BY DEF EntryOf, Entry, Flat

LEMMA EntryValued ==
    ASSUME kind \in {"smat", "bsmat"}, NEW r, NEW j, NEW tokens
    PROVE  EntryOf(r, j, tokens) = [row |-> tokens[1], col |-> tokens[2], val |-> tokens[3]]
BY DEF EntryOf, Entry, Flat

\* n entries of a flat file have been taken and rest is what is left of it.
TakenOf(n, rest) ==
    /\ session \in Sessions /\ session.format = kind /\ kind \in Flat
    /\ n \in Nat /\ n <= Len(WrittenHere)
    /\ rest = SubSeq(Seen[2], Width * n + 1, Len(Seen[2]))
NextIs(rest, p) ==
    /\ \A r, j : EntryOf(r, j, rest) = WrittenHere[p]
    /\ SubSeq(rest, Width + 1, Len(rest)) = SubSeq(Seen[2], Width * p + 1, Len(Seen[2]))

\* The next entry taken is the next that was written.
LEMMA FlatEntry ==
    ASSUME NEW n, NEW rest, TakenOf(n, rest), NEW p, p = n + 1
    PROVE  /\ Readable(rest) <=> n < Len(WrittenHere)
           /\ n < Len(WrittenHere) => NextIs(rest, p)
<1>0. /\ session \in Sessions /\ session.format = kind /\ kind \in Flat
      /\ n \in Nat /\ n <= Len(WrittenHere)
      /\ rest = SubSeq(Seen[2], Width * n + 1, Len(Seen[2]))
  BY DEF TakenOf
<1> DEFINE W == WrittenHere
           tokens == Seen[2]
           w == Width
           l == Len(W)
           t == Len(tokens)
           d == w * n
<1>1. /\ tokens \in Seq(Nat) /\ W \in Seq(RowEntry) /\ l \in Nat
      /\ w = WidthIn(kind) /\ w \in {2, 3}
      /\ \A k \in 1 .. l : IsPattern(kind) => W[k].val = 1
  BY <1>0, FlatWritten, Zenon
<1>2. /\ t = w * l
      /\ \A q \in Nat : q < l => \A z \in 1 .. w : tokens[w * q + z] = Coded(kind, W[q + 1])[z]
  <2>1. IsCoding(kind, tokens, W)
    BY <1>0, FlatWritten, Zenon
  <2>2. QED
    BY <1>1, <2>1, Zenon DEF IsCoding
<1> HIDE DEF W, tokens, w
<1>3. /\ t \in Nat /\ d \in Nat /\ d <= t /\ (n < l <=> d + w <= t) /\ t - d >= 0
  <2>1. n <= l /\ n \in Nat
    BY <1>0 DEF W
  <2>2. CASE w = 2
    BY <1>1, <1>2, <2>1, <2>2
  <2>3. CASE w = 3
    BY <1>1, <1>2, <2>1, <2>3
  <2>4. QED
    BY <1>1, <2>2, <2>3
<1>4. rest = SubSeq(tokens, d + 1, t)
  BY <1>0, Zenon DEF tokens, w
<1> HIDE DEF t, d
<1>5. rest \in Seq(Nat) /\ Len(rest) = t - d /\ \A z \in 1 .. t - d : rest[z] = tokens[d + z]
  <2>1. t = Len(tokens) /\ tokens \in Seq(Nat)
    BY <1>1 DEF t
  <2> HIDE DEF tokens
  <2>2. QED
    BY <1>3, <1>4, <2>1, RestIs, SMT
<1>6. Readable(rest) <=> n < l
  <2>1. NumbersOf(rest) = rest
    BY <1>5, AllNumbers, Zenon
  <2>2. Readable(rest) <=> Len(rest) >= w
    BY <2>1, Zenon DEF Readable, w
  <2>3. QED
    BY <1>1, <1>3, <1>5, <2>2
<1>7. ASSUME n < l
      PROVE  /\ \A r, j : EntryOf(r, j, rest) = W[p]
             /\ SubSeq(rest, w + 1, Len(rest)) = SubSeq(tokens, w * p + 1, t)
  <2>1. w * p = d + w
    <3>1. CASE w = 2
      BY <1>0, <3>1 DEF d
    <3>2. CASE w = 3
      BY <1>0, <3>2 DEF d
    <3>3. QED
      BY <1>1, <3>1, <3>2
  <2>2. tokens \in Seq(Tokens) /\ d \in Nat /\ w \in Nat /\ d + w <= Len(tokens)
    <3>1. tokens \in Seq(Tokens)
      <4>1. Nat \subseteq Tokens
        BY DEF Tokens
      <4> HIDE DEF tokens
      <4>2. QED
        BY <1>1, <4>1
    <3>2. w \in Nat /\ d \in Nat /\ d + w <= t
      BY <1>1, <1>3, <1>7
    <3>3. QED
      BY <3>1, <3>2, Zenon DEF t
  <2>3. SubSeq(rest, w + 1, Len(rest)) = SubSeq(tokens, d + w + 1, Len(tokens))
    <3>1. rest = SubSeq(tokens, d + 1, Len(tokens))
      BY <1>4, Zenon DEF t
    <3>2. SubSeq(SubSeq(tokens, d + 1, Len(tokens)), w + 1, Len(SubSeq(tokens, d + 1, Len(tokens))))
            = SubSeq(tokens, d + w + 1, Len(tokens))
      BY <2>2, RestOfRest, Zenon
    <3>3. QED
      BY <3>1, <3>2, Zenon
  <2>4. \A z \in 1 .. w : rest[z] = Coded(kind, W[p])[z]
    <3>1. TAKE z \in 1 .. w
    <3>2. rest[z] = tokens[d + z]
      <4>1. w <= t - d /\ w \in Nat
        BY <1>1, <1>3, <1>7
      <4>2. z \in 1 .. t - d
        BY <1>3, <4>1
      <4>3. QED
        BY <1>5, <4>2, Zenon
    <3>3. tokens[w * n + z] = Coded(kind, W[n + 1])[z]
      BY <1>0, <1>2, <1>7, Zenon
    <3>4. QED
      BY <3>2, <3>3, Zenon DEF d
  <2> DEFINE x == W[p]
  <2>a. \A z \in 1 .. w : rest[z] = Coded(kind, x)[z]
    BY <2>4, Zenon
  <2>5. x \in RowEntry /\ (IsPattern(kind) => x.val = 1)
    <3>1. p \in 1 .. l
      BY <1>0, <1>1, <1>7
    <3>2. QED
      BY <1>1, <3>1
  <2> HIDE DEF x
  <2>6. x = [row |-> x.row, col |-> x.col, val |-> x.val]
    BY <2>5 DEF RowEntry
  <2>7. \A r, j : EntryOf(r, j, rest) = x
    <3>1. TAKE r, j
    <3>2. CASE kind = "bssmat"
      <4>1. EntryOf(r, j, rest) = [row |-> rest[1], col |-> rest[2], val |-> 1]
        BY <3>2, EntryPattern, Zenon
      <4>2. w = 2
        BY <1>1, <3>2 DEF WidthIn
      <4>3. Coded(kind, x) = <<x.row, x.col>>
        BY <3>2 DEF Coded, IsDense
      <4>4. 1 \in 1 .. w /\ 2 \in 1 .. w
        BY <4>2
      <4>5. rest[1] = x.row /\ rest[2] = x.col
        <5>1. rest[1] = <<x.row, x.col>>[1] /\ rest[2] = <<x.row, x.col>>[2]
          BY <2>a, <4>3, <4>4, Zenon
        <5>2. QED
          BY <5>1
      <4>6. x.val = 1
        BY <2>5, <3>2 DEF IsPattern
      <4>7. QED
        BY <2>6, <4>1, <4>5, <4>6
    <3>3. CASE kind \in {"smat", "bsmat"}
      <4>1. EntryOf(r, j, rest) = [row |-> rest[1], col |-> rest[2], val |-> rest[3]]
        BY <3>3, EntryValued, Zenon
      <4>2. w = 3
        BY <1>1, <3>3 DEF WidthIn
      <4>3. Coded(kind, x) = <<x.row, x.col, x.val>>
        BY <3>3 DEF Coded, IsDense
      <4>4. 1 \in 1 .. w /\ 2 \in 1 .. w /\ 3 \in 1 .. w
        BY <4>2
      <4>5. rest[1] = x.row /\ rest[2] = x.col /\ rest[3] = x.val
        <5>1. /\ rest[1] = <<x.row, x.col, x.val>>[1] /\ rest[2] = <<x.row, x.col, x.val>>[2]
              /\ rest[3] = <<x.row, x.col, x.val>>[3]
          BY <2>a, <4>3, <4>4, Zenon
        <5>2. QED
          BY <5>1
      <4>6. QED
        BY <2>6, <4>1, <4>5
    <3>4. QED
      BY <1>0, <3>2, <3>3 DEF Flat
  <2>8. d + w + 1 = w * p + 1
    BY <2>1
  <2>9. QED
    BY <2>3, <2>7, <2>8, Zenon DEF x, t
<1>8. QED
  BY <1>6, <1>7, Zenon DEF W, tokens, w, t, l, NextIs

LEMMA FlatKept ==
    ASSUME session' = session, kind' = kind
    PROVE  WrittenHere' = WrittenHere /\ Seen' = Seen /\ Width' = Width
BY FileKept, Zenon DEF WrittenHere

LEMMA FlatInvTake ==
    ASSUME ReaderInv, FlatInv, TakeEntry
    PROVE  FlatInv'
<1> DEFINE n == Len(entries)
           e == EntryOf(row, col, line)
           p == n + 1
<1>1. /\ InPass /\ Readable(line) /\ entries' = Append(entries, e)
      /\ line' = SubSeq(line, Width + 1, Len(line))
      /\ UNCHANGED <<session, stage, kind, at>>
  BY DEF TakeEntry
<1>2. SUFFICES ASSUME kind \in Flat, session.format = kind
               PROVE  entries' \in Seq(RowEntry) /\ at # 1 /\ FlatSoFar'
  BY <1>1 DEF FlatInv, InPass
<1>3. session \in Sessions
  BY DEF ReaderInv, ReadTypeOK
<1>4. entries \in Seq(RowEntry) /\ (at = 1 => line = <<>>) /\ (at # 1 => at = 2 /\ FlatSoFar)
  BY <1>1, <1>2 DEF FlatInv
<1>5. Width \in {2, 3} /\ WrittenHere \in Seq(RowEntry) /\ Len(WrittenHere) \in Nat
  BY <1>2, <1>3, FlatWritten, Zenon
<1>6. at # 1
  <2>1. <<>> \in Seq(Nat) /\ Len(<<>>) = 0
    OBVIOUS
  <2>2. NumbersOf(<<>>) = <<>>
    BY <2>1, AllNumbers, Zenon
  <2>3. ~(0 >= Width)
    BY <1>5
  <2>4. ~Readable(<<>>)
    BY <2>1, <2>2, <2>3, Zenon DEF Readable
  <2>5. QED
    BY <1>1, <1>4, <2>4
<1>7. FlatSoFar /\ n \in Nat /\ p = n + 1
  BY <1>4, <1>6
<1> HIDE DEF p
<1>8. /\ n <= Len(WrittenHere) /\ line = SubSeq(Seen[2], Width * n + 1, Len(Seen[2]))
      /\ \A k \in 1 .. n : entries[k] = WrittenHere[k]
  BY <1>7, Zenon DEF FlatSoFar
<1> HIDE DEF n, e
<1>9. /\ n < Len(WrittenHere) /\ e = WrittenHere[p]
      /\ line' = SubSeq(Seen[2], Width * p + 1, Len(Seen[2]))
  <2>1. TakenOf(n, line)
    BY <1>2, <1>3, <1>7, <1>8, Zenon DEF TakenOf
  <2>2. /\ Readable(line) <=> n < Len(WrittenHere)
        /\ n < Len(WrittenHere) => NextIs(line, p)
    BY <1>7, <2>1, FlatEntry, Zenon
  <2>3. n < Len(WrittenHere) /\ NextIs(line, p)
    BY <1>1, <2>2, Zenon
  <2>4. QED
    BY <1>1, <2>3, Zenon DEF e, NextIs
<1>10. e \in RowEntry
  BY <1>5, <1>7, <1>9
<1>11. /\ entries' \in Seq(RowEntry) /\ Len(entries') = p
       /\ \A k \in 1 .. n : entries'[k] = entries[k]
       /\ entries'[p] = e
  BY <1>1, <1>4, <1>7, <1>10 DEF n
<1>12. p <= Len(WrittenHere)
  BY <1>5, <1>7, <1>9
<1>13. \A k \in 1 .. p : entries'[k] = WrittenHere[k]
  <2>1. TAKE k \in 1 .. p
  <2>2. k = p \/ k \in 1 .. n
    BY <1>7
  <2>3. QED
    BY <1>8, <1>9, <1>11, <2>2
<1>14. WrittenHere' = WrittenHere /\ Seen' = Seen /\ Width' = Width
  BY <1>1, FlatKept
<1>15. FlatSoFar'
  BY <1>9, <1>11, <1>12, <1>13, <1>14, Zenon DEF FlatSoFar
<1>16. QED
  BY <1>6, <1>11, <1>15

LEMMA FlatInvFetch ==
    ASSUME ReaderInv, FlatInv, FetchLine
    PROVE  FlatInv'
<1>1. /\ InPass /\ at < Len(Seen) /\ line' = Seen[at + 1] /\ at' = at + 1
      /\ UNCHANGED <<session, stage, kind, entries>>
  BY DEF FetchLine
<1>2. SUFFICES ASSUME kind \in Flat, session.format = kind
               PROVE  entries' \in Seq(RowEntry) /\ at' = 2 /\ FlatSoFar'
  BY <1>1 DEF FlatInv, InPass
<1>3. session \in Sessions
  BY DEF ReaderInv, ReadTypeOK
<1>4. entries \in Seq(RowEntry) /\ (at = 1 => line = <<>> /\ entries = <<>>) /\ (at # 1 => at = 2)
  BY <1>1, <1>2 DEF FlatInv
<1>5. Len(Seen) = 2 /\ Seen[2] \in Seq(Nat) /\ Width \in {2, 3} /\ Len(WrittenHere) \in Nat
  BY <1>2, <1>3, FlatWritten, Zenon
<1>6. at = 1 /\ entries = <<>> /\ entries' = <<>> /\ line' = Seen[2] /\ at' = 2
  BY <1>1, <1>4, <1>5
<1>7. WrittenHere' = WrittenHere /\ Seen' = Seen /\ Width' = Width
  BY <1>1, FlatKept
<1>8. Len(entries') = 0
  BY <1>6
<1> DEFINE s == Seen[2]
<1>9. s = SubSeq(s, Width * 0 + 1, Len(s))
  <2>1. Width * 0 + 1 = 1
    BY <1>5
  <2>2. s \in Seq(Nat)
    BY <1>5
  <2> HIDE DEF s
  <2>3. s = SubSeq(s, 1, Len(s))
    BY <2>2
  <2>4. QED
    BY <2>1, <2>3, Zenon
<1>10. 0 <= Len(WrittenHere) /\ \A k \in 1 .. 0 : entries'[k] = WrittenHere[k]
  BY <1>5
<1>11. FlatSoFar'
  BY <1>6, <1>7, <1>8, <1>9, <1>10, Zenon DEF FlatSoFar
<1>12. QED
  BY <1>1, <1>4, <1>6, <1>11

LEMMA FlatInvInit == ReadInit => FlatInv
BY DEF ReadInit, FlatInv, InPass

LEMMA FlatInvStep == ReaderInv /\ FlatInv /\ [ReadNext]_readvars => FlatInv'
<1> SUFFICES ASSUME ReaderInv, FlatInv, [ReadNext]_readvars PROVE FlatInv'
  OBVIOUS
<1>1. CASE TakeEntry
  BY <1>1, FlatInvTake
<1>2. CASE FetchLine
  BY <1>2, FlatInvFetch
<1>3. CASE Size \/ FirstPassOver \/ SecondPassOver
  <2>1. CASE StartPass
    BY <2>1 DEF StartPass, Discarded, FlatInv
  <2>2. CASE stage' \in {"undefined", "rejected", "loaded"}
    BY <2>2 DEF FlatInv, InPass
  <2>3. QED
    BY <1>3, <2>1, <2>2 DEF Size, FirstPassOver, SecondPassOver
<1>4. CASE Choose \/ DetectHeader \/ CheckLine \/ NoMoreLines
  <2>1. stage' \notin {"first", "second"}
    BY <1>4 DEF Choose, DetectHeader, CheckLine, NoMoreLines
  <2>2. QED
    BY <2>1 DEF FlatInv, InPass
<1>5. CASE UNCHANGED readvars
  <2>1. /\ session' = session /\ kind' = kind /\ stage' = stage /\ entries' = entries
        /\ at' = at /\ line' = line
    BY <1>5 DEF readvars
  <2>2. WrittenHere' = WrittenHere /\ Seen' = Seen /\ Width' = Width
    BY <2>1, FlatKept
  <2>3. FlatSoFar => FlatSoFar'
    BY <2>1, <2>2, Zenon DEF FlatSoFar
  <2>4. QED
    BY <2>1, <2>3 DEF FlatInv, InPass
<1>6. QED
  BY <1>1, <1>2, <1>3, <1>4, <1>5 DEF ReadNext

\* A pass over a flat file delivers what was written.
LEMMA FlatRead ==
    ASSUME ReaderInv, FlatInv, InPass, AtEnd, kind \in Flat, session.format = kind
    PROVE  entries = WrittenHere
<1> DEFINE n == Len(entries)
           p == n + 1
<1>1. session \in Sessions /\ ~Readable(line) /\ at = Len(Seen)
  BY DEF ReaderInv, ReadTypeOK, AtEnd
<1>2. Len(Seen) = 2 /\ WrittenHere \in Seq(RowEntry) /\ Len(WrittenHere) \in Nat
  BY <1>1, FlatWritten, Zenon
<1>3. entries \in Seq(RowEntry) /\ FlatSoFar
  BY <1>1, <1>2 DEF FlatInv
<1>4. n \in Nat /\ p = n + 1
  BY <1>3
<1> HIDE DEF p
<1>5. /\ n <= Len(WrittenHere) /\ line = SubSeq(Seen[2], Width * n + 1, Len(Seen[2]))
      /\ \A k \in 1 .. n : entries[k] = WrittenHere[k]
  BY <1>3, Zenon DEF FlatSoFar
<1>6. ~(n < Len(WrittenHere))
  <2> HIDE DEF n
  <2>1. TakenOf(n, line)
    BY <1>1, <1>4, <1>5, Zenon DEF TakenOf
  <2>2. Readable(line) <=> n < Len(WrittenHere)
    BY <1>4, <2>1, FlatEntry, Zenon
  <2>3. QED
    BY <1>1, <2>2
<1>7. n = Len(WrittenHere)
  BY <1>2, <1>4, <1>5, <1>6
<1>8. QED
  BY <1>2, <1>3, <1>5, <1>7

----------------------------------------------------------------------------
\* The sizes the readers take from a written header are the matrix's.
LEMMA SizesRead ==
    ASSUME session \in Sessions, session.format = kind, kind \in Formats
    PROVE  /\ ~(Len(Header) < HeaderLength)
           /\ Nrows = session.matrix.nr /\ Ncols = session.matrix.nc
           /\ Nnz = Len(WrittenHere)
<1> DEFINE m == session.matrix
           h == Heading(kind, m)
           nr == m.nr
           nc == m.nc
           n == Len(WrittenHere)
           hl == Len(h)
           hd == Len(Header)
<1>1. IsMatrix(m) /\ Holds(kind, m)
  BY LinesAsWritten, Zenon
<1>2. nr \in Nat /\ nc \in Nat /\ n \in Nat /\ (IsDense(kind) => n = nr * nc)
  BY <1>1, MatrixType, AllWritten, Zenon DEF WrittenHere
<1>3. IsHeading(kind, h, nr, nc, n)
  BY <1>1, HeadingType, Zenon DEF WrittenHere
<1>4. /\ hd \in Nat /\ hd >= hl
      /\ \A j \in 1 .. hl : Header[j] = h[j]
  BY HeaderWritten, Zenon
<1>5. kind \in {"graph", "sparse graph", "dense graph"} => nr = nc
  BY <1>1, Zenon DEF Holds
<1> HIDE DEF m, h, nr, nc, n, hl, hd
<1>6. hl = HeadLength(kind)
  BY <1>3, Zenon DEF IsHeading, hl
<1>a. /\ hl \in {1, 2, 3}
      /\ kind \in Flat \cup {"sparse matrix"} => hl = 3
      /\ kind \in {"graph", "sparse graph", "dense matrix"} => hl = 2
  BY <1>6 DEF HeadLength, Flat
<1>b. 1 \in 1 .. hl /\ (hl = 2 => 2 \in 1 .. hl) /\ (hl = 3 => 2 \in 1 .. hl /\ 3 \in 1 .. hl)
  <2>1. \A x \in {1, 2, 3} :
           1 \in 1 .. x /\ (x = 2 => 2 \in 1 .. x) /\ (x = 3 => 2 \in 1 .. x /\ 3 \in 1 .. x)
    OBVIOUS
  <2>2. hl \in {1, 2, 3}
    BY <1>a
  <2>3. QED
    BY <2>1, <2>2, Zenon
<1>7. HeadLength(kind) = HeaderLength
  BY DEF HeadLength, HeaderLength, Formats, Flat, Cluto
<1>8. ~(hd < HeaderLength)
  <2>1. HeaderLength = hl /\ hl \in {1, 2, 3}
    BY <1>6, <1>7, <1>a, Zenon
  <2>2. hd \in Nat /\ hd >= hl
    BY <1>4
  <2>3. \A x \in {1, 2, 3}, y \in Nat : y >= x => ~(y < x)
    OBVIOUS
  <2>4. QED
    BY <2>1, <2>2, <2>3, Zenon
<1>9. Header[1] = nr
  BY <1>3, <1>4, <1>b, Zenon DEF IsHeading
<1>10. CASE kind \in Flat \cup {"sparse matrix"}
  <2>1. 2 \in 1 .. hl /\ 3 \in 1 .. hl
    BY <1>10, <1>a, <1>b
  <2>2. h[2] = nc /\ h[3] = n
    BY <1>3, <1>10 DEF IsHeading
  <2>3. Header[2] = nc /\ Header[3] = n
    BY <1>4, <2>1, <2>2, Zenon
  <2>4. Ncols = Header[2] /\ Nnz = Header[3] /\ Nrows = Header[1]
    BY <1>10 DEF Ncols, Nnz, Nrows, Flat
  <2>5. QED
    BY <1>8, <1>9, <2>3, <2>4, Zenon DEF hd, nr, nc, n, m
<1>11. CASE kind = "sparse graph"
  <2>1. 2 \in 1 .. hl
    BY <1>11, <1>a, <1>b
  <2>2. h[2] = n
    BY <1>3, <1>11 DEF IsHeading
  <2>3. Header[2] = n
    BY <1>4, <2>1, <2>2, Zenon
  <2>4. Ncols = Header[1] /\ Nnz = Header[2] /\ Nrows = Header[1]
    BY <1>11 DEF Ncols, Nnz, Nrows, Flat
  <2>5. nr = nc
    BY <1>5, <1>11
  <2>6. QED
    BY <1>8, <1>9, <2>3, <2>4, <2>5, Zenon DEF hd, nr, nc, n, m
<1>12. CASE kind = "graph"
  <2>1. 2 \in 1 .. hl
    BY <1>12, <1>a, <1>b
  <2>2. 2 * h[2] = n
    BY <1>3, <1>12 DEF IsHeading
  <2>3. 2 * Header[2] = n
    BY <1>4, <2>1, <2>2, Zenon
  <2>4. Ncols = Header[1] /\ Nnz = 2 * Header[2] /\ Nrows = Header[1]
    BY <1>12 DEF Ncols, Nnz, Nrows, Flat
  <2>5. nr = nc
    BY <1>5, <1>12
  <2>6. QED
    BY <1>8, <1>9, <2>3, <2>4, <2>5, Zenon DEF hd, nr, nc, n, m
<1>13. CASE kind = "dense graph"
  <2>1. n = nr * nc
    BY <1>2, <1>13 DEF IsDense
  <2>2. Ncols = Header[1] /\ Nnz = Nrows * Ncols /\ Nrows = Header[1]
    BY <1>13 DEF Ncols, Nnz, Nrows, Flat
  <2>3. nr = nc
    BY <1>5, <1>13
  <2>4. QED
    BY <1>8, <1>9, <2>1, <2>2, <2>3, Zenon DEF hd, nr, nc, n, m
<1>14. CASE kind = "dense matrix"
  <2>1. 2 \in 1 .. hl
    BY <1>14, <1>a, <1>b
  <2>2. h[2] = nc
    BY <1>3, <1>14 DEF IsHeading
  <2>3. Header[2] = nc
    BY <1>4, <2>1, <2>2, Zenon
  <2>4. n = nr * nc
    BY <1>2, <1>14 DEF IsDense
  <2>5. Ncols = Header[2] /\ Nnz = Nrows * Ncols /\ Nrows = Header[1]
    BY <1>14 DEF Ncols, Nnz, Nrows, Flat
  <2>6. QED
    BY <1>8, <1>9, <2>3, <2>4, <2>5, Zenon DEF hd, nr, nc, n, m
<1>15. QED
  BY <1>10, <1>11, <1>12, <1>13, <1>14 DEF Formats, Cluto

\* load_matrix_to_crm accepts a pass that has delivered what was written.
LEMMA WrittenAccepted ==
    ASSUME session \in Sessions, session.format = kind, kind \in Formats,
           entries = WrittenHere
    PROVE  Accepted
<1> DEFINE m == session.matrix
           X == AllEntriesOf(kind, m)
           W == WrittenEntries(kind, m)
<1>1. Nrows = m.nr /\ Ncols = m.nc /\ Nnz = Len(WrittenHere)
  BY SizesRead, Zenon
<1>2. IsMatrix(m)
  BY LinesAsWritten, Zenon
<1>3. m.nr \in Nat /\ m.nc \in Nat /\ W \in Seq(X)
  BY <1>2, MatrixType, AllWritten, Zenon
<1>4. ASSUME NEW e \in X PROVE ~(e.row >= m.nr) /\ ~(e.col >= m.nc)
  <2>1. e.row \in 0 .. m.nr - 1 /\ e.col \in 0 .. m.nc - 1
    BY DEF AllEntriesOf
  <2>2. QED
    BY <1>3, <2>1
<1> HIDE DEF X, W
<1>5. \A j \in DOMAIN W : W[j] \in X
  BY <1>3
<1>6. \A j \in DOMAIN W : ~Outside(W[j])
  BY <1>1, <1>4, <1>5, Zenon DEF Outside
<1>7. entries = W
  BY Zenon DEF WrittenHere, W
<1>8. QED
  BY <1>1, <1>6, <1>7, Zenon DEF Accepted

\* At the end of a pass everything that was written has been delivered.
LEMMA PassReads ==
    ASSUME ReaderInv, LinesInv, FlatInv, InPass, AtEnd, session.format = kind, kind \in Formats
    PROVE  entries = WrittenHere /\ Accepted
<1>1. session \in Sessions
  BY DEF ReaderInv, ReadTypeOK
<1>2. CASE kind \in Flat
  BY <1>1, <1>2, FlatRead, WrittenAccepted, Zenon
<1>3. CASE kind \notin Flat
  <2>1. entries = WrittenHere
    BY <1>3, LinesRead, Zenon DEF WrittenHere
  <2>2. QED
    BY <1>1, <2>1, WrittenAccepted, Zenon
<1>4. QED
  BY <1>2, <1>3

LEMMA FormatKnown ==
    ASSUME session \in Sessions
    PROVE  session.format \in Formats \cup {"unknown"}
BY WrittenAssumption, Zenon

\* No step ends the reading of a written file with anything else than what was
\* written.
LEMMA ReadsStep ==
    ASSUME ReaderInv, LinesInv, FlatInv, ReadsWhatWasWritten, [ReadNext]_readvars
    PROVE  ReadsWhatWasWritten'
<1>1. session \in Sessions /\ kind \in Kinds
  BY DEF ReaderInv, ReadTypeOK
<1>2. SUFFICES ASSUME session'.format = kind', stage' \in Finished
               PROVE  /\ stage' = "loaded"
                      /\ entries' = WrittenEntries(session'.format, session'.matrix)
  BY DEF ReadsWhatWasWritten
<1>3. CASE UNCHANGED readvars
  BY <1>2, <1>3, Zenon DEF readvars, ReadsWhatWasWritten
<1>4. CASE ReadNext
  <2>1. session' = session
    BY <1>4 DEF ReadNext, Choose, DetectHeader, CheckLine, NoMoreLines, Size, TakeEntry,
                FetchLine, FirstPassOver, SecondPassOver
  <2>2. session.format \in Formats \cup {"unknown"}
    BY <1>1, FormatKnown
  <2>3. kind' \in Formats \cup {"unknown"}
    BY <1>2, <2>1, <2>2, Zenon
  <2>4. "none" \notin Formats \cup {"unknown"} /\ "cluto" \notin Formats \cup {"unknown"}
        /\ "unknown" \notin Kinds
    BY DEF Formats, Flat, Cluto, Kinds
  <2>5. CASE Choose
    <3>1. kind' = "none"
      BY <1>2, <2>5 DEF Choose, Finished
    <3>2. QED
      BY <2>3, <2>4, <3>1
  <2>6. CASE DetectHeader
    <3>1. kind' = "cluto"
      BY <1>2, <2>6 DEF DetectHeader, Finished, ReaderInv
    <3>2. QED
      BY <2>3, <2>4, <3>1
  <2>7. CASE CheckLine \/ NoMoreLines
    <3>1. stage' \in {"check", "size"}
      BY <2>7 DEF CheckLine, NoMoreLines
    <3>2. QED
      BY <1>2, <3>1 DEF Finished
  <2>8. CASE TakeEntry \/ FetchLine
    <3>1. stage' \in {"first", "second"}
      BY <2>8 DEF TakeEntry, FetchLine, InPass
    <3>2. QED
      BY <1>2, <3>1 DEF Finished
  <2>9. CASE Size
    <3>1. kind' = kind
      BY <2>9 DEF Size
    <3>2. session.format = kind /\ kind \in Formats
      BY <1>1, <1>2, <2>1, <2>3, <2>4, <3>1
    <3>3. ~(Len(Header) < HeaderLength) /\ Nrows = session.matrix.nr
      BY <1>1, <3>2, SizesRead, Zenon
    <3>4. IsMatrix(session.matrix)
      BY <1>1, <3>2, LinesAsWritten, Zenon
    <3>a. session.matrix.nr \in Nat /\ session.matrix.nr >= 1
      BY <3>4, MatrixType, Zenon
    <3>5. ~(Nrows < 1)
      BY <3>3, <3>a
    <3>6. stage' = "first"
      BY <2>9, <3>3, <3>5 DEF Size
    <3>7. QED
      BY <1>2, <3>6 DEF Finished
  <2>10. CASE FirstPassOver \/ SecondPassOver
    <3>1. kind' = kind /\ AtEnd /\ InPass
      BY <2>10 DEF FirstPassOver, SecondPassOver, InPass
    <3>2. session.format = kind /\ kind \in Formats
      BY <1>1, <1>2, <2>1, <2>3, <2>4, <3>1
    <3>3. entries = WrittenHere /\ Accepted
      BY <3>1, <3>2, PassReads, Zenon
    <3>4. SecondPassOver /\ stage' = "loaded"
      BY <1>2, <2>10, <3>3 DEF FirstPassOver, SecondPassOver, Finished
    <3>5. entries' = entries
      BY <3>4 DEF SecondPassOver, iterator
    <3>6. QED
      BY <1>2, <2>1, <3>2, <3>3, <3>4, <3>5, Zenon DEF WrittenHere
  <2>11. QED
    BY <1>4, <2>5, <2>6, <2>7, <2>8, <2>9, <2>10 DEF ReadNext
<1>5. QED
  BY <1>3, <1>4

LEMMA ReadsAtFirst == ReadInit => ReadsWhatWasWritten
BY DEF ReadInit, ReadsWhatWasWritten, Finished

\* ReadsWhatWasWritten: a file that was written in one of the eight formats and is
\* taken for one of that format is loaded, and in the second pass every entry is
\* delivered as it was written: size, first pass, second pass and both judgements
\* of load_matrix_to_crm, for matrices of any size and any contents.
THEOREM WrittenIsRead == ReadSpec => []ReadsWhatWasWritten
BY ReaderInvInit, ReaderInvStep, LinesInvInit, LinesInvStep, FlatInvInit, FlatInvStep,
   ReadsAtFirst, ReadsStep, PTL DEF ReadSpec

----------------------------------------------------------------------------
(* The format that detect_graph_and_dense finds.                           *)

Unsure == {"sparse graph", "dense matrix"}
EvenColumns == Header[2] % 2 = 0

\* Half of the places of a line of even length are odd.
LEMMA OddPlaces ==
    ASSUME NEW k \in Nat, NEW t, t = 2 * k
    PROVE  Cardinality({j \in 1 .. t : j % 2 = 1}) = k
<1> DEFINE S(n) == {j \in 1 .. 2 * n : j % 2 = 1}
           T == {n \in Nat : IsFiniteSet(S(n)) /\ Cardinality(S(n)) = n}
<1>1. 0 \in T
  <2>1. S(0) = {}
    OBVIOUS
  <2> HIDE DEF S
  <2>2. IsFiniteSet(S(0)) /\ Cardinality(S(0)) = 0
    BY <2>1, FS_EmptySet
  <2>3. QED
    BY <2>2
<1>2. ASSUME NEW n \in Nat, n \in T PROVE n + 1 \in T
  <2> DEFINE x == 2 * n + 1
  <2>1. x \notin S(n) /\ S(n + 1) = S(n) \cup {x}
    <3>1. x \notin S(n)
      OBVIOUS
    <3>2. \A j \in Nat : j % 2 = 1 => j # 2 * n + 2
      OBVIOUS
    <3>3. \A j \in 1 .. 2 * (n + 1) : j % 2 = 1 => j \in 1 .. 2 * n \/ j = x
      BY <3>2
    <3>4. x \in 1 .. 2 * (n + 1) /\ x % 2 = 1 /\ \A j \in 1 .. 2 * n : j \in 1 .. 2 * (n + 1)
      OBVIOUS
    <3>5. QED
      BY <3>1, <3>3, <3>4, Zenon
  <2> HIDE DEF S, x
  <2>2. IsFiniteSet(S(n)) /\ Cardinality(S(n)) = n
    BY <1>2
  <2>3. IsFiniteSet(S(n + 1)) /\ Cardinality(S(n + 1)) = n + 1
    BY <2>1, <2>2, FS_AddElement
  <2>4. QED
    BY <2>3
<1> HIDE DEF T
<1>3. \A n \in Nat : n \in T
  BY <1>1, <1>2, AllNaturals
<1>4. Cardinality(S(k)) = k
  BY <1>3 DEF T
<1>5. QED
  BY <1>4

\* A line of even length passes for as many pairs as it has.
LEMMA PairsCounted ==
    ASSUME NEW tokens \in Seq(Nat), NEW k \in Nat, Len(tokens) = 2 * k
    PROVE  TokCount(tokens) = Len(tokens)
<1> DEFINE t == Len(tokens)
<1>1. DOMAIN tokens = 1 .. t /\ t = 2 * k
  OBVIOUS
<1> HIDE DEF t
<1>2. Columns(tokens) = {j \in 1 .. t : j % 2 = 1}
  BY <1>1, Zenon DEF Columns
<1>3. Cardinality(Columns(tokens)) = k
  BY <1>1, <1>2, OddPlaces
<1>4. QED
  BY <1>1, <1>3, Zenon DEF TokCount, t

\* The header and the rows of a file whose header has two numbers.
LEMMA UnsureFile ==
    ASSUME session \in Sessions, session.format \in Unsure
    PROVE  /\ Lines = session.lines /\ Len(Lines) \in Nat /\ Len(Lines) >= 2
           /\ Header[2] \in Nat /\ Header[2] = session.lines[1][2]
           /\ \A p \in 2 .. Len(Lines) : p = 2 \/ Lines[p] # <<>> =>
                 /\ Lines[p] \in Seq(Nat)
                 /\ session.format = "dense matrix" => Len(Lines[p]) = Header[2]
                 /\ session.format = "sparse graph" =>
                       /\ \E k \in Nat : Len(Lines[p]) = 2 * k
                       /\ \A j \in Columns(Lines[p]) : Lines[p][j] >= 1
<1> DEFINE f == session.format
           m == session.matrix
           nr == m.nr
           h == Heading(f, m)
<1>1. f \in Formats /\ f \notin Flat
  BY DEF Unsure, Formats, Cluto, Flat
<1>2. Lines = session.lines /\ IsWritten(f, m, Lines) /\ IsMatrix(m) /\ Holds(f, m)
  BY <1>1, LinesAsWritten, Zenon
<1>3. nr \in Nat /\ nr >= 1 /\ m.nc \in Nat
  BY <1>2, MatrixType, Zenon
<1>4. /\ Len(Lines) \in {nr + 1, nr + 2} /\ Lines[1] = h
      /\ \A r \in 1 .. nr : \A p : p = r + 1 => Lines[p] = TokensInRow(f, m, r)
      /\ Len(Lines) = nr + 2 => Lines[nr + 2] = <<>>
  BY <1>2, Zenon DEF IsWritten
<1>5. IsHeading(f, h, nr, m.nc, Len(WrittenEntries(f, m)))
  BY <1>1, <1>2, HeadingType, Zenon
<1>6. h \in Seq(Nat) /\ Len(h) = 2 /\ (f = "dense matrix" => h[2] = m.nc)
  BY <1>5 DEF IsHeading, HeadLength, Unsure
<1>h. \A j \in 1 .. Len(h) : Header[j] = h[j]
  BY <1>1, HeaderWritten, Zenon
<1> HIDE DEF h, nr
<1>7. 2 \in 1 .. Len(h) /\ h[2] \in Nat
  <2>1. \A s \in Seq(Nat) : Len(s) = 2 => 2 \in 1 .. Len(s) /\ s[2] \in Nat
    OBVIOUS
  <2>2. QED
    BY <1>6, <2>1, Zenon
<1>8. Header[2] = h[2] /\ h[2] \in Nat
  BY <1>7, <1>h, Zenon
<1>9. ASSUME NEW p \in 2 .. Len(Lines), p = 2 \/ Lines[p] # <<>>
      PROVE  /\ Lines[p] \in Seq(Nat)
             /\ f = "dense matrix" => Len(Lines[p]) = h[2]
             /\ f = "sparse graph" =>
                   /\ \E k \in Nat : Len(Lines[p]) = 2 * k
                   /\ \A j \in Columns(Lines[p]) : Lines[p][j] >= 1
  <2> DEFINE r == p - 1
             tokens == TokensInRow(f, m, r)
             E == EntriesInRow(f, m, r)
             k == Len(E)
             w == WidthIn(f)
  <2>1. r \in 1 .. nr /\ p = r + 1
    <3>1. p # nr + 2
      BY <1>3, <1>4, <1>9
    <3>2. QED
      BY <1>3, <1>4, <3>1
  <2> HIDE DEF r
  <2>2. Lines[p] = tokens
    BY <1>4, <2>1, Zenon
  <2>3. /\ E \in Seq(EntriesOf(f, m, r)) /\ tokens \in Seq(Nat) /\ IsCoding(f, tokens, E)
        /\ IsDense(f) => k = m.nc
    BY <1>1, <1>2, <2>1, RowWritten, Zenon DEF nr
  <2>4. f = "dense matrix" => w = 1 /\ IsDense(f)
    BY DEF WidthIn, IsDense
  <2>5. f = "sparse graph" => w = 2 /\ \A x : Coded(f, x) = <<x.col + 1, x.val>>
    BY DEF WidthIn, Coded, IsDense
  <2>6. k \in Nat /\ Len(tokens) = w * k
        /\ \A q \in Nat : q < k => \A d \in 1 .. w : tokens[w * q + d] = Coded(f, E[q + 1])[d]
    BY <2>3, Zenon DEF IsCoding
  <2> HIDE DEF tokens, E, w, k
  <2>7. f = "dense matrix" => Len(tokens) = h[2]
    <3>1. SUFFICES ASSUME f = "dense matrix" PROVE Len(tokens) = h[2]
      OBVIOUS
    <3>2. w = 1 /\ k = h[2]
      BY <1>6, <2>3, <2>4, <3>1, Zenon
    <3>3. QED
      BY <1>8, <2>6, <3>2
  <2>8. ASSUME f = "sparse graph", NEW j \in Columns(tokens) PROVE tokens[j] >= 1
    <3>1. j \in 1 .. 2 * k /\ j % 2 = 1
      <4>1. j \in DOMAIN tokens /\ j % 2 = 1
        BY <2>8 DEF Columns
      <4>2. DOMAIN tokens = 1 .. Len(tokens)
        BY <2>3
      <4>3. Len(tokens) = 2 * k
        BY <2>5, <2>6, <2>8, Zenon
      <4>4. QED
        BY <4>1, <4>2, <4>3, Zenon
    <3> DEFINE q == j \div 2
    <3>2. q \in Nat /\ q < k /\ j = 2 * q + 1
      BY <2>6, <3>1
    <3> HIDE DEF q
    <3> DEFINE o == q + 1
               x == E[o]
    <3>3. tokens[2 * q + 1] = <<x.col + 1, x.val>>[1]
      <4>1. 1 \in 1 .. 2
        OBVIOUS
      <4>2. w = 2
        BY <2>5, <2>8
      <4>3. tokens[2 * q + 1] = Coded(f, E[q + 1])[1]
        BY <2>6, <3>2, <4>1, <4>2, Zenon
      <4>4. QED
        BY <2>5, <2>8, <4>3, Zenon
    <3>4. tokens[j] = x.col + 1
      <4> HIDE DEF x
      <4>1. <<x.col + 1, x.val>>[1] = x.col + 1
        OBVIOUS
      <4>2. QED
        BY <3>2, <3>3, <4>1, Zenon
    <3>5. x \in EntriesOf(f, m, r)
      <4>1. Len(E) = k /\ o \in 1 .. k
        BY <2>6, <3>2 DEF k
      <4>2. QED
        BY <2>3, <4>1
    <3>6. x.col \in 0 .. m.nc - 1
      <4> HIDE DEF x
      <4> QED
        BY <3>5 DEF EntriesOf
    <3> HIDE DEF x
    <3>7. QED
      BY <1>3, <3>4, <3>6
  <2>9. f = "sparse graph" => \E i0 \in Nat : Len(tokens) = 2 * i0
    BY <2>5, <2>6
  <2>10. QED
    BY <2>2, <2>3, <2>7, <2>8, <2>9, Zenon
<1>10. Len(Lines) \in Nat /\ Len(Lines) >= 2
  BY <1>3, <1>4
<1>11. session.lines[1] = h
  BY <1>2, <1>4, Zenon
<1>12. QED
  BY <1>2, <1>8, <1>9, <1>10, <1>11, Zenon DEF f

LEMMA LinesTypes ==
    ASSUME session \in Sessions, session.format \in Cluto
    PROVE  /\ Reader = "cluto" /\ session.gz = FALSE
           /\ \A j \in DOMAIN Lines[1] : IsNumber(Lines[1][j])
           /\ Len(Lines[1]) = HeadLength(session.format)
<1> DEFINE f == session.format
           m == session.matrix
           h == Heading(f, m)
<1>1. f \in Formats /\ f \notin Flat
  BY DEF Formats, Cluto, Flat
<1>2. Reader = "cluto"
  <2>1. \/ session.hint = "cluto"
        \/ session.hint = "none" /\ session.ext \in {"mat", "cmat", "cgraph"}
    BY <1>1, FileIs, Zenon
  <2>2. QED
    BY <2>1 DEF Reader, Flat
<1>3. session.gz = FALSE
  <2>1. session.gz \in BOOLEAN
    BY SessionsAssumption, Zenon
  <2>2. session.gz => f \in Flat
    BY <1>1, FileIs, Zenon
  <2>3. QED
    BY <1>1, <2>1, <2>2
<1>4. IsWritten(f, m, Lines) /\ IsMatrix(m) /\ Holds(f, m)
  BY <1>1, LinesAsWritten, Zenon
<1>5. Lines[1] = h
  BY <1>4, Zenon DEF IsWritten
<1>6. h \in Seq(Nat) /\ Len(h) = HeadLength(f)
  BY <1>1, <1>4, HeadingType, Zenon DEF IsHeading
<1> HIDE DEF h
<1>7. \A j \in DOMAIN h : IsNumber(h[j])
  <2>1. \A j \in DOMAIN h : h[j] \in Nat
    BY <1>6
  <2>2. \A t \in Nat : IsNumber(t)
    BY DEF IsNumber, Word
  <2>3. QED
    BY <2>1, <2>2, Zenon
<1>8. QED
  BY <1>2, <1>3, <1>5, <1>6, <1>7, Zenon

\* While the format of a settled file is sought nothing has spoken against it.
DetectInv ==
    (session.format \in Cluto /\ Settled) =>
        /\ stage = "check" =>
              /\ session.format \in Unsure /\ at \in Nat /\ at >= 1
              /\ session.format = "sparse graph" => at = 1
              /\ session.format = "dense matrix" => at = 1 \/ EvenColumns
        /\ stage \notin {"choose", "header", "check"} => kind = session.format

LEMMA SomeNumbers ==
    /\ \A x \in Nat : x % 2 = 0 => \E k \in Nat : x = 2 * k
    /\ \A s \in Seq(Nat) : \A l \in DOMAIN s : s[l] \in Nat
    /\ \A x \in Nat : IsNumber(x)
    /\ \A x, y \in Nat : x >= 1 /\ x <= y => x \in 1 .. y
    /\ \A x, l \in Nat : x >= 1 /\ x < l =>
          x + 1 \in 2 .. l /\ (x = 1 => x + 1 = 2) /\ x + 1 \in Nat /\ x + 1 >= 1
    /\ \A x \in Nat : x >= 2 => x # 1
<1>1. \A x \in Nat : x % 2 = 0 => \E k \in Nat : x = 2 * k
  <2>1. \A x \in Nat : x % 2 = 0 => x \div 2 \in Nat /\ x = 2 * (x \div 2)
    OBVIOUS
  <2>2. QED
    BY <2>1, Zenon
<1>2. \A s \in Seq(Nat) : \A l \in DOMAIN s : s[l] \in Nat
  OBVIOUS
<1>3. \A x \in Nat : IsNumber(x)
  BY DEF IsNumber, Word
<1>4. \A x, y \in Nat : x >= 1 /\ x <= y => x \in 1 .. y
  OBVIOUS
<1>5. \A x, l \in Nat : x >= 1 /\ x < l =>
         x + 1 \in 2 .. l /\ (x = 1 => x + 1 = 2) /\ x + 1 \in Nat /\ x + 1 >= 1
  OBVIOUS
<1>6. \A x \in Nat : x >= 2 => x # 1
  OBVIOUS
<1>7. QED
  BY <1>1, <1>2, <1>3, <1>4, <1>5, <1>6, Zenon

\* A line of a settled file that is not at odds with its format.
LEMMA LineJudged ==
    ASSUME session \in Sessions, session.format \in Unsure, Settled,
           NEW p \in 2 .. Len(Lines),
           session.format = "sparse graph" => p = 2,
           session.format = "dense matrix" => p = 2 \/ EvenColumns
    PROVE  LET tokens == Lines[p] IN
           /\ session.format = "sparse graph" =>
                 tokens # <<>> /\ NotSparse(tokens) = {} /\ TokCount(tokens) # Header[2]
           /\ session.format = "dense matrix" =>
                 \/ tokens = <<>> \/ NotSparse(tokens) # {}
                 \/ TokCount(tokens) = Header[2] /\ EvenColumns
<1> DEFINE tokens == Lines[p]
           second == Header[2]
<1>1. /\ Lines = session.lines /\ second \in Nat /\ second = session.lines[1][2]
      /\ p = 2 \/ tokens # <<>> =>
            /\ tokens \in Seq(Nat)
            /\ session.format = "dense matrix" => Len(tokens) = second
            /\ session.format = "sparse graph" =>
                  /\ \E k \in Nat : Len(tokens) = 2 * k
                  /\ \A j \in Columns(tokens) : tokens[j] >= 1
  BY UnsureFile, Zenon
<1> HIDE DEF tokens, second
<1>2. CASE session.format = "sparse graph"
  <2>1. tokens = session.lines[2]
    BY <1>1, <1>2, Zenon DEF tokens
  <2>2. /\ tokens # <<>> /\ Len(tokens) # second
        /\ \A j \in Columns(tokens) : tokens[j] <= second
    BY <1>1, <1>2, <2>1 DEF Settled
  <2>3. /\ tokens \in Seq(Nat) /\ \A j \in Columns(tokens) : tokens[j] >= 1
        /\ \E k \in Nat : Len(tokens) = 2 * k
    BY <1>1, <1>2, <2>2
  <2>4. NotSparse(tokens) = {}
    <3>1. ASSUME NEW j \in DOMAIN tokens
          PROVE  /\ IsNumber(tokens[j])
                 /\ ~(j \in Columns(tokens) /\ ~(tokens[j] \in 1 .. second))
      <4>1. tokens[j] \in Nat /\ IsNumber(tokens[j])
        BY <2>3, SomeNumbers, Zenon
      <4>2. QED
        BY <1>1, <2>2, <2>3, <4>1, SomeNumbers, Zenon
    <3>2. QED
      BY <3>1, Zenon DEF NotSparse, second
  <2>5. TokCount(tokens) = Len(tokens)
    BY <2>3, PairsCounted
  <2>6. QED
    BY <1>2, <2>2, <2>4, <2>5 DEF tokens, second
<1>3. CASE session.format = "dense matrix"
  <2>1. SUFFICES ASSUME tokens # <<>>, NotSparse(tokens) = {}
                 PROVE  TokCount(tokens) = second /\ EvenColumns
    BY <1>3 DEF tokens, second
  <2>2. tokens \in Seq(Nat) /\ Len(tokens) = second
    BY <1>1, <1>3, <2>1
  <2>3. EvenColumns
    <3>1. CASE p = 2
      <4>1. tokens = session.lines[2]
        BY <1>1, <3>1, Zenon DEF tokens
      <4>2. EvenColumns \/ \E j \in Columns(tokens) : ~(tokens[j] \in 1 .. second)
        <5>1. CASE session.lines[1][2] % 2 = 0
          BY <1>1, <5>1, Zenon DEF EvenColumns, second
        <5>2. CASE \E j \in Columns(session.lines[2]) :
                      ~(session.lines[2][j] \in 1 .. session.lines[1][2])
          BY <1>1, <4>1, <5>2, Zenon
        <5>3. QED
          BY <1>3, <5>1, <5>2 DEF Settled
      <4>3. ASSUME NEW j \in Columns(tokens), ~(tokens[j] \in 1 .. second) PROVE FALSE
        <5>1. j \in DOMAIN tokens
          BY <4>3 DEF Columns
        <5>2. j \in NotSparse(tokens)
          BY <4>3, <5>1, Zenon DEF NotSparse, second
        <5>3. QED
          BY <2>1, <5>2
      <4>4. QED
        BY <4>2, <4>3, Zenon
    <3>2. QED
      BY <1>3, <3>1
  <2>4. PICK k \in Nat : second = 2 * k
  BY <1>1, <2>3, SomeNumbers, Zenon DEF EvenColumns, second
  <2>5. TokCount(tokens) = Len(tokens)
    BY <2>2, <2>4, PairsCounted
  <2>6. QED
    BY <2>2, <2>3, <2>5
<1>4. QED
  BY <1>2, <1>3 DEF Unsure

LEMMA ReadKeeps ==
    ASSUME session \in Sessions, ReadNext, stage \notin {"choose", "header", "check"}
    PROVE  session' = session /\ kind' = kind /\ stage' \notin {"choose", "header", "check"}
<1>1. CASE Size
  BY <1>1 DEF Size
<1>2. CASE TakeEntry
  BY <1>2 DEF TakeEntry, InPass
<1>3. CASE FetchLine
  BY <1>3 DEF FetchLine, InPass
<1>4. CASE FirstPassOver
  BY <1>4 DEF FirstPassOver
<1>5. CASE SecondPassOver
  BY <1>5 DEF SecondPassOver
<1>6. CASE Choose \/ DetectHeader \/ CheckLine \/ NoMoreLines
  BY <1>6 DEF Choose, DetectHeader, CheckLine, NoMoreLines
<1>7. QED
  BY <1>1, <1>2, <1>3, <1>4, <1>5, <1>6 DEF ReadNext

\* The lines a reader sees of a file that is not compressed are those it has.
LEMMA PlainFile ==
    ASSUME session.gz = FALSE, session' = session
    PROVE  Lines' = Lines /\ Header' = Header /\ Settled' = Settled /\ EvenColumns' = EvenColumns
<1>1. Lines = session.lines /\ Lines' = session'.lines
  BY Zenon DEF Lines, Decompressed
<1>2. Lines' = Lines
  BY <1>1, Zenon
<1>3. Header' = Header
  BY <1>2, Zenon DEF Header
<1>4. Settled' = Settled
  BY Zenon DEF Settled
<1>5. EvenColumns' = EvenColumns
  BY <1>3, Zenon DEF EvenColumns
<1>6. QED
  BY <1>2, <1>3, <1>4, <1>5

LEMMA DetectStep ==
    ASSUME ReaderInv, DetectInv, [ReadNext]_readvars
    PROVE  DetectInv'
<1>1. session \in Sessions
  BY DEF ReaderInv, ReadTypeOK
<1>2. session' = session
  BY DEF readvars, ReadNext, Choose, DetectHeader, CheckLine, NoMoreLines, Size, TakeEntry,
         FetchLine, FirstPassOver, SecondPassOver
<1> DEFINE f == session.format
<1>3. SUFFICES ASSUME f \in Cluto, Settled'
               PROVE  /\ stage' = "check" =>
                            /\ f \in Unsure /\ at' \in Nat /\ at' >= 1
                            /\ f = "sparse graph" => at' = 1
                            /\ f = "dense matrix" => at' = 1 \/ EvenColumns'
                      /\ stage' \notin {"choose", "header", "check"} => kind' = f
  BY <1>2, Zenon DEF DetectInv
<1>4. /\ Reader = "cluto" /\ session.gz = FALSE
      /\ \A j \in DOMAIN Lines[1] : IsNumber(Lines[1][j])
      /\ Len(Lines[1]) = HeadLength(f)
  BY <1>1, <1>3, LinesTypes, Zenon
<1>5. Lines' = Lines /\ Settled /\ EvenColumns' = EvenColumns
  BY <1>2, <1>3, <1>4, PlainFile
<1>6. /\ stage = "check" =>
            /\ f \in Unsure /\ at \in Nat /\ at >= 1
            /\ f = "sparse graph" => at = 1
            /\ f = "dense matrix" => at = 1 \/ EvenColumns
      /\ stage \notin {"choose", "header", "check"} => kind = f
  BY <1>3, <1>5, Zenon DEF DetectInv
<1> HIDE DEF f
<1>7. CASE UNCHANGED readvars
  BY <1>5, <1>6, <1>7 DEF readvars
<1>8. CASE Choose
  <2>1. stage' = "header"
    BY <1>4, <1>8 DEF Choose
  <2>2. QED
    BY <2>1
<1>9. CASE DetectHeader
  <2>1. /\ kind' = ByHeader(HeadLength(f)) /\ at' = 1
        /\ stage' = IF kind' = "cluto" THEN "check" ELSE "size"
    BY <1>4, <1>9, Zenon DEF DetectHeader
  <2>2. /\ f = "dense graph" => ByHeader(HeadLength(f)) = f
        /\ f = "sparse matrix" => ByHeader(HeadLength(f)) = f
        /\ f \in Unsure => ByHeader(HeadLength(f)) = "cluto"
    <3>1. /\ f = "dense graph" => HeadLength(f) = 1
          /\ f = "sparse matrix" => HeadLength(f) = 3
          /\ f \in Unsure => HeadLength(f) = 2
      BY DEF HeadLength, Unsure
    <3>2. ByHeader(1) = "dense graph" /\ ByHeader(2) = "cluto" /\ ByHeader(3) = "sparse matrix"
      BY DEF ByHeader
    <3>3. QED
      BY <3>1, <3>2, Zenon
  <2>3. f \in {"dense graph", "sparse matrix"} \/ f \in Unsure
    BY <1>3 DEF Cluto, Unsure
  <2>4. CASE f \in Unsure
    <3>1. stage' = "check" /\ at' = 1
      BY <2>1, <2>2, <2>4
    <3>2. QED
      BY <2>4, <3>1
  <2>5. CASE f \in {"dense graph", "sparse matrix"}
    <3>1. kind' = f
      BY <2>1, <2>2, <2>5
    <3>2. stage' = "size"
      BY <2>1, <2>5, <3>1
    <3>3. QED
      BY <3>1, <3>2
  <2>6. QED
    BY <2>3, <2>4, <2>5
<1>10. CASE CheckLine
  <2> DEFINE p == at + 1
             tokens == Lines[p]
  <2>1. stage = "check" /\ at < Len(Lines) /\ at' = p
    BY <1>10 DEF CheckLine, LineAfter
  <2>2. /\ f \in Unsure /\ at \in Nat /\ at >= 1
        /\ f = "sparse graph" => at = 1
        /\ f = "dense matrix" => at = 1 \/ EvenColumns
    BY <1>6, <2>1, Zenon
  <2>3. Len(Lines) \in Nat
    BY <1>1, <2>2, UnsureFile, Zenon DEF f
  <2>4. p \in 2 .. Len(Lines) /\ (at = 1 => p = 2) /\ p \in Nat /\ p >= 1
    BY <2>1, <2>2, <2>3, SomeNumbers, Zenon
  <2>5. /\ IF tokens = <<>> \/ NotSparse(tokens) # {}
             THEN kind' = "dense matrix" /\ stage' = "size"
             ELSE IF TokCount(tokens) # Header[2]
               THEN kind' = "sparse graph" /\ stage' = "size"
               ELSE kind' = kind /\ stage' = stage
    BY <1>10, Zenon DEF CheckLine
  <2> HIDE DEF p
  <2>6. /\ f = "sparse graph" =>
              tokens # <<>> /\ NotSparse(tokens) = {} /\ TokCount(tokens) # Header[2]
        /\ f = "dense matrix" =>
              \/ tokens = <<>> \/ NotSparse(tokens) # {}
              \/ TokCount(tokens) = Header[2] /\ EvenColumns
    <3>1. (f = "sparse graph" => p = 2) /\ (f = "dense matrix" => p = 2 \/ EvenColumns)
      BY <2>2, <2>4, Zenon
    <3>2. QED
      BY <1>1, <1>5, <2>2, <2>4, <3>1, LineJudged, Zenon DEF f
  <2> HIDE DEF tokens
  <2>7. CASE f = "sparse graph"
    BY <2>5, <2>6, <2>7
  <2>8. CASE f = "dense matrix"
    <3>1. CASE tokens = <<>> \/ NotSparse(tokens) # {}
      BY <2>5, <2>8, <3>1
    <3>2. CASE ~(tokens = <<>> \/ NotSparse(tokens) # {})
      <4>1. TokCount(tokens) = Header[2] /\ EvenColumns
        BY <2>6, <2>8, <3>2, Zenon
      <4>2. stage' = "check"
        BY <2>1, <2>5, <3>2, <4>1, Zenon
      <4>3. at' \in Nat /\ at' >= 1 /\ EvenColumns'
        BY <1>5, <2>1, <2>4, <4>1, Zenon
      <4>4. QED
        BY <2>2, <2>8, <4>2, <4>3
    <3>3. QED
      BY <3>1, <3>2, Zenon
  <2>9. QED
    BY <2>2, <2>7, <2>8 DEF Unsure
<1>11. CASE NoMoreLines
  <2>1. stage = "check" /\ at = Len(Lines) /\ stage' = "size" /\ kind' = "dense matrix"
    BY <1>11 DEF NoMoreLines
  <2>2. f \in Unsure /\ (f = "sparse graph" => at = 1)
    BY <1>6, <2>1, Zenon
  <2>3. Len(Lines) \in Nat /\ Len(Lines) >= 2
    BY <1>1, <2>2, UnsureFile, Zenon DEF f
  <2>4. f # "sparse graph"
    BY <2>1, <2>2, <2>3, SomeNumbers, Zenon
  <2>5. QED
    BY <2>1, <2>2, <2>4 DEF Unsure
<1>12. CASE ReadNext /\ stage \notin {"choose", "header", "check"}
  <2>1. kind' = kind /\ stage' \notin {"choose", "header", "check"}
    BY <1>1, <1>12, ReadKeeps
  <2>2. QED
    BY <1>6, <1>12, <2>1
<1>13. CASE ReadNext /\ stage \in {"choose", "header", "check"}
  <2>1. Choose \/ DetectHeader \/ CheckLine \/ NoMoreLines
    BY <1>13 DEF ReadNext, Size, TakeEntry, FetchLine, FirstPassOver, SecondPassOver, InPass
  <2>2. QED
    BY <2>1, <1>8, <1>9, <1>10, <1>11
<1>14. QED
  BY <1>7, <1>12, <1>13

LEMMA DetectAtFirst == ReadInit => DetectInv
BY DEF ReadInit, DetectInv

LEMMA DetectEnds == DetectInv => DetectionRight
BY DEF DetectInv, DetectionRight, Finished

\* DetectionRight: detect_graph_and_dense finds the format a CLUTO file was written
\* in, for matrices of any size, when the number of values on the first line tells
\* it, and otherwise when the first row is one that can tell it.
THEOREM FormatIsFound == ReadSpec => []DetectionRight
BY ReaderInvInit, ReaderInvStep, DetectAtFirst, DetectStep, DetectEnds, PTL DEF ReadSpec

=============================================================================
