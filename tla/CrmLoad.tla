------------------------------- MODULE CrmLoad -------------------------------
(***************************************************************************)
(* Loading a matrix file into compressed row storage:                      *)
(* load_crm_graph_type, which allocates and reads the optional degree      *)
(* file, and load_matrix_to_crm, which passes over the nonzeros twice,     *)
(* counting the entries of every row into `rows' and then placing each     *)
(* entry at the cursor of its row.  The second pass moves the cursors, so  *)
(* the row starts are recovered at the end by shifting the array.          *)
(*                                                                         *)
(* One step per iteration of each loop.  A step that would read or write   *)
(* outside an array ends in pc = "undefined": what the program does after  *)
(* that is not modelled.                                                   *)
(***************************************************************************)
EXTENDS CompressedRows

CONSTANTS
    Inputs,     \* the files that may be loaded, see InputsAssumption
    TextAsInt   \* what four bytes of text read as a binary int come to

NoDegrees == [form |-> "absent", bytes |-> 0, counts |-> <<>>]

\* A file is a header nr, nc, nnz and the entries its reader delivers, and it
\* may have a degree file beside it, in text or in binary, of some size.
ASSUME InputsAssumption ==
    \A f \in Inputs :
        /\ IsMatrixFile(f)
        /\ f.degs.form \in {"absent", "text", "binary"}
        /\ f.degs.form = "absent" => f.degs = NoDegrees
        /\ f.degs.bytes \in Nat
        /\ f.degs.counts \in Seq(Nat)

ASSUME TextAsIntAssumption == TextAsInt \in Nat

VARIABLES
    input,    \* the file being loaded; no step changes it
    pc,       \* the loop being executed
    ai,       \* rows[0..nr]
    cell,     \* cols and vals: the pair stored at each of the nnz slots
    nzcount,  \* entries taken from the file in the present pass
    i,        \* loop index of partial_sum and of the reverse copy
    warning   \* an entry outside the header's dimensions was seen

vars == <<input, pc, ai, cell, nzcount, i, warning>>

----------------------------------------------------------------------------
Entries == input.entries
Pair(e) == [col |-> e.col, val |-> e.val]
ZeroPair == [col |-> 0, val |-> 0]

\* The variants named next to a definition (here IgnoresColumns) are slips it
\* must not contain; the runs check that each breaks a property.
IgnoresColumns(e) == e.row >= input.nr
OutOfBounds(e) == e.row >= input.nr \/ e.col >= input.nc

\* The outcome of the two tests for a binary degree file: the size is exact, or
\* it is larger and one of 100 characters is no digit and no space.  The file
\* is positioned at its end when they are read, so the variable they go to is
\* never assigned: the second test may come out either way.
TakenForBinary(d) ==
    IF d.bytes = 4 * input.nr THEN {TRUE}
    ELSE IF d.bytes > 4 * input.nr THEN BOOLEAN
    ELSE {FALSE}

\* The numbers operator>> finds in the file: none in a binary one, whose first
\* byte is no digit.
NumbersInText(d) == IF d.form = "text" THEN d.counts ELSE <<>>

\* rows after the degree file is read into rows[1..]: a binary read fills all
\* of it, a text read as far as the numbers go.
RowsFromDegrees(d, binary) ==
    LET number == IF binary THEN d.counts ELSE NumbersInText(d)
    IN  [r \in RowsOf(input) |->
            IF r = 0 THEN 0
            ELSE IF binary /\ d.form = "text" THEN TextAsInt
            ELSE IF r <= Len(number) THEN number[r]
            ELSE 0]

----------------------------------------------------------------------------
Init ==
    /\ input \in Inputs
    /\ pc = "degrees"
    /\ ai = [r \in RowsOf(input) |-> 0]
    /\ cell = [s \in SlotsOf(input) |-> ZeroPair]
    /\ nzcount = 0
    /\ i = 0
    /\ warning = FALSE

Goto(label) == pc' = label
Fail == pc' = "failed"

\* load_crm_graph_type, step 2.  The text read stops at the end of the file
\* and not at the end of rows.
ReadDegrees ==
    /\ pc = "degrees"
    /\ input.degs # NoDegrees
    /\ \E binary \in TakenForBinary(input.degs) :
          /\ ai' = RowsFromDegrees(input.degs, binary)
          /\ IF ~binary /\ Len(NumbersInText(input.degs)) > input.nr
               THEN Goto("undefined")
               ELSE IF input.nr < 1 THEN Fail ELSE Goto("sum")
    /\ i' = 1
    /\ UNCHANGED <<input, cell, nzcount, warning>>

NoDegreeFile ==
    /\ pc = "degrees"
    /\ input.degs = NoDegrees
    /\ IF input.nr < 1 THEN Fail ELSE Goto("count")
    /\ UNCHANGED <<input, ai, cell, nzcount, i, warning>>

\* The first pass: after the first entry out of bounds everything is counted
\* into rows[1], so that the loop stays inside the array.
CountEntry ==
    /\ pc = "count"
    /\ nzcount < Len(Entries)
    /\ LET e == Entries[nzcount + 1]
           bad == warning \/ OutOfBounds(e)
           slot == (IF bad THEN 0 ELSE e.row) + 1
       IN  /\ warning' = bad
           /\ IF slot \in RowsOf(input)
                THEN ai' = [ai EXCEPT ![slot] = @ + 1] /\ UNCHANGED pc
                ELSE Goto("undefined") /\ UNCHANGED ai
    /\ nzcount' = nzcount + 1
    /\ UNCHANGED <<input, cell, i>>

\* The checks after a pass: every entry in bounds, and as many as announced.
NoCountCheck == ~warning
PassAccepted == ~warning /\ nzcount = input.nnz

CountDone ==
    /\ pc = "count"
    /\ nzcount = Len(Entries)
    /\ IF PassAccepted THEN Goto("sum") ELSE Fail
    /\ i' = 1
    /\ UNCHANGED <<input, ai, cell, nzcount, warning>>

\* partial_sum(rows, rows+(nr+1), rows)
SumStep ==
    /\ pc = "sum"
    /\ i <= input.nr
    /\ ai' = [ai EXCEPT ![i] = ai[i - 1] + @]
    /\ i' = i + 1
    /\ UNCHANGED <<input, pc, cell, nzcount, warning>>

SumDone ==
    /\ pc = "sum"
    /\ i = input.nr + 1
    /\ Goto("place")
    /\ nzcount' = 0
    /\ UNCHANGED <<input, ai, cell, i, warning>>

\* The second pass: the entry goes to the cursor of its row, which moves on.
CursorKept(r) == ai
CursorMoved(r) == [ai EXCEPT ![r] = @ + 1]

PlaceEntry ==
    /\ pc = "place"
    /\ nzcount < Len(Entries)
    /\ LET e == Entries[nzcount + 1]
       IN  /\ IF e.row \in RowsOf(input) /\ ai[e.row] \in SlotsOf(input)
                THEN /\ cell' = [cell EXCEPT ![ai[e.row]] = Pair(e)]
                     /\ ai' = CursorMoved(e.row)
                     /\ UNCHANGED pc
                ELSE Goto("undefined") /\ UNCHANGED <<ai, cell>>
           /\ warning' = (warning \/ OutOfBounds(e))
    /\ nzcount' = nzcount + 1
    /\ UNCHANGED <<input, i>>

\* The reverse copy begins at rows[nr-1].
LastShifted == input.nr - 1

PlaceDone ==
    /\ pc = "place"
    /\ nzcount = Len(Entries)
    /\ IF PassAccepted THEN Goto("shift") ELSE Fail
    /\ i' = LastShifted
    /\ UNCHANGED <<input, ai, cell, nzcount, warning>>

\* The reverse copy of rows[0..nr-2] onto rows[1..nr-1], then rows[0] = 0.
ShiftStep ==
    /\ pc = "shift"
    /\ i >= 1
    /\ ai' = [ai EXCEPT ![i] = ai[i - 1]]
    /\ i' = i - 1
    /\ UNCHANGED <<input, pc, cell, nzcount, warning>>

FirstRowKept == ai
FirstRowReset == [ai EXCEPT ![0] = 0]

ShiftDone ==
    /\ pc = "shift"
    /\ i = 0
    /\ ai' = FirstRowReset
    /\ Goto("done")
    /\ UNCHANGED <<input, cell, nzcount, i, warning>>

Next ==
    \/ ReadDegrees \/ NoDegreeFile
    \/ CountEntry \/ CountDone
    \/ SumStep \/ SumDone
    \/ PlaceEntry \/ PlaceDone
    \/ ShiftStep \/ ShiftDone

Spec == Init /\ [][Next]_vars

\* The loader runs in one thread and nothing waits.
FairSpec == Spec /\ WF_vars(Next)

----------------------------------------------------------------------------
\* A degree file that counts the entries of every row and is read as what it
\* is.  Nothing in the loader checks the first, and only its size the second.
DegreesRight(f) ==
    \/ f.degs = NoDegrees
    \/ /\ WellFormed(f)
       /\ f.degs.counts = [r \in 1 .. f.nr |-> Earlier(f, r - 1, Len(f.entries))]
       /\ IF f.degs.form = "binary" THEN f.degs.bytes = 4 * f.nr ELSE f.degs.bytes < 4 * f.nr

----------------------------------------------------------------------------
\* Properties.

Labels == {"degrees", "count", "sum", "place", "shift", "done", "failed", "undefined"}

TypeOK ==
    /\ input \in Inputs
    /\ pc \in Labels
    /\ ai \in [RowsOf(input) -> Nat]
    /\ cell \in [SlotsOf(input) -> [col : Nat, val : Int]]
    /\ nzcount \in 0 .. Len(Entries)
    /\ i \in 0 .. (input.nr + 1)
    /\ warning \in BOOLEAN

\* Both passes stay inside the arrays whatever the entries are, as long as the
\* row counts come from the entries: the first pass rejects the file before
\* the second one can be led outside.
StaysInArrays == DegreesRight(input) => pc # "undefined"

\* The load succeeds only on well formed files, whatever the degree file says,
\* and rejects only files that are not: a count that differs from the announced
\* nnz, by one too many or too few, is noticed.
AcceptsWellFormed ==
    /\ pc = "done" => WellFormed(input)
    /\ (pc = "failed" /\ DegreesRight(input)) => ~WellFormed(input)

\* In the second pass the cursor of every row is between its start and the
\* start of the next row: rows never write into each other's slots.
CursorsInOwnRow ==
    (pc = "place" /\ DegreesRight(input)) =>
        \A r \in 0 .. (input.nr - 1) :
            ai[r] = RowStart(input, r) + Earlier(input, r, nzcount)

\* After a successful load the arrays are compressed row storage of the file:
\* row r occupies the slots from rows[r] to rows[r+1]-1 and entry k of the
\* file is at the slot its row and its place among the row's entries give it.
StorageIsExact ==
    (pc = "done" /\ DegreesRight(input)) =>
        /\ \A r \in RowsOf(input) : ai[r] = RowStart(input, r)
        /\ \A k \in 1 .. Len(Entries) : cell[SlotOf(input, k)] = Pair(Entries[k])

\* No entry is overwritten: a slot is written once in the second pass.
SlotsWrittenOnce ==
    [][\A s \in DOMAIN cell :
          (DegreesRight(input) /\ cell'[s] # cell[s]) => cell[s] = ZeroPair]_vars

=============================================================================
