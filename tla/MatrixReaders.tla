----------------------------- MODULE MatrixReaders -----------------------------
(***************************************************************************)
(* Reading a matrix file: load_crm_matrix chooses a reader by the hint and *)
(* the extension, cluto_ifstream_matrix finds out which of four formats    *)
(* its file is in, and the reader's iterator delivers the entries, once    *)
(* for each of the two passes of load_matrix_to_crm.  CrmLoad takes the    *)
(* entries of a file as given and the same in both passes; this module is  *)
(* about where they come from.                                             *)
(*                                                                         *)
(* A file is its lines, a line its tokens: integers, and Word for anything *)
(* that is not one.  A newline at the end of the file is an empty last     *)
(* line.  No line ends in spaces.  A binary file is a line of numbers.     *)
(***************************************************************************)
EXTENDS Integers, SequencesExt

CONSTANTS
    Sessions  \* a file's name and contents, the hint, and what was written there

Word == -9

ASSUME SessionsAssumption ==
    \A s \in Sessions :
        /\ s.hint \in {"none", "cluto", "graph", "smat"}
        /\ s.gz \in BOOLEAN
        /\ s.lines \in Seq(Seq(Nat \cup {Word}))
        /\ s.lines # <<>> /\ s.lines[1] # <<>>
        /\ s.format \in STRING  \* the format it was written in, or "unknown"

VARIABLES
    session,  \* the file; no step changes it
    stage,    \* what is being done with it
    kind,     \* the reader, and for CLUTO files the format
    at,       \* lines taken from the stream
    line,     \* what is left of the line in _line; <<>> when it has failed
    start,    \* no line has been fetched since the header's
    row, col, \* of the last entry
    entries,  \* delivered in the present pass
    first     \* delivered in the first pass

readvars == <<session, stage, kind, at, line, start, row, col, entries, first>>
iterator == <<line, start, row, col, entries, first>>

Cluto == {"sparse matrix", "sparse graph", "dense matrix", "dense graph"}
Flat == {"smat", "bsmat", "bssmat"}
Kinds == Cluto \cup Flat \cup {"graph", "cluto", "none"}

----------------------------------------------------------------------------
IsNumber(t) == t # Word

\* The numbers operator>> finds before something that is not one.
NumbersOf(tokens) ==
    LET words == {j \in DOMAIN tokens : ~IsNumber(tokens[j])}
    IN  SubSeq(tokens, 1, IF words = {} THEN Len(tokens) ELSE Min(words) - 1)

\* Three numbers on the first line of a .graph file.
LoadCrmMatrixGraphTest == Len(NumbersOf(session.lines[1])) >= 3

\* The reader by hint, then by the extension before .gz.
Reader ==
    LET ext == session.ext IN
    IF session.hint # "none" THEN session.hint
    ELSE IF ext = "graph" THEN IF LoadCrmMatrixGraphTest THEN "smat" ELSE "graph"
    ELSE IF ext \in Flat THEN ext
    ELSE IF ext \in {"mat", "cmat", "cgraph"} THEN "cluto"
    ELSE "none"

\* Only the flat readers are given the decompressing stream, and not when a
\* hint chose them; the others see the compressed bytes.
Decompressed == session.gz /\ session.hint = "none" /\ kind \in Flat
Lines == IF session.gz /\ ~Decompressed THEN <<<<Word>>>> ELSE session.lines

\* A flat file's line breaks are spaces like others: its three numbers, then
\* the rest.
Seen ==
    IF kind \in Flat
      THEN LET all == FlattenSeq(Lines)
               three == Min({3, Len(all)})
           IN  <<SubSeq(all, 1, three), SubSeq(all, three + 1, Len(all))>>
      ELSE Lines

Header == NumbersOf(FlattenSeq(Lines))

----------------------------------------------------------------------------
ReadInit ==
    /\ session \in Sessions
    /\ stage = "choose"
    /\ kind = "none"
    /\ at = 0
    /\ line = <<>>
    /\ start = TRUE
    /\ row = 0 /\ col = -1
    /\ entries = <<>> /\ first = <<>>

Choose ==
    /\ stage = "choose"
    /\ kind' = Reader
    /\ stage' = CASE kind' = "none" -> "rejected"
                  [] kind' = "cluto" -> "header"
                  [] OTHER -> "size"
    /\ UNCHANGED <<session, at, iterator>>

\* detect_graph_and_dense.  The loop over the first line asks for numbers until
\* the line is at its end, and does not get past one that is none.
ByHeader(tokens) ==
    CASE tokens = 1 -> "dense graph"
      [] tokens = 3 -> "sparse matrix"
      [] OTHER -> "cluto"

DetectHeader ==
    /\ stage = "header"
    /\ IF \E j \in DOMAIN Lines[1] : ~IsNumber(Lines[1][j])
         THEN stage' = "looping" /\ UNCHANGED kind
         ELSE /\ kind' = ByHeader(Len(Lines[1]))
              /\ stage' = IF kind' = "cluto" THEN "check" ELSE "size"
    /\ at' = 1
    /\ UNCHANGED <<session, iterator>>

\* detect_graph_and_dense_check_line.  Tokens are taken in pairs; when the
\* second is missing the first is used again.  The first token that cannot be
\* an entry of a sparse row tells a dense one.
Columns(tokens) == {j \in DOMAIN tokens : j % 2 = 1}
\* The variants named next to a definition are slips it must not contain; the
\* runs check that each breaks a property.
ValuesToo(tokens) ==
    {j \in DOMAIN tokens : ~IsNumber(tokens[j]) \/ ~(tokens[j] \in 1 .. Header[2])}
NotSparse(tokens) ==
    {j \in DOMAIN tokens :
        \/ ~IsNumber(tokens[j])
        \/ j \in Columns(tokens) /\ ~(tokens[j] \in 1 .. Header[2])}
TokCount(tokens) == 2 * Cardinality(Columns(tokens))

SameLineAgain(n) == n
LineAfter(n) == n + 1

CheckLine ==
    /\ stage = "check"
    /\ at < Len(Lines)
    /\ LET tokens == Lines[at + 1] IN
       IF tokens = <<>> \/ NotSparse(tokens) # {}
         THEN /\ kind' = "dense matrix"
              /\ line' = IF tokens = <<>> THEN <<>>
                         ELSE SubSeq(tokens, Min(NotSparse(tokens)) + 1, Len(tokens))
              /\ stage' = "size"
       ELSE IF TokCount(tokens) # Header[2]
         THEN kind' = "sparse graph" /\ line' = <<>> /\ stage' = "size"
         ELSE line' = <<>> /\ UNCHANGED <<kind, stage>>
    /\ at' = LineAfter(at)
    /\ UNCHANGED <<session, start, row, col, entries, first>>

\* Every line could be a dense one as well as a sparse one.
NoMoreLines ==
    /\ stage = "check"
    /\ at = Len(Lines)
    /\ kind' = "dense matrix"
    /\ stage' = "size"
    /\ UNCHANGED <<session, at, iterator>>

----------------------------------------------------------------------------
(* dimensions() and nnz() of the five readers.                             *)

HeaderLength ==
    CASE kind \in Flat \cup {"sparse matrix"} -> 3
      [] kind = "dense graph" -> 1
      [] OTHER -> 2

Nrows == Header[1]
Ncols == IF kind \in {"graph", "sparse graph", "dense graph"} THEN Header[1]
         ELSE Header[2]
Nnz ==
    CASE kind \in Flat \cup {"sparse matrix"} -> Header[3]
      [] kind = "sparse graph" -> Header[2]
      [] kind = "graph" -> 2 * Header[2]
      [] OTHER -> Nrows * Ncols

\* nonzeros(): back to the first line, which is dropped; the failbit makes the
\* iterator fetch the next.
Discarded == <<>>

StartKept ==
    /\ at' = 1
    /\ line' = Discarded
    /\ row' = 0 /\ col' = -1
    /\ entries' = <<>>
    /\ UNCHANGED start
StartPass ==
    /\ at' = 1
    /\ line' = Discarded
    /\ start' = TRUE
    /\ row' = 0 /\ col' = -1
    /\ entries' = <<>>

\* A header that is too short leaves numbers unassigned.
Size ==
    /\ stage = "size"
    /\ IF Len(Header) < HeaderLength
         THEN stage' = "undefined" /\ UNCHANGED <<at, iterator>>
         ELSE /\ stage' = IF Nrows < 1 THEN "rejected" ELSE "first"
              /\ StartPass
              /\ UNCHANGED first
    /\ UNCHANGED <<session, kind>>

----------------------------------------------------------------------------
(* increment() of the five iterators.                                      *)

Width ==
    CASE kind \in {"smat", "bsmat"} -> 3
      [] kind \in {"bssmat", "sparse matrix", "sparse graph"} -> 2
      [] OTHER -> 1

Entry(i, j, v) == [row |-> i, col |-> j, val |-> v]

FromZero(i, j, tokens) ==
    CASE kind = "bssmat" -> Entry(tokens[1], tokens[2], 1)
      [] kind \in {"smat", "bsmat"} -> Entry(tokens[1], tokens[2], tokens[3])
      [] kind = "graph" -> Entry(i, tokens[1], 1)
      [] kind \in {"sparse matrix", "sparse graph"} -> Entry(i, tokens[1], tokens[2])
      [] OTHER -> Entry(i, j + 1, tokens[1])
\* The columns of graph and sparse CLUTO files count from 1.
EntryOf(i, j, tokens) ==
    CASE kind = "bssmat" -> Entry(tokens[1], tokens[2], 1)
      [] kind \in {"smat", "bsmat"} -> Entry(tokens[1], tokens[2], tokens[3])
      [] kind = "graph" -> Entry(i, tokens[1] - 1, 1)
      [] kind \in {"sparse matrix", "sparse graph"} ->
            Entry(i, tokens[1] - 1, tokens[2])
      [] OTHER -> Entry(i, j + 1, tokens[1])

Readable(tokens) == Len(NumbersOf(tokens)) >= Width

InPass == stage \in {"first", "second"}

TakeEntry ==
    /\ InPass
    /\ Readable(line)
    /\ entries' = Append(entries, EntryOf(row, col, line))
    /\ col' = entries'[Len(entries')].col
    /\ line' = SubSeq(line, Width + 1, Len(line))
    /\ UNCHANGED <<session, stage, kind, at, start, row, first>>

\* The rest of a line that cannot be read is dropped.  Every line but the first
\* begins a row, an empty one too.
SkipsEmpty(tokens) == IF start \/ tokens = <<>> THEN row ELSE row + 1
RowOf(tokens) == IF start THEN row ELSE row + 1

FetchLine ==
    /\ InPass
    /\ ~Readable(line)
    /\ at < Len(Seen)
    /\ line' = Seen[at + 1]
    /\ at' = at + 1
    /\ row' = RowOf(line')
    /\ col' = -1
    /\ start' = FALSE
    /\ UNCHANGED <<session, stage, kind, entries, first>>

\* The stream is at its end: load_matrix_to_crm judges the pass.
Outside(e) == e.row >= Nrows \/ e.col >= Ncols
Accepted ==
    /\ \A j \in DOMAIN entries : ~Outside(entries[j])
    /\ Len(entries) = Nnz
AtEnd == ~Readable(line) /\ at = Len(Seen)

FirstPassOver ==
    /\ stage = "first"
    /\ AtEnd
    /\ IF Accepted
         THEN stage' = "second" /\ first' = entries /\ StartPass
         ELSE stage' = "rejected" /\ UNCHANGED <<at, iterator>>
    /\ UNCHANGED <<session, kind>>

SecondPassOver ==
    /\ stage = "second"
    /\ AtEnd
    /\ stage' = IF Accepted THEN "loaded" ELSE "rejected"
    /\ UNCHANGED <<session, kind, at, iterator>>

ReadNext ==
    \/ Choose \/ DetectHeader \/ CheckLine \/ NoMoreLines \/ Size
    \/ TakeEntry \/ FetchLine \/ FirstPassOver \/ SecondPassOver

ReadSpec == ReadInit /\ [][ReadNext]_readvars

\* The program reads as long as nothing stops it.
FairReadSpec == ReadSpec /\ WF_readvars(ReadNext)

Finished == {"loaded", "rejected", "undefined", "looping"}

----------------------------------------------------------------------------
(* What writing a matrix gives and what reading it must return, for the    *)
(* properties.  A matrix is nr, nc and its values; 0 is no entry.          *)

Formats == Flat \cup {"graph"} \cup Cluto
IsDense(format) == format \in {"dense matrix", "dense graph"}
IsPattern(format) == format \in {"graph", "bssmat"}

EntriesAt(format, m, r, c) ==
    IF m.value[r, c] = 0 /\ ~IsDense(format) THEN <<>>
    ELSE <<Entry(r - 1, c - 1, IF IsPattern(format) THEN 1 ELSE m.value[r, c])>>
EntriesInRow(format, m, r) == FlattenSeq([c \in 1 .. m.nc |-> EntriesAt(format, m, r, c)])
WrittenEntries(format, m) == FlattenSeq([r \in 1 .. m.nr |-> EntriesInRow(format, m, r)])

Heading(format, m) ==
    LET count == Len(WrittenEntries(format, m)) IN
    CASE format = "graph" -> <<m.nr, count \div 2>>
      [] format = "sparse graph" -> <<m.nr, count>>
      [] format = "dense graph" -> <<m.nr>>
      [] format = "dense matrix" -> <<m.nr, m.nc>>
      [] OTHER -> <<m.nr, m.nc, count>>

TokensAt(format, m, r, c) ==
    IF m.value[r, c] = 0 /\ ~IsDense(format) THEN <<>>
    ELSE CASE IsDense(format) -> <<m.value[r, c]>>
           [] format = "graph" -> <<c>>
           [] format = "bssmat" -> <<r - 1, c - 1>>
           [] format \in {"smat", "bsmat"} -> <<r - 1, c - 1, m.value[r, c]>>
           [] OTHER -> <<c, m.value[r, c]>>
TokensInRow(format, m, r) == FlattenSeq([c \in 1 .. m.nc |-> TokensAt(format, m, r, c)])
Written(format, m) ==
    <<Heading(format, m)>> \o [r \in 1 .. m.nr |-> TokensInRow(format, m, r)]

\* The formats that can hold the matrix: a graph is square, and the header of
\* a .graph file gives half of the number of entries.
Holds(format, m) ==
    /\ format \in {"graph", "sparse graph", "dense graph"} => m.nr = m.nc
    /\ format = "graph" => Len(WrittenEntries(format, m)) % 2 = 0

IsMatrix(m) ==
    /\ m.nr \in Nat \ {0} /\ m.nc \in Nat
    /\ m.value \in [(1 .. m.nr) \X (1 .. m.nc) -> Nat]

\* A file that was written in a format has that format's name or hint, maybe a
\* newline at its end, and is compressed only where the reader decompresses it.
ASSUME WrittenAssumption ==
    \A s \in Sessions :
        /\ s.format \in Formats \cup {"unknown"}
        /\ s.format \in Formats =>
              /\ IsMatrix(s.matrix) /\ Holds(s.format, s.matrix)
              /\ \E last \in {<<>>, << <<>> >>} : s.lines = Written(s.format, s.matrix) \o last
              /\ s.gz => s.hint = "none" /\ s.format \in Flat
              /\ s.format \in Cluto =>
                    \/ s.hint = "cluto"
                    \/ s.hint = "none" /\ s.ext \in {"mat", "cmat", "cgraph"}

----------------------------------------------------------------------------
\* Types, and the place of the entries: every line that was fetched since the
\* header is a row, so the row is never past the lines of the file, and the
\* rows of a file that is read line by line never decrease and the columns are
\* never less than a stray 0 makes them.
ReadTypeOK ==
    /\ stage \in {"choose", "header", "check", "size", "first", "second"} \cup Finished
    /\ kind \in Kinds
    /\ at \in 0 .. Len(Seen)
    /\ start \in BOOLEAN
    /\ InPass => row = IF at > 1 /\ kind \notin Flat THEN at - 2 ELSE 0
    /\ kind \notin Flat =>
          /\ col \in Int /\ col >= -1
          /\ entries \in Seq([row : Nat, col : Int, val : Int])
          /\ \A j \in 2 .. Len(entries) : entries[j - 1].row <= entries[j].row

\* The two passes of load_matrix_to_crm are over the same entries, although
\* they share the stream, its error bits and the line being read, and although
\* telling the format leaves a line half read: what was counted is what is
\* placed.
PassesAgree ==
    /\ stage = "second" => IsPrefix(entries, first)
    /\ stage = "loaded" => entries = first

\* What a reader is at any time: in its types, its row number the line fetched
\* less the header, its rows in order, and in both passes over the same entries.
Inv == ReadTypeOK /\ PassesAgree

\* A matrix written in a format and read in the same one is loaded, entry by
\* entry as it was written, with and without a newline at the end of the file.
ReadsWhatWasWritten ==
    (session.format = kind /\ stage \in Finished) =>
        /\ stage = "loaded"
        /\ entries = WrittenEntries(session.format, session.matrix)

\* Whatever the file holds, the entries of row i are those on line i + 2, in
\* their order and as far as it can be read: an empty line is an empty row, and
\* a word, or a value missing at the end of a line, costs the rest of its line
\* and nothing else.
Before(i) == Cardinality({k \in DOMAIN entries : entries[k].row < i})
PlacedAs(e, j, tokens) ==
    CASE IsDense(kind) -> e.col = j - 1 /\ e.val = tokens[j]
      [] kind = "graph" -> e.col + 1 = tokens[j] /\ e.val = 1
      [] OTHER -> e.col + 1 = tokens[2 * j - 1] /\ e.val = tokens[2 * j]
RowsAreLines ==
    (stage = "first" /\ AtEnd /\ kind \notin Flat) =>
        \A i \in 0 .. Len(Lines) - 2 :
            LET readable == NumbersOf(Lines[i + 2])
                ofRow == {k \in DOMAIN entries : entries[k].row = i}
            IN  /\ ofRow = Before(i) + 1 .. Before(i) + Len(readable) \div Width
                /\ \A k \in ofRow : PlacedAs(entries[k], k - Before(i), readable)

\* detect_graph_and_dense finds the format a file was written in when its
\* header settles it, and otherwise
\*   - for a sparse graph, if the first row is not empty, its columns are not
\*     more than the number of entries, and it is not half of the entries;
\*   - for a dense matrix, if it has an even number of columns, or the first row
\*     has at an odd place a value that is no column.
\* Outside of these a file may be taken for one of another format; the comment
\* on the algorithm promises more for sparse graphs (ShortLineIsSparseGraph).
Settled ==
    LET tokens == session.lines[2]
        second == session.lines[1][2]
    IN  CASE session.format = "sparse graph" ->
               /\ tokens # <<>>
               /\ \A j \in Columns(tokens) : tokens[j] <= second
               /\ Len(tokens) # second
          [] session.format = "dense matrix" ->
               \/ second % 2 = 0
               \/ \E j \in Columns(tokens) : ~(tokens[j] \in 1 .. second)
          [] OTHER -> TRUE
DetectionRight ==
    (session.format \in Cluto /\ ~session.gz /\ Settled /\
     stage \in {"first"} \cup Finished) =>
        kind = session.format

\* Reading comes to an end, whatever is in the file, except in a CLUTO file with
\* a word in its first line.
ReadingEnds ==
    <>(\/ stage \in Finished \ {"looping"}
       \/ kind = "cluto" /\ \E j \in DOMAIN Lines[1] : ~IsNumber(Lines[1][j]))

\* The second point of the comment on the detection algorithm in
\* cluto_ifstream_matrix.hpp: a first row with fewer tokens than the second
\* number of the header says makes the file a sparse graph.  The code looks at
\* the tokens before it counts them, and an empty row, whose one token cannot
\* be converted, makes it a dense matrix.
ShortLineIsSparseGraph ==
    (/\ session.format \in Cluto
     /\ stage \in {"first"} \cup Finished
     /\ Len(session.lines[1]) = 2
     /\ Len(session.lines[2]) < session.lines[1][2]) => kind = "sparse graph"
================================================================================
