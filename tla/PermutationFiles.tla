--------------------------- MODULE PermutationFiles ---------------------------
(***************************************************************************)
(* matrix_canvas::load_permutations and load_labels, which main calls one  *)
(* after the other: four files, each of them optional, each opened, tested *)
(* for a gzip header with util::gzip_header and then read.  Permutations   *)
(* are read from the file stream, while the loop tests the filtering       *)
(* stream above it for its end; labels are read from the filtering stream. *)
(*                                                                         *)
(* A file's text is the sequence of what stands between its newlines, so   *)
(* a text that ends with a newline has an empty last member.  Every line   *)
(* is a string of digits, given by the numbers it reads as from its first  *)
(* character on, from its second on, and so forth: 105 is <<105, 5, 5>>.   *)
(***************************************************************************)
EXTENDS Integers, FiniteSets, Sequences, SequencesExt, FiniteSetsExt

CONSTANTS
    Sessions,    \* records [nrows, ncols, rperm, cperm, rlabel, clabel]
    Garbage      \* what an int may hold that is never assigned

\* A file is not asked for, not there, or a text, perhaps compressed.
NoFile == [kind |-> "none"]
Missing == [kind |-> "missing"]
Texts == [kind : {"text", "gzip"}, lines : Seq(Seq(Nat))]
IsFile(f) == f.kind \in {"text", "gzip"}

ASSUME SessionsAssumption ==
    \A s \in Sessions :
        /\ s.nrows \in Nat \ {0} /\ s.ncols \in Nat \ {0}
        /\ \A f \in {s.rperm, s.cperm, s.rlabel, s.clabel} :
               f \in {NoFile, Missing} \/ (f \in Texts /\ Len(f.lines) > 0)

ASSUME GarbageAssumption == Garbage \subseteq Int /\ Garbage # {}

VARIABLES
    session,     \* what the command line and the matrix give; no step changes it
    delivered,   \* what readsome delivers from a stream just opened; the same for all
    file,        \* the file being read, or what main is about to do
    opened,      \* the file is open and has been tested for gzip
    judged,      \* gzip_header's answer
    ifs,         \* the text of the file stream after that test
    used,        \* the lines of it that operator >> has taken
    fails,       \* ifs has failed
    r,           \* the loop's index
    irperm, icperm, cperm,   \* matrix_canvas::irperm, icperm, cperm
    rperm_loaded, cperm_loaded,
    labels       \* matrix_canvas::rlabel and clabel

stream == <<opened, judged, ifs, used, fails, r>>
permutations == <<irperm, icperm, cperm, rperm_loaded, cperm_loaded>>
filevars == <<session, delivered, file, stream, permutations, labels>>

Labels == {"permutations?", "rperm", "cperm", "labels?", "rlabel", "clabel",
           "ready", "refused", "undefined"}

----------------------------------------------------------------------------
\* The file stream.

Blank == <<>>

\* The text without its first character: a digit, or the newline after a line
\* that is used up.
WithoutFirst(lines) ==
    IF Head(lines) # Blank THEN <<Tail(Head(lines))>> \o Tail(lines)
    ELSE IF Len(lines) > 1 THEN Tail(lines)
    ELSE lines

\* The next lines that hold a number, none at the end of the file: operator >>
\* skips what is blank, and the newline after the number it took before.
NumbersAhead == {n \in (used + 1) .. Len(ifs) : ifs[n] # Blank}

\* gzip_header reads two characters with readsome.  The C++ library decides
\* whether a stream just opened has any available; where it has not, or the
\* file is empty, header is read uninitialized.
HeaderSize == 2
IsEmpty(lines) == lines = <<Blank>>
NeverSure(f) == BOOLEAN
Judgements(f) ==
    IF delivered = 0 \/ (f.kind = "text" /\ IsEmpty(f.lines)) THEN BOOLEAN
    ELSE {f.kind = "gzip"}

\* Where the stream stands after the test: at its beginning if seekg was
\* called or readsome delivered nothing.
\* The variants named next to a definition are slips it must not contain; the
\* runs check that each breaks a property.
LosesOneMore(lines, yes) ==
    IF yes \/ delivered = 0 THEN lines
    ELSE WithoutFirst(WithoutFirst(WithoutFirst(lines)))
AfterTest(lines, yes) ==
    IF yes \/ delivered = 0 THEN lines
    ELSE WithoutFirst(WithoutFirst(lines))

----------------------------------------------------------------------------
PlacesForRows == session.nrows
PlacesForColumns == session.ncols
Zeros(n) == [x \in 0 .. (n - 1) |-> 0]

FilesInit ==
    /\ session \in Sessions
    /\ delivered \in {0, HeaderSize}
    /\ file = "permutations?"
    /\ opened = FALSE /\ judged = FALSE
    /\ ifs = <<>> /\ used = 0 /\ fails = FALSE /\ r = 0
    /\ irperm = <<>> /\ icperm = <<>> /\ cperm = <<>>
    /\ rperm_loaded = FALSE /\ cperm_loaded = FALSE
    /\ labels = [rlabel |-> <<>>, clabel |-> <<>>]

\* Both names are tried before either file is read; main ends when one fails.
Exists(f, g) == IF f = Missing THEN f ELSE g
CheckFiles(here, f, g, next) ==
    /\ file = here
    /\ file' = IF Exists(f, g) = Missing THEN "refused" ELSE next
    /\ UNCHANGED <<session, delivered, stream, permutations, labels>>
CheckPermutations == CheckFiles("permutations?", session.rperm, session.cperm, "rperm")
CheckLabels == CheckFiles("labels?", session.rlabel, session.clabel, "rlabel")

After == [rperm |-> "cperm", cperm |-> "labels?", rlabel |-> "clabel", clabel |-> "ready"]
GoesOn == file' = After[file] /\ opened' = FALSE

Reading == file \in DOMAIN After
NotAsked ==
    /\ Reading /\ ~opened
    /\ session[file] = NoFile
    /\ GoesOn
    /\ UNCHANGED <<session, delivered, judged, ifs, used, fails, r, permutations, labels>>

\* The vectors are resized before they are filled.
Open ==
    /\ Reading /\ ~opened
    /\ IsFile(session[file])
    /\ opened' = TRUE
    /\ r' = 0 /\ used' = 0 /\ fails' = FALSE
    /\ \E yes \in Judgements(session[file]) :
          /\ judged' = yes
          /\ ifs' = AfterTest(session[file].lines, yes)
    /\ irperm' = IF file = "rperm" THEN Zeros(session.nrows) ELSE irperm
    /\ icperm' = IF file = "cperm" THEN Zeros(session.ncols) ELSE icperm
    /\ cperm' = IF file = "cperm" THEN Zeros(PlacesForColumns) ELSE cperm
    /\ UNCHANGED <<session, delivered, file, rperm_loaded, cperm_loaded, labels>>

\* ifs >> p: the next number, or whatever p holds once there is none.  The
\* bytes of a compressed file are no number.
HasNumber == ~fails /\ session[file].kind = "text" /\ NumbersAhead # {}
ValuesRead == IF HasNumber THEN {Head(ifs[Min(NumbersAhead)])} ELSE Garbage
StreamReads ==
    /\ fails' = ~HasNumber
    /\ used' = IF HasNumber THEN Min(NumbersAhead) ELSE used
    /\ r' = r + 1

ReadRow ==
    /\ file = "rperm" /\ opened
    /\ r < session.nrows
    /\ \E p \in ValuesRead : irperm' = [irperm EXCEPT ![r] = p]
    /\ StreamReads
    /\ UNCHANGED <<session, delivered, file, opened, judged, ifs, icperm, cperm, rperm_loaded,
                   cperm_loaded, labels>>

RowsRead ==
    /\ file = "rperm" /\ opened
    /\ r = session.nrows
    /\ rperm_loaded' = TRUE
    /\ GoesOn
    /\ UNCHANGED <<session, delivered, judged, ifs, used, fails, r, irperm, icperm, cperm,
                   cperm_loaded, labels>>

\* cperm[p] = c, unchecked.
PlacedSame(p) == [cperm EXCEPT ![r] = p]
Placed(p) == [cperm EXCEPT ![p] = r]
Fits(p) == p \in DOMAIN cperm
ReadColumn ==
    /\ file = "cperm" /\ opened
    /\ r < session.ncols
    /\ \E p \in ValuesRead :
          /\ icperm' = [icperm EXCEPT ![r] = p]
          /\ IF Fits(p) THEN cperm' = Placed(p) /\ UNCHANGED file
             ELSE file' = "undefined" /\ UNCHANGED cperm
    /\ StreamReads
    /\ UNCHANGED <<session, delivered, opened, judged, ifs, irperm, rperm_loaded, cperm_loaded,
                   labels>>

ColumnsRead ==
    /\ file = "cperm" /\ opened
    /\ r = session.ncols
    /\ cperm_loaded' = TRUE
    /\ GoesOn
    /\ UNCHANGED <<session, delivered, judged, ifs, used, fails, r, irperm, icperm, cperm,
                   rperm_loaded, labels>>

\* getline(ios_fifs, line) until the filtering stream is at its end: the last
\* line is the one getline ends with the file, not with a newline.  The
\* decompressor gives the text of a compressed file, and an error for any
\* other, after which eof() is never true; the bytes of a compressed file that
\* is not decompressed are lines that mean nothing.
Unreadable == <<>>
Content ==
    CASE judged /\ session[file].kind = "gzip" -> session[file].lines
      [] judged /\ session[file].kind = "text" -> Unreadable
      [] ~judged /\ session[file].kind = "gzip" -> <<Blank>>
      [] OTHER -> ifs

ReadingLabels == file \in {"rlabel", "clabel"} /\ opened
LastLineLost == Len(Content) - 1
LastLine == Len(Content)
ReadLabel ==
    /\ ReadingLabels
    /\ r < LastLine
    /\ labels' = [labels EXCEPT ![file] = Append(@, Content[r + 1])]
    /\ r' = r + 1
    /\ UNCHANGED <<session, delivered, file, opened, judged, ifs, used, fails, permutations>>

\* Nothing is read, and a label is added, for ever; the labels are not counted.
LabelsStuck ==
    /\ ReadingLabels
    /\ Content = Unreadable
    /\ UNCHANGED filevars

LabelsRead ==
    /\ ReadingLabels
    /\ Content # Unreadable /\ r = LastLine
    /\ GoesOn
    /\ UNCHANGED <<session, delivered, judged, ifs, used, fails, r, permutations, labels>>

FilesNext ==
    \/ CheckPermutations \/ CheckLabels
    \/ NotAsked \/ Open
    \/ ReadRow \/ RowsRead \/ ReadColumn \/ ColumnsRead
    \/ ReadLabel \/ LabelsStuck \/ LabelsRead

FilesSpec == FilesInit /\ [][FilesNext]_filevars

\* main calls both functions in one thread.
FairFilesSpec == FilesSpec /\ WF_filevars(FilesNext)
----------------------------------------------------------------------------
\* Properties.

\* The text from where the file stream stands once the test is over.
TextLeft(f) ==
    IF delivered = 0 THEN f.lines ELSE WithoutFirst(WithoutFirst(f.lines))

\* The numbers among the first m lines, and the number that comes n-th.
NumbersTo(lines, m) == {l \in 1 .. m : lines[l] # Blank}
IsNth(lines, m, n) ==
    m \in 1 .. Len(lines) /\ lines[m] # Blank /\ Cardinality(NumbersTo(lines, m)) = n
NumberAt(lines, n) == Head(lines[CHOOSE m \in 1 .. Len(lines) : IsNth(lines, m, n)])
HowMany(lines) == Cardinality(NumbersTo(lines, Len(lines)))
Enough(f, n) == f.kind = "text" /\ HowMany(TextLeft(f)) >= n

FilesTypeOK ==
    /\ delivered \in {0, HeaderSize} /\ file \in Labels
    /\ opened \in BOOLEAN /\ judged \in BOOLEAN /\ fails \in BOOLEAN
    /\ ifs \in Seq(Seq(Nat)) /\ used \in 0 .. Len(ifs) /\ r \in Nat
    /\ rperm_loaded \in BOOLEAN /\ cperm_loaded \in BOOLEAN
    /\ rperm_loaded => irperm \in [0 .. (session.nrows - 1) -> Int]
    /\ cperm_loaded =>
          /\ icperm \in [0 .. (session.ncols - 1) -> 0 .. (session.ncols - 1)]
          /\ cperm \in [0 .. (session.ncols - 1) -> 0 .. (session.ncols - 1)]
    /\ DOMAIN labels = {"rlabel", "clabel"}

\* A permutation is read only if both files are there: a missing column file
\* does not leave the rows permuted.
AllOrNothing ==
    rperm_loaded \/ cperm_loaded => Missing \notin {session.rperm, session.cperm}

\* Place x shows the row that number x + 1 of the stream names, the stream being
\* what the gzip test has left of the file: the loop skips no number and reads
\* none twice, as far as there are any.
RowsFollowRest ==
    rperm_loaded /\ session.rperm.kind = "text" =>
        LET rest == TextLeft(session.rperm)
        IN  \A x \in 0 .. (session.nrows - 1) :
               x < HowMany(rest) => irperm[x] = NumberAt(rest, x + 1)

\* cperm and icperm, filled in one loop, stay each other's inverse as far as
\* the file allows: a column named twice is where the file names it last, one
\* it does not name is at 0.
VectorsAgree ==
    cperm_loaded =>
        \A p \in 0 .. (session.ncols - 1) :
            LET named == {c \in 0 .. (session.ncols - 1) : icperm[c] = p}
            IN  cperm[p] = IF named = {} THEN 0 ELSE Max(named)

\* cperm is written at what the file says: outside only if the file, as far as
\* it is read, names a column that is not there or has too few numbers.
WritesInVector ==
    file = "undefined" =>
        \/ ~Enough(session.cperm, session.ncols)
        \/ \E n \in 1 .. session.ncols :
               NumberAt(TextLeft(session.cperm), n) >= session.ncols

\* --rcperm: one file for both gives a square matrix one order for both.
BothFromOneFile ==
    /\ rperm_loaded /\ cperm_loaded
    /\ session.rperm = session.cperm /\ session.nrows = session.ncols
    /\ Enough(session.rperm, session.nrows)
    => irperm = icperm

\* What holds of the permutations at any time: loaded vectors are filled, both
\* or none, never written outside by a file that is in order, and equal if
\* their files are.
Inv ==
    /\ FilesTypeOK
    /\ AllOrNothing
    /\ WritesInVector
    /\ BothFromOneFile

\* A label for every line that the gzip test has left in the stream, an empty
\* last one included; of a compressed file, for every line it decompresses to.
LabelsFollowRest ==
    file = "ready" =>
        \A j \in {"rlabel", "clabel"} :
            LET f == session[j] IN
            /\ f = NoFile => labels[j] = <<>>
            /\ f.kind = "gzip" /\ delivered # 0 => labels[j] = f.lines
            /\ f.kind = "text" => labels[j] = TextLeft(f)

\* The files are read to their end, unless an empty or untested one is taken
\* for compressed.
Tested(f) == IsFile(f) => delivered # 0 /\ ~IsEmpty(f.lines)
ReadingEnds ==
    (Tested(session.rlabel) /\ Tested(session.clabel))
        => <>(file \in {"ready", "refused", "undefined"})

\* The help: "indices from PERMFILE reorder the rows of the matrix", all of
\* them: PERMFILE "only contains" so many "entries" is a refusal.
RowsFollowFile ==
    rperm_loaded /\ session.rperm.kind = "text" =>
        /\ HowMany(session.rperm.lines) >= session.nrows
        /\ \A x \in 0 .. (session.nrows - 1) :
              irperm[x] = NumberAt(session.rperm.lines, x + 1)

\* The help: "strings from LABELFILE are the row labels of the matrix".
LabelsAreLines ==
    file = "ready" =>
        \A j \in {"rlabel", "clabel"} :
            session[j].kind = "text" => labels[j] = session[j].lines

\* What the program says of its files in its help and its refusals: the file
\* that is asked for is used as it is, from its first character on, or refused.
\* The code contradicts each part: where readsome delivers, the first two
\* characters of a text are gone when its loop begins; and the loop over a
\* permutation counts its calls of >>, not the numbers they find.
FilesUsedAsGiven == RowsFollowFile /\ LabelsAreLines
=============================================================================
