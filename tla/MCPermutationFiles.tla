-------------------------- MODULE MCPermutationFiles --------------------------
(***************************************************************************)
(* PermutationFiles on small files: permutations, repeated and missing     *)
(* numbers, numbers of one to four digits, blank lines, files that are too *)
(* short, empty, compressed or not there, and one file for rows and        *)
(* columns of a square or an oblong matrix.                                *)
(***************************************************************************)
EXTENDS PermutationFiles

Line(n) ==
    IF n < 10 THEN <<n>> ELSE IF n < 100 THEN <<n, n % 10>> ELSE <<n, n % 100, n % 10>>
Padded(n) == <<n, n, n, n>>   \* one digit after three zeros
Text(lines) == [kind |-> "text", lines |-> lines]
Gzip(lines) == [kind |-> "gzip", lines |-> lines]

PermLines ==
    {<<Line(1), Line(0), Blank>>, <<Line(1), Line(0)>>, <<Line(0), Line(0), Line(1), Blank>>,
     <<Line(1), Line(0), Line(0), Line(1), Blank>>, <<Padded(1), Line(0), Blank>>,
     <<Padded(0), Blank, Line(1), Line(2), Blank>>, <<Line(10), Line(1), Line(0), Blank>>,
     <<Line(100), Line(1), Line(2), Line(0), Blank>>, <<Blank, Line(10), Line(1)>>,
     <<Padded(2), Padded(1), Padded(0)>>, <<Line(1)>>, <<Blank>>, <<Blank, Blank, Blank>>}
PermFiles ==
    {NoFile, Missing, Gzip(<<Line(1), Line(0), Blank>>)} \cup {Text(l) : l \in PermLines}

LabelLines ==
    {<<Line(7), Line(8), Blank>>, <<Line(123), Line(45)>>, <<Line(12), Blank, Line(3), Blank>>,
     <<Blank, Line(5)>>, <<Line(9)>>, <<Blank>>}
LabelFiles ==
    {NoFile, Missing} \cup {Text(l) : l \in LabelLines}
    \cup {Gzip(l) : l \in {<<Line(12), Line(3), Blank>>, <<Blank>>}}

Oblong == {<<2, 3>>, <<3, 2>>}
Session(size, p, q, l, m) ==
    [nrows |-> size[1], ncols |-> size[2], rperm |-> p, cperm |-> q, rlabel |-> l, clabel |-> m]

MCSessions ==
    {Session(<<2, 2>>, p, q, NoFile, NoFile) : p \in PermFiles, q \in PermFiles}
    \cup {Session(size, p, p, NoFile, NoFile) : size \in Oblong, p \in PermFiles}
    \cup {Session(<<2, 2>>, NoFile, NoFile, l, m) : l \in LabelFiles, m \in LabelFiles}
    \cup {Session(<<2, 2>>, NoFile, q, l, NoFile) :
              q \in {Missing, Text(<<Padded(1), Line(0)>>)}, l \in LabelFiles}

MCGarbage == {-1, 0, 1}
=============================================================================
