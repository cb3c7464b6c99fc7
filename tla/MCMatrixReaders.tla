----------------------------- MODULE MCMatrixReaders -----------------------------
(***************************************************************************)
(* MatrixReaders with every matrix of at most 2 x 2, or 1 x 3, in every    *)
(* format that can hold it, with and without a newline at the end,         *)
(* compressed where that can be read; and with files nobody wrote, under   *)
(* every name.                                                             *)
(***************************************************************************)
EXTENDS MatrixReaders

CellValues == {0, 1, 3}
Sizes == {<<2, 0>>, <<1, 1>>, <<1, 2>>, <<2, 1>>, <<2, 2>>, <<1, 3>>}
Matrices ==
    UNION { {[nr |-> s[1], nc |-> s[2], value |-> v] :
                v \in [(1 .. s[1]) \X (1 .. s[2]) -> CellValues]} : s \in Sizes }

ExtOf(format) == IF format \in Cluto THEN "mat" ELSE format
LastLines == {<<>>, << <<>> >>}

WrittenFiles ==
    { [hint |-> "none", ext |-> ExtOf(x[1]), gz |-> x[3],
       lines |-> Written(x[1], x[2]) \o last, format |-> x[1], matrix |-> x[2]] :
         x \in {y \in Formats \X Matrices \X BOOLEAN :
                   Holds(y[1], y[2]) /\ (y[3] => y[1] \in Flat)},
         last \in LastLines }

Headers == {<<1>>, <<2, 2>>, <<1, 2, 1>>, <<2, 1, 1, 1>>, <<Word>>}
RowLines == {<<>>, <<1, 1>>, <<2, Word>>, <<1, 1, 2>>, <<0, 1>>}
Bodies == {<<>>} \cup {<<x>> : x \in RowLines} \cup {<<x, y>> : x, y \in RowLines}
    \cup {<<x, <<>>, y>> : x, y \in RowLines}
Names ==
    [hint : {"none"}, ext : {"smat", "graph", "mat", "bssmat", "txt"}, gz : BOOLEAN]
    \cup [hint : {"cluto", "graph", "smat"}, ext : {"txt"}, gz : BOOLEAN]
StrayFiles ==
    { [hint |-> n.hint, ext |-> n.ext, gz |-> n.gz, lines |-> <<h>> \o b,
       format |-> "unknown"] : n \in Names, h \in Headers, b \in Bodies }

MCSessions == WrittenFiles \cup StrayFiles
================================================================================
