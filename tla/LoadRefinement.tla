---------------------------- MODULE LoadRefinement ----------------------------
(***************************************************************************)
(* CrmLoad implements MatrixLoad: the rows are read off the arrays once    *)
(* the load is done, and before that there is no matrix.                   *)
(***************************************************************************)
EXTENDS CrmLoad

CONSTANTS Unread, Rejected, Unknown   \* what there may be instead of a matrix

StoredRow(r) == [k \in 1 .. (ai[r + 1] - ai[r]) |-> cell[ai[r] + k - 1]]

Matrix ==
    IF pc \notin {"done", "failed", "undefined"} THEN Unread
    ELSE IF ~DegreesRight(input) THEN Unknown
    ELSE IF pc = "done" THEN [r \in 0 .. (input.nr - 1) |-> StoredRow(r)]
    ELSE Rejected

DegreesWrong(f) == ~DegreesRight(f)

Abstract == INSTANCE MatrixLoad WITH matrix <- Matrix, Misled <- DegreesWrong

\* Every load ends, and ends with the rows of the file or with a rejection
\* that the file deserved, in one step as seen from outside.
ImplementsMatrixLoad == Abstract!Spec
=============================================================================
