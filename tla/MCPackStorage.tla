---------------------------- MODULE MCPackStorage ----------------------------
(***************************************************************************)
(* PackStorage on every matrix of two rows and two columns with up to      *)
(* three entries, and of one row with four.  The values are powers of two, *)
(* so that a sum tells which entries went into it, except for one entry    *)
(* that cancels another.                                                   *)
(***************************************************************************)
EXTENDS PackStorage

Value(s) == IF s = 2 THEN -1 ELSE 2 ^ s

MatrixOf(nrows, nnz, starts, columns) ==
    [nrows |-> nrows, ncols |-> 2, nnz |-> nnz, ai |-> starts, aj |-> columns,
     a |-> [s \in 0 .. (nnz - 1) |-> Value(s)]]

StartsOf(nrows, nnz) ==
    {f \in [0 .. nrows -> 0 .. nnz] :
        /\ f[0] = 0 /\ f[nrows] = nnz
        /\ \A r \in 0 .. (nrows - 1) : f[r] <= f[r + 1]}

AllMatrices(nrows, nnz) ==
    {MatrixOf(nrows, nnz, starts, columns) :
        starts \in StartsOf(nrows, nnz), columns \in [0 .. (nnz - 1) -> 0 .. 1]}

MCMatrices ==
    UNION {AllMatrices(2, n) : n \in 0 .. 3} \cup AllMatrices(1, 4) \cup AllMatrices(3, 3)
=============================================================================
