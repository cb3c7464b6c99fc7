------------------------------ MODULE MCPipeline ------------------------------
(***************************************************************************)
(* Pipeline on small matrices: square, with more rows than columns, with   *)
(* more columns than rows, and without entries.  Values are powers of two, *)
(* so that a sum tells which entries went into it.                         *)
(***************************************************************************)
EXTENDS Pipeline

StartsOf(nr, nz) ==
    {f \in [0 .. nr -> 0 .. nz] :
        /\ f[0] = 0 /\ f[nr] = nz
        /\ \A r \in 0 .. (nr - 1) : f[r] <= f[r + 1]}

AllMatrices(nr, nc, nz) ==
    {[nrows |-> nr, ncols |-> nc, nnz |-> nz, ai |-> starts, aj |-> columns,
      a |-> [s \in 0 .. (nz - 1) |-> 2 ^ s]] :
        starts \in StartsOf(nr, nz), columns \in [0 .. (nz - 1) -> 0 .. (nc - 1)]}

MCMatrices ==
    AllMatrices(2, 2, 0) \cup AllMatrices(2, 2, 1) \cup AllMatrices(2, 2, 2)
    \cup AllMatrices(2, 2, 3) \cup AllMatrices(3, 3, 2)
    \cup AllMatrices(3, 2, 2) \cup AllMatrices(1, 2, 2) \cup AllMatrices(2, 3, 1)
=============================================================================
