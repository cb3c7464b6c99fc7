CONSTANT
    Matrices <- MCMatrices
SPECIFICATION FairPipeSpec
INVARIANTS
    PipeInv
    ShowsSum
PROPERTIES
    SymmetrizingIsLoading
    LoadingEnds
CHECK_DEADLOCK FALSE
