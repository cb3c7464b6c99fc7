CONSTANT
    Matrices <- MCMatrices
SPECIFICATION Spec
INVARIANTS
    ReadsAhead
    RowsIncrease
    ValuesAreTotals
CHECK_DEADLOCK FALSE
