CONSTANTS
    NRows = 2
    NCols = 3
    Matrices <- MCMatrices
    RowFiles <- MCRowFiles
    ColumnFiles <- MCColumnFiles
    Leftover <- MCLeftover
    MapSize = 64
    FallsShort <- MCFallsShort
SPECIFICATION DrawingSpec
INVARIANTS
    PanelAgrees
    NothingHidden
    ColorInv
    ColorsFollowValues
PROPERTY
    ViewSettles
