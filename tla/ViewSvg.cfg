CONSTANTS
    NRows = 2
    NCols = 3
    Matrices <- MCViewMatrices
    RowFiles <- MCRowFiles
    ColumnFiles <- MCColumnFiles
    Leftover <- MCLeftover
SPECIFICATION Spec
INVARIANT
    SvgShowsView
