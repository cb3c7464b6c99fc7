CONSTANTS
    NRows = 2
    NCols = 2
    Matrices <- MCColorMatrices
    MapSize = 64
    FallsShort <- MCFallsShort
SPECIFICATION ColorSpec
INVARIANT
    EqualValuesShowHighEnd
