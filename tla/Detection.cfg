CONSTANTS
    Sessions <- MCSessions
SPECIFICATION ReadSpec
INVARIANT ShortLineIsSparseGraph
CHECK_DEADLOCK FALSE
