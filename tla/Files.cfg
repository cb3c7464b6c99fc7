CONSTANTS
    Sessions <- MCSessions
    Garbage <- MCGarbage
SPECIFICATION FilesSpec
INVARIANT
    FilesUsedAsGiven
CHECK_DEADLOCK FALSE
