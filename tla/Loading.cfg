CONSTANTS
    Inputs <- MCInputs
    TextAsInt <- MCTextAsInt
    Unread = Unread
    Rejected = Rejected
    Unknown = Unknown
    Sessions <- MCSessions
SPECIFICATION LoadingSpec
INVARIANTS
    StaysInArrays
    AcceptsWellFormed
    StorageIsExact
    Inv
    ReadsWhatWasWritten
    RowsAreLines
    DetectionRight
PROPERTIES
    ImplementsMatrixLoad
    ReadingEnds
CHECK_DEADLOCK FALSE
