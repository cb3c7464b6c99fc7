CONSTANTS
    Widths <- MCWidths
    FirstWidth = 1
    Announcing <- MCAnnouncing
    Sessions <- MCSessions
    Garbage <- MCGarbage
SPECIFICATION StartupSpec
INVARIANTS
    Inv
    RowsFollowRest
    VectorsAgree
    LabelsFollowRest
    NothingStale
    PanelHasItsContext
PROPERTIES
    ReadingEnds
    WindowsSettle
CHECK_DEADLOCK FALSE
