CONSTANTS
    Sessions <- MCSessions
    Chunk <- MCChunk
    Looks = {look1, look2}
SPECIFICATION FairSpec
INVARIANTS
    SweepScheduled
    FrameInMatrix
    WholePicture
    NoStripeLost
PROPERTY
    ComesToRest
