SPECIFICATION FairSpec
CONSTANTS
    RingFrames = 2
    Blocks <- MCBlocks
    MaxFrames = 5
    MaxRecordings = 2
    MayFail = TRUE
    Overlap = FALSE
    NoFrame = NoFrame
INVARIANTS
    TypeOK
    Intact
    RingAlive
    StoppedIsComplete
PROPERTIES
    StopReturns
CHECK_DEADLOCK FALSE
