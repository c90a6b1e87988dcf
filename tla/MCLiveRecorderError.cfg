SPECIFICATION Spec
CONSTANTS
    RingFrames = 2
    Blocks <- MCBlocks
    MaxFrames = 5
    MaxRecordings = 2
    MayFail = TRUE
    Overlap = FALSE
    NoFrame = NoFrame
INVARIANT StoppedWithoutError
CHECK_DEADLOCK FALSE
