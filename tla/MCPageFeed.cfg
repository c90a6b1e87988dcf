SPECIFICATION FairSpec
CONSTANTS
    PageCount = 3
    PageCapacity = 2
    MaxDirect = 2
    MaxRing = 2
    NoPage = NoPage
    NoEvent = NoEvent
INVARIANTS
    TypeOK
    OnePlace
    RoomForPages
    Conserved
PROPERTIES
    SubmittedIsDispatched
    ShutdownEndsFeeders
CHECK_DEADLOCK FALSE
