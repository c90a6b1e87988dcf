SPECIFICATION Spec
CONSTANTS
    PageCount = 3
    PageCapacity = 2
    MaxDirect = 2
    MaxRing = 2
    NoPage = NoPage
    NoEvent = NoEvent
PROPERTIES
    PayloadImmutable
CHECK_DEADLOCK FALSE
