SPECIFICATION FairSpec
CONSTANTS
    p1 = p1
    p2 = p2
    noteOn = noteOn
    noteOff = noteOff
    Producers <- MCProducers
    Events <- MCEvents
    Batches <- MCBatches
    Capacity = 2
    MaxCalls = 2
    NoEvent = NoEvent
INVARIANTS
    TypeOK
    ExclusiveCells
PROPERTIES
    RefusedOnlyWhenFull
    ReservedIsDelivered
    ImplementsFifo
