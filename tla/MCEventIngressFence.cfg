SPECIFICATION Spec
CONSTANTS
    t1 = t1
    t2 = t2
    Threads <- OneThread
    FastProducer = {FALSE}
    SequenceWidth = 8
    Lease = 2
    Chunk = 2
    LaneCapacity = 2
    FastCapacity = 1
    PollEvery = 2
    PageCapacity = 2
    Batches <- Singles
    MaxEvents = 5
    NoThread = NoThread
    Disabled = Disabled
    NoRun = NoRun
INVARIANTS NewerNotesSurvive
