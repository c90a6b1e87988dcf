SPECIFICATION Spec
CONSTANTS
    t1 = t1
    t2 = t2
    Threads <- TwoThreads
    FastProducer = {TRUE, FALSE}
    SequenceWidth = 64
    Lease = 2
    Chunk = 2
    LaneCapacity = 1
    FastCapacity = 1
    PollEvery = 2
    PageCapacity = 2
    Batches <- Calls
    MaxEvents = 2
    NoThread = NoThread
    Disabled = Disabled
    NoRun = NoRun
PROPERTIES Delivered SubmitReturns
