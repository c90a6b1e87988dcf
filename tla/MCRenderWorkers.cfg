SPECIFICATION FairSpec
CONSTANTS
    HelperCount = 2
    WaitMode = "event"
    JobCounts <- MCJobCounts
    MaxSpans = 3
INVARIANTS
    TypeOK
    DisjointJobs
    MergesFinishedSpan
    QuietWhilePreparing
PROPERTIES
    SpanEnds
    HelpersEnd
CHECK_DEADLOCK FALSE
