SPECIFICATION Spec
CONSTANTS
    HelperCount = 2
    WaitMode = "address"
    JobCounts <- MCJobCounts
    MaxSpans = 3
INVARIANT DisjointJobs
CHECK_DEADLOCK FALSE
