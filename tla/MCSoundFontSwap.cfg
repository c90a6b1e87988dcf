SPECIFICATION Spec
CONSTANTS
    link = link
    host = host
    api = api
    Threads <- MCThreads
    Calls <- MCCalls
    MaxRequests = 3
    MaxBuilds = 2
    Starts <- MCStarts
INVARIANTS
    TypeOK
    OnePlace
PROPERTIES
    UsedIsAlive
    CompanionMatches
    QueuedSettles
