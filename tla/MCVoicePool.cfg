SPECIFICATION Spec
CONSTANTS
    h1 = h1
    h2 = h2
    h3 = h3
    Handles <- MCHandles
    Channels <- MCChannels
    Notes <- MCNotes
    Launches <- MCLaunches
    Limits = {2, 3}
    Batching = TRUE
SYMMETRY HandleSymmetry
INVARIANTS
    TypeOK
    
    NoHungNotes
    ReleasesOneUnit
PROPERTIES
    LaunchWhole
    LimitKept
