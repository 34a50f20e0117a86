CONSTANTS
    c1 = c1
    c2 = c2
    h1 = h1
    h2 = h2
    Candidate <- MCCandidate
    Handler <- MCHandler
    MaxContent = 2
    MaxRequests = 5
    MaxCrashes = 1
SPECIFICATION Spec
CHECK_DEADLOCK FALSE
INVARIANTS
    OverlapIsAConflict
