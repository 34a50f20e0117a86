CONSTANTS
    p1 = p1
    p2 = p2
    home = home
    away = away
    r1 = r1
    r2 = r2
    g1 = g1
    Project <- MCProject
    Dir <- MCDir
    NoDir = NoDir
    Request <- MCRequest
    Wanted <- MCWanted
    InUse <- MCInUse
    Reader <- MCReader
    MaxTroubles = 1
SPECIFICATION ProvisionSpec
CHECK_DEADLOCK FALSE
INVARIANTS
    RecordedStepsAreTrue
    PreparedWasSubmitted
