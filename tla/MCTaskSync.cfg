CONSTANTS
    t1 = t1
    t2 = t2
    e1 = e1
    e2 = e2
    fa = fa
    fb = fb
    r1 = r1
    r2 = r2
    h1 = h1
    h2 = h2
    alice = alice
    bob = bob
    bot = bot
    Task <- MCTask
    Execution <- MCExecution
    Line <- MCLine
    Syncer <- MCSyncer
    Handler <- MCHandler
    Actor <- MCActor
    Agent <- MCAgent
    May <- MCMay
    Wanted <- MCWanted
    Reportable <- MCReportable
    Request <- MCRequest
    Movable <- MCMovable
    Shown <- MCShown
    MaxCrashes = 1
SYMMETRY MCSymmetry
SPECIFICATION BoardSpec
CHECK_DEADLOCK FALSE
INVARIANTS
    BoardAgreesAtRest
    ChosenByPeople
