CONSTANTS
    s0 = s0
    s1 = s1
    s2 = s2
    s3 = s3
    ann = ann
    bob = bob
    bot = bot
    h1 = h1
    h2 = h2
    owner = owner
    gate = gate
    Handler <- MCHandler
    Stage <- MCStage
    Start = s0
    Actor <- MCActor
    Person <- MCPerson
    Gates <- MCGates
    Authorities <- MCAuthorities
    Held <- MCHeld
    Attempt <- MCAttempt
    MaxRows = 4
    MaxCrashes = 1
    None = None
SPECIFICATION Spec
SYMMETRY MCSymmetry
CHECK_DEADLOCK FALSE
INVARIANTS
    OnlyJudgedMoves
    RecordsFollowTheMoves
    OnlyFailuresGoUnrecorded
