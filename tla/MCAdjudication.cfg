CONSTANTS
    k1 = k1
    g1 = g1
    h1 = h1
    h2 = h2
    Key <- MCKey
    Gate <- MCGate
    Blocking <- MCGate
    Governed <- MCGoverned
    Handler <- MCHandler
    Proposals <- MCProposals
    Targets <- MCTargets
    Settings <- MCSettings
    MaxPolicies = 2
    MaxDecisions = 1
    MaxVersions = 1
SYMMETRY Handlers
SPECIFICATION Spec
INVARIANTS
    AppliedIsCommitted
    AppliedOnce
PROPERTIES
    VerdictIsFinal
    GatesOpenForHumans
