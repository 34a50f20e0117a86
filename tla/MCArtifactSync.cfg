CONSTANTS
    e1 = e1
    e2 = e2
    e3 = e3
    epic = epic
    spec = spec
    plan = plan
    a = a
    b = b
    c = c
    k1 = k1
    k2 = k2
    k3 = k3
    r1 = r1
    r2 = r2
    Unbound = Unbound
    Execution <- MCExecution
    Epic <- MCEpic
    EpicOf <- MCEpicOf
    Path <- MCPath
    SpecPath <- MCSpecPath
    Content <- MCContent
    Key <- MCKey
    Attempt <- MCAttempt
    Syncer <- MCSyncer
    MaxTries = 2
    MaxCrashes = 1
SYMMETRY MCSymmetry
SPECIFICATION Spec
INVARIANTS
    ManifestsTellTheTruth
    RecordedSpecIsKept
    VersionsAreChanges
