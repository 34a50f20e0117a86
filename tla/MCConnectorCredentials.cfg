CONSTANTS
    c1 = c1
    c2 = c2
    k1 = k1
    k2 = k2
    v1 = v1
    v2 = v2
    o1 = o1
    o2 = o2
    Credential <- MCCredential
    Legacy <- MCLegacy
    Caller <- MCCaller
    Revoker <- MCRevoker
    Operator <- MCOperator
    MaxChanges = 2
    MaxCrashes = 1
SYMMETRY MCSymmetry
SPECIFICATION Spec
CHECK_DEADLOCK FALSE
INVARIANTS
    NothingIsRegained
    RevokedHoldsNothing
