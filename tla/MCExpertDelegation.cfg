CONSTANTS
    a = a
    b = b
    c = c
    e1 = e1
    e2 = e2
    e3 = e3
    u = u
    None = None
    Execution <- MCExecution
    Expert <- MCExpert
    Actor <- MCActor
    Requests <- MCRequests
    Permitted <- MCPermitted
    Amounts <- MCAmounts
    RunOutcome <- MCRunOutcome
    MaxDepth = 2
    MaxFanOut = 1
    Budget = 1
    MaxFaults = 1
SPECIFICATION Spec
INVARIANTS
    ClosedAsItEnded
    NoSessionIsLeftOpen
    ChainAccounts
PROPERTIES
    EndsOnce
    EndReachesDelegates
