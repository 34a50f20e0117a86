CONSTANTS
    a1 = a1
    a2 = a2
    w1 = w1
    w2 = w2
    MaxJobs = 2
    MaxStalls = 1
    Client <- OneClient
    Worker <- MCWorker
SPECIFICATION JobsSpec
INVARIANTS
    RedeliveryStoresOnce
PROPERTIES
    
    EnqueuedEnds
