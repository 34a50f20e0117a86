CONSTANTS
    x1 = x1
    x2 = x2
    k1 = k1
    k2 = k2
    k3 = k3
    c1 = c1
    c2 = c2
    h1 = h1
    h2 = h2
    Exec <- MCExec
    Key <- MCKey
    Content <- MCContent
    Handler <- MCHandler
    Requests <- MCRequests
    MaxComments = 1
SYMMETRY Handlers
SPECIFICATION Spec
INVARIANTS
    StreamWellFormed
    TerminalAbsorbs
    OncePerKey
    ProjectionIsAPrefix
PROPERTIES
    OkIsRecorded
    ImplementsEventStream
