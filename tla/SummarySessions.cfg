SPECIFICATION SpecSessions
CONSTANTS
    r1 = r1
    c1 = c1
    Requests <- MCRequests
    CustomRequests <- MCCustomRequests
    Window = 2
    MaxActive = 1
    MaxMessages = 3
    MaxSessions = 3
CHECK_DEADLOCK FALSE
INVARIANTS
    ChainExact
    LimitExact
