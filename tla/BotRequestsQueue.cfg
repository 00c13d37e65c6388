SPECIFICATION FairSpec
CONSTANTS
    a1 = a1
    q1 = q1
    s1 = s1
    c1 = c1
    c2 = c2
    Requests <- QueueRequests
    Conversations <- OneConversation
    ConvOf <- QueueConvOf
    KindOf <- QueueKindOf
    CancelTTL = 1
    RetryDelay = 0
    MaxCrashes = 1
CHECK_DEADLOCK FALSE
INVARIANTS
    RegistryExact
    EntryHasTimer
    StandingFlagged
    StartedOnce
PROPERTIES
    CancelStands
    EveryRequestSettles
