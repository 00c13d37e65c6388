SPECIFICATION Spec
CONSTANTS
    a1 = a1
    q1 = q1
    s1 = s1
    c1 = c1
    c2 = c2
    Requests <- StreamRequests
    Conversations <- TwoConversations
    ConvOf <- StreamConvOf
    KindOf <- StreamKindOf
    CancelTTL = 2
    RetryDelay = 1
    MaxCrashes = 2
CHECK_DEADLOCK FALSE
INVARIANTS
    OutcomeReported
