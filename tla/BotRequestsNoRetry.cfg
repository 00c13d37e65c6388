SPECIFICATION Spec
CONSTANTS
    a1 = a1
    q1 = q1
    s1 = s1
    c1 = c1
    c2 = c2
    Requests <- SingleRequests
    Conversations <- OneConversation
    ConvOf <- SingleConvOf
    KindOf <- SingleKindOf
    CancelTTL = 2
    RetryDelay = 1
    MaxCrashes = 0
CHECK_DEADLOCK FALSE
PROPERTIES
    CancelledJobIsNotRetried
