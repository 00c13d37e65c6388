SPECIFICATION FairSpec
CONSTANTS
    a1 = a1
    a2 = a2
    Callers <- MCCallers
    NoCaller = NoCaller
    NoSession = NoSession
    LockTTL = 2
    LockAttempts = 2
    PollAttempts = 2
CHECK_DEADLOCK FALSE
INVARIANTS
    LockHeld
    OneActiveSession
PROPERTIES
    OwnKeyOnly
    ImplementsAskSession
    EveryCallEnds
    KeyGoes
