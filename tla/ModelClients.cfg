SPECIFICATION FairSpecClients
CONSTANTS
    MaxCalls = 3
    Langs <- MCLangs
    Texts <- MCTexts
    Traits <- MCTraits
    TTL <- MCTTL
    ClientConfig <- MCConfig
CHECK_DEADLOCK FALSE
INVARIANTS
    FallbackElsewhere
    NoLiveListener
    AnswerRecent
    KeptIsEarned
PROPERTY
    AbortEndsCall
