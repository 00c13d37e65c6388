SPECIFICATION Spec
CONSTANTS
    c1 = c1
    c2 = c2
    MaxMessages = 3
    MessageId <- MCMessageId
    ConvOf <- MCConvOf
    ShortChoices <- MCShort
    NoText <- MCNoText
    WindowSize = 1
    SafeLimit = 8
    Attempts = 2
    PageSize = 2
    ConvLimit = 1
    ScriptKinds <- WipingScripts
    MaxScripts = 1
    MaxCrashes = 1
    Plans <- MCPlans
    Ranges <- MCRanges
    RecentWindow = 2
    MaxAsks = 1
CHECK_DEADLOCK FALSE
INVARIANTS
    IndexUsable
    IndexedStays
    ContextFits
    RecentsOnce
