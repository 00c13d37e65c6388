SPECIFICATION FairSpec
CONSTANTS
    MaxRetries = 2
    RecursionLimit = 8
    TrimTo = 3
    ToolCalls <- MCToolCalls
    MaxRuns = 2
CHECK_DEADLOCK FALSE
INVARIANTS
    CallsAnswered
    CitesOwnSearch
    RewritesWithinMax
PROPERTIES
    EveryRunEnds
