SPECIFICATION Spec
CONSTANTS
    MaxRetries = 2
    RecursionLimit = 6
    TrimTo = 3
    ToolCalls <- MCToolCalls
    MaxRuns = 2
CHECK_DEADLOCK FALSE
INVARIANTS
    TrimKeepsPairs
