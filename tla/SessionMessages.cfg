SPECIFICATION Spec
CONSTANTS
    e1 = e1
    e2 = e2
    e3 = e3
    Exchanges <- MCExchanges
    NotCached = NotCached
    CacheMax = 3
    MaxFaults = 1
SYMMETRY ExchangeSymmetry
CHECK_DEADLOCK FALSE
INVARIANTS
    CacheExact
    AnswerAfterQuestion
    HistoryPairsOwn
