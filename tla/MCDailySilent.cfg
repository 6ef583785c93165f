SPECIFICATION Spec
CONSTANTS
    s1 = s1
    s2 = s2
    NoToken = NoToken
    Rival = Rival
    Symbols <- MCSymbols
    Lists <- MCOne
    Concurrency = 1
    Retries = 1
    MinInterval = 1
    Backoff = 1
    MaxRuns = 1
    Rivals = FALSE
    EmptyFetches = FALSE
INVARIANTS SuccessMeansWritten
CHECK_DEADLOCK FALSE
