SPECIFICATION FairSpec
CONSTANTS
    s1 = s1
    s2 = s2
    NoToken = NoToken
    Rival = Rival
    Symbols <- MCSymbols
    Lists <- MCPair
    Concurrency = 2
    Retries = 1
    MinInterval = 1
    Backoff = 1
    MaxRuns = 2
    Rivals = TRUE
    EmptyFetches = TRUE
INVARIANTS TypeOK FetchesBounded NeverStuck
PROPERTIES GrantsSpaced RunEnds KeepsPromises
CHECK_DEADLOCK FALSE
