SPECIFICATION SweepingSpec
CONSTANTS
    i1 = i1
    i2 = i2
    i3 = i3
    r1 = r1
    r2 = r2
    s1 = s1
    w1 = w1
    NoToken = NoToken
    Nothing = Nothing
    Series = {s1}
    Ranges = {"5:-:-"}
    Windows = {w1}
    Ingests = {i1, i2, i3}
    MayIngest = {i1, i2}
    Reads = {r1}
    MaxVersion = 2
    MaxSilent = 0
    MaxFaults = 1
    CacheTTL = 0
INVARIANT StaleIsExplained
PROPERTIES StaleIsSwept UsesSingleFlight
CHECK_DEADLOCK FALSE
