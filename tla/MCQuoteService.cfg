SPECIFICATION Spec
CONSTANTS
    c1 = c1
    c2 = c2
    c3 = c3
    s1 = s1
    NoToken = NoToken
    Nothing = Nothing
    Calls = {c1, c2, c3}
    Symbols = {s1}
    MaxVersion = 2
    MaxFaults = 1
    MaxExpiries = 1
    TTL = 60
INVARIANTS TypeOK LeasedFetchOnce
PROPERTIES NewerStays UsesSingleFlight
CHECK_DEADLOCK FALSE
