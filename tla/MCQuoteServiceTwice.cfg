SPECIFICATION Spec
CONSTANTS
    c1 = c1
    c2 = c2
    c3 = c3
    s1 = s1
    NoToken = NoToken
    Nothing = Nothing
    Calls = {c1, c2, c3}
    Symbols = {s1}
    MaxVersion = 1
    MaxFaults = 0
    MaxExpiries = 0
    TTL = 60
INVARIANT OneFetchPerSymbol
CHECK_DEADLOCK FALSE
