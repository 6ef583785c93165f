SPECIFICATION Spec
CONSTANTS
    r1 = r1
    r2 = r2
    p1 = p1
    Reads = {r1}
    Probes = {p1}
    Cooldown = 2
INVARIANT NoPoolLost
CHECK_DEADLOCK FALSE
