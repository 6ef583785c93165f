SPECIFICATION FairSpec
CONSTANTS
    r1 = r1
    r2 = r2
    p1 = p1
    Reads = {r1, r2}
    Probes = {p1}
    Cooldown = 2
INVARIANTS TypeOK SinglePool HealthyMeansPool
PROPERTIES AttemptsSpaced PoolHeals
CHECK_DEADLOCK FALSE
