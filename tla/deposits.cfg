SPECIFICATION FairSpec
CONSTANTS
    t1 = t1
    t2 = t2
    Tasks = {t1, t2}
    Deposits <- MCDeposits
    MaxBlock = 4
    Depth = 1
    Deployment = 0
    Step = 2
    None = None
    MaxFaults = 1
    MaxCrashes = 1
INVARIANTS
    ServedIsComplete
    CacheBehindTree
    HeadersAreHonest
PROPERTIES
    RestartHeals
