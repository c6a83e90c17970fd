SPECIFICATION FairSpec
CONSTANTS
    t1 = t1
    t2 = t2
    k1 = k1
    k2 = k2
    mA = mA
    mB = mB
    Keys = {k1, k2}
    Modules = {mA, mB}
    Added <- MCAdded
    ModulesAt <- MCModulesAt
    MaxBlock = 5
    Depth = 1
    Deployment = 0
    Step = 3
    Lag = 2
    Tasks = {t1}
    None = None
    MaxFaults = 2
    MaxCrashes = 1
INVARIANTS
    TypeOK
    CacheIsExact
    AnswerIsExact
    OwnBlockIsCanonical
PROPERTIES
    CacheKeepsUp
