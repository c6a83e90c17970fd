SPECIFICATION Spec
CONSTANTS
    t1 = t1
    t2 = t2
    Tasks = {t1}
    Deposits <- MCDeposits
    MaxBlock = 4
    Depth = 1
    Deployment = 0
    Step = 2
    None = None
    MaxFaults = 2
    MaxCrashes = 0
INVARIANTS
    ServesAllEvents
