SPECIFICATION FairSpec
CONSTANTS
    t1 = t1
    t2 = t2
    Tasks = {t1}
    Deposits <- MCDeposits
    MaxBlock = 4
    Depth = 1
    Deployment = 1
    Step = 2
    None = None
    MaxFaults = 1
    MaxCrashes = 0
PROPERTIES
    RestartResumes
CHECK_DEADLOCK FALSE
