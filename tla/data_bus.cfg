SPECIFICATION FairSpec
CONSTANTS
    m1 = m1
    m2 = m2
    m3 = m3
    w1 = w1
    w2 = w2
    Messages <- MCMessages
    Loads <- MCLoads
    Wallets <- MCWallets
    Nobody = Nobody
    MaxFaults = 2
    MaxRestarts = 1
INVARIANTS
    NothingBehindAGap
    RefusedForCause
PROPERTIES
    OnlyAbandonedReplaced
    WaitersServed
    ImplementsSerialSender
CHECK_DEADLOCK FALSE
