SPECIFICATION FairSpec
CONSTANTS
    mA = mA
    mB = mB
    o1 = o1
    o2 = o2
    o3 = o3
    k1 = k1
    k2 = k2
    wcA = wcA
    wcB = wcB
    wcOld = wcOld
    wcX = wcX
    Modules = {mA, mB}
    ModuleSeq <- MCModuleSeq
    Operators = {o1, o2, o3}
    ModuleOf <- MCModuleOf
    OperatorSeq <- MCOperatorSeq
    Pubs = {k1, k2}
    NewKeys <- MCNewKeys
    ForeignDeposits <- MCForeignDeposits
    WCOf <- MCWCOf
    LegacyWC <- MCLegacyWC
    LegacyUntil = 1
    MaxOperators = 1
    Histories <- MCHistories
    None = None
    MaxKeys = 2
    MaxMoves = 3
    MaxBreaches = 1
INVARIANTS
    TypeOK
    MoneyIsSafe
    FundedOnce
    PausedForCause
PROPERTIES
    SpotlessKeptVetted
    SettlesDown
CHECK_DEADLOCK FALSE
