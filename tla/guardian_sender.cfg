SPECIFICATION Spec
CONSTANTS
    w1 = w1
    w2 = w2
    c1 = c1
    c2 = c2
    k1 = k1
    k2 = k2
    Wallets <- MCWallets
    Legacy = w1
    None = None
    Dsms <- MCDsms
    V5Dsms <- MCV5Dsms
    Modules <- OneModule
    Cycles = {c1}
    KeyTasks = {k1}
    MaxSnap = 2
    Chains <- UpgradeOnly
    MaxLag = 0
    ResignBlocks = 10
    PingBlocks = 300
    MaxFailures = 0
    Timeouts = {}
INVARIANTS
    BusSenderIsContextWallet
