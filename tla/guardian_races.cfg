SPECIFICATION Spec
SYMMETRY SlotSymmetry
CONSTANTS
    w1 = w1
    w2 = w2
    c1 = c1
    c2 = c2
    k1 = k1
    k2 = k2
    Wallets <- MCWallets
    Legacy = w1
    None = None
    Dsms <- MCDsms
    V5Dsms <- MCV5Dsms
    Modules <- MCModules
    Cycles = {c1}
    KeyTasks = {k1, k2}
    MaxSnap = 3
    Chains <- RaceChains
    MaxLag = 0
    ResignBlocks = 10
    PingBlocks = 300
    MaxFailures = 1
    Timeouts <- RaceTimeouts
INVARIANTS
    SignedByContextWallet
    OnlySafeAttested
    ProcessedMeansAttested
    PauseAddressesOwnDsm
PROPERTIES
    NoAttestationBehindPause
    AttestedOnce
    MetaNeverGoesBack
