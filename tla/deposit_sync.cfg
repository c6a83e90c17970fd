SPECIFICATION FairSpec
CONSTANTS
    x = x
    y = y
    ZERO_HASH = zero
    None = none
    Nodes <- MCNodes
    LastBlock = 6
    DepositCount <- MCDepositCount
    DEPOSIT_CONTRACT_TREE_DEPTH = 3
    MaxDrops = 1
INVARIANTS
    Tiled
    TreeIsItsLeaves
    CheckIsExact
PROPERTIES
    FetchEnds
CHECK_DEADLOCK FALSE
