CONSTANTS
    v1 = v1
    v2 = v2
    v3 = v3
    w1 = w1
    w2 = w2
    NoVU = NoVU
    Outside = Outside
    NoTx = NoTx
    Wallets = {w1}
    VUs = {v1, v2}
    WalletOf <- Shared
    GapPolicy = "reject"
    MaxExternal = 0
    LostReplies = FALSE
    MaxSends <- TwoEach
SPECIFICATION Spec
CHECK_DEADLOCK FALSE
INVARIANTS CollisionFree
