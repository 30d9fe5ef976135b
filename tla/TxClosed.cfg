CONSTANTS
    v1 = v1
    v2 = v2
    v3 = v3
    w1 = w1
    w2 = w2
    NoVU = NoVU
    Outside = Outside
    NoTx = NoTx
    Wallets = {w1, w2}
    VUs = {v1, v2, v3}
    WalletOf <- SharedAndOwn
    GapPolicy = "queue"
    MaxExternal = 0
    LostReplies = FALSE
    MaxSends <- ThreeAndOneEach
SPECIFICATION FairSpec
CHECK_DEADLOCK FALSE
INVARIANTS TypeOK NeverDrifts ErrorMeansNotBroadcast ExactWhenIdle
PROPERTIES ImplementsAllocator SendReturns
