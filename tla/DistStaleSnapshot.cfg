CONSTANTS
    p1 = p1
    p2 = p2
    p3 = p3
    Workers = {p1, p2, p3}
    Id <- OwnId
    NumWorkers = 2
    TotalVUs = 3
    TotalWallets = 5
    Setups <- NoFaults
    MaxWork = 1
SPECIFICATION Spec
CHECK_DEADLOCK FALSE
INVARIANTS CountsSumExactly
