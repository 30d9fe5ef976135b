CONSTANTS
    p1 = p1
    p2 = p2
    p3 = p3
    Workers = {p1, p2, p3}
    Id <- OwnId
    NumWorkers = 2
    TotalVUs = 3
    TotalWallets = 5
    Setups <- AllSetups
    MaxWork = 1
SPECIFICATION FairSpec
CHECK_DEADLOCK FALSE
INVARIANTS WalletsDisjoint CohortStartsTogether CompletionMeansAllDone ReportIsComplete
PROPERTIES RunIsReported AssignedReports EveryoneReturns
