CONSTANTS
    MaxTarget = 4
    MaxWallets = 9
    MaxWorkers = 5
SPECIFICATION Spec
CHECK_DEADLOCK FALSE
INVARIANTS LoopSkipsChunks SlicesPartition TargetsSumBack StressClimbsToMax ShardIsAccepted
