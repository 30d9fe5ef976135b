CONSTANTS
    Loads <- EachLoad
    MaxSpawns = 5
    Processes = {1, 2}
    Callers = {1, 2, 3, 4, 5}
    Setups <- EachSetup
SPECIFICATION FairCommandSpec
CHECK_DEADLOCK FALSE
INVARIANTS CommandTypeOK WalletsNotShared ReturnsAfterAll StageHasItsVUs AnswersReachTheirCallers PluginsOutliveTheirCalls ExitStatusIsHonest
PROPERTIES NewestRetiredFirst CommandEnds
