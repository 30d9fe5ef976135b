CONSTANTS
    Steps <- Misspelt
    Vars = {"recipient"}
    MaxIterations = 1
SPECIFICATION Spec
CHECK_DEADLOCK FALSE
INVARIANTS UnresolvedFailsLoudly
