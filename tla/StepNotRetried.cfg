CONSTANTS
    Steps <- OneSend
    Vars = {"recipient"}
    MaxIterations = 1
SPECIFICATION Spec
CHECK_DEADLOCK FALSE
INVARIANTS UnsentFailureIsRetried
