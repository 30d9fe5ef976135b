CONSTANTS
    Steps <- AllKinds
    Vars = {"router"}
    MaxIterations = 2
SPECIFICATION Spec
CHECK_DEADLOCK FALSE
INVARIANTS NeverDoubleSends AttemptsUsedUp EveryStepCounted SavedValuesAreCurrent
