SPECIFICATION Spec
CONSTANTS
    MaxMachines = 4
    MaxEvents = 2
    MaxDepth = 2
    Returns = {"events", "void"}
    NumStates <- MCNumStates
INVARIANTS XrefCommentMatchesValues
CHECK_DEADLOCK FALSE
