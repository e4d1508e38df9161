SPECIFICATION Spec
CONSTANTS
    MaxMachines = 4
    MaxEvents = 1
    MaxDepth = 3
    Returns = {"events"}
    NumStates <- MCNumStates
INVARIANTS EveryEventReachesItsMachine
CHECK_DEADLOCK FALSE
