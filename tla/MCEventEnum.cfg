SPECIFICATION Spec
CONSTANTS
    MaxMachines = 5
    MaxEvents = 2
    MaxDepth = 2
    Returns = {"events", "void"}
    NumStates <- MCNumStates
INVARIANTS TypeOK EveryEventReachesItsMachine EventValuesAreUnique NamesMatchValues XrefMatchesValues
CHECK_DEADLOCK FALSE
