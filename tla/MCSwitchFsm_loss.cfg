SPECIFICATION Spec
CONSTANTS
    Machines <- MCMachines
    Top = 1
    Parent <- MCParent
    SubMachines <- MCSubMachines
    firstEvent <- MCFirstEvent
    noEvent <- MCNoEvent
    lastEvent <- MCLastEvent
    HighEvent <- MCHighEvent
    States <- MCStates
    StartState <- MCStartState
    Cells <- SendingCells
    Sharing <- MCSharing
    Inhibiting <- NobodyInhibits
    InhibitingStatesShareEvents = FALSE
    InAllStates <- QuietInAllStates
PROPERTY ImplementsHsm
