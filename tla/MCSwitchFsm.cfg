SPECIFICATION FairSpec
CONSTANTS
    Machines <- MCMachines
    Top = 1
    Parent <- MCParent
    SubMachines <- MCSubMachines
    firstEvent <- MCFirstEvent
    noEvent <- MCNoEvent
    lastEvent <- MCLastEvent
    HighEvent <- MCHighEvent
    States <- MCStates
    StartState <- MCStartState
    Cells <- QuietCells
    Sharing <- MCSharing
    Inhibiting <- TopInhibits
    InhibitingStatesShareEvents = TRUE
    InAllStates <- QuietInAllStates
INVARIANTS TypeOK InhibitedSubMachinesAreQuiet
PROPERTIES ReturnsToTheCaller ImplementsFairHsm RunCompletes
