SPECIFICATION Spec
CONSTANTS
    Machines <- MCMachines
    Top = 1
    Parent <- MCParent
    SubMachines <- MCSubMachines
    firstEvent <- MCFirstEvent
    noEvent <- MCNoEvent
    lastEvent <- MCLastEvent
    HighEvent <- MCHighEvent
    States <- MCStates
    StartState <- MCStartState
    Cells <- MCCells
    Sharing <- MCSharing
    Inhibiting <- TopInhibits
    InhibitingStatesShareEvents = FALSE
INVARIANTS TypeOK DispatchInBounds EventFieldIsCurrent InhibitedSubMachinesAreQuiet
PROPERTIES ReturnsToTheCaller ImplementsHsm
