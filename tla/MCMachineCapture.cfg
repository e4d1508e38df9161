SPECIFICATION Spec
CONSTANTS
    Names = {e, s}
    e = e
    s = s
    Returns = {events, states, void}
    events = events
    states = states
    void = void
    MaxMachines = 3
    MaxDecls = 3
SYMMETRY Renamings
INVARIANTS TypeOK SharersAreMutual HeterogeneousIsExact DepthOneIsExact CountsMatchSharing
CHECK_DEADLOCK FALSE
