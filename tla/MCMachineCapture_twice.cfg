SPECIFICATION Spec
CONSTANTS
    Names = {e, s}
    e = e
    s = s
    Returns = {events, states, void}
    events = events
    states = states
    void = void
    MaxMachines = 2
    MaxDecls = 3
SYMMETRY Renamings
INVARIANTS AcceptedEventsAreDistinct
CHECK_DEADLOCK FALSE
