----------------------------- MODULE Statistics ------------------------------
(***************************************************************************)
(* The figures taken from the populated action array, which the statistics *)
(* writer and the document generators print.                               *)
(***************************************************************************)
EXTENDS ActionArray

CONSTANTS
    EntryStates,    \* the states with entry functions
    ExitStates      \* the states with exit functions

ASSUME EntryExitAssumption == EntryStates \subseteq States /\ ExitStates \subseteq States

NumberOf(S) == Cardinality(S)

FirstState == Head(SetToSeq(States))     \* the state of ordinal 0

states_with_zero_events == NumberOf({s \in States : handled[s] = {}})
states_with_one_event == NumberOf({s \in States : NumberOf(handled[s]) = 1})
events_with_one_handler == NumberOf({x \in Events : NumberOf(handling[x]) = 1})

(* An event its translator consumes is not missed.                          *)
events_with_zero_handlers == NumberOf({x \in Events \ Consumed : handling[x] = {}})

(* Fault for the checks: the first state is counted like the others.        *)
states_with_no_way_in_at_all == NumberOf({s \in States : inbound[s] = {}})

(* The machine starts in the first state.                                   *)
states_with_no_way_in == NumberOf({s \in States \ {FirstState} : inbound[s] = {}})
states_with_no_way_out == NumberOf({s \in States : outbound[s] = {}})

has_single_pai_events == \E x \in Events : inAll[x]

-----------------------------------------------------------------------------
(* compute_event_and_state_density_pct: "Integral math", rounded down twice. *)
event_density_pct(s) == (100 * NumberOf(handled[s])) \div NumberOf(Events)

state_density_pct(x) == (100 * NumberOf(handling[x])) \div NumberOf(States)

average_state_event_density_pct ==
    FoldSet(LAMBDA s, sum : sum + event_density_pct(s), 0, States) \div NumberOf(States)
average_event_state_density_pct ==
    FoldSet(LAMBDA x, sum : sum + state_density_pct(x), 0, Events) \div NumberOf(Events)

-----------------------------------------------------------------------------
(* What the statistics writer prints for a machine.                          *)
Summary ==
    [events |-> NumberOf(Events), notHandled |-> events_with_zero_handlers,
     inOneState |-> events_with_one_handler, sameInAll |-> has_single_pai_events,
     states |-> NumberOf(States),
     entryFns |-> NumberOf(EntryStates), exitFns |-> NumberOf(ExitStates),
     noEvents |-> states_with_zero_events, oneEvent |-> states_with_one_event,
     noWayIn |-> states_with_no_way_in, noWayOut |-> states_with_no_way_out,
     byMachine |-> NumberOf(ViaMachine)]

(* What it prints for an event, a state and an action.    *)
EventLine(x) ==
    [pai |-> IF inAll[x] THEN "single" ELSE "multiple",
     states |-> NumberOf(handling[x]), use |-> state_density_pct(x), actions |-> caused[x]]

StateLine(s) ==
    [events |-> NumberOf(handled[s]), use |-> event_density_pct(s),
     in |-> inbound[s], out |-> outbound[s], actions |-> taken[s]]

(* actionInfo: an action's declaration that was parsed last; its             *)
(* predecessors on the nextAction chain are not printed.                     *)
MatrixLine(a) ==
    LET mine == {i \in DOMAIN decls : decls[i].action = a}
        last == CHOOSE i \in mine : \A j \in mine : j <= i
    IN  {<<x, s>> : x \in ToSet(MatrixEvents(decls[last])), s \in ToSet(MatrixStates(decls[last]))}

-----------------------------------------------------------------------------
FilledCells == {c \in Events \X States : array[c[1]][c[2]] # NULL}

(* The array's filling, rounded down.                                        *)
Filling == (100 * NumberOf(FilledCells)) \div (NumberOf(Events) * NumberOf(States))

(* The columns of the event and of the state lines, added up.                *)
EventLinesTogether == FoldSet(LAMBDA x, n : n + EventLine(x).states, 0, Events)
StateLinesTogether == FoldSet(LAMBDA s, n : n + StateLine(s).events, 0, States)

(* The figures say of the array what it holds: both averages are its         *)
(* filling, however the rounding falls out; the columns of the event and the *)
(* state lines count the same cells; no line shows more than its machine has; *)
(* and the counts of what is missing are the rows and columns left empty,    *)
(* the states nothing leads to, and those that lead nowhere.                 *)
FiguresMatchTheArray ==
    Populated =>
        /\ average_state_event_density_pct \in {Filling - 1, Filling}
        /\ average_event_state_density_pct \in {Filling - 1, Filling}
        /\ EventLinesTogether = NumberOf(FilledCells)
        /\ StateLinesTogether = NumberOf(FilledCells)
        /\ \A x \in Events : EventLine(x).use = 100 <=> \A s \in States : <<x, s>> \in FilledCells
        /\ \A x \in Events : EventLine(x).pai = "single" => EventLine(x).use = 100
        /\ \A s \in States : StateLine(s).use = 100 <=> \A x \in Events : <<x, s>> \in FilledCells
        /\ Summary.sameInAll <=> \E x \in Events : EventLine(x).pai = "single"
        /\ Summary.notHandled
               = NumberOf({x \in Events \ Consumed : \A s \in States : <<x, s>> \notin FilledCells})
        /\ Summary.noEvents
               = NumberOf({s \in States : \A x \in Events : <<x, s>> \notin FilledCells})
        /\ Summary.noWayIn = NumberOf({s \in States \ {FirstState} :
               \A c \in FilledCells : c[2] = s \/ s \notin decls[array[c[1]][c[2]]].to})
        /\ Summary.noWayOut = NumberOf({s \in States :
               \A c \in FilledCells : c[2] = s => decls[array[c[1]][c[2]]].to \subseteq {s}})
        /\ Summary.inOneState + Summary.notHandled <= Summary.events
        /\ Summary.oneEvent + Summary.noEvents <= Summary.states
        /\ \A a \in {decls[i].action : i \in DOMAIN decls} :
               \A c \in MatrixLine(a) : decls[array[c[1]][c[2]]].action = a
=============================================================================
