----------------------------- MODULE ActionArray -----------------------------
(***************************************************************************)
(* populate_action_array: how the action declarations of a machine become  *)
(* its action array, and the facts about states and events recorded on the *)
(* way, which every generator relies on.  One step is one call of          *)
(* add_to_action_array, or the entry into or the exit from one of the      *)
(* iterations around it.                                                   *)
(***************************************************************************)
EXTENDS Integers, Sequences, FiniteSets, SequencesExt

CONSTANTS
    States,         \* the members of state_list
    Events,         \* the members of event_list
    ViaMachine,     \* states implemented by a sub-machine
    Consumed,       \* events their translator consumes
    Declarations,   \* the action declarations a description may hold
    MaxDecls        \* bound: declarations in one description

ASSUME MachineAssumption ==
    /\ IsFiniteSet(States) /\ IsFiniteSet(Events)
    /\ ViaMachine \subseteq States /\ Consumed \subseteq Events
    /\ MaxDecls \in Nat

(* A declaration: the two lists of its matrix, <<>> for (ALL), the action it *)
(* names, "" for none, and "to", the states its transition, or its           *)
(* transition function's returns, may name.                                  *)

(* Only the last event of a vector is tested for being consumed.             *)
EventVector(v) == v \in Seq(Events) /\ (v # <<>> => Last(v) \notin Consumed)

Matrix(a) == EventVector(a.events) /\ a.states \in Seq(States)

(* An action is not declared for a state that a machine implements.          *)
ActionMatrix(a) == a.action # "" => ToSet(a.states) \cap ViaMachine = {}

(* A matrix without an action has a transition.                              *)
TransitionMatrix(a) == a.action = "" => a.to # {}

ASSUME DeclarationAssumption ==
    \A a \in Declarations : /\ Matrix(a) /\ a.action \in STRING /\ a.to \subseteq States
                            /\ ActionMatrix(a) /\ TransitionMatrix(a)

(* The names of actions, "" among them.                                      *)
Actions == {a.action : a \in Declarations}

VARIABLES
    decls,      \* pmi->action_info_list
    pai,        \* index of the declaration being processed
    at,         \* where populate_action_array stands
    events,     \* what is left of the matrix's event_list; the head is pevent
    states,     \* what is left of the matrix's state_list
    array,      \* actionArray[e][s]: index of a declaration, or NULL
    single,     \* psingle_pai
    count,      \* single_pai_state_count
    inAll,      \* single_pai_for_all_states
    handled,    \* pevents_handled of a state
    handling,   \* phandling_states of an event
    taken,      \* pactions_list of a state
    caused,     \* pactions_list of an event
    inbound,    \* pinbound_transitions
    outbound    \* poutbound_transitions

lists == <<handled, handling, taken, caused, inbound, outbound>>
records == <<array, single, count, inAll, lists>>
vars == <<decls, pai, at, events, states, records>>

NULL == 0
Index == 1..MaxDecls

Init ==
    /\ decls \in UNION {[1..n -> Declarations] : n \in 0..MaxDecls}
    /\ pai = 1 /\ at = "declaration" /\ events = <<>> /\ states = <<>>
    /\ array = [x \in Events |-> [s \in States |-> NULL]]
    /\ single = [x \in Events |-> NULL]
    /\ count = [x \in Events |-> 0]
    /\ inAll = [x \in Events |-> FALSE]
    /\ handled = [s \in States |-> {}] /\ handling = [x \in Events |-> {}]
    /\ taken = [s \in States |-> {}] /\ caused = [x \in Events |-> {}]
    /\ inbound = [s \in States |-> {}] /\ outbound = [s \in States |-> {}]

(* (ALL) leaves out consumed events, and states implemented by sub-machines. *)
MatrixEvents(a) == IF a.events = <<>> THEN SetToSeq(Events \ Consumed) ELSE a.events
MatrixStates(a) == IF a.states = <<>> THEN SetToSeq(States \ ViaMachine) ELSE a.states

-----------------------------------------------------------------------------
(* process_action_info: (ALL) is resolved.                                   *)
ProcessActionInfo ==
    /\ at = "declaration" /\ pai <= Len(decls)
    /\ events' = MatrixEvents(decls[pai])
    /\ at' = "events"
    /\ UNCHANGED <<decls, pai, states, records>>

(* iterate_matrix_states, up to its iteration: the count starts again.       *)
StartEvent ==
    /\ at = "events" /\ events # <<>>
    /\ count' = [count EXCEPT ![Head(events)] = 0]
    /\ single' = [single EXCEPT ![Head(events)] = IF @ = NULL THEN pai ELSE @]
    /\ states' = MatrixStates(decls[pai])
    /\ at' = "states"
    /\ UNCHANGED <<decls, pai, events, array, inAll, lists>>

(* Fault for the checks: an occupied cell is passed over, and parsing goes on. *)
SkipCell ==
    /\ at = "states" /\ states # <<>>
    /\ array[Head(events)][Head(states)] # NULL
    /\ states' = Tail(states)
    /\ UNCHANGED <<decls, pai, at, events, records>>

(* When the iteration over the states ends: does one declaration fill n cells? *)
JudgeEvent(n) ==
    inAll' = [inAll EXCEPT ![Head(events)] = @ \/ count[Head(events)] = n]

(* Fault: the state is counted before the cell is looked at.                *)
RefuseCellCounted ==
    /\ at = "states" /\ states # <<>>
    /\ array[Head(events)][Head(states)] # NULL
    /\ count' = [count EXCEPT ![Head(events)] = IF single[Head(events)] = pai THEN @ + 1 ELSE @]
    /\ at' = "error"
    /\ UNCHANGED <<decls, pai, events, states, array, single, inAll, lists>>

(* add_to_action_array finds the cell occupied: every iteration stops, and   *)
(* the parse fails.                                                          *)
RefuseCell ==
    /\ at = "states" /\ states # <<>>
    /\ array[Head(events)][Head(states)] # NULL
    /\ JudgeEvent(Cardinality(States))
    /\ at' = "error"
    /\ UNCHANGED <<decls, pai, events, states, array, single, count, lists>>

(* Fault: the state's list of events is kept for the first declaration only. *)
MarkForgetting(x, s) ==
    /\ handled' = [handled EXCEPT ![s] = IF single[x] = pai THEN @ \cup {x} ELSE @]
    /\ handling' = [handling EXCEPT ![x] = @ \cup {s}]

MarkHandled(x, s) ==
    /\ handled' = [handled EXCEPT ![s] = @ \cup {x}]
    /\ handling' = [handling EXCEPT ![x] = @ \cup {s}]

(* The actions a state takes and an event causes: those that have a name.    *)
MarkAction(x, s) ==
    LET named == {decls[pai].action} \ {""}
    IN  /\ taken' = [taken EXCEPT ![s] = @ \cup named]
        /\ caused' = [caused EXCEPT ![x] = @ \cup named]

(* What add_to_action_array does to the lists: "to" are the states the       *)
(* transition leads to, "heard" those that record s as their neighbour.      *)
Record(x, s, to, heard) ==
    /\ array' = [array EXCEPT ![x][s] = pai]
    /\ count' = [count EXCEPT ![x] = IF single[x] = pai THEN @ + 1 ELSE @]
    /\ MarkHandled(x, s)
    /\ MarkAction(x, s)
    /\ outbound' = [outbound EXCEPT ![s] = @ \cup to]
    /\ inbound' = [t \in States |-> inbound[t] \cup IF t \in heard THEN {s} ELSE {}]
    /\ states' = Tail(states)
    /\ UNCHANGED <<decls, pai, at, events, single, inAll>>

(* Fault: the states named hear of a transition back to the state itself.    *)
AddCellWithSelf ==
    LET x == Head(events)
        s == Head(states)
    IN  /\ at = "states" /\ states # <<>> /\ array[x][s] = NULL
        /\ Record(x, s, decls[pai].to \ {s}, decls[pai].to)

(* add_to_action_array fills the cell.  A transition to the state itself, or *)
(* that state among a transition function's returns, is not recorded.        *)
AddCell ==
    LET x == Head(events)
        s == Head(states)
        to == decls[pai].to \ {s}
    IN  /\ at = "states" /\ states # <<>> /\ array[x][s] = NULL
        /\ Record(x, s, to, to)

(* Fault: the count is not compared with the number of states.               *)
EndEventEarly ==
    /\ at = "states" /\ states = <<>>
    /\ JudgeEvent(Len(MatrixStates(decls[pai])))
    /\ events' = Tail(events)
    /\ at' = "events"
    /\ UNCHANGED <<decls, pai, states, array, single, count, lists>>

(* The rest of iterate_matrix_states: one declaration filled every cell.     *)
EndEvent ==
    /\ at = "states" /\ states = <<>>
    /\ JudgeEvent(Cardinality(States))
    /\ events' = Tail(events)
    /\ at' = "events"
    /\ UNCHANGED <<decls, pai, states, array, single, count, lists>>

EndActionInfo ==
    /\ at = "events" /\ events = <<>>
    /\ pai' = pai + 1 /\ at' = "declaration"
    /\ UNCHANGED <<decls, events, states, records>>

Next == \/ ProcessActionInfo \/ StartEvent \/ RefuseCell \/ AddCell
        \/ EndEvent \/ EndActionInfo

Spec == Init /\ [][Next]_vars

-----------------------------------------------------------------------------
Failed == at = "error"
Populated == at = "declaration" /\ pai > Len(decls)

TypeOK ==
    /\ pai \in 1..MaxDecls + 1
    /\ at \in {"declaration", "events", "states", "error"}
    /\ array \in [Events -> [States -> Index \cup {NULL}]]
    /\ single \in [Events -> Index \cup {NULL}]
    /\ count \in [Events -> Nat]
    /\ \A x \in Events : count[x] <= Cardinality(handling[x])
    /\ inAll \in [Events -> BOOLEAN]
    /\ handled \in [States -> SUBSET Events] /\ handling \in [Events -> SUBSET States]
    /\ \A s \in States : taken[s] \subseteq Actions
    /\ \A x \in Events : caused[x] \subseteq Actions
    /\ inbound \in [States -> SUBSET States] /\ outbound \in [States -> SUBSET States]

(* Reference: declaration i names the cell of x and s.                       *)
Covers(i, x, s) ==
    x \in ToSet(MatrixEvents(decls[i])) /\ s \in ToSet(MatrixStates(decls[i]))

(* Reference: some cell is named twice, by two declarations or by one.       *)
Clash ==
    \E i, j \in DOMAIN decls :
        \E k \in DOMAIN MatrixEvents(decls[i]), l \in DOMAIN MatrixEvents(decls[j]) :
            \E p \in DOMAIN MatrixStates(decls[i]), q \in DOMAIN MatrixStates(decls[j]) :
                /\ <<i, k, p>> # <<j, l, q>>
                /\ MatrixEvents(decls[i])[k] = MatrixEvents(decls[j])[l]
                /\ MatrixStates(decls[i])[p] = MatrixStates(decls[j])[q]

(* populate_action_array fails when, and only when, a cell is named twice;   *)
(* when it succeeds, the array holds for each cell the declaration that      *)
(* names it, and nothing where none does.                                    *)
ArrayHoldsTheMatrices ==
    /\ Failed => Clash
    /\ Populated => /\ ~Clash
                    /\ \A x \in Events, s \in States, i \in DOMAIN decls :
                           Covers(i, x, s) <=> array[x][s] = i

(* single_pai_for_all_states, by which the switch generator takes an event   *)
(* out of the state functions, says what the array says.                     *)
InAllMeansOneDeclaration ==
    Populated => \A x \in Events :
        inAll[x] <=> \E i \in Index : \A s \in States : array[x][s] = i

(* The events a state handles and the states that handle an event, from      *)
(* which the cases of the switches are printed, are those of the array, and  *)
(* so are the actions each is said to bring about.                           *)
HandlersMatchTheArray ==
    /\ \A x \in Events, s \in States :
          /\ x \in handled[s] <=> array[x][s] # NULL
          /\ s \in handling[x] <=> array[x][s] # NULL
    /\ \A s \in States :
          taken[s] = {decls[array[x][s]].action : x \in handled[s]} \ {""}
    /\ \A x \in Events :
          caused[x] = {decls[array[x][s]].action : s \in handling[x]} \ {""}

(* The lists of inbound and outbound transitions mirror one another, and no  *)
(* state is its own neighbour: the counts of states with no way in and no    *)
(* way out come from them.                                                   *)
TransitionsAreMirrored ==
    /\ \A s, t \in States : s \in inbound[t] <=> t \in outbound[s]
    /\ \A s, t \in States :
          t \in outbound[s] <=> t # s /\ \E x \in Events : /\ array[x][s] # NULL
                                                           /\ t \in decls[array[x][s]].to

(* What is recorded about states and events on the way is what the array     *)
(* says, at every step: the generators read either.                          *)
FactsMatchTheArray == HandlersMatchTheArray /\ TransitionsAreMirrored
=============================================================================
