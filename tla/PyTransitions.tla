---------------------------- MODULE PyTransitions ----------------------------
(***************************************************************************)
(* fsm_python_transitions.c: the machine as a list of entries for the      *)
(* Python package transitions, and a callback, _fsm_prepare_event, that    *)
(* calls translators and actions.  The package is modelled by Trigger.     *)
(***************************************************************************)
EXTENDS CellCode, ActionInfoList, Statistics

CONSTANTS
    DataEvents,     \* events that carry user data
    Conditional     \* the returns declared with "when" and "otherwise"

ASSUME PyAssumption == DataEvents \subseteq Events /\ Conditional \subseteq SUBSET States

None == "None"

(* The names of the description are quoted or qualified where they are       *)
(* printed; the value None is none of them.                                  *)
ASSUME NoneAssumption == None \notin States \cup Events \cup Actions

Records == ToSet(consolidate_action_info_list)

uses_event_data ==
    \E r \in Records : \E m \in ToSet(r.matrices) :
        ToSet(MatrixEvents(decls[m])) \cap DataEvents # {}
uses_actions == \E r \in Records : HasAction(r.pai)
uses_prepare_event == uses_event_data \/ uses_actions

(* Fault for the checks: actions are attached to the entries in any case.    *)
BeforeAlways(i) == IF HasAction(i) THEN decls[i].action ELSE ""

(* An action is attached to an entry only where no callback is to run it.    *)
Before(i) == IF HasAction(i) /\ ~uses_prepare_event THEN decls[i].action ELSE ""

Entry(i, m, x, dest, before, condition) ==
    [trigger |-> x, source |-> ToSet(MatrixStates(decls[m])), dest |-> dest,
     before |-> before, condition |-> condition]

NoCondition == <<"always", "">>
Dest(i) == IF HasTransition(i) THEN CHOOSE t \in decls[i].to : TRUE ELSE None

(* The entries for event x of matrix m, for the transition and action of i.  *)
print_transition_as_list(i, m, x) == << Entry(i, m, x, Dest(i), "", NoCondition) >>

print_simple_transition_as_dict(i, m, x) ==
    << Entry(i, m, x, Dest(i), Before(i), NoCondition) >>

ReturnOption(i, m, x, t) == Entry(i, m, x, t, Before(i), <<"choose", t>>)

(* A choice "t when f", and the last one, "t otherwise".                     *)
ReturnCondOption(i, m, x, t, last) ==
    Entry(i, m, x, t, Before(i), IF last THEN <<"otherwise", t>> ELSE <<"when", t>>)

print_transition_fn_as_dict(i, m, x) ==
    LET returns == SetToSeq(decls[i].to)
    IN  [k \in DOMAIN returns |->
            IF decls[i].to \in Conditional
            THEN ReturnCondOption(i, m, x, returns[k], k = Len(returns))
            ELSE ReturnOption(i, m, x, returns[k])]

IsFn(i) == HasTransition(i) /\ ~NamesState(i)

print_trigger(i, m, x) ==
    IF (~uses_prepare_event /\ HasAction(i)) \/ IsFn(i) \/ x \in DataEvents
    THEN IF IsFn(i) THEN print_transition_fn_as_dict(i, m, x)
         ELSE print_simple_transition_as_dict(i, m, x)
    ELSE print_transition_as_list(i, m, x)

OfMatrix(i, m) ==
    LET xs == MatrixEvents(decls[m])
    IN  FlattenSeq([k \in DOMAIN xs |-> print_trigger(i, m, xs[k])])

OfRecord(r) == FlattenSeq([k \in DOMAIN r.matrices |-> OfMatrix(r.pai, r.matrices[k])])

(* The list "transitions" of the generated class.                            *)
transitions ==
    LET list == consolidate_action_info_list
    IN  FlattenSeq([k \in DOMAIN list |-> OfRecord(list[k])])

(* The dictionaries: of equal keys, the one printed last counts.             *)
_fsm_actions(s, x) ==
    LET list == consolidate_action_info_list
        at_key == {k \in DOMAIN list : /\ HasAction(list[k].pai)
                                       /\ \E m \in ToSet(list[k].matrices) : Covers(m, x, s)}
    IN  IF at_key = {} THEN None
        ELSE decls[list[CHOOSE k \in at_key : \A j \in at_key : j <= k].pai].action

_fsm_translators(x) == IF x \in DataEvents THEN x ELSE None

(* What the generated class consists of.                                     *)
GeneratedClass ==
    [transitions |-> transitions, prepares |-> uses_prepare_event, translates |-> uses_event_data,
     actions |-> [s \in States |-> [x \in Events |-> _fsm_actions(s, x)]]]

_fsm_prepare_event(class, c, v) ==
    LET action == class.actions[c.s][c.x]
        translated == IF class.translates /\ _fsm_translators(c.x) # None
                      THEN Call(v, "translator", _fsm_translators(c.x)) ELSE v
    IN  IF action # None THEN Call(translated, "action", action) ELSE translated

StateFns(v, t) ==
    LET left == IF v.state \in ExitStates THEN Call(v, "exit", v.state) ELSE v
    IN  IF t \in EntryStates THEN Call(left, "entry", t) ELSE left

-----------------------------------------------------------------------------
(* The user's conditions in case c: those of the state his function would    *)
(* return hold, and the stub of "otherwise" always does.                     *)
Holds(condition, c) ==
    \/ condition[1] \in {"always", "otherwise"}
    \/ condition[2] = c.target

(* External: what the package does with a trigger of the class.  An entry for *)
(* the current state must exist; then prepare_event is called, the first     *)
(* entry whose condition holds is taken, and after_state_change is called.   *)
Trigger(class, c) ==
    LET list == class.transitions
        valid == {k \in DOMAIN list : list[k].trigger = c.x /\ c.s \in list[k].source}
        open == {k \in valid : Holds(list[k].condition, c)}
        e == list[CHOOSE k \in open : \A j \in open : k <= j]
        prepared == IF class.prepares THEN _fsm_prepare_event(class, c, Begin(c)) ELSE Begin(c)
        run == IF e.before = "" THEN prepared ELSE Call(prepared, "action", e.before)
        moved == IF e.dest = None THEN run ELSE Arrive(StateFns(run, e.dest), e.dest)
    IN  IF valid = {} THEN Begin(c)
        ELSE IF open = {} THEN prepared
        ELSE Call(moved, "machineTransition", moved.state)

(* Of the calls made, those that are wanted.                                 *)
Only(calls, wanted) ==
    LET only[k \in 0..Len(calls)] ==
            IF k = 0 THEN <<>>
            ELSE IF calls[k] \in wanted THEN Append(only[k - 1], calls[k]) ELSE only[k - 1]
    IN  only[Len(calls)]

ActionCalls == {"action"} \X STRING
StateFnCalls == {"exit", "entry"} \X States
UsersStateFns == ({"exit"} \X ExitStates) \cup ({"entry"} \X EntryStates)

(* The state changes to one the transition allows.                           *)
MayReturn(c) == LET i == array[c.x][c.s] IN i # NULL /\ IsFn(i) => c.target \in decls[i].to

(* In a machine whose actions return nothing, a trigger of the Python class  *)
(* runs the action of its cell once, after the event's translator, enters    *)
(* the state the C code enters, and on a change of state calls the functions *)
(* for leaving the old and entering the new one, in this order.              *)
PythonTakesTheSame ==
    Populated => LET class == GeneratedClass
                 IN  \A c \in Cases : c.kind = "void" /\ c.fns /\ MayReturn(c) =>
        LET p == Trigger(class, c)
            d == Described(c)
        IN  /\ Only(p.calls, ActionCalls) = Only(d.calls, ActionCalls)
            /\ p.state = d.state
            /\ c.x \in DataEvents /\ array[c.x][c.s] # NULL =>
                   Head(p.calls) = <<"translator", c.x>>
            /\ d.state # c.s =>
                   Only(p.calls, StateFnCalls) = Only(d.calls, UsersStateFns)
=============================================================================
