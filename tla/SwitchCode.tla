----------------------------- MODULE SwitchCode ------------------------------
(***************************************************************************)
(* The code of the switch generator (-ts, fsm_cswitch.c): a handler of the *)
(* events one declaration handles in all states, and one function for each *)
(* state with a switch over the other events the state handles.            *)
(***************************************************************************)
EXTENDS CellCode

(* For state s, add_to_action_array met event x before event y.              *)
EventMetBefore(s, x, y) ==
    \/ array[x][s] < array[y][s]
    \/ /\ array[x][s] = array[y][s]
       /\ Place(MatrixEvents(decls[array[x][s]]), x) < Place(MatrixEvents(decls[array[x][s]]), y)

(* pevents_handled, in the order the events were met.                        *)
EventsHandled(s) ==
    CHOOSE q \in SetToSeqs(handled[s]) :
        \A k, l \in DOMAIN q : k < l => EventMetBefore(s, q[k], q[l])

(* The events with a case label in the function of state s; a label whose    *)
(* successor on pevents_handled has the same declaration has no body.        *)
HasLabel(x, s) == x \in handled[s] /\ ~inAll[x]

CaseReached(x, s) ==
    LET q == EventsHandled(s)
        bodies == {k \in Place(q, x)..Len(q) :
                       HasLabel(q[k], s) /\ (k = Len(q) \/ array[q[k]][s] # array[q[k + 1]][s])}
    IN  array[q[CHOOSE k \in bodies : \A j \in bodies : k <= j]][s]

-----------------------------------------------------------------------------
StateCaseEvents(c, i, v) ==
    LET a == IF HasAction(i) THEN Act(c, i, v) ELSE Yield(v, noEvent)
    IN  IF HasTransition(i) THEN ChooseNext(c, i, a) ELSE a

StateCaseVoid(c, i, v) ==
    LET a == IF HasAction(i) THEN Act(c, i, v) ELSE v
    IN  IF HasTransition(i) THEN ChooseNext(c, i, a) ELSE a

(* The transition is looked at where there is no action only.                *)
StateCaseStates(c, i, v) ==
    LET n == ChooseNext(c, i, v)
    IN  IF HasAction(i) THEN Act(c, i, v) ELSE ReturnNext(v, n)

(* define_void_returning_state_fn, with print_state_fn_epilogue.             *)
StateFnVoid(c, v) ==
    IF HasLabel(c.x, v.state) THEN EnterState(c, StateCaseVoid(c, CaseReached(c.x, v.state), v))
    ELSE CallEmpty(v)

StateFnEvents(c, v) ==
    LET w == Yield(v, noEvent)
    IN  IF HasLabel(c.x, v.state)
        THEN EnterState(c, StateCaseEvents(c, CaseReached(c.x, v.state), w))
        ELSE CallEmpty(w)

(* The functions that tell of leaving the state are run for every state      *)
(* returned, the present one included; entering it is the caller's part.     *)
StateFnStates(c, v) ==
    LET w == Yield(v, noTransition)
        r == IF HasLabel(c.x, v.state) THEN StateCaseStates(c, CaseReached(c.x, v.state), w)
             ELSE CallEmpty(w)
    IN  IF c.fns /\ r.out # noTransition
        THEN Call(Call(r, "machineTransition", r.out), "exit", v.state) ELSE r

-----------------------------------------------------------------------------
(* print_switch_cases_for_events_handled_in_all_states_arev                  *)
AllStatesCaseEvents(c, i, v) ==
    LET a == IF HasAction(i) THEN Act(c, i, v)
             ELSE IF c.kind = "events" THEN Yield(v, noEvent) ELSE v
    IN  IF HasTransition(i) THEN ChooseNext(c, i, a) ELSE a

(* What the action returns is the new state, unless there is a transition.   *)
AllStatesCaseStates(c, i, v) ==
    LET a == IF HasAction(i) THEN Act(c, i, v) ELSE v
    IN  IF HasTransition(i) THEN ChooseNext(c, i, a)
        ELSE IF HasAction(i) THEN Aim(a, a.out) ELSE a

(* Without functions to run on transitions, the cases assign pfsm->state.    *)
AllStatesHandler(c, v) ==
    LET i == single[c.x]
    IN  IF c.kind = "states"
        THEN LET r == AllStatesCaseStates(c, i, v)
             IN  IF c.fns /\ r.s = noTransition THEN r ELSE EnterState(c, r)
        ELSE EnterState(c, AllStatesCaseEvents(c, i, v))

(* What it returns, an event unless it is noEvent, is handled in the new     *)
(* state in the same pass.                                                   *)
InnardsEvents(c, v) ==
    LET r == IF inAll[c.x] THEN AllStatesHandler(c, v) ELSE v
    IN  IF r.out = noEvent THEN r
        ELSE StateFnEvents(Facing(c, r.out), Aim(r, r.state))

InnardsVoid(c, v) == IF inAll[c.x] THEN AllStatesHandler(c, v) ELSE StateFnVoid(c, v)

(* writeActionsReturnStateSwitchFSM: the entry function and the assignment.  *)
InnardsStates(c, v) ==
    LET r == StateFnStates(c, v)
        entered == IF c.fns THEN Call(r, "entry", r.out) ELSE r
    IN  IF inAll[c.x] THEN AllStatesHandler(c, v)
        ELSE IF r.out = noTransition THEN r ELSE Arrive(entered, r.out)

SwitchRun(c) ==
    CASE c.kind = "events" -> InnardsEvents(c, Begin(c))
      [] c.kind = "void" -> InnardsVoid(c, Begin(c))
      [] c.kind = "states" -> InnardsStates(c, Begin(c))

(* Functions that tell of leaving a state are run though it is not left.     *)
LeavesInPlace(c) ==
    c.kind = "states" /\ c.fns /\ HasLabel(c.x, c.s) /\ StateFnStates(c, Begin(c)).out = c.s

(* pfsm->state becomes noTransition.                                         *)
StoresNoTransition(c) ==
    /\ c.kind = "states" /\ ~c.fns /\ inAll[c.x]
    /\ c.answer = noTransition /\ ~HasTransition(single[c.x])

(* A second event is handled in the pass.                                    *)
HandlesTwo(c) == c.kind = "events" /\ inAll[c.x] /\ c.answer # noEvent
=============================================================================
