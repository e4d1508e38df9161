--------------------------- MODULE EventTableCode ----------------------------
(***************************************************************************)
(* The code of the event table generator (-te, fsm_c_event_table.c): an    *)
(* array of one handler per event, each with a switch over the states that *)
(* handle the event.                                                       *)
(***************************************************************************)
EXTENDS CellCode

(* For event x, add_to_action_array met state s before state t.              *)
StateMetBefore(x, s, t) ==
    \/ array[x][s] < array[x][t]
    \/ /\ array[x][s] = array[x][t]
       /\ Place(MatrixStates(decls[array[x][s]]), s) < Place(MatrixStates(decls[array[x][s]]), t)

(* phandling_states, in the order the states were met.                       *)
HandlingStates(x) ==
    CHOOSE q \in SetToSeqs(handling[x]) :
        \A k, l \in DOMAIN q : k < l => StateMetBefore(x, q[k], q[l])

(* A case label whose successor has the same declaration has no body, and    *)
(* falls through to it.                                                      *)
BodyReachedFrom(bodies, n) ==
    LET ends == {k \in n..Len(bodies) : k = Len(bodies) \/ bodies[k] # bodies[k + 1]}
    IN  bodies[CHOOSE k \in ends : \A j \in ends : k <= j]

(* print_any_transition_handlers, where the event's states have transitions. *)
Finish(c, v) == EnterState(c, v)

(* An event that one declaration handles in all states, without a            *)
(* transition, needs no handler: the array holds the action.                 *)
IsItsAction(x) == inAll[x] /\ ~HasTransition(single[x])

SingleBodyEvents(c, i, v) ==
    LET a == IF HasAction(i) THEN Act(c, i, v) ELSE Yield(v, noEvent)
    IN  IF HasTransition(i) THEN Finish(c, ChooseNext(c, i, a)) ELSE a

SingleBodyVoid(c, i, v) ==
    LET a == IF HasAction(i) THEN Act(c, i, v) ELSE v
    IN  IF HasTransition(i) THEN Finish(c, ChooseNext(c, i, a)) ELSE a

(* The transition, when there is one, replaces what the action returned.     *)
SingleBodyStates(c, i, v) ==
    LET a == IF HasAction(i) THEN Act(c, i, v) ELSE Yield(v, Uninitialized)
        n == ChooseNext(c, i, a)
    IN  IF HasTransition(i) THEN ReturnNext(v, n) ELSE a

SelectedCaseEvents(c, i, v) ==
    LET a == IF HasAction(i) THEN Act(c, i, v)
             ELSE IF ~HasTransition(i) THEN CallEmpty(v) ELSE v
    IN  IF HasTransition(i) THEN ChooseNext(c, i, a) ELSE a

(* The function of empty cells is called for a case with a transition only.  *)
SelectedCaseVoid(c, i, v) ==
    LET a == IF HasAction(i) THEN Act(c, i, v) ELSE CallEmpty(v)
    IN  IF HasTransition(i) THEN ChooseNext(c, i, a) ELSE a

SelectedCaseStates(c, i, v) ==
    LET a == IF HasAction(i) THEN Act(c, i, v) ELSE v
        n == ChooseNext(c, i, a)
    IN  IF HasTransition(i) THEN ReturnNext(v, n)
        ELSE IF HasAction(i) THEN a ELSE CallEmpty(v)

(* The declaration whose code the switch over pfsm->state runs.              *)
Selected(x, s) ==
    LET labels == HandlingStates(x)
    IN  BodyReachedFrom([k \in DOMAIN labels |-> array[x][labels[k]]], Place(labels, s))

MultipleBodyEvents(c, v) ==
    LET w == Yield(v, noEvent)
    IN  IF handling[c.x] = {} THEN CallEmpty(w)
        ELSE Finish(c, IF v.state \in handling[c.x]
                       THEN SelectedCaseEvents(c, Selected(c.x, v.state), w)
                       ELSE CallEmpty(w))

MultipleBodyVoid(c, v) ==
    IF handling[c.x] = {} THEN CallEmpty(v)
    ELSE Finish(c, IF v.state \in handling[c.x] THEN SelectedCaseVoid(c, Selected(c.x, v.state), v)
                   ELSE v)

(* Neither the default nor a case without action and transition assigns the  *)
(* local that is returned.                                                   *)
MultipleBodyStates(c, v) ==
    LET w == Yield(v, Uninitialized)
    IN  IF handling[c.x] = {} THEN Yield(CallEmpty(v), v.state)
        ELSE IF v.state \in handling[c.x] THEN SelectedCaseStates(c, Selected(c.x, v.state), w)
        ELSE w

SingleBody(c, i, v) ==
    CASE c.kind = "events" -> SingleBodyEvents(c, i, v)
      [] c.kind = "void" -> SingleBodyVoid(c, i, v)
      [] c.kind = "states" -> SingleBodyStates(c, i, v)

MultipleBody(c, v) ==
    CASE c.kind = "events" -> MultipleBodyEvents(c, v)
      [] c.kind = "void" -> MultipleBodyVoid(c, v)
      [] c.kind = "states" -> MultipleBodyStates(c, v)

Handler(c, v) ==
    LET i == single[c.x]
    IN  IF IsItsAction(c.x) THEN Act(c, i, v)
        ELSE IF inAll[c.x] THEN SingleBody(c, i, v) ELSE MultipleBody(c, v)

(* One pass of the FSM function for an event of the machine.                 *)
EventTableRun(c) ==
    LET v == Handler(c, Begin(c))
    IN  IF c.kind = "states" THEN EnterReturned(c, v) ELSE v

(* A switch over the states has no case for the present one: the local that  *)
(* is returned, and then stored in pfsm->state, is not initialized.          *)
StateIsLost(c) == c.kind = "states" /\ handling[c.x] # {} /\ c.s \notin handling[c.x]

(* The void variant calls the function of empty cells for a cell with a      *)
(* transition only, and not for a state without a case.                      *)
EmptyCellFnDiffers(c) ==
    c.kind = "void" /\ ~inAll[c.x] /\ (array[c.x][c.s] = NULL \/ ~HasAction(array[c.x][c.s]))
=============================================================================
