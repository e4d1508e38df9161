-------------------------- MODULE SingleSwitchCode ---------------------------
(***************************************************************************)
(* The code of the single switch generator (fsm_c_single_switch.c): one    *)
(* switch over the combination of event and state, with one group of case  *)
(* labels for each consolidated declaration.                               *)
(***************************************************************************)
EXTENDS CellCode, ActionInfoList

(* The records with a case label for event x in state s.                     *)
Groups(x, s) ==
    LET list == consolidate_action_info_list
    IN  {k \in DOMAIN list : \E m \in DOMAIN list[k].matrices : <<x, s, m>> \in Labels(list[k])}

GroupBody(x, s) == consolidate_action_info_list[CHOOSE k \in Groups(x, s) : TRUE].pai

(* handleEmptyCells, in the switch's default.                                *)
HandleEmptyCell(c, v) ==
    LET e == CallEmpty(v) IN IF c.kind = "events" THEN Yield(e, noEvent) ELSE e

(* The transition function is told e, which the action has just assigned.    *)
ConsolidatedCaseEvents(c, i, v) ==
    LET a == IF HasAction(i) THEN Act(c, i, v) ELSE Yield(v, noEvent)
    IN  IF HasTransition(i) THEN ChooseNextFor(c, i, a.out, a) ELSE a

ConsolidatedCaseVoid(c, i, v) ==
    LET a == IF HasAction(i) THEN Act(c, i, v) ELSE v
    IN  IF HasTransition(i) THEN ChooseNext(c, i, a) ELSE a

(* Both the action and the transition assign s.                              *)
ConsolidatedCaseStates(c, i, v) ==
    LET a == IF HasAction(i) THEN Aim(Act(c, i, v), c.answer) ELSE v
    IN  IF HasTransition(i) THEN ChooseNext(c, i, a) ELSE a

SetNewState(c, v) ==
    IF c.kind = "states" THEN EnterReturned(c, Yield(v, v.s)) ELSE EnterState(c, v)

SingleSwitchRun(c) ==
    LET v == Begin(c)
        i == GroupBody(c.x, c.s)
    IN  SetNewState(c, IF Groups(c.x, c.s) = {} THEN HandleEmptyCell(c, v)
                       ELSE CASE c.kind = "events" -> ConsolidatedCaseEvents(c, i, v)
                              [] c.kind = "void" -> ConsolidatedCaseVoid(c, i, v)
                              [] c.kind = "states" -> ConsolidatedCaseStates(c, i, v))

(* What the transition function is told differs from the event handled.      *)
TransitionFnIsMisled(c) ==
    LET i == array[c.x][c.s]
    IN  /\ c.kind = "events" /\ i # NULL /\ HasTransition(i) /\ ~NamesState(i)
        /\ (IF HasAction(i) THEN c.answer ELSE noEvent) # c.x
=============================================================================
