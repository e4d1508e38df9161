------------------------------ MODULE TableCode ------------------------------
(***************************************************************************)
(* The code of the table generator (-tc, fsm_c.c) for one event: the cell  *)
(* of the printed action array, an action function and a state or a        *)
(* transition function, and the code that evaluates it.                    *)
(***************************************************************************)
EXTENDS CellCode

(* The array's function for the cell is called: the action, noAction where   *)
(* the declaration has none, the function of empty cells where the cell is   *)
(* empty.                                                                    *)
RunCellAction(c, v) ==
    LET i == array[c.x][v.state]
    IN  IF i = NULL THEN Yield(CallEmpty(v), Nothing(c))
        ELSE IF HasAction(i) THEN Act(c, i, v) ELSE Yield(v, Nothing(c))

(* The transition column: a state, or in a machine with transition functions *)
(* a function, transitionTo... or noTransitionFn where nothing else is given. *)
EvaluateTransition(c, v) ==
    LET i == array[c.x][v.state]
    IN  IF i # NULL /\ HasTransition(i) THEN ChooseNext(c, i, v) ELSE v

(* In machines whose actions return states the cell is one function: the     *)
(* action, or where there is none, the transition.                           *)
RunStateCell(c, v) ==
    LET i == array[c.x][v.state]
        n == ChooseNext(c, i, v)
    IN  IF i = NULL \/ HasAction(i) THEN RunCellAction(c, v)
        ELSE ReturnNext(v, n)

TableRun(c) ==
    IF c.kind = "states" THEN EnterReturned(c, RunStateCell(c, Begin(c)))
    ELSE EnterState(c, EvaluateTransition(c, RunCellAction(c, Begin(c))))
=============================================================================
