------------------------------ MODULE CellCode -------------------------------
(***************************************************************************)
(* What a cell of the action array asks for, and the pieces of code every  *)
(* generator prints for it: the call of the action, the choice of the next *)
(* state, the functions run when the state changes.  The generators differ *)
(* in how the code of a cell is reached; their modules are EventTableCode, *)
(* SwitchCode, SingleSwitchCode and TableCode.                             *)
(*                                                                         *)
(* A case c is one event x reaching the dispatch code in state s, with     *)
(* what the user's code does in it: the action returns "answer", the       *)
(* transition function "target"; fns says whether functions run on state   *)
(* transitions.  Code is an operator on the variables v it works on: the   *)
(* calls it has made, pfsm->state, its local for the next state, and what  *)
(* its local e, retVal or event holds.                                     *)
(***************************************************************************)
EXTENDS ActionArray

noEvent == "noEvent"
noTransition == "noTransition"
Uninitialized == "uninitialized"

(* The enumerations of events and of states have these members besides the   *)
(* names declared, and no member twice.                                      *)
ASSUME EnumeratorAssumption == noEvent \notin Events /\ noTransition \notin States

Kinds == {"events", "void", "states"}     \* what the machine's actions return

(* The place of a member in a list.                                          *)
Place(q, x) == CHOOSE i \in DOMAIN q : q[i] = x

HasAction(i) == decls[i].action # ""
HasTransition(i) == decls[i].to # {}
NamesState(i) == Cardinality(decls[i].to) = 1

Answers(kind) == CASE kind = "events" -> Events \cup {noEvent}
                   [] kind = "void" -> {noEvent}
                   [] kind = "states" -> States \cup {noTransition}

(* States implemented by a machine are left to the switch generator's calls. *)
Cases == UNION {[kind : {k}, fns : BOOLEAN, x : Events, s : States \ ViaMachine,
                 answer : Answers(k), target : States] : k \in Kinds}

Begin(c) == [calls |-> <<>>, state |-> c.s, s |-> c.s, out |-> c.x]

Call(v, f, a) == [v EXCEPT !.calls = Append(@, <<f, a>>)]
Yield(v, o) == [v EXCEPT !.out = o]
Aim(v, t) == [v EXCEPT !.s = t]
Arrive(v, t) == [v EXCEPT !.state = t]

(* The local for the next state is left to the caller: n's goes into the     *)
(* local that is returned.                                                   *)
ReturnNext(v, n) == Aim(Yield(n, n.s), v.s)

(* The function of empty cells.                                              *)
CallEmpty(v) == Call(v, "empty", "")

Facing(c, x) == [c EXCEPT !.x = x]

Nothing(c) == IF c.kind = "states" THEN noTransition ELSE noEvent

Act(c, i, v) == Yield(Call(v, "action", decls[i].action), c.answer)

(* What the transition function hears of the event a: in machines whose      *)
(* actions return states, nothing.                                           *)
Heard(c, a) == IF c.kind = "states" THEN "" ELSE a

(* The next state is computed for the event a.                               *)
ChooseNextFor(c, i, a, v) ==
    IF NamesState(i) THEN Aim(v, CHOOSE t \in decls[i].to : TRUE)
    ELSE Aim(Call(v, "next", Heard(c, a)), c.target)

ChooseNext(c, i, v) == ChooseNextFor(c, i, c.x, v)

(* Fault for the checks: the entry function is run before the exit function. *)
RunTransitionFnsSwapped(v) ==
    IF v.s = v.state THEN v
    ELSE Call(Call(Call(v, "machineTransition", v.s), "entry", v.s), "exit", v.state)

(* The functions run while pfsm->state is the old state.                     *)
RunTransitionFns(v) ==
    IF v.s = v.state THEN v
    ELSE Call(Call(Call(v, "machineTransition", v.s), "exit", v.state), "entry", v.s)

EnterState(c, v) == Arrive(IF c.fns THEN RunTransitionFns(v) ELSE v, v.s)

(* handleStateTransitionActions, and the assignment that follows it.         *)
EnterReturned(c, v) == IF v.out = noTransition THEN v ELSE EnterState(c, Aim(v, v.out))

-----------------------------------------------------------------------------
(* Reference: the cell's action is called, then the next state is what the   *)
(* action returned or what the transition says; on a change of state, the    *)
(* machine's transition function, the exit and the entry function are told.  *)
Described(c) ==
    LET i == array[c.x][c.s]
        acts == i # NULL /\ HasAction(i)
        moves == i # NULL /\ HasTransition(i)
        next == IF moves THEN IF NamesState(i) THEN CHOOSE t \in decls[i].to : TRUE ELSE c.target
                ELSE IF acts /\ c.kind = "states" /\ c.answer # noTransition THEN c.answer
                ELSE c.s
    IN  [calls |-> (IF acts THEN << <<"action", decls[i].action>> >> ELSE <<>>) \o
                   (IF moves /\ ~NamesState(i)
                    THEN << <<"next", Heard(c, c.x)>> >> ELSE <<>>) \o
                   (IF c.fns /\ next # c.s
                    THEN << <<"machineTransition", next>>, <<"exit", c.s>>, <<"entry", next>> >>
                    ELSE <<>>) \o
                   (IF i = NULL THEN << <<"empty", "">> >> ELSE <<>>),
         state |-> next,
         out |-> IF acts THEN c.answer ELSE noEvent]

(* The parser refuses an action with a transition when actions return        *)
(* states: such a cell does not come up in a machine of that kind.           *)
Refused(c) ==
    LET i == array[c.x][c.s]
    IN  c.kind = "states" /\ i # NULL /\ HasAction(i) /\ HasTransition(i)

(* The code's outcome is the described one.                                  *)
Agrees(v, c) ==
    LET d == Described(c)
    IN  /\ v.calls = d.calls
        /\ v.state = d.state
        /\ c.kind = "events" => v.out = d.out
=============================================================================
