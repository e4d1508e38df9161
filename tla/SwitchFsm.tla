------------------------------ MODULE SwitchFsm ------------------------------
(***************************************************************************)
(* The machine that the switch generator (-ts, fsm_cswitch.c) writes, for  *)
(* actions that return events.  Events handled by one action declaration   *)
(* in every state are taken by checkWhetherEventIsHandledInAllStates; what *)
(* it returns goes, in the same pass of the loop, to the function of the   *)
(* current state, a switch over the other events the state handles.        *)
(***************************************************************************)
EXTENDS FsmCalls

CONSTANT InAllStates   \* [Machines -> set of events]: single_pai_for_all_states

ASSUME InAllStatesAssumption ==
    \A m \in Machines :
        /\ InAllStates[m] \subseteq OwnEvents(m)
        /\ \A x \in InAllStates[m], s, t \in States :
              /\ Cell(m, x, s).returns = Cell(m, x, t).returns
              /\ Cell(m, x, s).shares = Cell(m, x, t).shares

Controls == CallControls \cup
                {"check",   \* at checkWhetherEventIsHandledInAllStates
                 "state",   \* at the call of the state function
                 "sub"}     \* past the innards, at the test for sub-machine events

TypeOK == CallsTypeOK(Controls)

HasSubs(m) == SubMachines[m] # <<>>

(* Fault for the checks: the loop of a sub-machine with sub-machines of its *)
(* own ends at its own noEvent.                                              *)
LoopingOnOwn(m) ==
    e[m] # noEvent[m] /\ (m # Top => e[m] >= firstEvent[m] /\ e[m] < noEvent[m])

Looping(m) ==
    /\ e[m] # noEvent[m]
    /\ m # Top => e[m] >= firstEvent[m] /\ (HasSubs(m) => e[m] < lastEvent[m])

(* Where a pass of the loop goes on after the innards.                       *)
After(m) == IF m = Top THEN "test" ELSE "sub"

-----------------------------------------------------------------------------
(* The top level tests whether the event is its own before the innards.      *)
BeginPass(m) ==
    /\ Looping(m)
    /\ Goto(m, "test", IF m = Top /\ HasSubs(m) /\ e[m] >= noEvent[m] THEN "sub" ELSE "check")
    /\ event' = [event EXCEPT ![m] = e[m]]
    /\ UNCHANGED <<state, e, new_e, sharer>>

CheckHandles(m) ==
    /\ e[m] \in InAllStates[m]
    /\ UserAction(m, "check") \/ SharingAction(m, "check")
    /\ UNCHANGED event

CheckDefault(m) ==
    /\ e[m] \notin InAllStates[m]
    /\ Goto(m, "check", "state")
    /\ UNCHANGED <<state, event, e, new_e, sharer>>

(* The top level calls the state function with whatever it has; a            *)
(* sub-machine only with an event of its own.                                *)
CallsStateFn(m) == m = Top \/ e[m] \in OwnEvents(m)

StateFnHandles(m) ==
    /\ e[m] \in OwnEvents(m) \ InAllStates[m]
    /\ UserAction(m, "state") \/ SharingAction(m, "state")
    /\ UNCHANGED event

(* The switch has no case for e: retVal is the machine's noEvent.            *)
StateFnDefault(m) ==
    /\ CallsStateFn(m) /\ e[m] \notin OwnEvents(m) \ InAllStates[m]
    /\ Goto(m, "state", After(m))
    /\ e' = [e EXCEPT ![m] = noEvent[m]]
    /\ UNCHANGED <<state, event, new_e, sharer>>

SkipStateFn(m) ==
    /\ ~CallsStateFn(m)
    /\ Goto(m, "state", After(m))
    /\ UNCHANGED <<state, event, e, new_e, sharer>>

(* What the all-states handler returns, unless it is noEvent, is given to    *)
(* the state function.                                                       *)
Transition(m) ==
    MakeTransition(m, IF e[m] \in InAllStates[m] /\ new_e[m] # noEvent[m]
                      THEN "state" ELSE After(m))

ForSubMachines(m) ==
    HasSubs(m) /\ e[m] > noEvent[m] /\ (m = Top \/ e[m] < lastEvent[m])

PastSubMachines(m) ==
    /\ ~ForSubMachines(m)
    /\ Goto(m, "sub", "test")
    /\ UNCHANGED <<state, event, e, new_e, sharer>>

(* Fault: the finder is called whatever the state.                           *)
FindSubMachineAlways(m) ==
    /\ pc[m] = "sub" /\ ForSubMachines(m) /\ Find(m)
    /\ UNCHANGED <<state, event, new_e, sharer>>

FindSubMachine(m) ==
    /\ pc[m] = "sub" /\ ForSubMachines(m)
    /\ doNotInhibitSubMachines(m, state[m]) /\ Find(m)
    /\ UNCHANGED <<state, event, new_e, sharer>>

(* Fault: an inhibited machine keeps the event, as the table generator does. *)
NoSubMachineKeeping(m) ==
    /\ Goto(m, "sub", "test") /\ ForSubMachines(m)
    /\ ~doNotInhibitSubMachines(m, state[m])
    /\ UNCHANGED <<state, event, e, new_e, sharer>>

(* Sub-machines are inhibited, or none is found: the event is noEvent.       *)
NoSubMachine(m) ==
    /\ Goto(m, "sub", "test") /\ ForSubMachines(m)
    /\ ~doNotInhibitSubMachines(m, state[m]) \/ FindsNone(m, e[m])
    /\ e' = [e EXCEPT ![m] = noEvent[m]]
    /\ UNCHANGED <<state, event, new_e, sharer>>

Return(m) == ~Looping(m) /\ HandBackTranslated(m)

Finish == ~Looping(Top) /\ FinishRun

(* One step of the running FSM functions.                                    *)
Step(m) ==
    \/ BeginPass(m) \/ CheckHandles(m) \/ CheckDefault(m)
    \/ StateFnHandles(m) \/ StateFnDefault(m) \/ SkipStateFn(m)
    \/ ShareNext(m) \/ ShareDone(m) \/ Transition(m)
    \/ PastSubMachines(m) \/ FindSubMachine(m) \/ NoSubMachine(m)
    \/ Return(m)

Next == (\E x \in AllEvents : Run(x)) \/ (\E m \in Machines : Step(m)) \/ Finish

Spec == Init /\ [][Next]_vars

(* As for the table-driven machine: a call runs on its caller's thread.      *)
FairSpec == Spec /\ WF_vars((\E m \in Machines : Step(m)) \/ Finish)

-----------------------------------------------------------------------------
(* What an action returns is an event of some machine, or there is none.     *)
ReturnsEvents ==
    \A m \in Machines : \A x \in OwnEvents(m), s \in States :
        Cell(m, x, s).returns \subseteq {noEvent[m]} \cup UNION {OwnEvents(d) : d \in Machines}

(* The events of m that the actions of its sub-machines return.              *)
Answers(m) ==
    {y \in OwnEvents(m) :
        \E c \in Children(m) : \E x \in OwnEvents(c), s \in States : y \in Cell(c, x, s).returns}

(* The state function has a case for whatever the all-states handler may     *)
(* give it, or no business with it: the top level's has none with an event   *)
(* of a sub-machine when that is inhibited anyway.                           *)
StateFnTakesReturns ==
    \A m \in Machines : \A x \in InAllStates[m], s \in States :
        LET cell == Cell(m, x, s)
        IN  \A y \in IF cell.shares THEN Answers(m) ELSE cell.returns \ {noEvent[m]} :
                \/ y \in OwnEvents(m) \ InAllStates[m]
                \/ y \notin OwnEvents(m) /\ (m = Top => cell.next \subseteq Inhibiting[m])
=============================================================================
