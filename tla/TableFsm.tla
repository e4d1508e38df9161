------------------------------ MODULE TableFsm -------------------------------
(***************************************************************************)
(* The machine that the table generator (-tc, fsm_c.c) writes, for actions *)
(* that return events: each pass of the FSM function's loop reads the cell *)
(* of the event and the state in the action array.                         *)
(***************************************************************************)
EXTENDS FsmCalls

(* Fault for the checks: a sub-machine's loop forgets its parent's events.  *)
LoopingOnAnything(m) == e[m] # noEvent[m]

(* Fault: the loop of a sub-machine leaves the events of the machines below  *)
(* it to its caller.                                                         *)
LoopingOnOwn(m) ==
    e[m] # noEvent[m] /\ (m # Top => e[m] >= firstEvent[m] /\ e[m] < noEvent[m])

(* The condition of the while loop: of the top level, then of a sub-machine. *)
Looping(m) == e[m] # noEvent[m] /\ (m # Top => e[m] >= firstEvent[m])

(* e is for this machine: without sub-machines the generated loop has no test. *)
Mine(m) == SubMachines[m] = <<>> \/ e[m] < noEvent[m]

TypeOK == CallsTypeOK(CallControls)

-----------------------------------------------------------------------------
(* A pass begins: pfsm->event = e.                                           *)
Pass(m) == Looping(m) /\ event' = [event EXCEPT ![m] = e[m]]

(* Fault: pfsm->event is not assigned before the action.                     *)
RunActionOnOldEvent(m) ==
    Looping(m) /\ Mine(m) /\ UserAction(m, "test") /\ UNCHANGED event

RunAction(m) == Pass(m) /\ Mine(m) /\ UserAction(m, "test")

RunSharingAction(m) == Pass(m) /\ Mine(m) /\ SharingAction(m, "test")

Transition(m) == MakeTransition(m, "test")

(* The else of "if (e < THIS(noEvent))": an event for some sub-machine.      *)
ToSubMachines(m) ==
    /\ pc[m] = "test" /\ Pass(m) /\ ~Mine(m)
    /\ UNCHANGED <<state, new_e, sharer>>

(* Fault: the finder is called whatever the state.                           *)
FindSubMachineAlways(m) == ToSubMachines(m) /\ Find(m)

FindSubMachine(m) ==
    ToSubMachines(m) /\ doNotInhibitSubMachines(m, state[m]) /\ Find(m)

(* Fault: the finder hands an event it knows no machine for back.            *)
FindNothingKeeping(m) ==
    /\ ToSubMachines(m) /\ doNotInhibitSubMachines(m, state[m])
    /\ FindsNone(m, e[m])
    /\ UNCHANGED <<pc, e>>

FindNothing(m) ==
    /\ ToSubMachines(m) /\ doNotInhibitSubMachines(m, state[m])
    /\ FindsNone(m, e[m])
    /\ e' = [e EXCEPT ![m] = noEvent[m]]
    /\ UNCHANGED pc

(* "if (doNotInhibitSubMachines(pfsm->state)) e = ...": no else, e is kept.  *)
InhibitSubMachines(m) ==
    /\ ToSubMachines(m) /\ ~doNotInhibitSubMachines(m, state[m])
    /\ UNCHANGED <<pc, e>>

Return(m) == ~Looping(m) /\ HandBackTranslated(m)

Finish == ~Looping(Top) /\ FinishRun

(* One step of the running FSM functions.                                    *)
Step(m) ==
    \/ RunAction(m) \/ RunSharingAction(m) \/ ShareNext(m) \/ ShareDone(m)
    \/ Transition(m) \/ FindSubMachine(m) \/ FindNothing(m) \/ InhibitSubMachines(m)
    \/ Return(m)

Next == (\E x \in AllEvents : Run(x)) \/ (\E m \in Machines : Step(m)) \/ Finish

Spec == Init /\ [][Next]_vars

(* A call is code running on the caller's thread: it takes its next step if  *)
(* it has one.  Nothing obliges the program to make another call.            *)
Fairness == WF_vars((\E m \in Machines : Step(m)) \/ Finish)

FairSpec == Spec /\ Fairness

-----------------------------------------------------------------------------
(* The cell an FSM function indexes exists: whatever sub-machines hand back  *)
(* and actions return, an event that reaches "actionArray[e - firstEvent]"   *)
(* is one of this machine's.                                                 *)
DispatchInBounds ==
    \A m \in Machines :
        \/ pc[m] = "test" /\ Looping(m) /\ Mine(m)
        \/ pc[m] \in {"sharing", "shared", "transition"}
        => e[m] \in OwnEvents(m)
=============================================================================
