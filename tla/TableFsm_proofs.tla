--------------------------- MODULE TableFsm_proofs ---------------------------
(***************************************************************************)
(* The safety properties of the table-driven machine, for every tree of    *)
(* machines whose enumeration has the layout LayoutAssumption states, every *)
(* table and every behaviour of the user's actions; and the proof that the *)
(* machine implements the abstract one.                                    *)
(***************************************************************************)
EXTENDS TableFsm, FsmCalls_proofs

IInv == CallsInv(CallControls) /\ EventFieldIsCurrent

(* The event that reaches a machine's cells is one of the machine's own.     *)
LEMMA MineIsOwn ==
    ASSUME IInv, NEW m \in Machines, Looping(m), Mine(m)
    PROVE  e[m] \in OwnEvents(m)
<1>1. e[m] \in Visible(m) /\ e[m] \in Nat
  BY DEF IInv, CallsInv, ValuesInv
<1>2. e[m] >= firstEvent[m]
  <2>1. CASE m = Top
    BY <1>1, <2>1, LayoutFacts DEF Visible
  <2>2. CASE m # Top
    BY <2>2 DEF Looping
  <2> QED BY <2>1, <2>2
<1>3. e[m] < noEvent[m]
  <2>1. CASE SubMachines[m] = <<>>
    <3>1. e[m] \in firstEvent[m] .. HighEvent[m]
      BY <1>1, <1>2, LayoutFacts DEF Visible, OwnEvents, Subs
    <3> QED BY <3>1, <2>1, LayoutFacts DEF Looping
  <2>2. CASE e[m] < noEvent[m]
    BY <2>2
  <2> QED BY <2>1, <2>2 DEF Mine
<1> QED
  BY <1>1, <1>2, <1>3, LayoutFacts DEF OwnEvents

LEMMA InitIInv == Init => IInv
<1> SUFFICES ASSUME Init PROVE IInv
  OBVIOUS
<1>1. EventFieldIsCurrent
  BY DEF Init, EventFieldIsCurrent
<1> QED
  BY <1>1, InitCallsInv DEF IInv

-----------------------------------------------------------------------------
(* What a pass of the loop, and the return, add to the shared steps.         *)

(* The FSM function runs the action of the cell.                             *)
LEMMA ActionStep ==
    ASSUME IInv, NEW m \in Machines, RunAction(m) \/ RunSharingAction(m)
    PROVE  IInv'
<1>1. e[m] \in OwnEvents(m) /\ e[m] \in Nat
  BY MineIsOwn DEF RunAction, RunSharingAction, Pass, IInv, CallsInv, ValuesInv
<1>2. event' = [event EXCEPT ![m] = e[m]] /\ event' \in [Machines -> Nat]
  BY <1>1 DEF RunAction, RunSharingAction, Pass, IInv, CallsInv, ControlInv
<1>3. "test" \in Free(CallControls)
  BY DEF Free, CallControls
<1>4. CallsInv(CallControls)'
  BY <1>1, <1>2, <1>3, UserActionStep, SharingActionStep DEF RunAction, RunSharingAction, IInv
<1>5. EventFieldIsCurrent'
  BY <1>2 DEF RunAction, RunSharingAction, UserAction, SharingAction, Goto, IInv, CallsInv,
     ControlInv, ValuesInv, EventFieldIsCurrent
<1> QED
  BY <1>4, <1>5 DEF IInv

(* The finder hands a foreign event to the sub-machine that has it.          *)
LEMMA FindSubMachineStep ==
    ASSUME IInv, NEW m \in Machines, FindSubMachine(m) PROVE IInv'
<1>1. /\ pc[m] = "test" /\ pc[m] \in Free(CallControls)
      /\ event' = [event EXCEPT ![m] = e[m]] /\ UNCHANGED <<state, new_e, sharer>>
  BY DEF FindSubMachine, ToSubMachines, Pass, Free, CallControls
<1>2. event' \in [Machines -> Nat]
  BY <1>1 DEF IInv, CallsInv, ControlInv, ValuesInv
<1>3. CallsInv(CallControls)'
  BY <1>1, <1>2, FindStep DEF FindSubMachine, IInv
<1>4. PICK c \in Machines : /\ pc' = [pc EXCEPT ![m] = "finding", ![c] = "test"]
                            /\ e' = [e EXCEPT ![c] = e[m]]
  <2>1. PICK i \in 1..Len(SubMachines[m]) : Call(m, SubMachines[m][i], e[m], "finding")
    BY DEF FindSubMachine, Find
  <2>2. SubMachines[m][i] \in Machines
    BY TreeAssumption DEF Children, Subs
  <2> QED BY <2>1, <2>2 DEF Call
<1>5. EventFieldIsCurrent'
  BY <1>1, <1>4 DEF IInv, CallsInv, ControlInv, ValuesInv, EventFieldIsCurrent
<1> QED
  BY <1>3, <1>5 DEF IInv

(* No sub-machine takes the event: it is dropped, or kept.                   *)
LEMMA FindNothingStep ==
    ASSUME IInv, NEW m \in Machines, FindNothing(m) \/ InhibitSubMachines(m) PROVE IInv'
<1> DEFINE x == IF FindNothing(m) THEN noEvent[m] ELSE e[m]
<1>1. /\ e' = [e EXCEPT ![m] = x] /\ pc[m] = "test" /\ pc' = [pc EXCEPT ![m] = "test"]
      /\ event' = [event EXCEPT ![m] = e[m]] /\ UNCHANGED <<state, new_e, sharer>>
  BY DEF FindNothing, InhibitSubMachines, ToSubMachines, Pass, IInv, CallsInv, ControlInv, ValuesInv
<1>2. x \in Visible(m) /\ "test" \in Free(CallControls) /\ event' \in [Machines -> Nat]
  BY <1>1, VisibleFacts DEF Free, CallControls, IInv, CallsInv, ControlInv, ValuesInv
<1>3. CallsInv(CallControls)'
  BY <1>1, <1>2, MoveStep DEF IInv
<1>4. EventFieldIsCurrent'
  BY <1>1 DEF IInv, CallsInv, ControlInv, ValuesInv, EventFieldIsCurrent
<1> QED
  BY <1>3, <1>4 DEF IInv

(* A sub-machine's FSM function returns to its caller.                       *)
LEMMA ReturnStep == ASSUME IInv, NEW m \in Machines, Return(m) PROVE IInv'
<1> DEFINE x == IF e[m] = noEvent[m] THEN noEvent[Parent[m]] ELSE e[m]
<1>1. m \in Subs /\ pc[m] = "test" /\ ~Looping(m) /\ HandBack(m, x) /\ UNCHANGED event
  BY DEF Return, HandBackTranslated, HandBack, Subs
<1>2. x \in Visible(Parent[m])
  <2>1. CASE e[m] = noEvent[m]
    BY <1>1, <2>1, VisibleFacts, LayoutFacts
  <2>2. CASE e[m] # noEvent[m]
    <3>1. e[m] \in Visible(m) /\ ~(e[m] # noEvent[m] /\ e[m] >= firstEvent[m])
      BY <1>1, <2>2 DEF Looping, IInv, CallsInv, ValuesInv, Subs
    <3>2. e[m] \in OwnEvents(Parent[m])
      BY <1>1, <2>2, <3>1, ReturnedIsVisible
    <3> QED BY <1>1, <2>2, <3>2, VisibleFacts, LayoutFacts
  <2> QED BY <2>1, <2>2
<1> HIDE DEF x
<1>3. CallsInv(CallControls)'
  BY <1>1, <1>2, HandBackStep DEF IInv
<1>4. EventFieldIsCurrent'
  <2>1. Parent[m] \in Machines /\ Parent[m] # m
    BY <1>1, LayoutFacts
  <2> QED BY <1>1, <2>1 DEF HandBack, IInv, CallsInv, ControlInv, ValuesInv, EventFieldIsCurrent
<1> QED
  BY <1>3, <1>4 DEF IInv

(* The steps of the shared actions, and of the call and the return.          *)
LEMMA SharedStep ==
    ASSUME IInv, NEW m \in Machines, ShareNext(m) \/ ShareDone(m) \/ Transition(m)
    PROVE  IInv'
<1>1. CallsInv(CallControls)'
  <2>1. "test" \in Free(CallControls)
    BY DEF Free, CallControls
  <2> QED BY <2>1, ShareNextStep, ShareDoneStep, MakeTransitionStep DEF IInv, Transition
<1>2. ASSUME ShareNext(m) PROVE EventFieldIsCurrent'
  <2> DEFINE c == SharersOf(m, e[m])[sharer[m]].fsm
  <2>1. c \in Machines /\ c # m
    BY <1>2, SharerFacts DEF IInv, ShareNext
  <2>2. /\ pc[m] = "sharing" /\ pc' = [pc EXCEPT ![m] = "shared", ![c] = "test"]
        /\ \A d \in Machines \ {c} : e'[d] = e[d]
        /\ UNCHANGED event
    BY <1>2 DEF ShareNext, Call, IInv, CallsInv, ValuesInv
  <2> HIDE DEF c
  <2> QED BY <2>1, <2>2 DEF IInv, CallsInv, ControlInv, EventFieldIsCurrent
<1>3. ASSUME ShareDone(m) \/ Transition(m) PROVE EventFieldIsCurrent'
  BY <1>3 DEF ShareDone, Transition, MakeTransition, Goto, IInv, CallsInv, ControlInv, ValuesInv,
     EventFieldIsCurrent
<1> QED
  BY <1>1, <1>2, <1>3 DEF IInv

LEMMA CallStep == ASSUME IInv, (\E x \in AllEvents : Run(x)) \/ Finish PROVE IInv'
<1>1. CallsInv(CallControls)'
  BY RunStep, FinishRunStep DEF IInv, Finish
<1>2. EventFieldIsCurrent'
  BY LayoutFacts DEF Run, Finish, FinishRun, Goto, IInv, CallsInv, ControlInv, ValuesInv,
     EventFieldIsCurrent
<1> QED
  BY <1>1, <1>2 DEF IInv

(* IInv is inductive.                                                        *)
LEMMA NextIInv == IInv /\ [Next]_vars => IInv'
<1> SUFFICES ASSUME IInv, [Next]_vars PROVE IInv'
  OBVIOUS
<1>1. ASSUME NEW m \in Machines, Step(m) PROVE IInv'
  BY <1>1, ActionStep, SharedStep, FindSubMachineStep, FindNothingStep, ReturnStep DEF Step
<1>2. ASSUME UNCHANGED vars PROVE IInv'
  BY <1>2, Stutter DEF IInv, EventFieldIsCurrent, vars
<1> QED
  BY <1>1, <1>2, CallStep DEF Next

(* IInv holds throughout.                                                    *)
LEMMA Inductive == Spec => []IInv
  BY InitIInv, NextIInv, PTL DEF Spec

-----------------------------------------------------------------------------
(* The variables keep their types.                                           *)
THEOREM TypeCorrect == Spec => []TypeOK
<1>1. IInv => TypeOK
  BY DEF IInv, CallsInv, ValuesInv, ControlInv, TypeOK, CallsTypeOK
<1> QED
  BY <1>1, Inductive, PTL

(* No FSM function indexes its action array outside the machine's events,    *)
(* whatever actions and sub-machines return.                                 *)
THEOREM DispatchStaysInBounds == Spec => []DispatchInBounds
<1>1. IInv => DispatchInBounds
  <2> SUFFICES ASSUME IInv, NEW m \in Machines,
                      \/ pc[m] = "test" /\ Looping(m) /\ Mine(m)
                      \/ pc[m] \in {"sharing", "shared", "transition"}
               PROVE  e[m] \in OwnEvents(m)
    BY DEF DispatchInBounds
  <2> QED
    BY MineIsOwn DEF IInv, CallsInv, OwnInv
<1> QED
  BY <1>1, Inductive, PTL

(* An action reads the event it was chosen for in pfsm->event.               *)
THEOREM EventFieldStaysCurrent == Spec => []EventFieldIsCurrent
<1>1. IInv => EventFieldIsCurrent
  BY DEF IInv
<1> QED
  BY <1>1, Inductive, PTL

(* A state that inhibits sub-machines has none running below it.             *)
THEOREM InhibitionHolds == Spec => []InhibitedSubMachinesAreQuiet
<1>1. IInv => InhibitedSubMachinesAreQuiet
  BY QuietFollows DEF IInv
<1> QED
  BY <1>1, Inductive, PTL

(* A sub-machine returns its caller's noEvent or an event of the caller's.   *)
LEMMA ReturnsOwn ==
    ASSUME IInv, NEW m \in Machines, Return(m)
    PROVE  \E x \in OwnEvents(Parent[m]) \cup {noEvent[Parent[m]]} : HandBack(m, x)
<1>1. m \in Subs /\ ~Looping(m)
  BY DEF Return, HandBackTranslated, HandBack, Subs
<1>2. e[m] # noEvent[m] => e[m] \in OwnEvents(Parent[m])
  <2> SUFFICES ASSUME e[m] # noEvent[m] PROVE e[m] \in OwnEvents(Parent[m])
    OBVIOUS
  <2>1. e[m] \in Visible(m) /\ ~(e[m] # noEvent[m] /\ e[m] >= firstEvent[m])
    BY <1>1 DEF Looping, IInv, CallsInv, ValuesInv, Subs
  <2> QED BY <1>1, <2>1, ReturnedIsVisible
<1> QED
  BY <1>2 DEF Return, HandBackTranslated

(* A step that ends a sub-machine's call is a return.                        *)
LEMMA EndsByReturn ==
    ASSUME IInv, [Next]_vars, NEW c \in Subs, pc[c] # "idle", pc'[c] = "idle"
    PROVE  \E m \in Machines : Return(m)
<1>1. ASSUME NEW m \in Machines, Step(m), ~Return(m) PROVE pc'[c] # "idle"
  <2>1. CASE ShareNext(m)
    <3>1. SharersOf(m, e[m])[sharer[m]].fsm \in Machines
      BY <2>1, SharerFacts DEF IInv, ShareNext
    <3>2. \E d \in Machines : pc' = [pc EXCEPT ![m] = "shared", ![d] = "test"]
      BY <2>1, <3>1 DEF ShareNext, Call
    <3> QED BY <2>1, <3>2, OnlyReturnsEnd DEF ShareNext, IInv
  <2>2. CASE FindSubMachine(m)
    <3>1. PICK i \in 1..Len(SubMachines[m]) : Call(m, SubMachines[m][i], e[m], "finding")
      BY <2>2 DEF FindSubMachine, Find
    <3>2. SubMachines[m][i] \in Machines
      BY TreeAssumption DEF Children, Subs
    <3>3. \E d \in Machines : pc' = [pc EXCEPT ![m] = "finding", ![d] = "test"]
      BY <3>1, <3>2 DEF Call
    <3> QED BY <2>2, <3>3, OnlyReturnsEnd DEF FindSubMachine, ToSubMachines, IInv
  <2>3. CASE FindNothing(m) \/ InhibitSubMachines(m)
    BY <2>3 DEF FindNothing, InhibitSubMachines
  <2>4. CASE RunAction(m) \/ RunSharingAction(m) \/ ShareDone(m) \/ Transition(m)
    <3>1. pc[m] # "idle" /\ \E there \in {"transition", "sharing", "test"} :
                                pc' = [pc EXCEPT ![m] = there]
      BY <2>4 DEF RunAction, UserAction, RunSharingAction, SharingAction, ShareDone, Transition,
         MakeTransition, Goto
    <3> QED BY <3>1, OnlyReturnsEnd DEF IInv
  <2> QED BY <1>1, <2>1, <2>2, <2>3, <2>4 DEF Step
<1>2. ASSUME (\E x \in AllEvents : Run(x)) \/ Finish PROVE pc'[c] # "idle"
  BY <1>2 DEF Run, Finish, FinishRun, Goto, Subs, IInv, CallsInv, ControlInv
<1> QED
  BY <1>1, <1>2 DEF Next, vars

(* Whatever actions return, and however deep the tree, a sub-machine never   *)
(* returns to its caller an event of another machine, nor its own noEvent.   *)
THEOREM ReturnsAreForTheCaller == Spec => ReturnsToTheCaller
<1>1. ASSUME IInv, [Next]_vars, NEW c \in Subs, pc[c] # "idle", pc'[c] = "idle"
      PROVE  (IF pc[Parent[c]] = "finding" THEN e'[Parent[c]] ELSE new_e'[Parent[c]])
                 \in OwnEvents(Parent[c]) \cup {noEvent[Parent[c]]}
  <2>1. PICK m \in Machines : Return(m)
    BY <1>1, EndsByReturn
  <2>2. PICK x \in OwnEvents(Parent[m]) \cup {noEvent[Parent[m]]} : HandBack(m, x)
    BY <1>1, <2>1, ReturnsOwn
  <2>3. m \in Subs
    BY <2>1 DEF Return, HandBackTranslated, HandBack, Subs
  <2> QED
    BY <1>1, <2>2, <2>3, HandsOver DEF IInv
<1>2. IInv /\ [Next]_vars =>
          [\A c \in Subs :
              LET p == Parent[c]
              IN  pc[c] # "idle" /\ pc'[c] = "idle" =>
                      (IF pc[p] = "finding" THEN e'[p] ELSE new_e'[p])
                          \in OwnEvents(p) \cup {noEvent[p]}]_vars
  BY <1>1
<1> QED
  BY <1>2, Inductive, PTL DEF Spec, ReturnsToTheCaller

-----------------------------------------------------------------------------
(***************************************************************************)
(* The table-driven machine implements the abstract hierarchical machine.  *)
(* Of the enumeration two facts are needed: no value is used twice, and    *)
(* the finder knows a machine for every event.                             *)
(***************************************************************************)
RInv == SimInv(CallControls) /\ EventFieldIsCurrent

(* The cell's action runs: nothing is seen, or it is entered to pass on.     *)
LEMMA ActionSim ==
    ASSUME RInv, NEW m \in Machines, RunAction(m) \/ RunSharingAction(m)
    PROVE  Kept /\ (H!Next \/ Unseen)
<1>1. e[m] \in OwnEvents(m)
  BY MineIsOwn DEF RunAction, RunSharingAction, Pass, RInv, SimInv, IInv
<1>2. pc[m] = "test" /\ AtLoop(pc[m])
  BY DEF RunAction, RunSharingAction, UserAction, SharingAction, Goto, AtLoop
<1>3. UserAction(m, pc[m]) \/ SharingAction(m, pc[m])
  BY <1>2 DEF RunAction, RunSharingAction
<1> QED
  BY <1>1, <1>2, <1>3, UserActionSim, ShareSim DEF RInv, H!Next, H!Work

(* The steps of the shared actions, and the finder's call.                   *)
LEMMA CallingSim ==
    ASSUME RInv, NEW m \in Machines,
           ShareNext(m) \/ ShareDone(m) \/ Transition(m) \/ FindSubMachine(m)
    PROVE  Kept /\ (H!Next \/ Unseen)
<1>1. AtLoop("test")
  BY DEF AtLoop
<1>2. CASE FindSubMachine(m)
  BY <1>1, <1>2, FindSim DEF RInv, FindSubMachine, ToSubMachines
<1> QED
  BY <1>1, <1>2, PassOnSim, ShareDoneSim, TransitionSim DEF RInv, Transition, H!Next, H!Work

(* The finder knows no machine: then nobody declares the event.              *)
LEMMA FindNothingSim ==
    ASSUME RInv, NEW m \in Machines, FindNothing(m)
    PROVE  Kept /\ (RoutesEveryEvent => Unseen)
<1>1. /\ pc[m] = "test" /\ UNCHANGED <<pc, state, new_e, sharer>>
      /\ e' = [e EXCEPT ![m] = noEvent[m]]
      /\ Looping(m) /\ ~Mine(m) /\ FindsNone(m, e[m])
  BY DEF FindNothing, ToSubMachines, Pass
<1>2. e[m] \in Visible(m) /\ e[m] \in Nat
  BY DEF RInv, SimInv, CallsInv, ValuesInv
<1>3. noEvent[m] < e[m] /\ e[m] <= HighEvent[m]
  <2>1. e[m] > noEvent[m]
    BY <1>1, <1>2, LayoutFacts DEF Looping, Mine
  <2> QED BY <1>2, <2>1, LayoutFacts DEF Visible, OwnEvents, Subs
<1>4. ASSUME RoutesEveryEvent, NEW d \in Machines, e[m] \in OwnEvents(d) PROVE FALSE
  <2>1. \E i \in 1..Len(SubMachines[m]) : InRange(SubMachines[m][i], e[m])
    BY <1>3, <1>4 DEF RoutesEveryEvent
  <2> QED BY <1>1, <2>1 DEF FindsNone
<1>5. RoutesEveryEvent => H!Meaning(noEvent[m]) = H!Meaning(e[m])
  BY <1>4, EventFacts
<1>6. AtLoop(pc[m]) /\ pc' = [pc EXCEPT ![m] = pc[m]]
  BY <1>1 DEF AtLoop, RInv, SimInv, CallsInv, ControlInv
<1> QED
  BY <1>1, <1>5, <1>6, MoveSim DEF RInv, Unseen, H!hsmVars

(* The state inhibits sub-machines: the event is kept.                       *)
LEMMA InhibitSim ==
    ASSUME RInv, NEW m \in Machines, InhibitSubMachines(m)
    PROVE  Kept /\ Unseen
<1>1. /\ UNCHANGED <<state, new_e, sharer>> /\ e' = [e EXCEPT ![m] = e[m]]
      /\ AtLoop(pc[m]) /\ pc' = [pc EXCEPT ![m] = pc[m]]
  BY DEF InhibitSubMachines, ToSubMachines, AtLoop, RInv, SimInv, CallsInv, ControlInv, ValuesInv
<1> QED
  BY <1>1, MoveSim DEF RInv, Unseen, H!hsmVars

(* A sub-machine hands its event back, or that there is none: not seen.      *)
LEMMA ReturnSim ==
    ASSUME RInv, NEW m \in Machines, Return(m)
    PROVE  Kept /\ Unseen
<1> DEFINE x == IF e[m] = noEvent[m] THEN noEvent[Parent[m]] ELSE e[m]
<1>1. m \in Subs /\ ~Looping(m) /\ HandBack(m, x)
  BY DEF Return, HandBackTranslated, HandBack, Subs
<1>2. x \in OwnEvents(Parent[m]) \cup {noEvent[Parent[m]]} /\ H!Meaning(x) = H!Meaning(e[m])
  <2>1. CASE e[m] = noEvent[m]
    BY <1>1, <2>1, EventFacts, LayoutFacts
  <2>2. CASE e[m] # noEvent[m]
    <3>1. e[m] \in Visible(m) /\ ~(e[m] # noEvent[m] /\ e[m] >= firstEvent[m])
      BY <1>1, <2>2 DEF Looping, RInv, SimInv, CallsInv, ValuesInv
    <3>2. e[m] \in OwnEvents(Parent[m])
      BY <1>1, <2>2, <3>1, ReturnedIsVisible
    <3> QED BY <2>2, <3>2
  <2> QED BY <2>1, <2>2
<1> HIDE DEF x
<1> QED
  BY <1>1, <1>2, HandBackSim DEF RInv

(* Every step keeps RInv, and is a step of Hsm or not seen.                  *)
LEMMA NextSim ==
    RInv /\ [Next]_vars => RInv' /\ (RoutesEveryEvent => [H!Next]_(H!hsmVars))
<1> SUFFICES ASSUME RInv, [Next]_vars
             PROVE  RInv' /\ (RoutesEveryEvent => H!Next \/ Unseen)
  BY DEF Unseen
<1>1. IInv'
  BY NextIInv DEF RInv, SimInv, IInv
<1>2. ASSUME NEW m \in Machines, Step(m)
      PROVE  Kept /\ (RoutesEveryEvent => H!Next \/ Unseen)
  BY <1>2, ActionSim, CallingSim, FindNothingSim, InhibitSim, ReturnSim DEF Step
<1>3. ASSUME Finish PROVE Kept /\ Unseen
  BY <1>3, FinishSim DEF RInv, Finish, Looping
<1>4. ASSUME Next PROVE Kept /\ (RoutesEveryEvent => H!Next \/ Unseen)
  BY <1>2, <1>3, <1>4, RunSim DEF RInv, Next
<1>5. ASSUME UNCHANGED vars PROVE Kept /\ Unseen
  BY <1>5, StutterSim DEF RInv
<1> QED
  BY <1>1, <1>4, <1>5 DEF Kept, RInv, SimInv, IInv

LEMMA StartsAsHsm == Init => RInv /\ H!Init
  BY InitSim, InitIInv DEF RInv, IInv

(* RInv holds throughout.                                                    *)
LEMMA RInvInductive == Spec => []RInv
  BY StartsAsHsm, NextSim, PTL DEF Spec

(* Whatever the tree of machines, the tables and the user's actions, the     *)
(* table-driven machine does what Hsm promises: events go to the machine     *)
(* that declares them, in its current state; none is lost; shared events     *)
(* visit the sharers in order.                                               *)
THEOREM TableImplementsHsm == ASSUME RoutesEveryEvent PROVE Spec => ImplementsHsm
<1>1. RInv /\ [Next]_vars => [H!Next]_(H!hsmVars)
  BY NextSim
<1> QED
  BY <1>1, StartsAsHsm, RInvInductive, PTL DEF Spec, ImplementsHsm, H!Spec
=============================================================================
