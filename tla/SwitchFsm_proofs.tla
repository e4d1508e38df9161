--------------------------- MODULE SwitchFsm_proofs --------------------------
(***************************************************************************)
(* The safety properties of the switch machine, for every tree of machines, *)
(* every table, and every choice of the events handled alike in all states *)
(* that InAllStatesAssumption allows.  pfsm->event is not among them: the  *)
(* state function may run a second action in a pass on the event the       *)
(* all-states handler returned.                                            *)
(***************************************************************************)
EXTENDS SwitchFsm, FsmCalls_proofs, WellFoundedInduction

IInv == CallsInv(Controls)

LEMMA ControlFacts ==
    /\ CallControls \subseteq Controls
    /\ {"test", "check", "state", "sub"} \subseteq Free(Controls)
  BY DEF Controls, CallControls, Free

(* Whatever a sub-machine holds when its loop ends, its parent may hold.     *)
LEMMA HandedBackIsVisible ==
    ASSUME NEW c \in Subs, NEW x \in Visible(c)
    PROVE  x \in Visible(Parent[c])
  BY LayoutFacts DEF Visible, OwnEvents, Subs

LEMMA InitIInv == Init => IInv
  BY InitCallsInv, ControlFacts DEF IInv

-----------------------------------------------------------------------------
(* The function that handles events alike in all states, or the state        *)
(* function, runs an action.                                                 *)
LEMMA HandlesStep ==
    ASSUME IInv, NEW m \in Machines, CheckHandles(m) \/ StateFnHandles(m)
    PROVE  IInv'
<1>1. e[m] \in OwnEvents(m)
  BY InAllStatesAssumption DEF CheckHandles, StateFnHandles
<1>2. event' \in [Machines -> Nat]
  BY DEF CheckHandles, StateFnHandles, IInv, CallsInv, ControlInv
<1> QED
  BY <1>1, <1>2, ControlFacts, UserActionStep, SharingActionStep
     DEF CheckHandles, StateFnHandles, IInv

(* The steps by which a pass goes on without an action or a call.            *)
LEMMA PassStep ==
    ASSUME IInv, NEW m \in Machines,
           \/ BeginPass(m) \/ CheckDefault(m) \/ StateFnDefault(m) \/ SkipStateFn(m)
           \/ PastSubMachines(m) \/ NoSubMachine(m)
    PROVE  IInv'
<1>1. /\ e \in [Machines -> Nat] /\ e[m] \in Visible(m) /\ noEvent[m] \in Visible(m)
      /\ event \in [Machines -> Nat]
  BY VisibleFacts DEF IInv, CallsInv, ValuesInv, ControlInv
<1>2. /\ pc[m] \in Free(Controls) /\ pc[m] # "idle"
      /\ UNCHANGED <<state, new_e, sharer>>
      /\ event' \in [Machines -> Nat]
  BY <1>1, ControlFacts DEF BeginPass, CheckDefault, StateFnDefault, SkipStateFn, PastSubMachines,
     NoSubMachine, Goto
<1>3. \E x \in Visible(m) : e' = [e EXCEPT ![m] = x]
  BY <1>1 DEF BeginPass, CheckDefault, StateFnDefault, SkipStateFn, PastSubMachines, NoSubMachine
<1>4. \E there \in Free(Controls) : pc' = [pc EXCEPT ![m] = there]
  BY ControlFacts DEF BeginPass, CheckDefault, StateFnDefault, SkipStateFn, PastSubMachines,
     NoSubMachine, Goto, After
<1> QED
  BY <1>2, <1>3, <1>4, MoveStep DEF IInv

(* The steps that call a sub-machine, end a sharing or make a transition.    *)
LEMMA CallingStep ==
    ASSUME IInv, NEW m \in Machines,
           ShareNext(m) \/ ShareDone(m) \/ Transition(m) \/ FindSubMachine(m)
    PROVE  IInv'
<1>1. CASE ShareNext(m) \/ ShareDone(m)
  BY <1>1, ControlFacts, ShareNextStep, ShareDoneStep DEF IInv
<1>2. CASE Transition(m)
  <2>1. \E there \in Free(Controls) : MakeTransition(m, there)
    BY <1>2, ControlFacts DEF Transition, After
  <2> QED BY <2>1, MakeTransitionStep DEF IInv
<1>3. CASE FindSubMachine(m)
  <2>1. /\ pc[m] \in Free(Controls) /\ pc[m] # "idle" /\ event' \in [Machines -> Nat]
        /\ doNotInhibitSubMachines(m, state[m]) /\ Find(m)
        /\ UNCHANGED <<state, new_e, sharer>>
    BY <1>3, ControlFacts DEF FindSubMachine, IInv, CallsInv, ControlInv
  <2> QED BY <2>1, ControlFacts, FindStep DEF IInv
<1> QED
  BY <1>1, <1>2, <1>3

(* A sub-machine's FSM function returns.                                     *)
LEMMA ReturnStep == ASSUME IInv, NEW m \in Machines, Return(m) PROVE IInv'
<1> DEFINE x == IF e[m] = noEvent[m] THEN noEvent[Parent[m]] ELSE e[m]
<1>1. m \in Subs /\ HandBack(m, x)
  BY DEF Return, HandBackTranslated, HandBack, Subs
<1>2. x \in Visible(Parent[m])
  BY <1>1, HandedBackIsVisible, VisibleFacts, LayoutFacts DEF IInv, CallsInv, ValuesInv
<1> QED
  BY <1>1, <1>2, ControlFacts, HandBackStep DEF IInv

LEMMA NextIInv == IInv /\ [Next]_vars => IInv'
<1> SUFFICES ASSUME IInv, [Next]_vars PROVE IInv'
  OBVIOUS
<1>1. ASSUME NEW m \in Machines, Step(m) PROVE IInv'
  BY <1>1, HandlesStep, PassStep, CallingStep, ReturnStep DEF Step
<1>2. ASSUME (\E x \in AllEvents : Run(x)) \/ Finish PROVE IInv'
  BY <1>2, ControlFacts, RunStep, FinishRunStep DEF IInv, Finish
<1>3. ASSUME UNCHANGED vars PROVE IInv'
  BY <1>3, Stutter DEF IInv
<1> QED
  BY <1>1, <1>2, <1>3 DEF Next

LEMMA Inductive == Spec => []IInv
  BY InitIInv, NextIInv, PTL DEF Spec

-----------------------------------------------------------------------------
(* The variables keep their types, the events the locals hold among them.    *)
THEOREM SwitchTypeCorrect == Spec => []TypeOK
<1>1. IInv => TypeOK
  BY DEF IInv, CallsInv, ValuesInv, ControlInv, TypeOK, CallsTypeOK
<1> QED
  BY <1>1, Inductive, PTL

(* No sub-machine runs below an inhibiting state of the switch machine,      *)
(* except to share an event when the option allows that.                     *)
THEOREM SwitchInhibitionHolds == Spec => []InhibitedSubMachinesAreQuiet
<1>1. IInv => InhibitedSubMachinesAreQuiet
  BY QuietFollows DEF IInv
<1> QED
  BY <1>1, Inductive, PTL

-----------------------------------------------------------------------------
(***************************************************************************)
(* The switch machine implements the abstract hierarchical machine when    *)
(* the state function has a case for whatever the all-states handler gives *)
(* it: StateFnTakesReturns.  Without that it loses events.                 *)
(***************************************************************************)
Lossless == RoutesEveryEvent /\ ReturnsEvents /\ StateFnTakesReturns

USE DEF Subs

(* A set of naturals has a least element.                                    *)
LEMMA LeastExists ==
    ASSUME NEW T \in SUBSET Nat, T # {}
    PROVE  \E x \in T : \A y \in T : x <= y
<1>1. PICK R : R = OpToRel(<, Nat)
  OBVIOUS
<1>2. IsWellFoundedOn(R, Nat)
  BY <1>1, NatLessThanWellFounded
<1>3. PICK x \in T : \A y \in T : ~(<<y, x>> \in R)
  BY <1>2, WFMin
<1>4. \A y \in Nat : y < x => <<y, x>> \in R
  BY <1>1 DEF OpToRel
<1> HIDE <1>1
<1>5. \A y \in T : x <= y
  <2> SUFFICES ASSUME NEW y \in T PROVE x <= y
    OBVIOUS
  <2>1. x \in Nat /\ y \in Nat
    OBVIOUS
  <2>2. ~(y < x)
    BY <1>3, <1>4, <2>1
  <2> QED BY <2>1, <2>2
<1> QED
  BY <1>5

-----------------------------------------------------------------------------
(* Whose events lie in whose range.                                          *)

(* Of two machines above a third, one is above the other.                    *)
LEMMA LineageIsChain ==
    ASSUME NEW d \in Machines, NEW a \in H!Lineage(d), NEW b \in H!Lineage(d)
    PROVE  a \in H!Lineage(b) \/ b \in H!Lineage(a)
<1> DEFINE S == {k \in Machines : a \in H!Lineage(k) \/ k \in H!Lineage(a)}
<1>1. a \in Machines /\ b \in Machines
  BY LineageContains
<1>2. d \in S
  OBVIOUS
<1>3. ASSUME NEW k \in S, k # Top PROVE Parent[k] \in S
  <2>1. k \in Subs /\ Parent[k] \in Machines
    BY <1>3, LayoutFacts
  <2>2. CASE k \in H!Lineage(a)
    BY <1>1, <1>3, <2>1, <2>2, LineageContains
  <2>3. CASE a \in H!Lineage(k) /\ k # a
    <3>1. a \in H!Lineage(Parent[k])
      BY <2>1, <2>3, LineageOfSub
    <3> QED BY <2>1, <3>1
  <2>4. CASE k = a
    BY <1>1, <2>2, <2>4, LineageContains
  <2> QED BY <2>2, <2>3, <2>4
<1>4. S \in SUBSET Machines
  OBVIOUS
<1> HIDE DEF S
<1>5. H!Lineage(d) \subseteq S
  BY <1>2, <1>3, <1>4, LineageLeast
<1>6. b \in S
  BY <1>5
<1> QED
  BY <1>6 DEF S

(* A machine is below at most one of two sub-machines of a machine.          *)
LEMMA SiblingsApart ==
    ASSUME NEW m \in Machines, NEW b \in Children(m), NEW c \in Children(m),
           NEW d \in Machines, b \in H!Lineage(d), c \in H!Lineage(d)
    PROVE  b = c
<1>1. b \in Subs /\ c \in Subs /\ Parent[b] = m /\ Parent[c] = m
  BY DEF Children
<1>2. b \notin H!Lineage(m) /\ c \notin H!Lineage(m)
  BY <1>1, NotAboveItself
<1>3. H!Lineage(b) = {b} \cup H!Lineage(m) /\ H!Lineage(c) = {c} \cup H!Lineage(m)
  BY <1>1, LineageOfSub
<1>4. b \in H!Lineage(c) \/ c \in H!Lineage(b)
  BY LineageIsChain
<1> QED
  BY <1>2, <1>3, <1>4

(* The machine that has a sub-machine above d is above d itself.             *)
LEMMA ParentIsAbove ==
    ASSUME NEW m \in Machines, NEW c \in Children(m), NEW d \in Machines, c \in H!Lineage(d)
    PROVE  m \in H!Lineage(d)
  BY LineageContains DEF Children

(* A value between a machine's first event and its noEvent that is an event  *)
(* is one of that machine's.                                                 *)
LEMMA OwnerInRange ==
    ASSUME NEW c \in Machines, NEW d \in Machines, NEW x \in OwnEvents(d),
           firstEvent[c] <= x, x <= noEvent[c]
    PROVE  d = c /\ x < noEvent[c]
<1>1. x \in firstEvent[c] .. noEvent[c] /\ x \in firstEvent[d] .. noEvent[d]
  BY LayoutFacts DEF OwnEvents
<1>2. d = c
  BY <1>1, EnumerationAssumption
<1> QED
  BY <1>2, LayoutFacts DEF OwnEvents

(* RoutesEveryEvent: a sub-machine whose range has the event; the layout     *)
(* then keeps it on the way to the machine that declares the event.          *)
LEMMA RoutedTo ==
    ASSUME RoutesEveryEvent, NEW m \in Machines, NEW d \in Machines, NEW x \in OwnEvents(d),
           noEvent[m] < x, x <= HighEvent[m]
    PROVE  \E c \in Children(m) : InRange(c, x) /\ x <= HighEvent[c]
<1>1. PICK i \in 1..Len(SubMachines[m]) : InRange(SubMachines[m][i], x)
  BY DEF RoutesEveryEvent
<1>2. SubMachines[m][i] \in Children(m)
  BY TreeAssumption
<1>3. PICK c \in Children(m) : InRange(c, x)
  BY <1>1, <1>2
<1>4. c \in Subs /\ LastOf(c) \in Nat /\ LastOf(c) <= HighEvent[c] /\ x \in Nat
  BY RangeAssumption, LayoutFacts, EventFacts DEF Children, LastOf
<1>5. x <= HighEvent[c]
  BY <1>3, <1>4, LayoutFacts DEF InRange
<1> QED
  BY <1>3, <1>5

(* Then the event's machine is below every machine whose range has it: for   *)
(* one it is not below, there would be a next one, with a larger noEvent,    *)
(* and so on for ever.                                                       *)
LEMMA OwnerIsBelow ==
    ASSUME RoutesEveryEvent, NEW m \in Machines, NEW d \in Machines, NEW x \in OwnEvents(d),
           noEvent[m] < x, x <= HighEvent[m]
    PROVE  m \in H!Lineage(d) /\ m # d
<1> DEFINE B == {a \in Machines : noEvent[a] < x /\ x <= HighEvent[a] /\ a \notin H!Lineage(d)}
           T == {x - noEvent[a] : a \in B}
<1>1. x \in Nat /\ \A a \in Machines : noEvent[a] \in Nat
  BY EventFacts, LayoutFacts
<1>2. m # d
  BY <1>1 DEF OwnEvents
<1>3. ASSUME B # {} PROVE FALSE
  <2>1. T \in SUBSET Nat /\ T # {}
    BY <1>1, <1>3
  <2> HIDE DEF T
  <2>2. PICK t \in T : \A u \in T : t <= u
    BY <2>1, LeastExists
  <2> USE DEF T
  <2>3. PICK a \in B : t = x - noEvent[a]
    BY <2>2
  <2>4. PICK c \in Children(a) : InRange(c, x) /\ x <= HighEvent[c]
    BY <2>3, RoutedTo
  <2>5. c \in Subs /\ Parent[c] = a /\ noEvent[a] < noEvent[c]
    <3>1. c \in Subs /\ Parent[c] = a
      BY <2>4 DEF Children
    <3>2. c \in Machines /\ a \in Machines
      BY <3>1
    <3>3. noEvent[a] < firstEvent[c] /\ firstEvent[c] < noEvent[c]
      BY <3>1, LayoutFacts
    <3>4. noEvent[a] \in Nat /\ firstEvent[c] \in Nat /\ noEvent[c] \in Nat
      BY <3>2, LayoutFacts
    <3> QED BY <3>1, <3>3, <3>4
  <2>6. c \notin H!Lineage(d)
    BY <2>3, <2>4, ParentIsAbove
  <2>7. d # c
    BY <2>6, LineageContains
  <2>8. firstEvent[c] <= x
    BY <2>4 DEF InRange
  <2>9. noEvent[c] < x
    BY <1>1, <2>5, <2>7, <2>8, OwnerInRange
  <2>10. c \in B
    BY <2>4, <2>5, <2>6, <2>9
  <2>11. x - noEvent[c] \in T
    BY <2>10
  <2>12. x - noEvent[a] <= x - noEvent[c]
    BY <2>2, <2>3, <2>11
  <2> QED BY <1>1, <2>5, <2>12, LayoutFacts
<1>4. m \notin B
  BY <1>3
<1> QED
  BY <1>2, <1>4

(* An event in a sub-machine's subtree is below the lastEvent its loop and   *)
(* its caller compare with.                                                  *)
LEMMA EventsBelowLast ==
    ASSUME RoutesEveryEvent, NEW m \in Subs, HasSubs(m), NEW d \in Machines,
           NEW x \in OwnEvents(d), firstEvent[m] <= x, x <= HighEvent[m]
    PROVE  x < lastEvent[m]
<1> DEFINE p == Parent[m]
<1>1. p \in Machines /\ m \in Children(p) /\ x \in Nat
  BY LayoutFacts, EventFacts DEF Children
<1>2. noEvent[p] < x /\ x <= HighEvent[p]
  BY <1>1, LayoutFacts
<1>3. PICK c \in Children(p) : InRange(c, x) /\ x <= HighEvent[c]
  BY <1>1, <1>2, RoutedTo
<1>4. \A b \in Subs : firstEvent[b] <= x /\ x <= HighEvent[b] => b \in H!Lineage(d)
  <2> SUFFICES ASSUME NEW b \in Subs, firstEvent[b] <= x, x <= HighEvent[b]
               PROVE  b \in H!Lineage(d)
    OBVIOUS
  <2>1. CASE x <= noEvent[b]
    BY <2>1, OwnerInRange, LineageContains
  <2>2. CASE noEvent[b] < x
    BY <2>2, OwnerIsBelow
  <2> QED BY <1>1, <2>1, <2>2, LayoutFacts
<1>5. m \in H!Lineage(d) /\ c \in H!Lineage(d)
  BY <1>3, <1>4 DEF InRange, Children
<1>6. c = m
  BY <1>1, <1>5, SiblingsApart
<1> QED
  BY <1>3, <1>6 DEF InRange, LastOf, HasSubs

-----------------------------------------------------------------------------
(* What the locals hold of the events that go through them.                  *)

(* x may be in m's variables: an event of the parent's is one that actions   *)
(* below it return; any other is one the conditions with lastEvent know.     *)
Legal(m, x) == m \in Subs =>
    /\ x \in OwnEvents(Parent[m]) => x \in Answers(Parent[m])
    /\ HasSubs(m) /\ x >= firstEvent[m] => x = noEvent[m] \/ x < lastEvent[m]

(* The top level goes to the all-states handler with events of its own; the  *)
(* state function is called with events it has a case for, or that the state *)
(* inhibits.                                                                 *)
Passing(m) ==
    /\ pc[m] = "check" /\ m = Top => e[m] \in OwnEvents(m)
    /\ pc[m] = "state" /\ CallsStateFn(m) =>
           \/ e[m] \in OwnEvents(m) \ InAllStates[m]
           \/ e[m] \notin OwnEvents(m) /\ m = Top /\ state[m] \in Inhibiting[m]

Sound(m) ==
    /\ Legal(m, e[m]) /\ Legal(m, new_e[m])
    /\ Sharer(m) /\ new_e[m] # noEvent[m] => new_e[m] \in Answers(m)
    /\ Passing(m)

SoundInv == \A m \in Machines : Sound(m)

RInv == SimInv(Controls) /\ SoundInv

(* The events of two machines differ, and from the noEvents.                 *)
LEMMA OwnEventsApart ==
    ASSUME NEW m \in Machines, NEW d \in Machines, m # d
    PROVE  \A x \in OwnEvents(m) \cup {noEvent[m]} : x \notin OwnEvents(d)
<1>1. \A x \in OwnEvents(m) \cup {noEvent[m]} : x \in firstEvent[m] .. noEvent[m]
  BY LayoutFacts DEF OwnEvents
<1>2. \A x \in OwnEvents(d) : x \in firstEvent[d] .. noEvent[d]
  BY LayoutFacts DEF OwnEvents
<1> QED
  BY <1>1, <1>2, EnumerationAssumption

LEMMA OwnIsLegal ==
    ASSUME RoutesEveryEvent, NEW m \in Machines, NEW x \in OwnEvents(m) \cup {noEvent[m]}
    PROVE  Legal(m, x)
<1> SUFFICES ASSUME m \in Subs PROVE Legal(m, x)
  BY DEF Legal
<1>1. Parent[m] \in Machines /\ Parent[m] # m
  BY LayoutFacts
<1>2. x \notin OwnEvents(Parent[m])
  BY <1>1, OwnEventsApart
<1>3. ASSUME HasSubs(m), x # noEvent[m] PROVE x < lastEvent[m]
  <2>1. x \in OwnEvents(m) /\ firstEvent[m] <= x /\ x <= HighEvent[m]
    BY <1>3, LayoutFacts DEF OwnEvents
  <2> QED BY <1>3, <2>1, EventsBelowLast
<1> QED
  BY <1>2, <1>3 DEF Legal

LEMMA FoundIsLegal ==
    ASSUME NEW c \in Subs, NEW x \in Nat, InRange(c, x)
    PROVE  Legal(c, x)
<1>1. x \notin OwnEvents(Parent[c])
  BY LayoutFacts DEF InRange, OwnEvents
<1>2. HasSubs(c) => x < lastEvent[c]
  BY DEF InRange, LastOf, HasSubs
<1> QED
  BY <1>1, <1>2 DEF Legal

LEMMA ReturnedIsLegal ==
    ASSUME Lossless, NEW m \in Machines, NEW y \in OwnEvents(m), NEW s \in States,
           NEW x \in Cell(m, y, s).returns
    PROVE  Legal(m, x)
<1> SUFFICES ASSUME m \in Subs PROVE Legal(m, x)
  BY DEF Legal
<1>1. Parent[m] \in Machines /\ m \in Children(Parent[m])
  BY LayoutFacts DEF Children
<1>2. x \in OwnEvents(Parent[m]) => x \in Answers(Parent[m])
  BY <1>1 DEF Answers
<1>3. x \in Visible(m) /\ x \in Nat
  BY CellAssumption, VisibleFacts
<1>4. x = noEvent[m] \/ \E d \in Machines : x \in OwnEvents(d)
  BY DEF Lossless, ReturnsEvents
<1>5. ASSUME HasSubs(m), x >= firstEvent[m], x # noEvent[m] PROVE x < lastEvent[m]
  <2>1. x <= HighEvent[m]
    BY <1>3, <1>5, LayoutFacts DEF Visible, OwnEvents
  <2> QED BY <1>3, <1>4, <1>5, <2>1, EventsBelowLast, LayoutFacts DEF Lossless
<1> QED
  BY <1>2, <1>5 DEF Legal

(* What is known of a machine whose variables stay stays known.              *)
LEMMA SoundStays ==
    ASSUME SoundInv, NEW a \in Machines,
           pc'[a] = pc[a], state'[a] = state[a], e'[a] = e[a], new_e'[a] = new_e[a]
    PROVE  Sound(a)'
<1>1. Sharer(a)' <=> Sharer(a)
  BY DEF Sharer
<1>2. Passing(a)'
  BY DEF SoundInv, Sound, Passing, CallsStateFn
<1> QED
  BY <1>1, <1>2 DEF SoundInv, Sound, Legal

-----------------------------------------------------------------------------
(* The steps, one by one.                                                    *)

(* A pass goes on without an action or a call: not seen, but for an event    *)
(* that is dropped.                                                          *)
LEMMA MoveSound ==
    ASSUME RInv, RoutesEveryEvent, NEW m \in Machines, NEW there, NEW x,
           AtLoop(pc[m]), AtLoop(there), pc' = [pc EXCEPT ![m] = there],
           x \in {e[m], noEvent[m]}, e' = [e EXCEPT ![m] = x],
           UNCHANGED <<state, new_e, sharer>>,
           there = "check" /\ m = Top => x \in OwnEvents(m),
           there = "state" => x = e[m] /\ (CallsStateFn(m) => e[m] \in OwnEvents(m) \ InAllStates[m])
    PROVE  /\ Kept /\ SoundInv'
           /\ x = e[m] => Unseen
<1>1. /\ pc'[m] = there /\ e'[m] = x /\ new_e'[m] = new_e[m] /\ state'[m] = state[m]
      /\ \A a \in Machines \ {m} : pc'[a] = pc[a] /\ e'[a] = e[a]
  BY DEF RInv, SimInv, CallsInv, ControlInv, ValuesInv
<1>2. Sound(m)'
  <2>1. Legal(m, x) /\ Legal(m, new_e[m])
    BY OwnIsLegal DEF RInv, SoundInv, Sound
  <2>2. ~Sharer(m)'
    BY <1>1 DEF Sharer, AtLoop
  <2>3. Passing(m)'
    BY <1>1 DEF Passing, CallsStateFn
  <2> QED BY <1>1, <2>1, <2>2, <2>3 DEF Sound, Legal
<1>3. SoundInv'
  BY <1>1, <1>2, SoundStays DEF SoundInv, RInv
<1>4. /\ Kept /\ UNCHANGED <<state, [a \in Machines |-> Shares(a)]>>
      /\ Handled = H!Meaning(e[m]) /\ Handled' = H!Meaning(x)
  BY MoveSim DEF RInv
<1> QED
  BY <1>3, <1>4 DEF Unseen, H!hsmVars

(* An event of a machine below an inhibiting one is dropped: Discard; and so *)
(* may be a value that is no event.                                          *)
LEMMA DropSim ==
    ASSUME RInv, RoutesEveryEvent, NEW m \in Machines,
           NoSubMachine(m) \/ StateFnDefault(m)
    PROVE  Kept /\ SoundInv' /\ (H!Next \/ Unseen)
<1> DEFINE there == IF NoSubMachine(m) THEN "test" ELSE After(m)
<1>1. /\ AtLoop(pc[m]) /\ there \in {"test", "sub"} /\ pc' = [pc EXCEPT ![m] = there]
      /\ e' = [e EXCEPT ![m] = noEvent[m]] /\ UNCHANGED <<state, new_e, sharer>>
  BY DEF NoSubMachine, StateFnDefault, Goto, After, AtLoop
<1>2. AtLoop(there) /\ there # "check" /\ there # "state"
  BY <1>1 DEF AtLoop
<1> HIDE DEF there
<1>3. Kept /\ SoundInv'
  BY <1>1, <1>2, MoveSound
<1>4. /\ UNCHANGED <<state, [a \in Machines |-> Shares(a)]>>
      /\ Handled = H!Meaning(e[m]) /\ Handled' = -1
  BY <1>1, <1>2, MoveSim, EventFacts DEF RInv
<1>5. e[m] \in Visible(m) /\ e[m] \in Nat
  BY DEF RInv, SimInv, CallsInv, ValuesInv
<1>6. ASSUME NEW d \in Machines, e[m] \in OwnEvents(d)
      PROVE  noEvent[m] < e[m] /\ e[m] <= HighEvent[m] /\ state[m] \in Inhibiting[m]
  <2>1. CASE NoSubMachine(m)
    <3>1. noEvent[m] < e[m]
      BY <2>1 DEF NoSubMachine, ForSubMachines
    <3>2. e[m] <= HighEvent[m]
      BY <1>5, <3>1, LayoutFacts DEF Visible, OwnEvents
    <3>3. ~FindsNone(m, e[m])
      BY <1>6, <3>1, <3>2 DEF RoutesEveryEvent, FindsNone
    <3> QED BY <2>1, <3>1, <3>2, <3>3 DEF NoSubMachine, doNotInhibitSubMachines
  <2>2. CASE StateFnDefault(m)
    <3>1. e[m] \notin OwnEvents(m) /\ m = Top /\ state[m] \in Inhibiting[m]
      BY <2>2 DEF StateFnDefault, Goto, RInv, SoundInv, Sound, Passing
    <3>2. e[m] # noEvent[m]
      BY <1>6, <3>1, OwnEventsApart
    <3>3. firstEvent[m] <= e[m] /\ e[m] <= HighEvent[m]
      BY <1>5, <3>1, LayoutFacts DEF Visible
    <3> QED BY <1>5, <3>1, <3>2, <3>3, LayoutFacts DEF OwnEvents
  <2> QED BY <2>1, <2>2
<1>7. ASSUME NEW d \in Machines, e[m] \in OwnEvents(d) PROVE H!Discard(d)
  <2>1. m \in H!Lineage(d) /\ m # d
    BY <1>6, <1>7, OwnerIsBelow
  <2>2. \A k \in Machines : H!Above[k] = H!Lineage(k) \ {k}
    BY DEF H!Above
  <2>3. ~Sharer(m) /\ H!InScope(m)
    <3>1. ~Sharer(m)
      BY <1>1 DEF Sharer, AtLoop
    <3> QED BY <1>1, <3>1, AtWork DEF RInv, AtLoop
  <2>4. \A a \in Machines : a \in H!Lineage(m) => a \in H!Lineage(d)
    <3>1. H!Lineage(m) \subseteq H!Lineage(d)
      BY <2>1, LineageContains, LineageLeast
    <3> QED BY <3>1
  <2>5. H!InScope(d)
    <3> SUFFICES ASSUME NEW a \in H!Open PROVE d \in H!Below(a)
      BY DEF H!InScope
    <3>1. a \in Machines /\ a \in H!Above[m]
      BY <2>3 DEF H!InScope, H!Below, H!Open
    <3>2. a # d
      BY <2>1, <2>2, <3>1, AboveIsAntisymmetric
    <3> QED BY <2>2, <2>4, <3>1, <3>2 DEF H!Below
  <2>6. H!Inhibited(d)
    <3>1. m \notin H!Open
      BY <2>3, OpenFacts DEF RInv, SimInv
    <3> QED BY <1>6, <1>7, <2>1, <2>2, <3>1 DEF H!Inhibited
  <2>7. Handled = e[m] /\ Handled \in H!OwnEvents(d)
    BY <1>4, <1>7, EventFacts, SameTables
  <2> QED BY <1>4, <2>5, <2>6, <2>7, SameTables DEF H!Discard
<1>8. ASSUME \A d \in Machines : e[m] \notin OwnEvents(d) PROVE Unseen
  <2>1. Handled = -1
    BY <1>4, <1>8, EventFacts
  <2> QED BY <1>4, <2>1 DEF Unseen, H!hsmVars
<1> QED
  BY <1>3, <1>7, <1>8 DEF H!Next, H!Work

(* The other steps of a pass that run no action and call nobody.             *)
LEMMA PassSim ==
    ASSUME RInv, RoutesEveryEvent, NEW m \in Machines,
           BeginPass(m) \/ CheckDefault(m) \/ SkipStateFn(m) \/ PastSubMachines(m)
    PROVE  Kept /\ SoundInv' /\ Unseen
<1>1. e[m] \in Visible(m) /\ e[m] \in Nat /\ e' = [e EXCEPT ![m] = e[m]]
      /\ UNCHANGED <<state, new_e, sharer>> /\ AtLoop(pc[m])
  BY DEF BeginPass, CheckDefault, SkipStateFn, PastSubMachines, Goto, AtLoop, RInv, SimInv,
     CallsInv, ValuesInv
<1>2. \E there : /\ AtLoop(there) /\ pc' = [pc EXCEPT ![m] = there]
                 /\ there = "check" /\ m = Top => e[m] \in OwnEvents(m)
                 /\ there = "state" /\ CallsStateFn(m) => e[m] \in OwnEvents(m) \ InAllStates[m]
  <2>1. CASE BeginPass(m)
    <3> DEFINE there == IF m = Top /\ HasSubs(m) /\ e[m] >= noEvent[m] THEN "sub" ELSE "check"
    <3>1. there \in {"sub", "check"} /\ pc' = [pc EXCEPT ![m] = there]
      BY <2>1 DEF BeginPass, Goto
    <3>2. there = "check" /\ m = Top => e[m] \in OwnEvents(m)
      BY <1>1, <2>1, LayoutFacts DEF BeginPass, Looping, HasSubs, Visible, OwnEvents
    <3> HIDE DEF there
    <3> QED BY <3>1, <3>2 DEF AtLoop
  <2>2. CASE CheckDefault(m)
    <3>1. CallsStateFn(m) => e[m] \in OwnEvents(m) \ InAllStates[m]
      BY <2>2 DEF CheckDefault, Goto, CallsStateFn, RInv, SoundInv, Sound, Passing
    <3> QED BY <2>2, <3>1 DEF CheckDefault, Goto, AtLoop
  <2>3. CASE SkipStateFn(m) \/ PastSubMachines(m)
    BY <2>3 DEF SkipStateFn, PastSubMachines, Goto, After, AtLoop
  <2> QED BY <2>1, <2>2, <2>3
<1> QED
  BY <1>1, <1>2, MoveSound

(* An action runs, of the all-states handler or of the state function.       *)
LEMMA HandlesSim ==
    ASSUME RInv, Lossless, NEW m \in Machines, CheckHandles(m) \/ StateFnHandles(m)
    PROVE  Kept /\ SoundInv' /\ (H!Next \/ Unseen)
<1>1. e[m] \in OwnEvents(m) /\ state[m] \in States
  BY InAllStatesAssumption DEF CheckHandles, StateFnHandles, RInv, SimInv, CallsInv, ControlInv
<1>2. AtLoop(pc[m]) /\ (UserAction(m, pc[m]) \/ SharingAction(m, pc[m]))
  BY DEF CheckHandles, StateFnHandles, UserAction, SharingAction, Goto, AtLoop
<1>3. CASE UserAction(m, pc[m])
  <2>1. PICK y \in Cell(m, e[m], state[m]).returns : new_e' = [new_e EXCEPT ![m] = y]
    BY <1>3 DEF UserAction
  <2>2. /\ pc'[m] = "transition" /\ e' = e /\ state' = state /\ new_e'[m] = y
        /\ ~Cell(m, e[m], state[m]).shares
        /\ \A a \in Machines \ {m} : pc'[a] = pc[a] /\ new_e'[a] = new_e[a]
    BY <1>3, <2>1 DEF UserAction, Goto, RInv, SimInv, CallsInv, ControlInv, ValuesInv
  <2>3. Legal(m, e[m]) /\ Legal(m, y)
    BY <1>1, ReturnedIsLegal DEF RInv, SoundInv, Sound
  <2>4. Sound(m)'
    BY <2>2, <2>3 DEF Sound, Legal, Sharer, Passing
  <2>5. SoundInv'
    BY <2>2, <2>4, SoundStays DEF SoundInv, RInv
  <2> QED BY <1>2, <1>3, <2>5, UserActionSim DEF RInv
<1>4. CASE SharingAction(m, pc[m])
  <2>1. /\ pc'[m] \in {"sharing", "transition"} /\ e' = e /\ state' = state
        /\ new_e'[m] = noEvent[m]
        /\ \A a \in Machines \ {m} : pc'[a] = pc[a] /\ new_e'[a] = new_e[a]
    BY <1>4 DEF SharingAction, Goto, RInv, SimInv, CallsInv, ControlInv, ValuesInv
  <2>2. Legal(m, e[m]) /\ Legal(m, noEvent[m])
    BY OwnIsLegal DEF Lossless, RInv, SoundInv, Sound
  <2>3. Sound(m)'
    BY <2>1, <2>2 DEF Sound, Legal, Passing
  <2>4. SoundInv'
    BY <2>1, <2>3, SoundStays DEF SoundInv, RInv
  <2> QED BY <1>1, <1>2, <1>4, <2>4, ShareSim DEF RInv, H!Next, H!Work
<1> QED
  BY <1>2, <1>3, <1>4

(* The transition.  What goes on to the state function is what               *)
(* StateFnTakesReturns speaks of.                                            *)
LEMMA TransitionSound ==
    ASSUME RInv, Lossless, NEW m \in Machines, Transition(m)
    PROVE  Kept /\ SoundInv' /\ (H!Next \/ Unseen)
<1> DEFINE there == IF e[m] \in InAllStates[m] /\ new_e[m] # noEvent[m] THEN "state" ELSE After(m)
<1>1. there \in {"state", "test", "sub"} /\ MakeTransition(m, there)
  BY DEF Transition, After
<1>2. there = "state" => e[m] \in InAllStates[m] /\ new_e[m] # noEvent[m]
  BY DEF After
<1> HIDE DEF there
<1>3. PICK s \in Cell(m, e[m], state[m]).next : state' = [state EXCEPT ![m] = s]
  BY <1>1 DEF MakeTransition
<1>4. /\ pc[m] = "transition" /\ pc'[m] = there /\ e'[m] = new_e[m] /\ new_e'[m] = noEvent[m]
      /\ state'[m] = s
      /\ \A a \in Machines \ {m} : /\ pc'[a] = pc[a] /\ e'[a] = e[a]
                                   /\ new_e'[a] = new_e[a] /\ state'[a] = state[a]
  BY <1>1, <1>3 DEF MakeTransition, Goto, RInv, SimInv, CallsInv, ControlInv, ValuesInv
<1>5. there = "state" => \/ new_e[m] \in OwnEvents(m) \ InAllStates[m]
                         \/ new_e[m] \notin OwnEvents(m) /\ (m = Top => s \in Inhibiting[m])
  <2> SUFFICES ASSUME there = "state"
               PROVE  \/ new_e[m] \in OwnEvents(m) \ InAllStates[m]
                      \/ new_e[m] \notin OwnEvents(m) /\ (m = Top => s \in Inhibiting[m])
    OBVIOUS
  <2> DEFINE cell == Cell(m, e[m], state[m])
  <2>1. new_e[m] \in IF cell.shares THEN Answers(m) ELSE cell.returns \ {noEvent[m]}
    BY <1>2, <1>4 DEF RInv, SoundInv, Sound, Sharer, SimInv, ResultInv
  <2>2. e[m] \in InAllStates[m] /\ state[m] \in States
    BY <1>2 DEF RInv, SimInv, CallsInv, ControlInv
  <2>3. \/ new_e[m] \in OwnEvents(m) \ InAllStates[m]
        \/ new_e[m] \notin OwnEvents(m) /\ (m = Top => cell.next \subseteq Inhibiting[m])
    BY <2>1, <2>2 DEF Lossless, StateFnTakesReturns
  <2> QED BY <1>3, <2>3
<1>6. Sound(m)'
  <2>1. Legal(m, new_e[m]) /\ Legal(m, noEvent[m])
    BY OwnIsLegal DEF Lossless, RInv, SoundInv, Sound
  <2>2. ~Sharer(m)'
    BY <1>1, <1>4 DEF Sharer
  <2>3. Passing(m)'
    BY <1>1, <1>4, <1>5 DEF Passing, CallsStateFn
  <2> QED BY <1>4, <2>1, <2>2, <2>3 DEF Sound, Legal
<1>7. SoundInv'
  BY <1>4, <1>6, SoundStays DEF SoundInv, RInv
<1>8. AtLoop(there)
  BY <1>1 DEF AtLoop
<1> QED
  BY <1>1, <1>7, <1>8, TransitionSim DEF RInv, H!Next, H!Work

(* A sharing goes on, or ends.                                               *)
LEMMA SharingSound ==
    ASSUME RInv, Lossless, NEW m \in Machines, ShareNext(m) \/ ShareDone(m)
    PROVE  Kept /\ SoundInv' /\ (H!Next \/ Unseen)
<1>1. CASE ShareNext(m)
  <2> DEFINE s == SharersOf(m, e[m])[sharer[m]]
  <2>1. s.fsm \in Machines /\ s.fsm # m /\ s.event \in OwnEvents(s.fsm)
    BY <1>1, SharerFacts DEF ShareNext, RInv, SimInv
  <2>2. PICK c \in Machines : c = s.fsm
    BY <2>1
  <2>3. PICK x \in OwnEvents(c) : x = s.event
    BY <2>1, <2>2
  <2>4. /\ pc[m] = "sharing" /\ pc' = [pc EXCEPT ![m] = "shared", ![c] = "test"]
        /\ e' = [e EXCEPT ![c] = x] /\ UNCHANGED <<state, new_e>> /\ c # m
    BY <1>1, <2>1, <2>2, <2>3 DEF ShareNext, Call
  <2>5. /\ pc'[m] = "shared" /\ pc'[c] = "test" /\ e'[m] = e[m] /\ e'[c] = x
        /\ \A a \in Machines \ {m, c} : pc'[a] = pc[a] /\ e'[a] = e[a]
    BY <2>4 DEF RInv, SimInv, CallsInv, ControlInv, ValuesInv
  <2>6. Sound(m)'
    BY <2>4, <2>5 DEF RInv, SoundInv, Sound, Legal, Sharer, Passing
  <2>7. Sound(c)'
    <3>1. Legal(c, x) /\ Legal(c, new_e[c])
      BY OwnIsLegal DEF Lossless, RInv, SoundInv, Sound
    <3> QED BY <2>4, <2>5, <3>1 DEF Sound, Legal, Sharer, Passing
  <2>8. SoundInv'
    BY <2>4, <2>5, <2>6, <2>7, SoundStays DEF SoundInv, RInv
  <2> QED BY <1>1, <2>8, PassOnSim DEF RInv, H!Next, H!Work
<1>2. CASE ShareDone(m)
  <2>1. /\ pc[m] = "sharing" /\ pc'[m] = "transition"
        /\ UNCHANGED <<state, e, new_e>> /\ \A a \in Machines \ {m} : pc'[a] = pc[a]
    BY <1>2 DEF ShareDone, Goto, RInv, SimInv, CallsInv, ControlInv
  <2>2. Sound(m)'
    BY <2>1 DEF RInv, SoundInv, Sound, Legal, Sharer, Passing
  <2>3. SoundInv'
    BY <2>1, <2>2, SoundStays DEF SoundInv, RInv
  <2> QED BY <1>2, <2>3, ShareDoneSim DEF RInv
<1> QED
  BY <1>1, <1>2

(* The finder calls the sub-machine that has the event in its range.         *)
LEMMA FindSound ==
    ASSUME RInv, NEW m \in Machines, FindSubMachine(m)
    PROVE  Kept /\ SoundInv' /\ Unseen
<1>1. PICK i \in 1..Len(SubMachines[m]) :
          InRange(SubMachines[m][i], e[m]) /\ Call(m, SubMachines[m][i], e[m], "finding")
  BY DEF FindSubMachine, Find, Finds
<1>2. SubMachines[m][i] \in Children(m)
  BY TreeAssumption
<1>3. PICK c \in Children(m) : c = SubMachines[m][i]
  BY <1>2
<1>4. c \in Subs /\ c \in Machines /\ c # m /\ e[m] \in Nat /\ InRange(c, e[m])
  BY <1>1, <1>3, LayoutFacts DEF Children, RInv, SimInv, CallsInv, ValuesInv
<1>5. /\ pc[m] = "sub" /\ pc' = [pc EXCEPT ![m] = "finding", ![c] = "test"]
      /\ e' = [e EXCEPT ![c] = e[m]] /\ UNCHANGED <<state, new_e>>
  BY <1>1, <1>3 DEF FindSubMachine, Call
<1>6. /\ pc'[m] = "finding" /\ pc'[c] = "test" /\ e'[m] = e[m] /\ e'[c] = e[m]
      /\ \A a \in Machines \ {m, c} : pc'[a] = pc[a] /\ e'[a] = e[a]
  BY <1>4, <1>5 DEF RInv, SimInv, CallsInv, ControlInv, ValuesInv
<1>7. Sound(m)'
  BY <1>5, <1>6 DEF RInv, SoundInv, Sound, Legal, Sharer, Passing
<1>8. Sound(c)'
  <2>1. Legal(c, e[m]) /\ Legal(c, new_e[c])
    BY <1>4, FoundIsLegal DEF RInv, SoundInv, Sound
  <2> QED BY <1>5, <1>6, <2>1 DEF Sound, Legal, Sharer, Passing
<1>9. SoundInv'
  BY <1>4, <1>5, <1>6, <1>7, <1>8, SoundStays DEF SoundInv, RInv
<1>10. AtLoop(pc[m]) /\ Find(m) /\ UNCHANGED <<state, new_e, sharer>>
  BY <1>5 DEF FindSubMachine, AtLoop
<1> QED
  BY <1>9, <1>10, FindSim DEF RInv

(* A sub-machine returns: that there is no event, or one of its parent's.    *)
LEMMA ReturnSound ==
    ASSUME RInv, Lossless, NEW m \in Machines, Return(m)
    PROVE  Kept /\ SoundInv' /\ Unseen
<1> DEFINE z == IF e[m] = noEvent[m] THEN noEvent[Parent[m]] ELSE e[m]
<1>1. m \in Subs /\ ~Looping(m) /\ HandBack(m, z)
  BY DEF Return, HandBackTranslated, HandBack
<1>2. PICK p \in Machines : p = Parent[m] /\ p # m
  BY <1>1, LayoutFacts
<1>3. PICK x : x = z
  OBVIOUS
<1>4. /\ x \in OwnEvents(p) \cup {noEvent[p]} /\ H!Meaning(x) = H!Meaning(e[m])
      /\ x # noEvent[p] => x \in Answers(p)
  <2>1. CASE e[m] = noEvent[m]
    BY <1>2, <1>3, <2>1, EventFacts
  <2>2. CASE e[m] # noEvent[m]
    <3>1. e[m] \in Visible(m) /\ e[m] \in Nat /\ Legal(m, e[m])
      BY DEF RInv, SimInv, CallsInv, ValuesInv, SoundInv, Sound
    <3>2. ~(e[m] >= firstEvent[m])
      BY <1>1, <2>2, <3>1, LayoutFacts DEF Looping, Legal
    <3>3. e[m] \in OwnEvents(p)
      BY <1>1, <1>2, <2>2, <3>1, <3>2, ReturnedIsVisible
    <3> QED BY <1>1, <1>2, <1>3, <2>2, <3>1, <3>3 DEF Legal
  <2> QED BY <2>1, <2>2
<1>5. Legal(p, x) /\ Legal(m, noEvent[m])
  BY <1>4, OwnIsLegal DEF Lossless
<1>6. HandBack(m, x) /\ pc[m] = "test" /\ state' = state
  BY <1>1, <1>3 DEF HandBack
<1> HIDE DEF z
<1>7. ASSUME pc[p] = "finding",
             pc' = [pc EXCEPT ![m] = "idle", ![p] = "test"],
             e' = [e EXCEPT ![m] = noEvent[m], ![p] = x],
             UNCHANGED new_e
      PROVE  SoundInv'
  <2>1. /\ pc'[m] = "idle" /\ pc'[p] = "test" /\ e'[p] = x /\ e'[m] = noEvent[m]
        /\ \A a \in Machines \ {m, p} : pc'[a] = pc[a] /\ e'[a] = e[a]
    BY <1>2, <1>7 DEF RInv, SimInv, CallsInv, ControlInv, ValuesInv
  <2>2. Legal(p, new_e[p]) /\ Legal(m, new_e[m])
    BY DEF RInv, SoundInv, Sound
  <2>3. Sound(m)' /\ Sound(p)'
    BY <1>5, <1>7, <2>1, <2>2 DEF Sound, Legal, Sharer, Passing
  <2>4. \A a \in Machines \ {m, p} : Sound(a)'
    BY <1>6, <1>7, <2>1, SoundStays DEF RInv
  <2> QED BY <2>3, <2>4 DEF SoundInv
<1>8. ASSUME pc[p] = "shared",
             pc' = [pc EXCEPT ![m] = "idle", ![p] = "sharing"],
             e' = [e EXCEPT ![m] = noEvent[m]],
             new_e' = [new_e EXCEPT ![p] = x]
      PROVE  SoundInv'
  <2>1. /\ pc'[m] = "idle" /\ pc'[p] = "sharing" /\ e'[p] = e[p] /\ e'[m] = noEvent[m]
        /\ new_e'[p] = x /\ new_e'[m] = new_e[m]
        /\ \A a \in Machines \ {m, p} : pc'[a] = pc[a] /\ e'[a] = e[a] /\ new_e'[a] = new_e[a]
    BY <1>2, <1>8 DEF RInv, SimInv, CallsInv, ControlInv, ValuesInv
  <2>2. Legal(p, e[p]) /\ Legal(m, new_e[m])
    BY DEF RInv, SoundInv, Sound
  <2>3. Sound(m)' /\ Sound(p)'
    BY <1>4, <1>5, <2>1, <2>2 DEF Sound, Legal, Sharer, Passing
  <2>4. \A a \in Machines \ {m, p} : Sound(a)'
    BY <1>6, <2>1, SoundStays DEF RInv
  <2> QED BY <2>3, <2>4 DEF SoundInv
<1>9. SoundInv'
  BY <1>2, <1>6, <1>7, <1>8 DEF HandBack
<1>10. Kept /\ Unseen
  BY <1>1, <1>2, <1>4, <1>6, HandBackSim DEF RInv
<1> QED
  BY <1>9, <1>10

(* The program calls the machine; the machine returns to it.                 *)
LEMMA CallSound ==
    ASSUME RInv, (\E x \in AllEvents : Run(x)) \/ Finish
    PROVE  Kept /\ SoundInv' /\ (H!Next \/ Unseen)
<1>1. Top \in Machines
  BY LayoutFacts
<1>2. /\ pc'[Top] \in {"test", "idle"} /\ UNCHANGED <<state, new_e>>
      /\ \A a \in Machines \ {Top} : pc'[a] = pc[a] /\ e'[a] = e[a]
  BY <1>1 DEF Run, Finish, FinishRun, Goto, RInv, SimInv, CallsInv, ControlInv, ValuesInv
<1>3. Sound(Top)'
  BY <1>2 DEF Sound, Legal, Sharer, Passing
<1>4. SoundInv'
  BY <1>2, <1>3, SoundStays DEF SoundInv, RInv
<1>5. CASE \E x \in AllEvents : Run(x)
  BY <1>4, <1>5, RunSim DEF RInv
<1>6. CASE Finish
  BY <1>4, <1>6, FinishSim DEF RInv, Finish, Looping
<1> QED
  BY <1>5, <1>6

LEMMA NextSim ==
    Lossless /\ RInv /\ [Next]_vars => RInv' /\ [H!Next]_(H!hsmVars)
<1> SUFFICES ASSUME Lossless, RInv, [Next]_vars
             PROVE  RInv' /\ (H!Next \/ Unseen)
  BY DEF Unseen
<1>1. IInv'
  BY NextIInv DEF RInv, SimInv, IInv
<1>2. ASSUME NEW m \in Machines, Step(m) PROVE Kept /\ SoundInv' /\ (H!Next \/ Unseen)
  BY <1>2, HandlesSim, PassSim, DropSim, TransitionSound, SharingSound, FindSound, ReturnSound
     DEF Lossless, Step
<1>3. ASSUME UNCHANGED vars PROVE Kept /\ SoundInv' /\ Unseen
  <2>1. SoundInv'
    BY <1>3, SoundStays DEF SoundInv, RInv, vars
  <2> QED BY <1>3, <2>1, StutterSim DEF RInv
<1> QED
  BY <1>1, <1>2, <1>3, CallSound DEF Next, Kept, RInv, SimInv, IInv

(* A step that ends a sub-machine's call is a return.                        *)
LEMMA EndsByReturn ==
    ASSUME IInv, [Next]_vars, NEW c \in Subs, pc[c] # "idle", pc'[c] = "idle"
    PROVE  \E m \in Machines : Return(m)
<1>1. ASSUME NEW m \in Machines, Step(m), ~Return(m) PROVE pc'[c] # "idle"
  <2>1. CASE ShareNext(m)
    <3>1. SharersOf(m, e[m])[sharer[m]].fsm \in Machines
      BY <2>1, SharerFacts DEF IInv, ShareNext
    <3>2. \E d \in Machines : pc' = [pc EXCEPT ![m] = "shared", ![d] = "test"]
      BY <2>1, <3>1 DEF ShareNext, Call
    <3> QED BY <2>1, <3>2, OnlyReturnsEnd DEF ShareNext, IInv
  <2>2. CASE FindSubMachine(m)
    <3>1. PICK i \in 1..Len(SubMachines[m]) : Call(m, SubMachines[m][i], e[m], "finding")
      BY <2>2 DEF FindSubMachine, Find
    <3>2. SubMachines[m][i] \in Machines
      BY TreeAssumption DEF Children, Subs
    <3>3. \E d \in Machines : pc' = [pc EXCEPT ![m] = "finding", ![d] = "test"]
      BY <3>1, <3>2 DEF Call
    <3> QED BY <2>2, <3>3, OnlyReturnsEnd DEF FindSubMachine, IInv
  <2>3. CASE ~ShareNext(m) /\ ~FindSubMachine(m)
    <3>1. pc[m] # "idle" /\ \E there \in Controls \ {"idle"} : pc' = [pc EXCEPT ![m] = there]
      BY <1>1, <2>3 DEF Step, BeginPass, CheckHandles, CheckDefault, StateFnHandles, StateFnDefault,
         SkipStateFn, UserAction, SharingAction, ShareDone, Transition, MakeTransition,
         PastSubMachines, NoSubMachine, After, Goto, Controls, CallControls
    <3> QED BY <3>1, OnlyReturnsEnd DEF IInv
  <2> QED BY <2>1, <2>2, <2>3
<1>2. ASSUME (\E x \in AllEvents : Run(x)) \/ Finish PROVE pc'[c] # "idle"
  BY <1>2 DEF Run, Finish, FinishRun, Goto, Subs, IInv, CallsInv, ControlInv
<1> QED
  BY <1>1, <1>2 DEF Next, vars

(* A sub-machine returns its caller's noEvent or an event of the caller's.   *)
LEMMA ReturnsOwn ==
    ASSUME RInv, NEW m \in Machines, Return(m)
    PROVE  \E x \in OwnEvents(Parent[m]) \cup {noEvent[Parent[m]]} : HandBack(m, x)
<1>1. m \in Subs /\ ~Looping(m)
  BY DEF Return, HandBackTranslated, HandBack
<1>2. ASSUME e[m] # noEvent[m] PROVE e[m] \in OwnEvents(Parent[m])
  <2>1. e[m] \in Visible(m) /\ e[m] \in Nat /\ Legal(m, e[m])
    BY DEF RInv, SimInv, CallsInv, ValuesInv, SoundInv, Sound
  <2>2. ~(e[m] >= firstEvent[m])
    BY <1>1, <1>2, <2>1, LayoutFacts DEF Looping, Legal
  <2> QED BY <1>1, <1>2, <2>1, <2>2, ReturnedIsVisible
<1> QED
  BY <1>2 DEF Return, HandBackTranslated

LEMMA StartsAsHsm == RoutesEveryEvent /\ Init => RInv /\ H!Init
<1> SUFFICES ASSUME RoutesEveryEvent, Init PROVE RInv /\ H!Init
  OBVIOUS
<1>1. SimInv(Controls) /\ H!Init
  BY InitSim, ControlFacts
<1>2. ASSUME NEW m \in Machines PROVE Sound(m)
  <2>1. Legal(m, noEvent[m])
    BY OwnIsLegal
  <2>2. pc[m] = "idle" /\ e[m] = noEvent[m] /\ new_e[m] = noEvent[m]
    BY DEF Init
  <2> QED BY <2>1, <2>2 DEF Sound, Sharer, Passing
<1> QED
  BY <1>1, <1>2 DEF RInv, SoundInv

(* Nor does a sub-machine of the switch machine return to its caller an      *)
(* event of another machine, or its own noEvent: all that reaches the end of *)
(* a loop lies on the right side of lastEvent.                               *)
THEOREM SwitchReturnsAreForTheCaller ==
    ASSUME RoutesEveryEvent, ReturnsEvents, StateFnTakesReturns
    PROVE  Spec => ReturnsToTheCaller
<1>1. ASSUME RInv, [Next]_vars, NEW c \in Subs, pc[c] # "idle", pc'[c] = "idle"
      PROVE  (IF pc[Parent[c]] = "finding" THEN e'[Parent[c]] ELSE new_e'[Parent[c]])
                 \in OwnEvents(Parent[c]) \cup {noEvent[Parent[c]]}
  <2>1. PICK m \in Machines : Return(m)
    BY <1>1, EndsByReturn DEF RInv, SimInv, IInv
  <2>2. PICK x \in OwnEvents(Parent[m]) \cup {noEvent[Parent[m]]} : HandBack(m, x)
    BY <1>1, <2>1, ReturnsOwn
  <2>3. m \in Subs
    BY <2>1 DEF Return, HandBackTranslated, HandBack, Subs
  <2> QED
    BY <1>1, <2>2, <2>3, HandsOver DEF RInv, SimInv
<1>2. RInv /\ [Next]_vars =>
          [\A c \in Subs :
              LET p == Parent[c]
              IN  pc[c] # "idle" /\ pc'[c] = "idle" =>
                      (IF pc[p] = "finding" THEN e'[p] ELSE new_e'[p])
                          \in OwnEvents(p) \cup {noEvent[p]}]_vars
  BY <1>1
<1>3. Init => RInv
  BY StartsAsHsm
<1>4. RInv /\ [Next]_vars => RInv'
  BY NextSim DEF Lossless
<1> QED
  BY <1>2, <1>3, <1>4, PTL DEF Spec, ReturnsToTheCaller

(* Whatever the tree of machines, the tables and the user's actions, when    *)
(* the state function has a case for what the all-states handler gives it,   *)
(* the switch machine does what Hsm promises: events go to the machine that  *)
(* declares them, in its current state; none is lost; shared events visit    *)
(* the sharers in order.                                                     *)
THEOREM SwitchImplementsHsm ==
    ASSUME RoutesEveryEvent, ReturnsEvents, StateFnTakesReturns
    PROVE  Spec => ImplementsHsm
<1>1. Lossless
  BY DEF Lossless
<1>2. Init => RInv /\ H!Init
  BY <1>1, StartsAsHsm DEF Lossless
<1>3. RInv /\ [Next]_vars => RInv' /\ [H!Next]_(H!hsmVars)
  BY <1>1, NextSim
<1> QED
  BY <1>2, <1>3, PTL DEF Spec, ImplementsHsm, H!Spec
=============================================================================
