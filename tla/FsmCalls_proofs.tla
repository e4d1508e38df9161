--------------------------- MODULE FsmCalls_proofs ---------------------------
(***************************************************************************)
(* What the calls between machines preserve, whichever generator wrote     *)
(* them: for every tree of machines whose enumeration has the layout       *)
(* LayoutAssumption states, every table and every behaviour of the user's  *)
(* actions.  The proofs about each generator's loop use these lemmas.      *)
(***************************************************************************)
EXTENDS HsmMapping, SequenceTheorems, TLAPS

(* What the locals may hold: values of the subtree, or a parent's event.    *)
ValuesInv ==
    /\ e \in [Machines -> Nat] /\ new_e \in [Machines -> Nat]
    /\ \A m \in Machines : e[m] \in Visible(m) /\ new_e[m] \in Visible(m)

ControlInv(Controls) ==
    /\ state \in [Machines -> States]
    /\ event \in [Machines -> Nat]
    /\ pc \in [Machines -> Controls]
    /\ sharer \in [Machines -> Nat]

(* Once an action has started, the event is one of the machine's own.        *)
OwnInv == \A m \in Machines :
              pc[m] \in {"sharing", "shared", "transition"} => e[m] \in OwnEvents(m)

(* A machine is waiting on, or about to call, a sub-machine only in a state  *)
(* that permits it.                                                          *)
PermitInv == \A m \in Machines :
    /\ pc[m] = "finding" => doNotInhibitSubMachines(m, state[m])
    /\ pc[m] \in {"sharing", "shared"} =>
           InhibitingStatesShareEvents \/ doNotInhibitSubMachines(m, state[m])

(* The cursor into the list of sharers starts at the first of them.          *)
CursorInv == \A m \in Machines : pc[m] \in {"sharing", "shared"} => sharer[m] >= 1

(* A running sub-machine has a caller waiting for it, the only one it called. *)
OneThreadOfControl ==
    \A c \in Subs :
        pc[c] # "idle" =>
            /\ pc[Parent[c]] \in {"finding", "shared"}
            /\ \A d \in Children(Parent[c]) : pc[d] # "idle" => d = c

CallsInv(Controls) ==
    ValuesInv /\ ControlInv(Controls) /\ OwnInv /\ PermitInv /\ CursorInv /\ OneThreadOfControl

(* The parts that speak of one machine's variables.                          *)
PerMachine(Controls) ==
    ValuesInv /\ ControlInv(Controls) /\ OwnInv /\ PermitInv /\ CursorInv

(* Where a function stands that waits for nobody and runs no action.         *)
Free(Controls) == Controls \ {"finding", "sharing", "shared", "transition"}

USE DEF Subs

-----------------------------------------------------------------------------
(* The layout, unfolded: a parent's own events lie below its sub-machine's   *)
(* values, and a sub-machine's values lie within its parent's.               *)
LEMMA LayoutFacts ==
    /\ Top \in Machines
    /\ \A m \in Machines : /\ firstEvent[m] \in Nat /\ noEvent[m] \in Nat
                           /\ lastEvent[m] \in Nat /\ HighEvent[m] \in Nat
                           /\ firstEvent[m] < noEvent[m] /\ noEvent[m] <= HighEvent[m]
                           /\ SubMachines[m] = <<>> => HighEvent[m] = noEvent[m]
    /\ \A c \in Subs : /\ Parent[c] \in Machines /\ Parent[c] # c
                       /\ noEvent[Parent[c]] < firstEvent[c]
                       /\ HighEvent[c] <= HighEvent[Parent[c]]
  BY LayoutAssumption

(* The values a machine may hold are event values; its noEvent is one.       *)
LEMMA VisibleFacts ==
    ASSUME NEW m \in Machines
    PROVE  /\ noEvent[m] \in Visible(m)
           /\ OwnEvents(m) \subseteq Visible(m)
           /\ Visible(m) \subseteq Nat
  BY LayoutFacts DEF Visible, OwnEvents

(* A sub-machine's FSM function returns its own noEvent, which is translated, *)
(* or an event of its parent.                                                 *)
LEMMA ReturnedIsVisible ==
    ASSUME NEW c \in Subs, NEW x \in Visible(c), ~(x # noEvent[c] /\ x >= firstEvent[c]),
           x # noEvent[c]
    PROVE  x \in OwnEvents(Parent[c])
  BY LayoutFacts DEF Visible, OwnEvents

(* The finder calls a sub-machine with a value of that sub-machine's subtree. *)
LEMMA FoundIsVisible ==
    ASSUME NEW m \in Machines, NEW i \in 1..Len(SubMachines[m]), NEW x \in Nat,
           Finds(m, i, x)
    PROVE  /\ SubMachines[m][i] \in Children(m)
           /\ x \in Visible(SubMachines[m][i])
<1> DEFINE c == SubMachines[m][i]
<1>1. c \in Children(m)
  BY TreeAssumption
<1>2. c \in Subs
  BY <1>1 DEF Children
<1>3. firstEvent[c] <= x /\ x < LastOf(c) /\ LastOf(c) <= HighEvent[c]
  BY <1>2, RangeAssumption DEF Finds, InRange
<1>4. LastOf(c) \in Nat
  BY <1>2, LayoutFacts DEF LastOf
<1> QED
  BY <1>1, <1>2, <1>3, <1>4, LayoutFacts DEF Visible

-----------------------------------------------------------------------------
(* All machines start in their initial states, idle and without a caller.    *)
LEMMA InitCallsInv ==
    ASSUME NEW Controls, CallControls \subseteq Controls, Init
    PROVE  CallsInv(Controls)
<1>1. ValuesInv
  BY LayoutAssumption, VisibleFacts DEF Init, ValuesInv
<1>2. ControlInv(Controls)
  BY LayoutAssumption, CellAssumption DEF Init, ControlInv, CallControls
<1>3. OwnInv /\ PermitInv /\ CursorInv
  BY DEF Init, OwnInv, PermitInv, CursorInv
<1>4. OneThreadOfControl
  BY LayoutFacts DEF Init, OneThreadOfControl
<1> QED
  BY <1>1, <1>2, <1>3, <1>4 DEF CallsInv

(* A step in which only m's control moves, between points at which m waits   *)
(* for nobody, or by which it is called by the program.                      *)
LEMMA LocalThread ==
    ASSUME NEW Controls, pc \in [Machines -> Controls], OneThreadOfControl,
           NEW m \in Machines, NEW there,
           pc[m] \notin {"finding", "shared"}, pc[m] # "idle" \/ m = Top,
           pc' = [pc EXCEPT ![m] = there]
    PROVE  OneThreadOfControl'
<1>1. \A c \in Subs : pc'[c] # "idle" => pc[c] # "idle"
  OBVIOUS
<1> SUFFICES ASSUME NEW c \in Subs, pc'[c] # "idle"
             PROVE  /\ pc'[Parent[c]] \in {"finding", "shared"}
                    /\ \A d \in Children(Parent[c]) : pc'[d] # "idle" => d = c
  BY DEF OneThreadOfControl
<1>2. /\ pc[Parent[c]] \in {"finding", "shared"}
      /\ \A d \in Children(Parent[c]) : pc[d] # "idle" => d = c
  BY <1>1 DEF OneThreadOfControl
<1>3. Parent[c] # m /\ Parent[c] \in Machines
  BY <1>2, LayoutFacts
<1>4. pc'[Parent[c]] = pc[Parent[c]]
  BY <1>3
<1> QED
  BY <1>1, <1>2, <1>4 DEF Children

(* A step in which m calls its sub-machine c.                                *)
LEMMA CallThread ==
    ASSUME NEW Controls, pc \in [Machines -> Controls], OneThreadOfControl,
           NEW m \in Machines, NEW c \in Children(m),
           NEW there \in {"finding", "shared"},
           pc[m] \notin {"idle", "finding", "shared"},
           pc' = [pc EXCEPT ![m] = there, ![c] = "test"]
    PROVE  OneThreadOfControl' /\ pc[c] = "idle"
<1>1. c \in Subs /\ Parent[c] = m /\ c # m
  BY LayoutFacts DEF Children
<1>2. \A d \in Children(m) : pc[d] = "idle"
  BY DEF OneThreadOfControl, Children
<1>3. \A d \in Subs : Parent[d] = c => pc[d] = "idle"
  BY <1>1, <1>2 DEF OneThreadOfControl
<1>4. \A d \in Machines \ {m, c} : pc'[d] = pc[d]
  OBVIOUS
<1>5. pc'[m] = there /\ pc'[c] = "test"
  BY <1>1
<1> SUFFICES ASSUME NEW k \in Subs, pc'[k] # "idle"
             PROVE  /\ pc'[Parent[k]] \in {"finding", "shared"}
                    /\ \A d \in Children(Parent[k]) : pc'[d] # "idle" => d = k
  BY <1>1, <1>2 DEF OneThreadOfControl
<1>6. CASE k = c
  <2>1. \A d \in Children(m) \ {c} : d # m /\ d \in Machines
    BY LayoutFacts DEF Children
  <2> QED BY <1>1, <1>2, <1>4, <1>5, <1>6, <2>1
<1>7. CASE k # c
  <2>1. pc[k] # "idle"
    BY <1>4, <1>7
  <2>2. Parent[k] # c /\ Parent[k] # m /\ Parent[k] \in Machines
    BY <1>2, <1>3, <1>7, <2>1, LayoutFacts DEF Children
  <2>3. /\ pc[Parent[k]] \in {"finding", "shared"}
        /\ \A d \in Children(Parent[k]) : pc[d] # "idle" => d = k
    BY <2>1 DEF OneThreadOfControl
  <2>4. \A d \in Children(Parent[k]) : d # c /\ (pc'[d] # "idle" => pc[d] # "idle")
    BY <1>1, <1>4, <2>2 DEF Children
  <2> QED BY <1>4, <2>2, <2>3, <2>4
<1> QED
  BY <1>6, <1>7

(* A step by which the sub-machine c returns to m, which waits for it.        *)
LEMMA ReturnThread ==
    ASSUME NEW Controls, pc \in [Machines -> Controls], OneThreadOfControl,
           NEW c \in Subs, NEW there,
           pc[c] = "test", pc' = [pc EXCEPT ![c] = "idle", ![Parent[c]] = there]
    PROVE  OneThreadOfControl'
<1> DEFINE m == Parent[c]
<1>1. m \in Machines /\ m # c
  BY LayoutFacts
<1>2. \A d \in Children(m) : pc[d] # "idle" => d = c
  BY DEF OneThreadOfControl
<1>3. /\ pc'[c] = "idle" /\ pc'[m] = there
      /\ \A d \in Machines \ {m, c} : pc'[d] = pc[d]
  BY <1>1
<1>4. \A d \in Subs : Parent[d] = c => pc[d] = "idle"
  BY DEF OneThreadOfControl
<1> SUFFICES ASSUME NEW k \in Subs, pc'[k] # "idle"
             PROVE  /\ pc'[Parent[k]] \in {"finding", "shared"}
                    /\ \A d \in Children(Parent[k]) : pc'[d] # "idle" => d = k
  BY DEF OneThreadOfControl
<1>5. k # c /\ pc[k] # "idle"
  BY <1>1, <1>3 DEF OneThreadOfControl
<1>6. Parent[k] \in Machines /\ Parent[k] # c /\ Parent[k] # m
  BY <1>2, <1>4, <1>5, LayoutFacts DEF Children
<1>7. /\ pc[Parent[k]] \in {"finding", "shared"}
      /\ \A d \in Children(Parent[k]) : pc[d] # "idle" => d = k
  BY <1>5 DEF OneThreadOfControl
<1>8. \A d \in Children(Parent[k]) : pc'[d] # "idle" => pc[d] # "idle"
  BY <1>1, <1>3 DEF OneThreadOfControl, Children
<1> QED
  BY <1>3, <1>6, <1>7, <1>8

-----------------------------------------------------------------------------
(* The steps the generators share, one by one.                               *)

(* run_<machine>: the program calls the top-level FSM function.              *)
LEMMA RunStep ==
    ASSUME NEW Controls, CallControls \subseteq Controls, CallsInv(Controls),
           NEW x \in AllEvents, Run(x)
    PROVE  CallsInv(Controls)'
<1>1. x \in Visible(Top) /\ x \in Nat
  BY LayoutFacts DEF AllEvents, Visible
<1>2. PerMachine(Controls)'
  BY <1>1, LayoutFacts DEF PerMachine, CallsInv, Run, Goto, ValuesInv, ControlInv, CallControls,
     OwnInv, PermitInv, CursorInv
<1>3. OneThreadOfControl'
  BY LayoutFacts, LocalThread DEF Run, Goto, CallsInv, ControlInv
<1> QED
  BY <1>2, <1>3 DEF CallsInv, PerMachine

(* m moves on by itself, its event being kept or made noEvent.               *)
LEMMA MoveStep ==
    ASSUME NEW Controls, CallsInv(Controls),
           NEW m \in Machines, NEW there \in Free(Controls), NEW x \in Visible(m),
           pc[m] \in Free(Controls), pc[m] # "idle",
           pc' = [pc EXCEPT ![m] = there],
           e' = [e EXCEPT ![m] = x],
           event' \in [Machines -> Nat],
           UNCHANGED <<state, new_e, sharer>>
    PROVE  CallsInv(Controls)'
<1>1. x \in Nat
  BY VisibleFacts
<1>2. PerMachine(Controls)'
  BY <1>1 DEF PerMachine, CallsInv, ValuesInv, ControlInv, OwnInv, PermitInv, CursorInv, Free
<1>3. OneThreadOfControl'
  BY LocalThread DEF CallsInv, ControlInv, Free
<1> QED
  BY <1>2, <1>3 DEF CallsInv, PerMachine

(* The action of the cell runs; it returns an event.                         *)
LEMMA UserActionStep ==
    ASSUME NEW Controls, CallControls \subseteq Controls, CallsInv(Controls),
           NEW m \in Machines, NEW here \in Free(Controls), here # "idle",
           e[m] \in OwnEvents(m), UserAction(m, here), event' \in [Machines -> Nat]
    PROVE  CallsInv(Controls)'
<1>1. Cell(m, e[m], state[m]).returns \subseteq Visible(m) /\ Visible(m) \subseteq Nat
  BY CellAssumption, VisibleFacts DEF CallsInv, ControlInv
<1>2. PerMachine(Controls)'
  BY <1>1 DEF PerMachine, CallsInv, UserAction, Goto, ValuesInv, ControlInv, CallControls,
     OwnInv, PermitInv, CursorInv
<1>3. OneThreadOfControl'
  BY LocalThread DEF UserAction, Goto, CallsInv, ControlInv, Free
<1> QED
  BY <1>2, <1>3 DEF CallsInv, PerMachine

(* The action of a shared event starts a pass over the sharers.              *)
LEMMA SharingActionStep ==
    ASSUME NEW Controls, CallControls \subseteq Controls, CallsInv(Controls),
           NEW m \in Machines, NEW here \in Free(Controls), here # "idle",
           e[m] \in OwnEvents(m), SharingAction(m, here), event' \in [Machines -> Nat]
    PROVE  CallsInv(Controls)'
<1> DEFINE there == IF InhibitingStatesShareEvents \/ doNotInhibitSubMachines(m, state[m])
                    THEN "sharing" ELSE "transition"
<1>1. noEvent[m] \in Visible(m) /\ noEvent[m] \in Nat
  BY VisibleFacts, LayoutFacts
<1>2. there \in Controls /\ pc[m] = here /\ pc' = [pc EXCEPT ![m] = there]
  BY DEF SharingAction, Goto, CallControls
<1>3. /\ UNCHANGED <<state, e>> /\ new_e' = [new_e EXCEPT ![m] = noEvent[m]]
      /\ sharer' = [sharer EXCEPT ![m] = 1]
  BY DEF SharingAction
<1>4. ValuesInv' /\ ControlInv(Controls)'
  BY <1>1, <1>2, <1>3 DEF CallsInv, ValuesInv, ControlInv
<1>5. OwnInv' /\ PermitInv' /\ CursorInv'
  BY <1>2, <1>3 DEF CallsInv, ControlInv, OwnInv, PermitInv, CursorInv,
     doNotInhibitSubMachines
<1>6. OneThreadOfControl'
  BY <1>2, LocalThread DEF CallsInv, ControlInv, Free
<1> QED
  BY <1>4, <1>5, <1>6 DEF CallsInv

(* The sharer the cursor stands at is a sub-machine, its event one of its own. *)
LEMMA SharerFacts ==
    ASSUME NEW Controls, CallsInv(Controls), NEW m \in Machines,
           pc[m] = "sharing", MoreSharers(m)
    PROVE  LET s == SharersOf(m, e[m])[sharer[m]]
           IN  /\ e[m] \in OwnEvents(m) /\ sharer[m] \in Nat
               /\ sharer[m] \in 1..Len(SharersOf(m, e[m]))
               /\ s.fsm \in Children(m) /\ s.fsm \in Machines \ {Top}
               /\ s.fsm # m /\ Parent[s.fsm] = m
               /\ s.event \in OwnEvents(s.fsm)
               /\ s.event \in Visible(s.fsm) /\ s.event \in Nat
<1> DEFINE s == SharersOf(m, e[m])[sharer[m]]
<1>1. e[m] \in OwnEvents(m)
  BY DEF CallsInv, OwnInv
<1>2. sharer[m] \in 1..Len(SharersOf(m, e[m])) /\ sharer[m] \in Nat
  BY <1>1, SharingAssumption DEF MoreSharers, CallsInv, ControlInv, CursorInv
<1>3. s.fsm \in Children(m) /\ s.event \in OwnEvents(s.fsm)
  BY <1>1, <1>2, SharingAssumption
<1>4. s.fsm \in Subs /\ s.fsm # m /\ Parent[s.fsm] = m
  BY <1>3, LayoutFacts DEF Children
<1>5. s.event \in Visible(s.fsm) /\ s.event \in Nat
  BY <1>3, <1>4, VisibleFacts
<1> QED
  BY <1>1, <1>2, <1>3, <1>4, <1>5

(* The next sharer is called.                                                *)
LEMMA ShareNextStep ==
    ASSUME NEW Controls, CallControls \subseteq Controls, CallsInv(Controls),
           NEW m \in Machines, ShareNext(m)
    PROVE  CallsInv(Controls)'
<1> DEFINE s == SharersOf(m, e[m])[sharer[m]]
<1>1. /\ e[m] \in OwnEvents(m) /\ sharer[m] \in Nat
      /\ s.fsm \in Children(m) /\ s.fsm \in Subs /\ s.fsm # m /\ Parent[s.fsm] = m
      /\ s.event \in Visible(s.fsm) /\ s.event \in Nat
  BY SharerFacts DEF ShareNext
<1>2. pc[m] = "sharing" /\ pc' = [pc EXCEPT ![m] = "shared", ![s.fsm] = "test"]
  BY DEF ShareNext, Call
<1>3. OneThreadOfControl' /\ pc[s.fsm] = "idle"
  BY <1>1, <1>2, CallThread DEF CallsInv, ControlInv
<1>4. e' = [e EXCEPT ![s.fsm] = s.event] /\ sharer' = [sharer EXCEPT ![m] = @ + 1]
      /\ UNCHANGED <<state, event, new_e>>
  BY DEF ShareNext, Call
<1> HIDE DEF s
<1>5. ValuesInv' /\ ControlInv(Controls)'
  <2>1. e' \in [Machines -> Nat] /\ \A d \in Machines : e'[d] \in Visible(d)
    BY <1>1, <1>4 DEF CallsInv, ValuesInv
  <2>2. sharer' \in [Machines -> Nat]
    BY <1>1, <1>4 DEF CallsInv, ControlInv
  <2>3. pc' \in [Machines -> Controls]
    BY <1>2 DEF CallsInv, ControlInv, CallControls
  <2> QED
    BY <1>4, <2>1, <2>2, <2>3 DEF CallsInv, ValuesInv, ControlInv
<1>6. OwnInv'
  BY <1>1, <1>2, <1>4 DEF CallsInv, ValuesInv, ControlInv, OwnInv
<1>7. PermitInv' /\ CursorInv'
  BY <1>1, <1>2, <1>4 DEF CallsInv, ControlInv, PermitInv, CursorInv, doNotInhibitSubMachines
<1> QED
  BY <1>3, <1>5, <1>6, <1>7 DEF CallsInv

(* The pass over the sharers ends; its result is the event to handle.        *)
LEMMA ShareDoneStep ==
    ASSUME NEW Controls, CallControls \subseteq Controls, CallsInv(Controls),
           NEW m \in Machines, ShareDone(m)
    PROVE  CallsInv(Controls)'
<1>1. PerMachine(Controls)'
  BY DEF PerMachine, CallsInv, ShareDone, Goto, ValuesInv, ControlInv, CallControls,
     OwnInv, PermitInv, CursorInv
<1>2. OneThreadOfControl'
  BY LocalThread DEF ShareDone, Goto, CallsInv, ControlInv
<1> QED
  BY <1>1, <1>2 DEF CallsInv, PerMachine

(* The machine moves to the state of the cell.                               *)
LEMMA MakeTransitionStep ==
    ASSUME NEW Controls, CallsInv(Controls),
           NEW m \in Machines, NEW there \in Free(Controls), MakeTransition(m, there)
    PROVE  CallsInv(Controls)'
<1>1. e[m] \in OwnEvents(m)
  BY DEF MakeTransition, Goto, CallsInv, OwnInv
<1>2. Cell(m, e[m], state[m]).next \subseteq States
  BY <1>1, CellAssumption DEF CallsInv, ControlInv
<1>3. noEvent[m] \in Visible(m) /\ noEvent[m] \in Nat
  BY VisibleFacts, LayoutFacts
<1>4. PerMachine(Controls)'
  BY <1>2, <1>3 DEF PerMachine, CallsInv, MakeTransition, Goto, ValuesInv, ControlInv,
     OwnInv, PermitInv, CursorInv, Free
<1>5. OneThreadOfControl'
  BY LocalThread DEF MakeTransition, Goto, CallsInv, ControlInv
<1> QED
  BY <1>4, <1>5 DEF CallsInv, PerMachine

(* The finder calls the sub-machine that has the event.                      *)
LEMMA FindStep ==
    ASSUME NEW Controls, CallControls \subseteq Controls, CallsInv(Controls),
           NEW m \in Machines, pc[m] \in Free(Controls), pc[m] # "idle",
           doNotInhibitSubMachines(m, state[m]), Find(m),
           event' \in [Machines -> Nat], UNCHANGED <<state, new_e, sharer>>
    PROVE  CallsInv(Controls)'
<1>1. PICK i \in 1..Len(SubMachines[m]) :
          Finds(m, i, e[m]) /\ Call(m, SubMachines[m][i], e[m], "finding")
  BY DEF Find
<1> DEFINE c == SubMachines[m][i]
<1>2. e[m] \in Nat
  BY DEF CallsInv, ValuesInv
<1>3. c \in Children(m) /\ e[m] \in Visible(c)
  BY <1>1, <1>2, FoundIsVisible
<1>4. c \in Subs /\ c # m /\ Parent[c] = m
  BY <1>3, LayoutFacts DEF Children
<1>5. /\ pc' = [pc EXCEPT ![m] = "finding", ![c] = "test"]
      /\ e' = [e EXCEPT ![c] = e[m]]
  BY <1>1 DEF Call
<1>6. OneThreadOfControl' /\ pc[c] = "idle"
  BY <1>3, <1>5, CallThread DEF CallsInv, ControlInv, Free
<1>7. PerMachine(Controls)'
  BY <1>2, <1>3, <1>4, <1>5, <1>6 DEF PerMachine, CallsInv, ValuesInv, ControlInv,
     CallControls, OwnInv, PermitInv, CursorInv, doNotInhibitSubMachines
<1> QED
  BY <1>6, <1>7 DEF CallsInv, PerMachine

(* A sub-machine's FSM function returns a value its caller may hold.         *)
LEMMA HandBackStep ==
    ASSUME NEW Controls, CallControls \subseteq Controls, CallsInv(Controls),
           NEW m \in Machines, NEW x, m # Top => x \in Visible(Parent[m]), HandBack(m, x)
    PROVE  CallsInv(Controls)'
<1> DEFINE p == Parent[m]
<1>1. m \in Subs /\ pc[m] = "test" /\ UNCHANGED <<state, event, sharer>>
  BY DEF HandBack
<1>2. p \in Machines /\ p # m /\ x \in Visible(p) /\ x \in Nat
  BY <1>1, LayoutFacts, VisibleFacts
<1>3. noEvent[m] \in Visible(m) /\ noEvent[m] \in Nat
  BY VisibleFacts, LayoutFacts
<1>4. CASE /\ pc[p] = "finding"
           /\ pc' = [pc EXCEPT ![m] = "idle", ![p] = "test"]
           /\ e' = [e EXCEPT ![m] = noEvent[m], ![p] = x]
           /\ UNCHANGED new_e
  <2>1. OneThreadOfControl'
    BY <1>1, <1>4, ReturnThread DEF CallsInv, ControlInv
  <2>2. PerMachine(Controls)'
    BY <1>1, <1>2, <1>3, <1>4 DEF PerMachine, CallsInv, ValuesInv, ControlInv, CallControls,
       OwnInv, PermitInv, CursorInv
  <2> QED BY <2>1, <2>2 DEF CallsInv, PerMachine
<1>5. CASE /\ pc[p] = "shared"
           /\ pc' = [pc EXCEPT ![m] = "idle", ![p] = "sharing"]
           /\ e' = [e EXCEPT ![m] = noEvent[m]]
           /\ new_e' = [new_e EXCEPT ![p] = x]
  <2>1. OneThreadOfControl'
    BY <1>1, <1>5, ReturnThread DEF CallsInv, ControlInv
  <2>2. PerMachine(Controls)'
    BY <1>1, <1>2, <1>3, <1>5 DEF PerMachine, CallsInv, ValuesInv, ControlInv, CallControls,
       OwnInv, PermitInv, CursorInv
  <2> QED BY <2>1, <2>2 DEF CallsInv, PerMachine
<1> QED
  BY <1>4, <1>5 DEF HandBack

(* The top-level FSM function returns to the program.                        *)
LEMMA FinishRunStep ==
    ASSUME NEW Controls, CallControls \subseteq Controls, CallsInv(Controls), FinishRun
    PROVE  CallsInv(Controls)'
<1>1. PerMachine(Controls)'
  BY LayoutFacts DEF PerMachine, CallsInv, FinishRun, Goto, ValuesInv, ControlInv, CallControls,
     OwnInv, PermitInv, CursorInv
<1>2. OneThreadOfControl'
  BY LayoutFacts, LocalThread DEF FinishRun, Goto, CallsInv, ControlInv
<1> QED
  BY <1>1, <1>2 DEF CallsInv, PerMachine

(* A step that leaves the variables alone.                                   *)
LEMMA Stutter ==
    ASSUME NEW Controls, CallsInv(Controls), UNCHANGED vars
    PROVE  CallsInv(Controls)'
  BY DEF vars, CallsInv, ValuesInv, ControlInv, OwnInv, PermitInv, CursorInv, OneThreadOfControl

-----------------------------------------------------------------------------
(* What follows from the invariant, whatever the loop.                       *)
LEMMA QuietFollows ==
    ASSUME NEW Controls, CallsInv(Controls)
    PROVE  InhibitedSubMachinesAreQuiet
<1> SUFFICES ASSUME NEW c \in Subs, pc[c] # "idle"
             PROVE  \/ doNotInhibitSubMachines(Parent[c], state[Parent[c]])
                    \/ InhibitingStatesShareEvents /\ pc[Parent[c]] = "shared"
  BY DEF InhibitedSubMachinesAreQuiet
<1>1. pc[Parent[c]] \in {"finding", "shared"} /\ Parent[c] \in Machines
  BY LayoutFacts DEF CallsInv, OneThreadOfControl
<1> QED
  BY <1>1 DEF CallsInv, PermitInv

(* The steps that end a sub-machine's call are the returns.                  *)
LEMMA OnlyReturnsEnd ==
    ASSUME NEW Controls, CallsInv(Controls), NEW c \in Subs, pc[c] # "idle",
           NEW m \in Machines, pc[m] # "idle", NEW there, there # "idle",
           \/ pc' = [pc EXCEPT ![m] = there]
           \/ \E d \in Machines : pc' = [pc EXCEPT ![m] = there, ![d] = "test"]
    PROVE  pc'[c] # "idle"
  BY DEF CallsInv, ControlInv

(* A return hands x to the caller, through e or through new_e.               *)
LEMMA HandsOver ==
    ASSUME NEW Controls, CallsInv(Controls), NEW m \in Subs, NEW x, HandBack(m, x),
           NEW c \in Subs, pc[c] # "idle", pc'[c] = "idle"
    PROVE  c = m /\ (IF pc[Parent[c]] = "finding" THEN e'[Parent[c]] ELSE new_e'[Parent[c]]) = x
<1>1. Parent[m] \in Machines /\ Parent[m] # m
  BY LayoutFacts
<1>2. c = m
  BY <1>1 DEF HandBack, CallsInv, ControlInv
<1> QED
  BY <1>1, <1>2 DEF HandBack, CallsInv, ValuesInv

-----------------------------------------------------------------------------
(***************************************************************************)
(* How the running FSM functions show the abstract hierarchical machine:   *)
(* Hsm's variables are those HsmMapping computes from them, and a step that *)
(* the generators share is the step of Hsm that is named, or leaves Hsm's  *)
(* variables alone.  No value of the enumeration may be used twice.        *)
(***************************************************************************)
Active == {m \in Machines : pc[m] # "idle"}

(* Between calls nothing runs; during a call the active machines are one     *)
(* machine that waits for nobody, those above it, which wait, and no other.  *)
IsInnermost(r) == Running = {r} /\ Active = H!Lineage(r) /\ Top \in Active
ChainInv == Active = {} \/ \E r \in Machines : IsInnermost(r)

(* While m passes an event on, the cell it found in its array is the one of  *)
(* its event and state; what it has got back is an event of its own, or none. *)
ShareInv == \A m \in Machines :
    /\ pc[m] \in {"sharing", "shared"} => Cell(m, e[m], state[m]).shares
    /\ Sharer(m) => new_e[m] \in OwnEvents(m) \cup {noEvent[m]}

(* After the action, new_e is what the cell's action may return; with an     *)
(* event passed on and none returned, there is no sharer left.               *)
ResultInv == \A m \in Machines : pc[m] = "transition" =>
    IF Cell(m, e[m], state[m]).shares
    THEN new_e[m] = noEvent[m] => Shares(m).left = <<>>
    ELSE new_e[m] \in Cell(m, e[m], state[m]).returns

SimInv(Controls) == CallsInv(Controls) /\ ChainInv /\ ShareInv /\ ResultInv


-----------------------------------------------------------------------------
(* Lineages: a machine, its parent, and so on up.                            *)
LEMMA LineageContains ==
    ASSUME NEW m \in Machines
    PROVE  /\ m \in H!Lineage(m)
           /\ H!Lineage(m) \subseteq Machines
           /\ \A a \in H!Lineage(m) : a # Top => Parent[a] \in H!Lineage(m)
<1>1. m \in H!Lineage(m) /\ H!Lineage(m) \subseteq Machines
  BY DEF H!Lineage
<1>2. ASSUME NEW a \in H!Lineage(m), a # Top PROVE Parent[a] \in H!Lineage(m)
  <2>1. Parent[a] \in Machines
    BY <1>1, <1>2, LayoutFacts
  <2>2. ASSUME NEW S \in SUBSET Machines, m \in S, H!UpClosed(S) PROVE Parent[a] \in S
    <3>1. a \in S /\ a \in Machines
      BY <2>2, <1>1 DEF H!Lineage
    <3> QED BY <1>2, <2>2, <3>1 DEF H!UpClosed, H!Subs
  <2> QED BY <2>1, <2>2 DEF H!Lineage
<1> QED
  BY <1>1, <1>2

(* A lineage is contained in every set that is closed and has the machine.   *)
LEMMA LineageLeast ==
    ASSUME NEW m \in Machines, NEW S \in SUBSET Machines, m \in S,
           \A a \in S : a # Top => Parent[a] \in S
    PROVE  H!Lineage(m) \subseteq S
  BY DEF H!Lineage, H!UpClosed, H!Subs

LEMMA LineageOfTop == H!Lineage(Top) = {Top}
<1>1. Top \in Machines
  BY LayoutFacts
<1>2. H!Lineage(Top) \subseteq {Top}
  BY <1>1, LineageLeast
<1> QED
  BY <1>1, <1>2, LineageContains

(* The lineage of a sub-machine is the machine and its parent's lineage.     *)
LEMMA LineageOfSub ==
    ASSUME NEW c \in Subs
    PROVE  H!Lineage(c) = {c} \cup H!Lineage(Parent[c])
<1> DEFINE p == Parent[c]
<1>1. c \in Machines /\ p \in Machines
  BY LayoutFacts
<1>2. /\ H!Lineage(p) \subseteq Machines /\ p \in H!Lineage(p)
      /\ \A a \in H!Lineage(p) : a # Top => Parent[a] \in H!Lineage(p)
  BY <1>1, LineageContains
<1>3. H!Lineage(c) \subseteq {c} \cup H!Lineage(p)
  <2> DEFINE S == {c} \cup H!Lineage(p)
  <2>1. S \in SUBSET Machines /\ c \in S
    BY <1>1, <1>2
  <2>2. \A a \in S : a # Top => Parent[a] \in S
    BY <1>2
  <2> HIDE DEF S
  <2>3. H!Lineage(c) \subseteq S
    BY <1>1, <2>1, <2>2, LineageLeast
  <2> QED BY <2>3 DEF S
<1>4. /\ c \in H!Lineage(c) /\ H!Lineage(c) \subseteq Machines
      /\ \A a \in H!Lineage(c) : a # Top => Parent[a] \in H!Lineage(c)
  BY <1>1, LineageContains
<1>5. H!Lineage(p) \subseteq H!Lineage(c)
  BY <1>1, <1>4, LineageLeast
<1> QED
  BY <1>3, <1>4, <1>5

(* Going up, the values of the noEvents get smaller: no machine is above     *)
(* itself, and of two machines at most one is above the other.               *)
LEMMA LineageDescends ==
    ASSUME NEW c \in Subs, NEW a \in H!Lineage(Parent[c])
    PROVE  a \in Machines /\ noEvent[a] < noEvent[c]
<1> DEFINE p == Parent[c]
           S == {d \in Machines : noEvent[d] <= noEvent[p]}
<1>1. c \in Machines /\ p \in Machines /\ noEvent[p] < noEvent[c]
  BY LayoutFacts
<1>2. p \in S /\ S \in SUBSET Machines
  BY <1>1, LayoutFacts
<1>3. \A d \in S : d # Top => Parent[d] \in S
  BY <1>1, LayoutFacts
<1> HIDE DEF S
<1>4. H!Lineage(p) \subseteq S
  BY <1>1, <1>2, <1>3, LineageLeast
<1>5. a \in S
  BY <1>4
<1> QED
  BY <1>1, <1>5, LayoutFacts DEF S

LEMMA NotAboveItself ==
    ASSUME NEW c \in Subs
    PROVE  c \notin H!Lineage(Parent[c]) /\ H!Lineage(c) \ {c} = H!Lineage(Parent[c])
<1>1. c \notin H!Lineage(Parent[c])
  <2> SUFFICES ASSUME c \in H!Lineage(Parent[c]) PROVE FALSE
    OBVIOUS
  <2> QED BY LineageDescends, LayoutFacts
<1> QED
  BY <1>1, LineageOfSub

LEMMA AboveIsAntisymmetric ==
    ASSUME NEW m \in Machines, NEW a \in H!Above[m]
    PROVE  a \in Machines /\ a # m /\ m \notin H!Above[a]
<1>1. \A d \in Machines : H!Above[d] = H!Lineage(d) \ {d}
  BY DEF H!Above
<1>2. \A d \in Machines : \A b \in H!Above[d] : b \in Machines /\ noEvent[b] < noEvent[d]
  <2> SUFFICES ASSUME NEW d \in Machines, NEW b \in H!Above[d]
               PROVE  b \in Machines /\ noEvent[b] < noEvent[d]
    OBVIOUS
  <2>1. d # Top
    BY <1>1, LineageOfTop
  <2>2. b \in H!Lineage(Parent[d])
    BY <1>1, <2>1, NotAboveItself
  <2> QED BY <2>1, <2>2, LineageDescends
<1>3. a \in Machines /\ noEvent[a] < noEvent[m] /\ noEvent[a] \in Nat /\ noEvent[m] \in Nat
  BY <1>2, LayoutFacts
<1> QED
  BY <1>2, <1>3


-----------------------------------------------------------------------------
(* Hsm speaks of the same tables.                                            *)
LEMMA SameTables ==
    /\ \A m : H!OwnEvents(m) = OwnEvents(m)
    /\ \A m, x, s : H!Cell(m, x, s) = Cell(m, x, s)
    /\ \A m, x : H!SharersOf(m, x) = SharersOf(m, x)
    /\ H!NoEvent = -1 /\ H!Closed = [event |-> -1, left |-> <<>>]
  BY DEF H!OwnEvents, OwnEvents, H!Cell, Cell, H!SharersOf, SharersOf, H!NoEvent, H!Closed

(* An event belongs to one machine; a noEvent to none.                       *)
LEMMA EventFacts ==
    /\ \A x : H!Meaning(x) = IF \E d \in Machines : x \in OwnEvents(d) THEN x ELSE -1
    /\ \A m \in Machines : \A x \in OwnEvents(m) :
          x \in Nat /\ x \in H!Declared /\ H!Meaning(x) = x /\ H!Owner(x) = m
    /\ \A m \in Machines : H!Meaning(noEvent[m]) = -1
<1>1. \A x : x \in H!Declared <=> \E d \in Machines : x \in OwnEvents(d)
  BY SameTables DEF H!Declared
<1>2. \A x : H!Meaning(x) = IF \E d \in Machines : x \in OwnEvents(d) THEN x ELSE -1
  BY <1>1, SameTables DEF H!Meaning
<1>3. ASSUME NEW m \in Machines, NEW x \in OwnEvents(m)
      PROVE  x \in Nat /\ x \in H!Declared /\ H!Meaning(x) = x /\ H!Owner(x) = m
  <2>1. x \in Nat
    BY LayoutFacts DEF OwnEvents
  <2>2. \A d \in Machines : x \in OwnEvents(d) => d = m
    BY LayoutFacts, EnumerationAssumption DEF OwnEvents
  <2>3. H!Owner(x) = m
    BY <2>2, SameTables DEF H!Owner
  <2> QED BY <1>1, <1>2, <2>1, <2>3
<1>4. ASSUME NEW m \in Machines, NEW d \in Machines PROVE noEvent[m] \notin OwnEvents(d)
  <2>1. noEvent[m] \in firstEvent[m] .. noEvent[m] /\ OwnEvents(d) \subseteq firstEvent[d] .. noEvent[d]
    BY LayoutFacts DEF OwnEvents
  <2>2. noEvent[m] \notin OwnEvents(m)
    BY LayoutFacts DEF OwnEvents
  <2> QED BY <2>1, <2>2, EnumerationAssumption
<1> QED
  BY <1>2, <1>3, <1>4

(* What is being handled is what the innermost machine holds.                *)
LEMMA HandledFacts ==
    /\ Running = {} => Handled = -1
    /\ (Running = {})' => Handled' = -1
    /\ \A r \in Machines : Running = {r} => Handled = H!Meaning(HeldEvent(r))
    /\ \A r \in Machines : (Running = {r})' => Handled' = H!Meaning(HeldEvent(r)')
<1>1. \A r \in Machines : (CHOOSE m \in {r} : TRUE) = r
  OBVIOUS
<1> QED
  BY <1>1, EventFacts DEF Handled

(* A machine shares what it did while its variables are what they were, or   *)
(* it is not at a point where it shares.                                     *)
LEMMA SharesFacts ==
    /\ \A a : ~Sharer(a) => Shares(a) = H!Closed
    /\ \A a : ~Sharer(a)' => Shares(a)' = H!Closed
    /\ \A a : state'[a] = state[a] /\ e'[a] = e[a] /\ sharer'[a] = sharer[a] /\ pc'[a] = pc[a]
              => Shares(a)' = Shares(a) /\ (Sharer(a)' <=> Sharer(a))
  BY SameTables DEF Shares, Sharer

(* The open machines are the sharing ones.                                   *)
LEMMA OpenFacts ==
    ASSUME NEW Controls, CallsInv(Controls)
    PROVE  H!Open = {a \in Machines : Sharer(a)}
<1>1. \A a \in Machines : e[a] # -1
  BY DEF CallsInv, ValuesInv
<1>2. \A a \in Machines : Shares(a) # H!Closed <=> Sharer(a)
  BY <1>1, SameTables DEF Shares
<1> QED
  BY <1>2 DEF H!Open

-----------------------------------------------------------------------------
(* What is known of the machine that waits for nobody.                       *)
LEMMA AtWork ==
    ASSUME NEW Controls, SimInv(Controls), NEW r \in Machines, pc[r] \notin {"idle", "finding", "shared"}
    PROVE  /\ IsInnermost(r)
           /\ Handled = H!Meaning(HeldEvent(r))
           /\ \A a \in Machines \ {r} : pc[a] \in {"idle", "finding", "shared"}
           /\ ~Sharer(r) => H!InScope(r) /\ ~H!Inhibited(r)
           /\ Sharer(r) => H!Innermost(r)
<1>1. r \in Running /\ r \in Active
  BY DEF Running, Active
<1>2. IsInnermost(r)
  BY <1>1 DEF SimInv, ChainInv, IsInnermost
<1>3. Handled = H!Meaning(HeldEvent(r))
  BY <1>2, HandledFacts DEF IsInnermost
<1>4. \A a \in Machines \ {r} : pc[a] \in {"idle", "finding", "shared"}
  BY <1>2 DEF IsInnermost, Running
<1>5. \A d \in Machines : H!Above[d] = H!Lineage(d) \ {d}
  BY DEF H!Above
<1>6. \A a \in H!Above[r] : a \in Machines /\ pc[a] \in {"finding", "shared"}
  BY <1>2, <1>4, <1>5 DEF IsInnermost, Active
<1>7. H!Open = {a \in Machines : Sharer(a)}
  BY OpenFacts DEF SimInv
<1>8. \A a \in Machines : Sharer(a) /\ a # r => a \in H!Above[r] /\ r \in H!Below(a)
  BY <1>2, <1>4, <1>5 DEF Sharer, IsInnermost, Active, H!Below
<1>9. ASSUME ~Sharer(r) PROVE H!InScope(r) /\ ~H!Inhibited(r)
  <2>1. H!InScope(r)
    BY <1>7, <1>8, <1>9 DEF H!InScope
  <2>2. ASSUME NEW a \in H!Above[r], a \notin H!Open PROVE state[a] \notin Inhibiting[a]
    <3>1. a \in Machines /\ pc[a] = "finding"
      BY <1>6, <1>7, <2>2 DEF Sharer
    <3> QED BY <3>1 DEF SimInv, CallsInv, PermitInv, doNotInhibitSubMachines
  <2> QED BY <2>1, <2>2 DEF H!Inhibited
<1>10. ASSUME Sharer(r) PROVE H!Innermost(r)
  <2>1. \A a \in H!Open : a = r \/ (a \in H!Above[r] /\ r \notin H!Above[a])
    <3>1. \A a \in H!Above[r] : r \notin H!Above[a]
      BY AboveIsAntisymmetric
    <3> QED BY <1>7, <1>8, <3>1
  <2>2. \A a \in H!Below(r) : r \in H!Above[a]
    BY DEF H!Below
  <2>3. r \notin H!Below(r)
    BY <1>5 DEF H!Below
  <2> QED BY <1>7, <1>10, <2>1, <2>2, <2>3 DEF H!Innermost
<1> QED
  BY <1>2, <1>3, <1>4, <1>9, <1>10


-----------------------------------------------------------------------------
(* How the chain of active machines changes.                                 *)

(* The innermost machine moves within its FSM function.                      *)
LEMMA LocalChain ==
    ASSUME NEW Controls, SimInv(Controls), NEW m \in Machines, NEW there,
           pc[m] \notin {"idle", "finding", "shared"},
           there \notin {"idle", "finding", "shared"},
           pc' = [pc EXCEPT ![m] = there]
    PROVE  (Running = {m})' /\ ChainInv'
<1>1. IsInnermost(m)
  BY AtWork
<1>2. /\ pc'[m] = there /\ \A a \in Machines \ {m} : pc'[a] = pc[a]
  BY DEF SimInv, CallsInv, ControlInv
<1>3. Running' = Running /\ Active' = Active
  BY <1>2 DEF Running, Active
<1>4. IsInnermost(m)'
  BY <1>1, <1>3 DEF IsInnermost
<1> QED
  BY <1>4 DEF ChainInv, IsInnermost

(* It calls a sub-machine, which becomes the innermost one.                  *)
LEMMA CallChain ==
    ASSUME NEW Controls, SimInv(Controls), NEW m \in Machines, NEW c \in Children(m), NEW there \in {"finding", "shared"},
           pc[m] \notin {"idle", "finding", "shared"},
           pc' = [pc EXCEPT ![m] = there, ![c] = "test"]
    PROVE  (Running = {c})' /\ ChainInv' /\ pc[c] = "idle"
<1>1. c \in Subs /\ Parent[c] = m /\ c # m
  BY LayoutFacts DEF Children
<1>2. pc[c] = "idle"
  BY CallThread DEF SimInv, CallsInv, ControlInv
<1>3. IsInnermost(m)
  BY AtWork
<1>4. pc'[m] = there /\ pc'[c] = "test" /\ \A a \in Machines \ {m, c} : pc'[a] = pc[a]
  BY <1>1 DEF SimInv, CallsInv, ControlInv
<1>5. Running' = {c} /\ Active' = Active \cup {c}
  BY <1>1, <1>3, <1>4 DEF Running, Active, IsInnermost
<1>6. IsInnermost(c)'
  BY <1>1, <1>3, <1>5, LineageOfSub DEF IsInnermost
<1> QED
  BY <1>1, <1>2, <1>6 DEF ChainInv, IsInnermost

(* It returns to its parent, which waits for nobody any more.                *)
LEMMA ReturnChain ==
    ASSUME NEW Controls, SimInv(Controls), NEW m \in Subs, NEW there, there \notin {"idle", "finding", "shared"},
           pc[m] = "test", pc' = [pc EXCEPT ![m] = "idle", ![Parent[m]] = there]
    PROVE  (Running = {Parent[m]})' /\ ChainInv'
<1> DEFINE p == Parent[m]
<1>1. p \in Machines /\ p # m
  BY LayoutFacts
<1>2. IsInnermost(m)
  BY AtWork
<1>3. pc'[m] = "idle" /\ pc'[p] = there /\ \A a \in Machines \ {m, p} : pc'[a] = pc[a]
  BY <1>1 DEF SimInv, CallsInv, ControlInv
<1>4. H!Lineage(m) = {m} \cup H!Lineage(p) /\ m \notin H!Lineage(p) /\ p \in H!Lineage(p)
  BY <1>1, LineageOfSub, NotAboveItself, LineageContains
<1>5. p \in Active
  BY <1>2, <1>4 DEF IsInnermost
<1>6. Running' = {p} /\ Active' = Active \ {m}
  BY <1>1, <1>2, <1>3, <1>5 DEF Running, Active, IsInnermost
<1>7. IsInnermost(p)'
  BY <1>2, <1>4, <1>6 DEF IsInnermost
<1> QED
  BY <1>1, <1>7 DEF ChainInv, IsInnermost

-----------------------------------------------------------------------------
(* The steps, one by one: each keeps what the mapping relies on, and is the  *)
(* step of Hsm that is named, or none.                                       *)
Kept == ChainInv' /\ ShareInv' /\ ResultInv'
AtLoop(p) == p \notin {"idle", "finding", "sharing", "shared", "transition"}
Unseen == UNCHANGED H!hsmVars

(* Everything but m's own variables, and what it shows of them, stays.       *)
OthersStay(m) == \A a \in Machines \ {m} :
    /\ state'[a] = state[a] /\ e'[a] = e[a] /\ new_e'[a] = new_e[a]
    /\ sharer'[a] = sharer[a] /\ pc'[a] = pc[a]

(* What is known of the machines a step leaves alone stays known.            *)
LEMMA OthersKept ==
    ASSUME NEW Controls, SimInv(Controls), NEW m \in Machines, OthersStay(m)
    PROVE  \A a \in Machines \ {m} :
              /\ Shares(a)' = Shares(a)
              /\ pc'[a] \in {"sharing", "shared"} => Cell(a, e'[a], state'[a]).shares
              /\ Sharer(a)' => new_e'[a] \in OwnEvents(a) \cup {noEvent[a]}
              /\ pc'[a] = "transition" =>
                    IF Cell(a, e'[a], state'[a]).shares
                    THEN new_e'[a] = noEvent[a] => Shares(a)'.left = <<>>
                    ELSE new_e'[a] \in Cell(a, e'[a], state'[a]).returns
<1>1. \A a \in Machines \ {m} : Shares(a)' = Shares(a) /\ (Sharer(a)' <=> Sharer(a))
  BY SharesFacts DEF OthersStay
<1> QED
  BY <1>1 DEF SimInv, ShareInv, ResultInv, OthersStay

(* The program calls the top-level FSM function: Accept, if some machine     *)
(* declares the event.                                                       *)
LEMMA RunSim ==
    ASSUME NEW Controls, SimInv(Controls), NEW x \in AllEvents, Run(x)
    PROVE  Kept /\ (H!Next \/ Unseen)
<1>1. /\ Top \in Machines /\ pc[Top] = "idle" /\ pc' = [pc EXCEPT ![Top] = "test"]
      /\ e' = [e EXCEPT ![Top] = x] /\ UNCHANGED <<state, event, new_e, sharer>>
  BY LayoutFacts DEF Run, Goto
<1>2. Active = {} /\ Running = {}
  BY <1>1 DEF SimInv, ChainInv, IsInnermost, Active, Running
<1>3. \A a \in Machines : pc[a] = "idle"
  BY <1>2 DEF Active
<1>4. pc'[Top] = "test" /\ e'[Top] = x /\ OthersStay(Top)
  BY <1>1 DEF SimInv, CallsInv, ControlInv, ValuesInv, OthersStay
<1>5. Running' = {Top} /\ Active' = {Top}
  BY <1>1, <1>3, <1>4 DEF Running, Active, OthersStay
<1>6. ChainInv'
  BY <1>1, <1>5, LineageOfTop DEF ChainInv, IsInnermost
<1>7. \A a \in Machines : pc'[a] \in {"idle", "test"} /\ ~Sharer(a) /\ ~Sharer(a)'
  BY <1>3, <1>4 DEF OthersStay, Sharer
<1>8. ShareInv' /\ ResultInv'
  BY <1>7 DEF ShareInv, ResultInv
<1>9. \A a \in Machines : Shares(a) = H!Closed /\ Shares(a)' = H!Closed
  BY <1>7, SharesFacts
<1>10. Handled = -1 /\ Handled' = H!Meaning(x)
  BY <1>1, <1>2, <1>4, <1>5, <1>7, HandledFacts DEF HeldEvent
<1>11. H!Idle
  BY <1>9, <1>10, SameTables DEF H!Idle, H!Open
<1>12. CASE x \in H!Declared
  <2>1. H!Accept(x)
    BY <1>1, <1>9, <1>10, <1>11, <1>12 DEF H!Accept, H!Meaning
  <2> QED BY <1>6, <1>8, <1>12, <2>1 DEF H!Next, Kept
<1>13. CASE x \notin H!Declared
  <2>1. Handled' = Handled
    BY <1>10, <1>13, SameTables DEF H!Meaning
  <2> QED BY <1>1, <1>6, <1>8, <1>9, <2>1 DEF Unseen, H!hsmVars, Kept
<1> QED
  BY <1>12, <1>13


(* The action of the cell runs: nothing is seen before the transition.       *)
LEMMA UserActionSim ==
    ASSUME NEW Controls, SimInv(Controls), NEW m \in Machines,
           AtLoop(pc[m]), UserAction(m, pc[m])
    PROVE  Kept /\ Unseen
<1>1. /\ pc' = [pc EXCEPT ![m] = "transition"] /\ UNCHANGED <<state, e, sharer>>
      /\ ~Cell(m, e[m], state[m]).shares
      /\ \E x \in Cell(m, e[m], state[m]).returns : new_e' = [new_e EXCEPT ![m] = x]
  BY DEF UserAction, Goto
<1>2. /\ pc'[m] = "transition" /\ OthersStay(m)
      /\ new_e'[m] \in Cell(m, e'[m], state'[m]).returns
      /\ ~Cell(m, e'[m], state'[m]).shares
  BY <1>1 DEF SimInv, CallsInv, ControlInv, ValuesInv, OthersStay
<1>3. (Running = {m})' /\ ChainInv' /\ Handled = H!Meaning(HeldEvent(m))
  BY <1>1, LocalChain, AtWork DEF AtLoop
<1>4. ~Sharer(m) /\ ~Sharer(m)'
  BY <1>1, <1>2 DEF Sharer, AtLoop
<1>5. Kept
  BY <1>2, <1>3, <1>4, OthersKept DEF Kept, ShareInv, ResultInv
<1>6. \A a \in Machines : Shares(a)' = Shares(a)
  BY <1>2, <1>4, SharesFacts, OthersKept
<1>7. Handled' = Handled
  BY <1>1, <1>3, <1>4, HandledFacts DEF HeldEvent
<1> QED
  BY <1>1, <1>5, <1>6, <1>7 DEF Unseen, H!hsmVars

(* The action that passes the event on is entered: Share.                    *)
LEMMA ShareSim ==
    ASSUME NEW Controls, SimInv(Controls), NEW m \in Machines,
           AtLoop(pc[m]), e[m] \in OwnEvents(m), SharingAction(m, pc[m])
    PROVE  Kept /\ H!Share(m)
<1> DEFINE silent == state[m] \in Inhibiting[m] /\ ~InhibitingStatesShareEvents
           there == IF silent THEN "transition" ELSE "sharing"
<1>1. /\ pc' = [pc EXCEPT ![m] = there] /\ UNCHANGED <<state, e>>
      /\ Cell(m, e[m], state[m]).shares
      /\ new_e' = [new_e EXCEPT ![m] = noEvent[m]] /\ sharer' = [sharer EXCEPT ![m] = 1]
  BY DEF SharingAction, Goto, doNotInhibitSubMachines
<1>2. e[m] \in OwnEvents(m)
  OBVIOUS
<1>3. /\ pc'[m] = there /\ new_e'[m] = noEvent[m] /\ sharer'[m] = 1 /\ OthersStay(m)
      /\ Cell(m, e'[m], state'[m]).shares
  BY <1>1 DEF SimInv, CallsInv, ControlInv, ValuesInv, OthersStay
<1>4. (Running = {m})' /\ ChainInv' /\ Handled = H!Meaning(HeldEvent(m))
  <2>1. pc[m] \notin {"idle", "finding", "shared"} /\ there \notin {"idle", "finding", "shared"}
    BY DEF AtLoop
  <2> HIDE DEF there
  <2> QED BY <1>1, <2>1, LocalChain, AtWork
<1>5. ~Sharer(m) /\ Sharer(m)'
  BY <1>1, <1>3 DEF Sharer, AtLoop
<1>6. Shares(m)' = [event |-> e[m], left |-> IF silent THEN <<>> ELSE SharersOf(m, e[m])]
  <2>1. SharersOf(m, e[m]) \in Seq([fsm : Machines, event : Nat])
    BY <1>2, SharingAssumption
  <2>2. SubSeq(SharersOf(m, e[m]), 1, Len(SharersOf(m, e[m]))) = SharersOf(m, e[m])
    BY <2>1
  <2> QED BY <1>1, <1>3, <1>5, <2>2 DEF Shares
<1>7. Kept
  <2>1. pc'[m] = "transition" => Shares(m)'.left = <<>>
    BY <1>3, <1>6
  <2> QED BY <1>3, <1>4, <2>1, OthersKept DEF Kept, ShareInv, ResultInv
<1>8. Handled = e[m] /\ Handled' = -1
  BY <1>2, <1>3, <1>4, <1>5, HandledFacts, EventFacts DEF HeldEvent
<1>9. [a \in Machines |-> Shares(a)]' = [[a \in Machines |-> Shares(a)] EXCEPT ![m] = Shares(m)']
  BY <1>3, OthersKept
<1>10. H!InScope(m) /\ ~H!Inhibited(m)
  BY <1>1, <1>5, AtWork DEF AtLoop
<1>11. H!Handles(m)
  BY <1>2, <1>8, <1>10, SameTables DEF H!Handles
<1> QED
  BY <1>1, <1>6, <1>7, <1>8, <1>9, <1>11, SameTables DEF H!Share

(* The next sharer is called: PassOn.                                        *)
LEMMA PassOnSim ==
    ASSUME NEW Controls, SimInv(Controls), NEW m \in Machines, ShareNext(m)
    PROVE  Kept /\ H!PassOn(m)
<1> DEFINE S == SharersOf(m, e[m])
           s == S[sharer[m]]
           left == SubSeq(S, sharer[m], Len(S))
           rest == SubSeq(S, sharer[m] + 1, Len(S))
<1>1. /\ s.fsm \in Children(m) /\ s.fsm \in Machines \ {m} /\ e[m] \in OwnEvents(m)
      /\ s.event \in OwnEvents(s.fsm) /\ sharer[m] \in 1..Len(S)
      /\ S \in Seq([fsm : Machines, event : Nat])
  BY SharerFacts, SharingAssumption DEF ShareNext, SimInv
<1>2. PICK c \in Machines : c = s.fsm
  BY <1>1
<1>3. PICK x \in OwnEvents(c) : x = s.event
  BY <1>1, <1>2
<1>4. /\ pc[m] = "sharing" /\ pc' = [pc EXCEPT ![m] = "shared", ![c] = "test"]
      /\ e' = [e EXCEPT ![c] = x] /\ sharer' = [sharer EXCEPT ![m] = @ + 1]
      /\ UNCHANGED <<state, new_e>> /\ new_e[m] = noEvent[m]
      /\ c \in Children(m) /\ c # m
  BY <1>1, <1>2, <1>3 DEF ShareNext, Call, MoreSharers
<1>5. left # <<>> /\ Head(left).event = x /\ Tail(left) = rest
  <2> HIDE DEF S
  <2>1. Len(S) \in sharer[m] .. Len(S)
    BY <1>1
  <2>2. Len(left) > 0
    BY <1>1
  <2>3. Head(left) = S[sharer[m]] /\ Tail(left) = rest
    BY <1>1, <2>1, HeadTailOfSubSeq
  <2>4. left # <<>>
    <3> HIDE DEF left
    <3> SUFFICES ASSUME left = <<>> PROVE FALSE
      OBVIOUS
    <3> QED BY <2>2, EmptySeq
  <2> QED BY <1>3, <2>3, <2>4
<1>6. /\ pc'[m] = "shared" /\ pc'[c] = "test" /\ sharer'[m] = sharer[m] + 1
      /\ e'[m] = e[m] /\ e'[c] = x
      /\ \A a \in Machines \ {m, c} : pc'[a] = pc[a] /\ e'[a] = e[a] /\ sharer'[a] = sharer[a]
  BY <1>4 DEF SimInv, CallsInv, ControlInv, ValuesInv
<1>7. (Running = {c})' /\ ChainInv' /\ pc[c] = "idle"
  BY <1>4, CallChain
<1>8. Sharer(m) /\ Sharer(m)' /\ ~Sharer(c) /\ ~Sharer(c)'
  BY <1>4, <1>6, <1>7 DEF Sharer
<1>9. \A a \in Machines \ {m} : Shares(a)' = Shares(a) /\ (Sharer(a)' <=> Sharer(a))
  <2>1. Shares(c)' = Shares(c)
    BY <1>8, SharesFacts
  <2> QED BY <1>4, <1>6, <1>8, <2>1, SharesFacts
<1>10. state[m] \in Inhibiting[m] => InhibitingStatesShareEvents
  BY <1>4 DEF SimInv, CallsInv, PermitInv, doNotInhibitSubMachines
<1>11. /\ Shares(m) = [event |-> e[m], left |-> left]
       /\ Shares(m)' = [event |-> e[m], left |-> rest]
  BY <1>4, <1>6, <1>8, <1>10 DEF Shares
<1>12. Kept
  <2>1. ShareInv'
    BY <1>4, <1>6, <1>9 DEF SimInv, ShareInv
  <2>2. ResultInv'
    BY <1>4, <1>6, <1>9 DEF SimInv, ResultInv
  <2> QED BY <1>7, <2>1, <2>2 DEF Kept
<1>13. Handled = -1 /\ Handled' = x
  <2>1. Handled = H!Meaning(HeldEvent(m))
    BY <1>4, AtWork
  <2>2. Handled' = H!Meaning(HeldEvent(c)')
    BY <1>7, HandledFacts
  <2> QED BY <1>4, <1>6, <1>8, <2>1, <2>2, EventFacts DEF HeldEvent
<1>14. [a \in Machines |-> Shares(a)]' =
          [[a \in Machines |-> Shares(a)] EXCEPT ![m] = [event |-> @.event, left |-> Tail(@.left)]]
  <2> HIDE DEF left, rest
  <2>1. Shares(m)' = [event |-> Shares(m).event, left |-> Tail(Shares(m).left)]
    BY <1>5, <1>11
  <2> QED BY <1>9, <2>1
<1>15. H!Innermost(m)
  BY <1>4, <1>8, AtWork
<1> HIDE DEF left, rest
<1> QED
  BY <1>4, <1>5, <1>11, <1>12, <1>13, <1>14, <1>15, SameTables DEF H!PassOn


(* The list is exhausted, or an event has come back: not seen yet.           *)
LEMMA ShareDoneSim ==
    ASSUME NEW Controls, SimInv(Controls), NEW m \in Machines, ShareDone(m)
    PROVE  Kept /\ Unseen
<1>1. /\ pc[m] = "sharing" /\ pc' = [pc EXCEPT ![m] = "transition"]
      /\ UNCHANGED <<state, event, e, new_e, sharer>>
      /\ new_e[m] = noEvent[m] => ~(sharer[m] <= Len(SharersOf(m, e[m])))
  BY DEF ShareDone, Goto, MoreSharers
<1>2. /\ pc'[m] = "transition" /\ OthersStay(m)
      /\ Cell(m, e[m], state[m]).shares /\ e[m] \in OwnEvents(m)
      /\ sharer[m] \in Nat
      /\ new_e[m] \in OwnEvents(m) \cup {noEvent[m]}
  BY <1>1 DEF SimInv, CallsInv, ControlInv, OwnInv, ShareInv, OthersStay, Sharer
<1>3. (Running = {m})' /\ ChainInv' /\ Handled = H!Meaning(HeldEvent(m))
  BY <1>1, LocalChain, AtWork
<1>4. Sharer(m) /\ Sharer(m)'
  BY <1>1, <1>2 DEF Sharer
<1>5. Shares(m)' = Shares(m)
  BY <1>1, <1>4 DEF Shares
<1>6. new_e[m] = noEvent[m] => Shares(m).left = <<>>
  <2>1. SharersOf(m, e[m]) \in Seq([fsm : Machines, event : Nat])
    BY <1>2, SharingAssumption
  <2>2. new_e[m] = noEvent[m] =>
            SubSeq(SharersOf(m, e[m]), sharer[m], Len(SharersOf(m, e[m]))) = <<>>
    BY <1>1, <1>2, <2>1, SubSeqEmpty
  <2> QED BY <1>4, <2>2 DEF Shares
<1>7. Kept
  BY <1>1, <1>2, <1>3, <1>5, <1>6, OthersKept DEF Kept, ShareInv, ResultInv
<1>8. \A a \in Machines : Shares(a)' = Shares(a)
  BY <1>2, <1>5, OthersKept
<1>9. Handled' = Handled
  BY <1>1, <1>3, <1>4, HandledFacts DEF HeldEvent
<1> QED
  BY <1>1, <1>7, <1>8, <1>9 DEF Unseen, H!hsmVars

(* The transition: Handle, or Close when the event was passed on.            *)
LEMMA TransitionSim ==
    ASSUME NEW Controls, SimInv(Controls), NEW m \in Machines,
           NEW there, AtLoop(there), MakeTransition(m, there)
    PROVE  Kept /\ (H!Handle(m) \/ H!Close(m))
<1>1. /\ pc[m] = "transition" /\ pc' = [pc EXCEPT ![m] = there]
      /\ e' = [e EXCEPT ![m] = new_e[m]]
      /\ new_e' = [new_e EXCEPT ![m] = noEvent[m]]
      /\ sharer' = [sharer EXCEPT ![m] = 0]
  BY DEF MakeTransition, Goto
<1>2. PICK s \in Cell(m, e[m], state[m]).next : state' = [state EXCEPT ![m] = s]
  BY DEF MakeTransition
<1>3. /\ pc'[m] = there /\ e'[m] = new_e[m] /\ OthersStay(m)
      /\ e[m] \in OwnEvents(m)
  BY <1>1, <1>2 DEF SimInv, CallsInv, ControlInv, ValuesInv, OwnInv, OthersStay
<1>4. /\ (Running = {m})' /\ ChainInv' /\ Handled = H!Meaning(HeldEvent(m))
      /\ ~Sharer(m) => H!InScope(m) /\ ~H!Inhibited(m)
      /\ Sharer(m) => H!Innermost(m)
  BY <1>1, LocalChain, AtWork DEF AtLoop
<1>5. ~Sharer(m)'
  BY <1>3 DEF Sharer, AtLoop
<1>6. Kept
  BY <1>3, <1>4, <1>5, OthersKept DEF Kept, ShareInv, ResultInv, AtLoop
<1>7. Shares(m)' = H!Closed
  BY <1>5, SharesFacts
<1>8. [a \in Machines |-> Shares(a)]' = [[a \in Machines |-> Shares(a)] EXCEPT ![m] = H!Closed]
  BY <1>3, <1>7, OthersKept
<1>9. Handled' = H!Meaning(new_e[m])
  BY <1>3, <1>4, <1>5, HandledFacts DEF HeldEvent
<1>10. CASE ~Cell(m, e[m], state[m]).shares
  <2>1. ~Sharer(m) /\ new_e[m] \in Cell(m, e[m], state[m]).returns
    BY <1>1, <1>10 DEF Sharer, SimInv, ResultInv
  <2>2. Handled = e[m]
    BY <1>3, <1>4, <2>1, EventFacts DEF HeldEvent
  <2>3. H!Handles(m)
    BY <1>3, <1>4, <2>1, <2>2, SameTables DEF H!Handles
  <2>4. \A a \in Machines : Shares(a)' = Shares(a)
    BY <1>3, <1>7, <2>1, OthersKept, SharesFacts
  <2>5. H!Handle(m)
    BY <1>2, <1>9, <1>10, <2>1, <2>2, <2>3, <2>4, SameTables DEF H!Handle
  <2> QED BY <1>6, <2>5
<1>11. CASE Cell(m, e[m], state[m]).shares
  <2>1. /\ Sharer(m) /\ new_e[m] \in OwnEvents(m) \cup {noEvent[m]}
        /\ new_e[m] = noEvent[m] => Shares(m).left = <<>>
    BY <1>1, <1>11 DEF Sharer, SimInv, ResultInv, ShareInv
  <2>2. Handled = H!Meaning(new_e[m]) /\ Shares(m).event = e[m]
    BY <1>4, <2>1 DEF HeldEvent, Shares
  <2>3. CASE new_e[m] = noEvent[m]
    <3>1. Handled = -1
      BY <2>2, <2>3, EventFacts
    <3>2. H!Close(m)
      BY <1>2, <1>4, <1>8, <1>9, <2>1, <2>2, <2>3, <3>1, SameTables DEF H!Close
    <3> QED BY <1>6, <3>2
  <2>4. CASE new_e[m] \in OwnEvents(m)
    <3>1. Handled = new_e[m] /\ Handled # -1 /\ H!Owner(Handled) = m
      BY <2>2, <2>4, EventFacts
    <3>2. m \notin H!Below(m)
      BY DEF H!Below, H!Above
    <3>3. H!Close(m)
      BY <1>2, <1>4, <1>8, <1>9, <2>1, <2>2, <3>1, <3>2, SameTables DEF H!Close
    <3> QED BY <1>6, <3>3
  <2> QED BY <2>1, <2>3, <2>4
<1> QED
  BY <1>10, <1>11


(* The finder calls the sub-machine with the event: not seen.                *)
LEMMA FindSim ==
    ASSUME NEW Controls, SimInv(Controls), NEW m \in Machines,
           AtLoop(pc[m]), Find(m), UNCHANGED <<state, new_e, sharer>>
    PROVE  Kept /\ Unseen
<1>1. PICK i \in 1..Len(SubMachines[m]) : Call(m, SubMachines[m][i], e[m], "finding")
  BY DEF Find
<1>2. SubMachines[m][i] \in Children(m) /\ SubMachines[m][i] \in Machines
  BY TreeAssumption DEF Children
<1>3. PICK c \in Machines : c = SubMachines[m][i]
  BY <1>2
<1>4. /\ pc' = [pc EXCEPT ![m] = "finding", ![c] = "test"]
      /\ e' = [e EXCEPT ![c] = e[m]] /\ UNCHANGED <<state, new_e, sharer>>
      /\ c \in Children(m) /\ c # m
  BY <1>1, <1>2, <1>3, LayoutFacts DEF Call, Children
<1>5. /\ pc'[m] = "finding" /\ pc'[c] = "test" /\ e'[c] = e[m]
      /\ \A a \in Machines \ {m, c} : pc'[a] = pc[a] /\ e'[a] = e[a]
  BY <1>4 DEF SimInv, CallsInv, ControlInv, ValuesInv
<1>6. (Running = {c})' /\ ChainInv' /\ pc[c] = "idle"
  BY <1>4, CallChain DEF AtLoop
<1>7. ~Sharer(m) /\ ~Sharer(m)' /\ ~Sharer(c) /\ ~Sharer(c)'
  BY <1>4, <1>5, <1>6 DEF Sharer, AtLoop
<1>8. \A a \in Machines : Shares(a)' = Shares(a) /\ (Sharer(a)' <=> Sharer(a))
  <2>1. Shares(c)' = Shares(c) /\ Shares(m)' = Shares(m)
    BY <1>7, SharesFacts
  <2> QED BY <1>4, <1>5, <1>7, <2>1, SharesFacts
<1>9. Kept
  <2>1. ShareInv'
    BY <1>4, <1>5, <1>8 DEF SimInv, ShareInv
  <2>2. ResultInv'
    BY <1>4, <1>5, <1>8 DEF SimInv, ResultInv
  <2> QED BY <1>6, <2>1, <2>2 DEF Kept
<1>10. Handled' = Handled
  <2>1. Handled = H!Meaning(HeldEvent(m)) /\ Handled' = H!Meaning(HeldEvent(c)')
    BY <1>4, <1>6, AtWork, HandledFacts DEF AtLoop
  <2> QED BY <1>5, <1>7, <2>1 DEF HeldEvent
<1> QED
  BY <1>4, <1>8, <1>9, <1>10 DEF Unseen, H!hsmVars

(* The innermost machine's own e moves, among values of one meaning.         *)
LEMMA MoveSim ==
    ASSUME NEW Controls, SimInv(Controls), NEW m \in Machines, NEW there, NEW x,
           AtLoop(pc[m]), AtLoop(there), pc' = [pc EXCEPT ![m] = there],
           e' = [e EXCEPT ![m] = x], UNCHANGED <<state, new_e, sharer>>
    PROVE  /\ Kept /\ UNCHANGED <<state, [a \in Machines |-> Shares(a)]>>
           /\ Handled = H!Meaning(e[m]) /\ Handled' = H!Meaning(x)
<1>1. pc'[m] = there /\ e'[m] = x /\ OthersStay(m)
  BY DEF SimInv, CallsInv, ControlInv, ValuesInv, OthersStay
<1>3. (Running = {m})' /\ ChainInv' /\ Handled = H!Meaning(HeldEvent(m))
  BY LocalChain, AtWork DEF AtLoop
<1>4. ~Sharer(m) /\ ~Sharer(m)'
  BY <1>1 DEF Sharer, AtLoop
<1>5. Kept
  BY <1>1, <1>3, <1>4, OthersKept DEF Kept, ShareInv, ResultInv, AtLoop
<1>6. \A a \in Machines : Shares(a)' = Shares(a)
  BY <1>1, <1>4, OthersKept, SharesFacts
<1>7. Handled' = H!Meaning(x) /\ Handled = H!Meaning(e[m])
  BY <1>1, <1>3, <1>4, HandledFacts DEF HeldEvent
<1> QED
  BY <1>5, <1>6, <1>7

(* A sub-machine hands its event back, or that there is none: not seen.      *)
LEMMA HandBackSim ==
    ASSUME NEW Controls, SimInv(Controls), NEW m \in Subs, NEW x, HandBack(m, x),
           x \in OwnEvents(Parent[m]) \cup {noEvent[Parent[m]]},
           H!Meaning(x) = H!Meaning(e[m])
    PROVE  Kept /\ Unseen
<1>1. pc[m] = "test" /\ UNCHANGED <<state, sharer>>
  BY DEF HandBack
<1>2. PICK p \in Machines : p = Parent[m] /\ p # m
  BY LayoutFacts
<1>3. x \in OwnEvents(p) \cup {noEvent[p]} /\ H!Meaning(x) = H!Meaning(e[m])
  BY <1>2
<1>4. ~Sharer(m) /\ Handled = H!Meaning(e[m])
  <2>1. ~Sharer(m)
    BY <1>1 DEF Sharer
  <2>2. Handled = H!Meaning(HeldEvent(m))
    BY <1>1, AtWork
  <2> QED BY <2>1, <2>2 DEF HeldEvent
<1>5. CASE /\ pc[p] = "finding"
           /\ pc' = [pc EXCEPT ![m] = "idle", ![p] = "test"]
           /\ e' = [e EXCEPT ![m] = noEvent[m], ![p] = x]
           /\ UNCHANGED new_e
  <2>1. /\ pc'[m] = "idle" /\ pc'[p] = "test" /\ e'[p] = x
        /\ \A a \in Machines \ {m, p} : pc'[a] = pc[a] /\ e'[a] = e[a]
    BY <1>2, <1>5 DEF SimInv, CallsInv, ControlInv, ValuesInv
  <2>2. (Running = {p})' /\ ChainInv'
    BY <1>1, <1>2, <1>5, ReturnChain
  <2>3. ~Sharer(m)' /\ ~Sharer(p) /\ ~Sharer(p)'
    BY <1>5, <2>1 DEF Sharer
  <2>4. \A a \in Machines : Shares(a)' = Shares(a) /\ (Sharer(a)' <=> Sharer(a))
    <3>1. Shares(m)' = Shares(m) /\ Shares(p)' = Shares(p)
      BY <1>4, <2>3, SharesFacts
    <3> QED BY <1>1, <1>4, <2>1, <2>3, <3>1, SharesFacts
  <2>5. Kept
    <3>1. ShareInv'
      BY <1>1, <1>5, <2>1, <2>4 DEF SimInv, ShareInv
    <3>2. ResultInv'
      BY <1>1, <1>5, <2>1, <2>4 DEF SimInv, ResultInv
    <3> QED BY <2>2, <3>1, <3>2 DEF Kept
  <2>6. Handled' = Handled
    <3>1. Handled' = H!Meaning(HeldEvent(p)')
      BY <2>2, HandledFacts
    <3> QED BY <1>3, <1>4, <2>1, <2>3, <3>1 DEF HeldEvent
  <2> QED BY <1>1, <2>4, <2>5, <2>6 DEF Unseen, H!hsmVars
<1>6. CASE /\ pc[p] = "shared"
           /\ pc' = [pc EXCEPT ![m] = "idle", ![p] = "sharing"]
           /\ e' = [e EXCEPT ![m] = noEvent[m]]
           /\ new_e' = [new_e EXCEPT ![p] = x]
  <2>1. /\ pc'[m] = "idle" /\ pc'[p] = "sharing" /\ e'[p] = e[p] /\ new_e'[p] = x
        /\ \A a \in Machines \ {m, p} : pc'[a] = pc[a] /\ e'[a] = e[a] /\ new_e'[a] = new_e[a]
    <3>1. pc \in [Machines -> Controls] /\ e \in [Machines -> Nat] /\ new_e \in [Machines -> Nat]
      BY DEF SimInv, CallsInv, ControlInv, ValuesInv
    <3> QED BY <1>2, <1>6, <3>1
  <2>2. (Running = {p})' /\ ChainInv'
    <3> DEFINE there == "sharing"
    <3>1. pc' = [pc EXCEPT ![m] = "idle", ![Parent[m]] = there]
      BY <1>2, <1>6
    <3>2. there \notin {"idle", "finding", "shared"}
      OBVIOUS
    <3> HIDE DEF there
    <3>3. (Running = {Parent[m]})' /\ ChainInv'
      BY <1>1, <3>1, <3>2, ReturnChain
    <3> QED BY <1>2, <3>3
  <2>3. ~Sharer(m)' /\ Sharer(p) /\ Sharer(p)'
    BY <1>6, <2>1 DEF Sharer
  <2>4. \A a \in Machines : Shares(a)' = Shares(a) /\ (Sharer(a)' <=> Sharer(a))
    <3>1. Shares(m)' = Shares(m)
      BY <1>4, <2>3, SharesFacts
    <3>2. Shares(p)' = Shares(p)
      BY <1>1, <2>1, <2>3 DEF Shares
    <3> QED BY <1>1, <1>4, <2>1, <2>3, <3>1, <3>2, SharesFacts
  <2>5. Kept
    <3>1. ShareInv'
      BY <1>1, <1>3, <1>6, <2>1, <2>3, <2>4 DEF SimInv, ShareInv
    <3>2. ResultInv'
      BY <1>1, <1>6, <2>1, <2>4 DEF SimInv, ResultInv
    <3> QED BY <2>2, <3>1, <3>2 DEF Kept
  <2>6. Handled' = Handled
    <3>1. Handled' = H!Meaning(HeldEvent(p)')
      BY <2>2, HandledFacts
    <3> QED BY <1>3, <1>4, <2>1, <2>3, <3>1 DEF HeldEvent
  <2> QED BY <1>1, <2>4, <2>5, <2>6 DEF Unseen, H!hsmVars
<1> QED
  BY <1>2, <1>5, <1>6 DEF HandBack

(* The top-level FSM function returns: it held no event any more.            *)
LEMMA FinishSim ==
    ASSUME NEW Controls, SimInv(Controls), FinishRun, e[Top] = noEvent[Top]
    PROVE  Kept /\ Unseen
<1>1. /\ Top \in Machines /\ pc[Top] = "test" /\ pc' = [pc EXCEPT ![Top] = "idle"]
      /\ e[Top] = noEvent[Top] /\ UNCHANGED <<state, event, e, new_e, sharer>>
  BY LayoutFacts DEF FinishRun, Goto
<1>2. IsInnermost(Top) /\ Handled = H!Meaning(HeldEvent(Top))
  BY <1>1, AtWork
<1>3. \A a \in Machines \ {Top} : pc[a] = "idle"
  BY <1>2, LineageOfTop DEF IsInnermost, Active
<1>4. \A a \in Machines : pc'[a] = "idle"
  BY <1>1, <1>3 DEF SimInv, CallsInv, ControlInv
<1>5. \A a \in Machines : ~Sharer(a) /\ ~Sharer(a)'
  BY <1>1, <1>3, <1>4 DEF Sharer
<1>6. Kept
  BY <1>4, <1>5 DEF Kept, ChainInv, Active, ShareInv, ResultInv
<1>7. \A a \in Machines : Shares(a)' = Shares(a)
  BY <1>5, SharesFacts
<1>8. Handled = -1
  BY <1>1, <1>2, <1>5, EventFacts DEF HeldEvent
<1>9. Running' = {}
  BY <1>4 DEF Running
<1>10. Handled' = -1
  BY <1>9, HandledFacts
<1> QED
  BY <1>1, <1>6, <1>7, <1>8, <1>10 DEF Unseen, H!hsmVars

-----------------------------------------------------------------------------
(* All machines idle is Hsm's initial state.                                 *)
LEMMA InitSim ==
    ASSUME NEW Controls, CallControls \subseteq Controls, Init
    PROVE  SimInv(Controls) /\ H!Init
<1>1. \A a \in Machines : pc[a] = "idle" /\ ~Sharer(a)
  BY DEF Init, Sharer
<1>2. Active = {} /\ Running = {}
  BY <1>1 DEF Active, Running
<1>3. SimInv(Controls)
  BY <1>1, <1>2, InitCallsInv DEF SimInv, ChainInv, ShareInv, ResultInv
<1>4. \A a \in Machines : Shares(a) = H!Closed
  BY <1>1, SharesFacts
<1>5. H!Init
  BY <1>2, <1>4, HandledFacts, SameTables DEF H!Init, Init
<1> QED
  BY <1>3, <1>5

(* A step that leaves the variables alone is not seen.                       *)
LEMMA StutterSim ==
    ASSUME NEW Controls, SimInv(Controls), UNCHANGED vars
    PROVE  Kept /\ Unseen
<1>1. Kept
  BY DEF vars, Kept, SimInv, ChainInv, IsInnermost, Active, Running, ShareInv, ResultInv,
     Sharer, Shares
<1>2. Unseen
  BY DEF vars, Unseen, H!hsmVars, Handled, HeldEvent, Running, Sharer, Shares
<1> QED
  BY <1>1, <1>2
=============================================================================
