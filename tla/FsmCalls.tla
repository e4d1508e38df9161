------------------------------ MODULE FsmCalls -------------------------------
(***************************************************************************)
(* What the generators share: the locals of the FSM functions, the calls   *)
(* between a machine and its sub-machines, and the action that passes a    *)
(* shared event on.  One call of the top-level FSM function runs to        *)
(* completion; a sub-machine's FSM function is called by the finder        *)
(* (findAndRunSubMachine) or by an action that passes a shared event on.   *)
(* A machine's FSM function has one activation at a time, so the locals of *)
(* the activations are functions of the machine.                           *)
(***************************************************************************)
EXTENDS FsmTables

VARIABLES
    state,     \* pfsm->state
    event,     \* pfsm->event, what action functions read
    pc,        \* where m's FSM function stands
    e,         \* the local e of m's FSM function: the event of this pass of the loop
    new_e,     \* the local new_e: what the action returned (return_event while sharing)
    sharer     \* index of pcurrent_sharer in the list the action is passing the event to

vars == <<state, event, pc, e, new_e, sharer>>

(* Where the FSM function of every generator may stand.                     *)
CallControls == {"idle",        \* not called
                 "test",        \* at the loop's condition
                 "finding",     \* in findAndRunSubMachine, waiting for the sub-machine
                 "sharing",     \* in pass_shared_event, at the loop's condition
                 "shared",      \* in pass_shared_event, waiting for a sharer
                 "transition"}  \* the action has returned; the state is the old one

CallsTypeOK(Controls) ==
    /\ state \in [Machines -> States]
    /\ event \in [Machines -> Nat]
    /\ pc \in [Machines -> Controls]
    /\ e \in [Machines -> Nat]
    /\ new_e \in [Machines -> Nat]
    /\ sharer \in [Machines -> Nat]

Init ==
    /\ state = StartState
    /\ event = firstEvent
    /\ pc = [m \in Machines |-> "idle"]
    /\ e = noEvent
    /\ new_e = noEvent
    /\ sharer = [m \in Machines |-> 0]

Goto(m, here, there) == pc[m] = here /\ pc' = [pc EXCEPT ![m] = there]

(* m calls the FSM function of its sub-machine c with the event x.          *)
Call(m, c, x, there) ==
    /\ pc' = [pc EXCEPT ![m] = there, ![c] = "test"]
    /\ e' = [e EXCEPT ![c] = x]

-----------------------------------------------------------------------------
(* RUN_STATE_MACHINE(ptop, x): the events of all machines may be passed.    *)
Run(x) ==
    /\ Goto(Top, "idle", "test")
    /\ e' = [e EXCEPT ![Top] = x]
    /\ UNCHANGED <<state, event, new_e, sharer>>

(* m's function, standing at "here", runs the user action of e's cell.      *)
UserAction(m, here) ==
    /\ Goto(m, here, "transition")
    /\ ~Cell(m, e[m], state[m]).shares
    /\ \E x \in Cell(m, e[m], state[m]).returns : new_e' = [new_e EXCEPT ![m] = x]
    /\ UNCHANGED <<state, e, sharer>>

(* The cell's action passes a shared event on: pass_shared_event is entered, *)
(* and returns at once when the state inhibits sub-machines, unless the      *)
(* option lets inhibiting states share.                                      *)
SharingAction(m, here) ==
    /\ Cell(m, e[m], state[m]).shares
    /\ Goto(m, here, IF InhibitingStatesShareEvents \/ doNotInhibitSubMachines(m, state[m])
                     THEN "sharing" ELSE "transition")
    /\ new_e' = [new_e EXCEPT ![m] = noEvent[m]]
    /\ sharer' = [sharer EXCEPT ![m] = 1]
    /\ UNCHANGED <<state, e>>

(* Fault: the event a sharer returns does not end the sharing.              *)
MoreSharersAnyway(m) == sharer[m] <= Len(SharersOf(m, e[m]))

MoreSharers(m) == sharer[m] <= Len(SharersOf(m, e[m])) /\ new_e[m] = noEvent[m]

(* The next sharer is called, with its own number for the event.            *)
ShareNext(m) ==
    LET s == SharersOf(m, e[m])[sharer[m]]
    IN  /\ pc[m] = "sharing" /\ MoreSharers(m)
        /\ Call(m, s.fsm, s.event, "shared")
        /\ sharer' = [sharer EXCEPT ![m] = @ + 1]
        /\ UNCHANGED <<state, event, new_e>>

(* The list is exhausted, or a sharer returned an event for this machine.    *)
ShareDone(m) ==
    /\ Goto(m, "sharing", "transition") /\ ~MoreSharers(m)
    /\ UNCHANGED <<state, event, e, new_e, sharer>>

(* After the action: the next state is computed from the same event and      *)
(* state; the transition, exit and entry functions, if any, run while the    *)
(* state variable holds the old state; then e = new_e.  (The locals that are *)
(* dead from here to their next assignment are cleared.)                     *)
MakeTransition(m, there) ==
    /\ Goto(m, "transition", there)
    /\ \E s \in Cell(m, e[m], state[m]).next : state' = [state EXCEPT ![m] = s]
    /\ e' = [e EXCEPT ![m] = new_e[m]]
    /\ new_e' = [new_e EXCEPT ![m] = noEvent[m]]
    /\ sharer' = [sharer EXCEPT ![m] = 0]
    /\ UNCHANGED event

(* findAndRunSubMachine: the first sub-machine whose range holds e is called. *)
Find(m) ==
    \E i \in 1..Len(SubMachines[m]) :
        Finds(m, i, e[m]) /\ Call(m, SubMachines[m][i], e[m], "finding")

(* A sub-machine's FSM function, its loop ended, returns x to the finder, or *)
(* to the action that is passing a shared event on.                          *)
HandBack(m, x) ==
    LET p == Parent[m]
    IN  /\ m # Top /\ pc[m] = "test"
        /\ \/ /\ pc[p] = "finding"
              /\ pc' = [pc EXCEPT ![m] = "idle", ![p] = "test"]
              /\ e' = [e EXCEPT ![m] = noEvent[m], ![p] = x]
              /\ UNCHANGED new_e
           \/ /\ pc[p] = "shared"
              /\ pc' = [pc EXCEPT ![m] = "idle", ![p] = "sharing"]
              /\ e' = [e EXCEPT ![m] = noEvent[m]]
              /\ new_e' = [new_e EXCEPT ![p] = x]
        /\ UNCHANGED <<state, event, sharer>>

(* Faults: the event is handed back relative to the machine's own first one; *)
(* the machine's noEvent is not translated.                                  *)
HandBackRelative(m) == HandBack(m, e[m] - firstEvent[m])
HandBackUntranslated(m) == HandBack(m, e[m])

(* The return statement: the machine's noEvent becomes the parent's.         *)
HandBackTranslated(m) ==
    HandBack(m, IF e[m] = noEvent[m] THEN noEvent[Parent[m]] ELSE e[m])

(* The top-level FSM function, its loop ended, returns to the program.       *)
FinishRun ==
    /\ Goto(Top, "test", "idle")
    /\ UNCHANGED <<state, event, e, new_e, sharer>>

-----------------------------------------------------------------------------
(* pfsm->event, what an action of m, or of a machine it calls, is told is    *)
(* being handled, is the event the action was chosen for, until the          *)
(* transition and its exit and entry functions are done.                     *)
EventFieldIsCurrent ==
    \A m \in Machines : pc[m] \in {"sharing", "shared", "transition"} => event[m] = e[m]

(* No sub-machine runs below a machine whose state inhibits sub-machines,    *)
(* except to share an event when the option allows that.                     *)
InhibitedSubMachinesAreQuiet ==
    \A c \in Subs :
        pc[c] # "idle" => \/ doNotInhibitSubMachines(Parent[c], state[Parent[c]])
                          \/ InhibitingStatesShareEvents /\ pc[Parent[c]] = "shared"

(* What a sub-machine's FSM function returns is for its caller: an event of  *)
(* the caller's own, or the caller's noEvent.  Whatever the actions below    *)
(* return, no number the caller would take for something else gets out: not  *)
(* an event of the sub-machine or of one below it, and no other noEvent.     *)
ReturnsToTheCaller ==
    [][\A c \in Subs :
          LET p == Parent[c]
          IN  pc[c] # "idle" /\ pc'[c] = "idle" =>
                  (IF pc[p] = "finding" THEN e'[p] ELSE new_e'[p])
                      \in OwnEvents(p) \cup {noEvent[p]}]_vars

(* Every call of the machine returns.                                        *)
RunCompletes == pc[Top] # "idle" ~> pc[Top] = "idle"
=============================================================================
