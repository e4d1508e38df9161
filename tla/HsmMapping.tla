----------------------------- MODULE HsmMapping ------------------------------
(***************************************************************************)
(* How the running FSM functions show what Hsm promises.  Exactly one      *)
(* active machine is not waiting for a sub-machine; its local variables    *)
(* hold the event being handled.                                           *)
(***************************************************************************)
EXTENDS FsmCalls

Running == {m \in Machines : pc[m] \notin {"idle", "finding", "shared"}}

Sharer(m) ==
    \/ pc[m] \in {"sharing", "shared"}
    \/ pc[m] = "transition" /\ Cell(m, e[m], state[m]).shares

HeldEvent(m) == IF Sharer(m) THEN new_e[m] ELSE e[m]

(* The event being handled, if any machine declares it.                      *)
Handled ==
    IF Running = {} THEN -1
    ELSE LET x == HeldEvent(CHOOSE m \in Running : TRUE)
         IN  IF \E d \in Machines : x \in OwnEvents(d) THEN x ELSE -1

(* What m is sharing, and with whom it has yet to.                           *)
Shares(m) ==
    IF ~Sharer(m) THEN [event |-> -1, left |-> <<>>]
    ELSE [event |-> e[m],
          left  |-> IF state[m] \in Inhibiting[m] /\ ~InhibitingStatesShareEvents
                    THEN <<>>
                    ELSE SubSeq(SharersOf(m, e[m]), sharer[m], Len(SharersOf(m, e[m])))]

H == INSTANCE Hsm WITH cur <- Handled, open <- [m \in Machines |-> Shares(m)]

(* Events go to the machine that declares them, in its current state; none   *)
(* is lost; shared events visit the sharers in order.                        *)
ImplementsHsm == H!Spec

(* The same, and what is accepted is worked off.                             *)
ImplementsFairHsm == H!FairSpec

-----------------------------------------------------------------------------
(* No two enumerators have one value (EventEnum's EventValuesAreUnique).     *)
ASSUME EnumerationAssumption ==
    \A m, d \in Machines : m # d =>
        (firstEvent[m] .. noEvent[m]) \cap (firstEvent[d] .. noEvent[d]) = {}

(* Every event below m lies in the range of one of m's sub-machines: true of *)
(* the enumeration for descriptions of up to three levels, and not always    *)
(* for deeper ones (EventEnum's EveryEventReachesItsMachine).                *)
RoutesEveryEvent ==
    \A m, d \in Machines : \A x \in OwnEvents(d) :
        noEvent[m] < x /\ x <= HighEvent[m] =>
            \E i \in 1..Len(SubMachines[m]) : InRange(SubMachines[m][i], x)
=============================================================================
