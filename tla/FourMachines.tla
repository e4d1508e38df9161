---------------------------- MODULE FourMachines -----------------------------
(***************************************************************************)
(* A description with two levels of sub-machines: machine 1 (the top       *)
(* level) declares sub-machines 2 and 4, and 2 declares 3.  Event 0 of     *)
(* machine 1 is shared by 2 and 4, event 5 of machine 2 by 3.  The event   *)
(* values come from the enumeration module.                                *)
(***************************************************************************)
EXTENDS Integers, Sequences

MCMachines == 1..4
MCSubMachines == << <<2, 4>>, <<3>>, <<>>, <<>> >>

Enum == INSTANCE EventEnum WITH MaxMachines <- 4, MaxEvents <- 2, MaxDepth <- 2,
                                parent <- <<0, 1, 2, 1>>, numEvents <- <<2, 2, 1, 1>>,
                                machine_list <- MCSubMachines,
                                Returns <- {"events"}, returns <- [m \in 1..4 |-> "events"],
                                NumStates <- [m \in 1..4 |-> 2]

MCParent == [m \in 2..4 |-> <<0, 1, 2, 1>>[m]]
MCFirstEvent == [m \in MCMachines |-> Enum!EventEnum[m].firstEvent]
MCNoEvent == [m \in MCMachines |-> Enum!EventEnum[m].noEvent]
MCLastEvent == [m \in MCMachines |-> Enum!EventEnum[m].lastEvent]
MCHighEvent == MCLastEvent
MCStates == {"s1", "s2"}
MCStartState == [m \in MCMachines |-> "s1"]

User(r, n) == [returns |-> r, next |-> n, shares |-> FALSE]
Share(n) == [returns |-> {}, next |-> n, shares |-> TRUE]
noAction(m, s) == User({MCNoEvent[m]}, {s})

(* Values: machine 1 has 0 1 (2), machine 2 has 4 5 (6), 3 has 7 (8), 4 has 9 (10). *)
MCCells == <<
    <<[s1 |-> Share({"s1", "s2"}),      s2 |-> Share({"s2"})],
      [s1 |-> User({2, 5, 9}, {"s2"}), s2 |-> User({2}, {"s1"})]>>,
    <<[s1 |-> User({6, 5, 1}, {"s1"}), s2 |-> User({6}, {"s1"})],
      [s1 |-> Share({"s2"}),            s2 |-> User({6, 1}, {"s1", "s2"})]>>,
    <<[s1 |-> User({8, 4}, {"s1", "s2"}), s2 |-> noAction(3, "s2")]>>,
    <<[s1 |-> User({10, 1}, {"s2"}),   s2 |-> User({10, 1}, {"s2"})]>> >>

MCSharing == <<
    << <<[fsm |-> 2, event |-> 4], [fsm |-> 4, event |-> 9]>>, <<>> >>,
    << <<>>, <<[fsm |-> 3, event |-> 7]>> >>,
    << <<>> >>,
    << <<>> >> >>

NobodyInhibits == [m \in MCMachines |-> {}]
TopInhibits == [m \in MCMachines |-> IF m = 1 THEN {"s2"} ELSE {}]
=============================================================================
