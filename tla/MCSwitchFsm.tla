----------------------------- MODULE MCSwitchFsm -----------------------------
EXTENDS SwitchFsm, HsmMapping, FourMachines

(* One action handles event 1 of machine 1 in both states; it may return an  *)
(* event of machine 2, and leads to the state that inhibits sub-machines.    *)
(* Machine 2 shares event 5 in all states, machine 4 handles 9 in all.       *)
QuietCells ==
    [MCCells EXCEPT ![1][2] = [s1 |-> User({2, 5}, {"s2"}), s2 |-> User({2, 5}, {"s2"})],
                    ![2][2] = [s1 |-> Share({"s2"}), s2 |-> Share({"s2"})]]

QuietInAllStates == <<{1}, {5}, {}, {9}>>

(* The same, but event 1 leads to either state, and none inhibits.          *)
SendingCells ==
    [QuietCells EXCEPT ![1][2] = [s1 |-> User({2, 5}, {"s2"}), s2 |-> User({2, 5}, {"s1"})]]

(* QuietCells, checked with a top level that inhibits, is a description of   *)
(* which the switch machine loses no event; SendingCells is not.             *)
ASSUME RoutesEveryEvent /\ ReturnsEvents
ASSUME StateFnTakesReturns <=> Inhibiting[Top] # {}
=============================================================================
