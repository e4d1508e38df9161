------------------------------ MODULE FsmTables ------------------------------
(***************************************************************************)
(* What the generated C holds as constant data: the tree of machines, the  *)
(* values of the event enumeration, the cells of each machine's action     *)
(* array, the lists of machines sharing a parent's event, and the states   *)
(* that inhibit sub-machines.                                              *)
(*                                                                         *)
(* Machines whose actions return events (the default) are described here.  *)
(***************************************************************************)
EXTENDS Integers, Sequences, FiniteSets

CONSTANTS
    Machines,       \* every machine of the description
    Top,            \* the top-level machine
    Parent,         \* [Machines \ {Top} -> Machines]
    SubMachines,    \* [Machines -> Seq(Machines)]: machine_list, the subMachineArray
    firstEvent,     \* [Machines -> Nat]: values of the enumerators of these names
    noEvent,
    lastEvent,
    HighEvent,      \* [Machines -> Nat]: largest value enumerated for a machine's subtree
    States,         \* union of the machines' state sets
    StartState,     \* [Machines -> States]: the first state of state_list
    Cells,          \* [Machines -> set of cell records], see Cell below
    Sharing,        \* Sharing[m]: function from a shared event of m to its sharers
    Inhibiting,     \* [Machines -> SUBSET States]: states declared "inhibits submachines"
    InhibitingStatesShareEvents   \* the option --inhibiting-states-share-events

OwnEvents(m) == firstEvent[m] .. noEvent[m] - 1
Subs == Machines \ {Top}
Children(m) == {c \in Subs : Parent[c] = m}

(* Values an event variable of m may hold while m's FSM function runs: what *)
(* is enumerated for m's subtree, or the parent's event being handed back.  *)
Visible(m) ==
    firstEvent[m] .. HighEvent[m] \cup
        IF m = Top THEN {} ELSE OwnEvents(Parent[m])

AllEvents == firstEvent[Top] .. HighEvent[Top]

(* The numeric layout the enumeration gives to the tree.                    *)
ASSUME LayoutAssumption ==
    /\ Top \in Machines
    /\ Parent \in [Subs -> Machines]
    /\ firstEvent \in [Machines -> Nat]
    /\ noEvent \in [Machines -> Nat]
    /\ lastEvent \in [Machines -> Nat]
    /\ HighEvent \in [Machines -> Nat]
    /\ \A m \in Machines : firstEvent[m] < noEvent[m] /\ noEvent[m] <= HighEvent[m]
    /\ \A m \in Machines : SubMachines[m] = <<>> => HighEvent[m] = noEvent[m]
    /\ \A c \in Subs : /\ noEvent[Parent[c]] < firstEvent[c]
                       /\ HighEvent[c] <= HighEvent[Parent[c]]

ASSUME TreeAssumption ==
    \A m \in Machines : /\ SubMachines[m] \in Seq(Machines)
                        /\ \A i \in 1..Len(SubMachines[m]) : SubMachines[m][i] \in Children(m)

(* The cell of an event and a state: the action is either a user action that *)
(* returns one of "returns" or the action that passes a shared event on;     *)
(* "next" holds what the transition column, or transition function, yields.  *)
Cell(m, x, s) == Cells[m][x - firstEvent[m] + 1][s]

ASSUME CellAssumption ==
    /\ StartState \in [Machines -> States]
    /\ \A m \in Machines : \A x \in OwnEvents(m), s \in States :
          /\ Cell(m, x, s).next \subseteq States
          /\ Cell(m, x, s).returns \subseteq Visible(m)
          /\ Cell(m, x, s).shares \in BOOLEAN

(* A sharer is the sub-machine and the sub-machine's own number for the      *)
(* parent's event (the shared event data block).                             *)
SharersOf(m, x) == Sharing[m][x - firstEvent[m] + 1]

ASSUME SharingAssumption ==
    \A m \in Machines :
        \A x \in OwnEvents(m) :
            /\ SharersOf(m, x) \in Seq([fsm : Machines, event : Nat])
            /\ \A i \in 1..Len(SharersOf(m, x)) :
                  /\ SharersOf(m, x)[i].fsm \in Children(m)
                  /\ SharersOf(m, x)[i].event \in OwnEvents(SharersOf(m, x)[i].fsm)

(* doNotInhibitSubMachines: a switch over the states declared to inhibit.   *)
doNotInhibitSubMachines(m, s) == s \notin Inhibiting[m]

(* The half-open range the finder compares against (defineSubMachineIF).    *)
LastOf(c) == IF SubMachines[c] = <<>> THEN noEvent[c] ELSE lastEvent[c]
InRange(c, x) == firstEvent[c] <= x /\ x < LastOf(c)

(* The sub-machine findAndRunSubMachine runs for x: the first in range.      *)
Finds(m, i, x) ==
    /\ i \in 1..Len(SubMachines[m]) /\ InRange(SubMachines[m][i], x)
    /\ \A j \in 1..i - 1 : ~InRange(SubMachines[m][j], x)

FindsNone(m, x) == \A i \in 1..Len(SubMachines[m]) : ~InRange(SubMachines[m][i], x)

ASSUME RangeAssumption == \A c \in Subs : LastOf(c) <= HighEvent[c]
=============================================================================
