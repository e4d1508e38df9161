------------------------------ MODULE EventEnum ------------------------------
(***************************************************************************)
(* The event enumeration of a machine and its sub-machines, as the C       *)
(* generators print it into the events header, and the listings that must  *)
(* agree with it (the debug name table and the cross references).          *)
(*                                                                         *)
(* The state is the tree of machine declarations the parser has seen so    *)
(* far; every reachable state is one input to the enumeration.             *)
(***************************************************************************)
EXTENDS Integers, Sequences, FiniteSets, SequencesExt

CONSTANTS
    MaxMachines,  \* bound: machines in one description, the top level included
    MaxEvents,    \* bound: events declared by one machine
    MaxDepth,     \* bound: levels of nesting below the top-level machine
    Returns,      \* what actions may return (ACTIONS_RETURN_FLAGS)
    NumStates     \* NumStates[m]: the length of m's state_list

ASSUME BoundsAssumption ==
    /\ MaxMachines \in Nat \ {0}
    /\ MaxEvents \in Nat \ {0}
    /\ MaxDepth \in Nat
    /\ Returns \subseteq {"events", "void", "states"}
    /\ NumStates \in [1..MaxMachines -> Nat \ {0}]

TopLevel == 1   \* machines are named by the order of their declaration

VARIABLES
    parent,        \* parent[m]: the machine whose braces enclose the declaration of m
    machine_list,  \* machine_list[m]: m's sub-machines in the order they are declared
    numEvents,     \* numEvents[m]: the length of m's event_list
    returns        \* returns[m]: what m's actions return

vars == <<parent, machine_list, numEvents, returns>>

Declared == DOMAIN numEvents

(* Levels of nesting: the top-level machine is at depth 0.                  *)
Depth[m \in Declared] == IF m = TopLevel THEN 0 ELSE 1 + Depth[parent[m]]

-----------------------------------------------------------------------------
(* A C enumerator takes the value after the one printed before it unless it *)
(* is given one. What that running value is as each of the machines "subs"  *)
(* is reached, if the first is printed from n: the printing of a machine    *)
(* makes it go up by "advance".                                             *)
Starts(advance, subs, n) ==
    LET start[i \in 1..Len(subs)] ==
            IF i = 1 THEN n ELSE start[i - 1] + advance[subs[i - 1]]
    IN  start

(* A machine prints its events, noEvent, its sub-machines, and lastEvent,   *)
(* which is given the value that the noEvent of the last sub-machine has.   *)
Advance[m \in Declared] ==
    LET subs == machine_list[m]
    IN  IF subs = <<>> THEN numEvents[m] + 1
        ELSE Starts(Advance, subs, numEvents[m] + 1)[Len(subs)] + numEvents[Last(subs)] + 1

Place(list, m) == CHOOSE i \in DOMAIN list : list[i] = m

(* The top level's sub-machines are printed one after another from "first". *)
Enumeration(first) ==
    LET begin[m \in Declared] ==
            IF m = TopLevel THEN 0
            ELSE LET p == parent[m]
                     n == IF p = TopLevel THEN first ELSE begin[p] + numEvents[p] + 1
                 IN  Starts(Advance, machine_list[p], n)[Place(machine_list[p], m)]
        closing(m) == begin[m] + numEvents[m]
        end(m) == LET subs == machine_list[m]
                  IN  IF m = TopLevel
                      THEN IF subs = <<>> THEN first - 1 ELSE begin[Last(subs)] + Advance[Last(subs)]
                      ELSE IF subs = <<>> THEN closing(m) ELSE closing(Last(subs))
    IN  [m \in Declared |-> [firstEvent |-> begin[m], noEvent |-> closing(m), lastEvent |-> end(m)]]

(* Faults for the checks: numEvents is left out; noEvent is, too.           *)
EventEnumWithoutCount == Enumeration(numEvents[TopLevel] + 1)
EventEnumWithoutNoEvent == Enumeration(numEvents[TopLevel])

(* The top level prints noEvent if its actions return events, numEvents, and *)
(* the sub-machines.  numAllEvents closes the enumeration: it is lastEvent   *)
(* here.  Without a noEvent, numEvents stands in its place.                  *)
Counted(m) == returns[m] = "events"

EventEnum == Enumeration(numEvents[TopLevel] + IF Counted(TopLevel) THEN 2 ELSE 1)

(* Fault: a range ends at the machine's own events.                         *)
SubFsmIfOwn(m) ==
    [first_event |-> EventEnum[m].firstEvent, last_event |-> EventEnum[m].noEvent]

(* The sub_fsm_if of a machine: the half-open range its parent tests.       *)
SubFsmIf(m) ==
    [first_event |-> EventEnum[m].firstEvent,
     last_event  |-> IF machine_list[m] = <<>> THEN EventEnum[m].noEvent
                                               ELSE EventEnum[m].lastEvent]

InRange(m, e) == SubFsmIf(m).first_event <= e /\ e < SubFsmIf(m).last_event

-----------------------------------------------------------------------------
(* A listing is the sequence of the enumerators' values in the order of its  *)
(* entries: it is right if the entry at position k stands for the value k.   *)
EventEntries(m) == [i \in 1..numEvents[m] |-> EventEnum[m].firstEvent + i - 1]
NoEventEntry(m) == <<EventEnum[m].noEvent>>

(* noEvent, for a machine that has it, and numEvents.                        *)
CompleteTopLevel ==
    (IF Counted(TopLevel) THEN NoEventEntry(TopLevel) ELSE <<>>) \o
        <<EventEnum[TopLevel].noEvent + IF Counted(TopLevel) THEN 1 ELSE 0>>

(* Events, noEvent, then the sub-machines; all listings go depth first.      *)
SubMachineEntries[m \in Declared] ==
    EventEntries(m) \o NoEventEntry(m) \o
        FlattenSeq([i \in DOMAIN machine_list[m] |-> SubMachineEntries[machine_list[m][i]]])

SubMachinesListed ==
    FlattenSeq([i \in DOMAIN machine_list[TopLevel] |-> SubMachineEntries[machine_list[TopLevel][i]]])

(* EVENT_NAMES[]                                                             *)
EventNames == EventEntries(TopLevel) \o CompleteTopLevel \o SubMachinesListed

(* Fault: numAllEvents is not listed last.                                   *)
AnySubMachinesFirst ==
    IF machine_list[TopLevel] = <<>> THEN <<>>
    ELSE <<EventEnum[TopLevel].lastEvent>> \o SubMachinesListed

(* process_any_sub_machines: the sub-machines, and numAllEvents after them.  *)
AnySubMachines ==
    IF machine_list[TopLevel] = <<>> THEN <<>>
    ELSE SubMachinesListed \o <<EventEnum[TopLevel].lastEvent>>

(* The cross reference written to a file of its own, in any of its formats.  *)
EventXref == EventEntries(TopLevel) \o CompleteTopLevel \o AnySubMachines

(* The cross reference of states: every machine has a counter of its own.    *)
StateEntries(m) == [i \in 1..NumStates[m] |-> [machine |-> m, index |-> i - 1]]

SubMachineStateEntries[m \in Declared] ==
    StateEntries(m) \o
        FlattenSeq([i \in DOMAIN machine_list[m] |-> SubMachineStateEntries[machine_list[m][i]]])

StateXref == SubMachineStateEntries[TopLevel]

(* The cross reference in the comment asks of every machine, and not of the  *)
(* top level alone, what its actions return.                                 *)
SubMachineCommentEntries[m \in Declared] ==
    EventEntries(m) \o (IF Counted(m) THEN NoEventEntry(m) ELSE <<>>) \o
        FlattenSeq([i \in DOMAIN machine_list[m] |-> SubMachineCommentEntries[machine_list[m][i]]])

EventXrefComment ==
    LET subs == machine_list[TopLevel]
    IN  EventEntries(TopLevel) \o CompleteTopLevel \o
            FlattenSeq([i \in DOMAIN subs |-> SubMachineCommentEntries[subs[i]]]) \o
            (IF subs = <<>> THEN <<>> ELSE <<EventEnum[TopLevel].lastEvent>>)

-----------------------------------------------------------------------------
Init ==
    /\ parent = <<0>>
    /\ machine_list = << <<>> >>
    /\ numEvents \in {<<k>> : k \in 1..MaxEvents}
    /\ returns \in {<<r>> : r \in Returns}

(* Fault: the sub-machine is attached without its events.                   *)
DeclareWithoutEvents(p, k, r) ==
    /\ Len(numEvents) < MaxMachines
    /\ Depth[p] < MaxDepth
    /\ parent' = Append(parent, p)
    /\ machine_list' = Append([machine_list EXCEPT ![p] = Append(@, Len(numEvents) + 1)], <<>>)
    /\ returns' = Append(returns, r)
    /\ UNCHANGED numEvents

(* The parser closes the declaration of one more sub-machine of p.          *)
DeclareSubMachine(p, k, r) ==
    /\ Len(numEvents) < MaxMachines
    /\ Depth[p] < MaxDepth
    /\ parent' = Append(parent, p)
    /\ machine_list' = Append([machine_list EXCEPT ![p] = Append(@, Len(numEvents) + 1)], <<>>)
    /\ numEvents' = Append(numEvents, k)
    /\ returns' = Append(returns, r)

Next == \E p \in Declared, k \in 1..MaxEvents, r \in Returns : DeclareSubMachine(p, k, r)

Spec == Init /\ [][Next]_vars

-----------------------------------------------------------------------------
(* The machine whose cells handle e when findAndRunSubMachine passes it on  *)
(* from m: the first sub-machine whose range holds e, and so on downwards.  *)
Route(m, e) ==
    LET route[k \in Declared] ==
            LET subs == machine_list[k]
                hits == {i \in DOMAIN subs : InRange(subs[i], e)}
            IN  IF e < EventEnum[k].noEvent \/ hits = {} THEN k ELSE route[subs[Min(hits)]]
    IN  route[m]

OwnEvents(m) == EventEnum[m].firstEvent .. EventEnum[m].noEvent - 1

Enumerators(m) == EventEnum[m].firstEvent .. EventEnum[m].noEvent

TypeOK ==
    /\ parent \in Seq(0..MaxMachines) /\ numEvents \in Seq(1..MaxEvents)
    /\ Len(parent) = Len(numEvents) /\ Len(numEvents) <= MaxMachines
    /\ machine_list \in Seq(Seq(1..MaxMachines)) /\ Len(machine_list) = Len(parent)
    /\ returns \in Seq(Returns) /\ Len(returns) = Len(parent)

(* "Sub-machines are easily selected based on their numeric event range":   *)
(* an event of any machine, passed to the top-level machine, is dispatched  *)
(* on the cells of the machine that declares it.                            *)
EveryEventReachesItsMachine ==
    \A m \in Declared : \A e \in OwnEvents(m) : Route(TopLevel, e) = m

(* No event, and no machine's noEvent, shares its value with another one.   *)
EventValuesAreUnique ==
    \A m, d \in Declared :
        m # d => Enumerators(m) \cap Enumerators(d) = {}

(* Position in a listing, from 0, is value.                                 *)
GivesTheValues(listing) == \A k \in DOMAIN listing : listing[k] = k - 1

(* An event's name in EVENT_NAMES[] stands at the position of its value.    *)
NamesMatchValues == GivesTheValues(EventNames)

(* The indices in the cross reference files are the enumerators' values: of  *)
(* all events in one sequence, of the states machine by machine.             *)
XrefMatchesValues ==
    /\ GivesTheValues(EventXref)
    /\ \A k \in DOMAIN StateXref :
          StateXref[k].index =
              Cardinality({j \in 1..k - 1 : StateXref[j].machine = StateXref[k].machine})

(* "A "cross-reference" giving the value and names of the event enumeration *)
(* as a comment" (src/src/revision.c:333).                                  *)
XrefCommentMatchesValues == GivesTheValues(EventXrefComment)
=============================================================================
