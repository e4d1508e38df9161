---------------------------- MODULE MachineCapture ----------------------------
(***************************************************************************)
(* The parser's work on nested machine declarations: the namespaces that    *)
(* states and events are declared in, the events a sub-machine shares with  *)
(* its parent ("event parent::e"), and what is recorded about a machine     *)
(* and its parent when its closing brace is reached.                        *)
(*                                                                         *)
(* The text of a description is the choice of the next action.  Data        *)
(* blocks, data translators, and states and translators implemented by      *)
(* machines are left out; so are the machine's own actions, whose handling  *)
(* at the closing brace is the module ActionArray.                          *)
(***************************************************************************)
EXTENDS Integers, Sequences, FiniteSets, SequencesExt

CONSTANTS
    Names,        \* the identifiers that states and events are given
    Returns,      \* what actions may return (ACTIONS_RETURN_FLAGS)
    MaxMachines,  \* bound: machines in one description, the top level included
    MaxDecls      \* bound: states and events declared by one machine

ASSUME BoundsAssumption == MaxMachines \in Nat \ {0} /\ MaxDecls \in Nat

Null == 0       \* a pMACHINE_INFO that points nowhere
TopLevel == 1   \* machines are numbered in the order their braces open

VARIABLES
    machines,      \* the MACHINE_INFO records, in the order of their creation
    pmachineInfo,  \* the machine whose declarations are being parsed
    good,          \* no yyerror so far: a description with one is refused
    trapped        \* the translator has been stopped by a null pointer or a division

vars == <<machines, pmachineInfo, good, trapped>>

Machines == DOMAIN machines
Current == machines[pmachineInfo]

SubMachines(m) == {c \in Machines : machines[c].parent = m}

(* The machines whose declarations enclose m, m included: what the walk     *)
(* from parent to parent meets, and so what every set holds that has m and  *)
(* the parents of the machines it has.                                      *)
HasParents(S) == \A c \in S : machines[c].parent \in S \cup {Null}
Enclosing(m) ==
    {a \in Machines :
        \A S \in SUBSET Machines : m \in S \cup {Null} /\ HasParents(S) => a \in S}

Init ==
    /\ machines = <<>> /\ pmachineInfo = Null
    /\ good = TRUE /\ trapped = FALSE

-----------------------------------------------------------------------------
(* What "machine ID qualifier {" creates: a record with an empty namespace, *)
(* in which the qualifier has said what actions return.                     *)
MachinePrefix(p, r) ==
    [parent |-> p, returns |-> r, captured |-> FALSE,
     id_list |-> [n \in Names |-> "LOOKUP"], states |-> 0,
     event_list |-> <<>>, shared_with_parent |-> {},
     psharing_sub_machines |-> [n \in Names |-> <<>>],
     machine_list |-> <<>>, sub_machine_depth |-> 0, heterogeneous_children |-> FALSE,
     shared_event_count |-> 0, parent_event_reference_count |-> 0]

(* A machine has at least one declaration before its first sub-machine.     *)
OpenMachine(r) ==
    /\ ~trapped /\ Len(machines) < MaxMachines
    /\ IF pmachineInfo = Null THEN machines = <<>>
                              ELSE Current.states + Len(Current.event_list) > 0
    /\ machines' = Append(machines, MachinePrefix(pmachineInfo, r))
    /\ pmachineInfo' = Len(machines) + 1
    /\ UNCHANGED <<good, trapped>>

(* Declarations come before sub-machines.                                   *)
MayDeclare ==
    /\ ~trapped /\ pmachineInfo # Null
    /\ SubMachines(pmachineInfo) = {}
    /\ Current.states + Len(Current.event_list) < MaxDecls

WithState(mi, n) == [mi EXCEPT !.id_list[n] = "STATE", !.states = @ + 1]

WithEvent(mi, n) == [mi EXCEPT !.id_list[n] = "EVENT", !.event_list = Append(@, n)]

(* Only a name that is new to the namespace is the token ID.                *)
DeclareState(n) ==
    /\ MayDeclare /\ Current.id_list[n] = "LOOKUP"
    /\ machines' = [machines EXCEPT ![pmachineInfo] = WithState(@, n)]
    /\ UNCHANGED <<pmachineInfo, good, trapped>>

DeclareEvent(n) ==
    /\ MayDeclare /\ Current.id_list[n] = "LOOKUP"
    /\ machines' = [machines EXCEPT ![pmachineInfo] = WithEvent(@, n)]
    /\ UNCHANGED <<pmachineInfo, good, trapped>>

(* "parent::" in a top-level machine: yyerror comes back, and the parser    *)
(* goes on to take the namespace of a parent that is not there.             *)
NamespaceOfNoParent ==
    /\ MayDeclare /\ Current.parent = Null
    /\ good' = FALSE /\ trapped' = TRUE
    /\ UNCHANGED <<machines, pmachineInfo>>

(* A token kept in a bool: LOOKUP is 0, every other token is not.           *)
AsBool(token) == token # "LOOKUP"

(* add_unique_id adds a name that is new; for one that is not, it returns,  *)
(* as a bool, the token that lookup_id has found.                           *)
AddUniqueId(id_list, n) ==
    IF id_list[n] = "LOOKUP"
    THEN [id_list |-> [id_list EXCEPT ![n] = "EVENT"], ret_val |-> TRUE]
    ELSE [id_list |-> id_list, ret_val |-> AsBool(id_list[n])]

(* Fault: the newest sharer is put first.                                   *)
WithSharerFirst(sharers, m) == <<m>> \o sharers

(* The parent's event learns of the machine that shares it.                 *)
WithSharer(sharers, m) == Append(sharers, m)

SharedBy(pi, n, m) == [pi EXCEPT !.psharing_sub_machines[n] = WithSharer(@, m)]

WithParentEvent(mi, id_list, n) ==
    [mi EXCEPT !.id_list = id_list, !.event_list = Append(@, n),
               !.shared_with_parent = @ \cup {n}]

(* "event parent::n": n is a token EVENT of the parent's namespace.         *)
ShareParentEvent(n) ==
    /\ MayDeclare /\ Current.parent # Null
    /\ machines[Current.parent].id_list[n] = "EVENT"
    /\ LET added == AddUniqueId(Current.id_list, n)
       IN  /\ good' = (good /\ added.ret_val)
           /\ machines' = [machines EXCEPT
                  ![pmachineInfo] = WithParentEvent(@, added.id_list, n),
                  ![Current.parent] = SharedBy(@, n, pmachineInfo)]
    /\ UNCHANGED <<pmachineInfo, trapped>>

-----------------------------------------------------------------------------
(* compute_event_and_state_density_pct divides by both counts.              *)
Divisible == Current.states > 0 /\ Current.event_list # <<>>

DivideByZero ==
    /\ ~trapped /\ pmachineInfo # Null
    /\ ~Divisible /\ Current.states + Len(Current.event_list) > 0
    /\ trapped' = TRUE
    /\ UNCHANGED <<machines, pmachineInfo, good>>

(* Fault: the two counters are filled by each other's test.                 *)
EventsSharedByOthersSwapped(mi) ==
    Cardinality({i \in DOMAIN mi.event_list : mi.event_list[i] \in mi.shared_with_parent})

(* count_parent_event_refs, count_shared_evts: one for each entry of the    *)
(* event list.                                                              *)
EventsSharedByOthers(mi) ==
    Cardinality({i \in DOMAIN mi.event_list :
                     mi.psharing_sub_machines[mi.event_list[i]] # <<>>})
EventsSharedWithParent(mi) ==
    Cardinality({i \in DOMAIN mi.event_list : mi.event_list[i] \in mi.shared_with_parent})

(* Fault: every sub-machine decides anew.                                   *)
HeterogeneousAsTheLast(pi, r) == pi.returns # r

(* The flag is left alone once it is set.                                   *)
HeterogeneousChildren(pi, r) == pi.heterogeneous_children \/ pi.returns # r

(* Fault: every sub-machine raises the depth.                               *)
DepthForEach(pi) == 1

(* Only the first machine of a machine list raises the depth: its parent's  *)
(* and that of every machine around it.                                     *)
DepthIncrease(pi) == IF pi.machine_list = <<>> THEN 1 ELSE 0

Captured(mi) ==
    [mi EXCEPT !.captured = TRUE,
               !.shared_event_count = EventsSharedWithParent(mi),
               !.parent_event_reference_count = EventsSharedByOthers(mi)]

WithSubMachine(pi, m) ==
    [pi EXCEPT !.machine_list = Append(@, m),
               !.heterogeneous_children = HeterogeneousChildren(pi, machines[m].returns)]

Raised(mi, n) == [mi EXCEPT !.sub_machine_depth = @ + n]

(* Fault: the context stays with the machine that has been captured.        *)
ContextKept(m) == m

(* "reset context"                                                          *)
ContextAfter(m) == machines[m].parent

(* The closing brace: capture_machine, and machine_list in the parent.      *)
CaptureMachine ==
    /\ ~trapped /\ pmachineInfo # Null /\ Divisible
    /\ LET m == pmachineInfo
           p == Current.parent
           n == IF p = Null THEN 0 ELSE DepthIncrease(machines[p])
       IN  machines' = [i \in Machines |->
               IF i = m THEN Captured(machines[m])
               ELSE IF i = p THEN Raised(WithSubMachine(machines[p], m), n)
               ELSE IF i \in Enclosing(m) THEN Raised(machines[i], n)
               ELSE machines[i]]
    /\ pmachineInfo' = ContextAfter(pmachineInfo)
    /\ UNCHANGED <<good, trapped>>

Next ==
    \/ \E r \in Returns : OpenMachine(r)
    \/ \E n \in Names : DeclareState(n) \/ DeclareEvent(n) \/ ShareParentEvent(n)
    \/ NamespaceOfNoParent
    \/ DivideByZero
    \/ CaptureMachine

Spec == Init /\ [][Next]_vars

-----------------------------------------------------------------------------
Accepted == good /\ ~trapped /\ machines # <<>> /\ machines[TopLevel].captured

(* Types; and the machines that are still open are those around the one     *)
(* being parsed.                                                            *)
TypeOK ==
    /\ good \in BOOLEAN /\ trapped \in BOOLEAN
    /\ pmachineInfo \in 0..Len(machines) /\ Len(machines) <= MaxMachines
    /\ Enclosing(pmachineInfo) = {m \in Machines : ~machines[m].captured}
    /\ \A m \in Machines :
           /\ machines[m].parent \in 0..(m - 1) /\ machines[m].returns \in Returns
           /\ machines[m].id_list \in [Names -> {"LOOKUP", "STATE", "EVENT"}]
           /\ machines[m].event_list \in Seq(Names)
           /\ machines[m].sub_machine_depth \in 0..MaxMachines
           /\ machines[m].heterogeneous_children \in BOOLEAN

(* "The machines will be called in order" (src/README.md:430): an event's   *)
(* list of sharers holds the sub-machines that share it and no other        *)
(* machine, in the order of their declaration, whatever was declared in     *)
(* their own namespaces in between.                                         *)
SharersAreMutual ==
    \A m \in Machines, n \in Names :
        LET sharers == machines[m].psharing_sub_machines[n]
        IN  /\ ToSet(sharers) = {c \in SubMachines(m) : n \in machines[c].shared_with_parent}
            /\ \A i, j \in DOMAIN sharers : i < j => sharers[i] <= sharers[j]

(* The calls of sub-machines take the form for different return types just  *)
(* when some captured sub-machine's actions return something else than      *)
(* those of the machine itself, in whatever order they are declared.        *)
HeterogeneousIsExact ==
    \A m \in Machines :
        machines[m].heterogeneous_children <=>
            \E c \in SubMachines(m) : machines[c].captured /\ machines[c].returns # machines[m].returns

(* maxDepth() = 1, on which short names for user functions depend, says     *)
(* that there are sub-machines and that none of them has any.               *)
DepthOneIsExact ==
    \A m \in Machines :
        machines[m].captured =>
            (machines[m].sub_machine_depth = 1
                <=> SubMachines(m) # {} /\ \A c \in SubMachines(m) : SubMachines(c) = {})

(* The counts taken at a machine's closing brace still decide rightly when  *)
(* code is generated: pass_shared_event is printed for a machine one of     *)
(* whose events a sub-machine shares, and the structures of a sharer for a  *)
(* machine that shares one.                                                 *)
CountsMatchSharing ==
    \A m \in Machines : machines[m].captured =>
        /\ machines[m].parent_event_reference_count > 0
               <=> \E c \in SubMachines(m) : machines[c].shared_with_parent # {}
        /\ machines[m].shared_event_count > 0 <=> machines[m].shared_with_parent # {}

(* "Cannot reference parent event twice" (src/src/parser.y:1738): in a      *)
(* description that is accepted, no machine lists an event twice.           *)
AcceptedEventsAreDistinct ==
    Accepted => \A m \in Machines : IsInjective(machines[m].event_list)
=============================================================================
