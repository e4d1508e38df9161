------------------------ MODULE MachineCapture_proofs ------------------------
(***************************************************************************)
(* What is recorded about machines and their parents when their braces     *)
(* close, for descriptions of any number of machines, at any depth, with   *)
(* any number of declarations and any names.                               *)
(***************************************************************************)
EXTENDS MachineCapture, FiniteSetTheorems, SequenceTheorems, TLAPS

Tokens == {"LOOKUP", "STATE", "EVENT"}

MachineInfo ==
    [parent : Nat, returns : Returns, captured : BOOLEAN,
     id_list : [Names -> Tokens], states : Nat,
     event_list : Seq(Names), shared_with_parent : SUBSET Names,
     psharing_sub_machines : [Names -> Seq(Nat)],
     machine_list : Seq(Nat), sub_machine_depth : Nat, heterogeneous_children : BOOLEAN,
     shared_event_count : Nat, parent_event_reference_count : Nat]

(* A parent's brace opens before its sub-machines'.                          *)
RecordsInv ==
    /\ machines \in Seq(MachineInfo) /\ Len(machines) <= MaxMachines
    /\ pmachineInfo \in 0..Len(machines)
    /\ good \in BOOLEAN /\ trapped \in BOOLEAN
    /\ \A m \in Machines : machines[m].parent < m

(* The machines that are open are those around the one being parsed; while   *)
(* that one has no sub-machine, none has been opened after it.               *)
NestInv ==
    /\ \A m \in Machines : m \in Enclosing(pmachineInfo) <=> ~machines[m].captured
    /\ pmachineInfo # Null /\ SubMachines(pmachineInfo) = {} => pmachineInfo = Len(machines)

(* machine_list is filled as the sub-machines are captured.                  *)
Parental(m) == machines[m].machine_list # <<>>
ListInv == \A m \in Machines : Parental(m) <=> \E c \in SubMachines(m) : machines[c].captured

(* What a namespace knows as an event, what is shared with the parent and    *)
(* what sub-machines share is in the event list.                             *)
EventsInv == \A m \in Machines, n \in Names :
    \/ machines[m].id_list[n] = "EVENT"
    \/ n \in machines[m].shared_with_parent
    \/ machines[m].psharing_sub_machines[n] # <<>>
    => n \in ToSet(machines[m].event_list)

(* The depth of a machine counts the machines inside it, itself included,    *)
(* that have a sub-machine.                                                  *)
ParentalWithin(m) == {d \in Machines : m \in Enclosing(d) /\ Parental(d)}
DepthInv == \A m \in Machines : machines[m].sub_machine_depth = Cardinality(ParentalWithin(m))

IInv ==
    /\ RecordsInv /\ NestInv /\ ListInv /\ EventsInv /\ DepthInv
    /\ SharersAreMutual /\ HeterogeneousIsExact /\ CountsMatchSharing


-----------------------------------------------------------------------------
(* The walk up a tree whose parents have smaller numbers.                    *)
Up(par, m) ==
    {a \in DOMAIN par :
        \A S \in SUBSET DOMAIN par :
            m \in S \cup {Null} /\ (\A c \in S : par[c] \in S \cup {Null}) => a \in S}

IsTree(par, N) == par \in [1..N -> Nat] /\ \A c \in 1..N : par[c] < c

Parents == [i \in Machines |-> machines[i].parent]

LEMMA EnclosingIsUp ==
    /\ \A m : Enclosing(m) = Up(Parents, m)
    /\ \A m : Enclosing(m)' = Up(Parents', m)
<1>1. \A m : Enclosing(m) = Up(Parents, m)
  BY DEF Enclosing, HasParents, Up, Parents
<1>2. \A m : Enclosing(m)' = Up(Parents', m)
  BY DEF Enclosing, HasParents, Up, Parents
<1> QED
  BY <1>1, <1>2

LEMMA UpOfNull == \A par : Up(par, Null) = {}
<1> SUFFICES ASSUME NEW par, NEW a \in Up(par, Null) PROVE FALSE
  OBVIOUS
<1>1. {} \in SUBSET DOMAIN par /\ Null \in {} \cup {Null}
  OBVIOUS
<1> QED
  BY <1>1 DEF Up

LEMMA UpLeast ==
    ASSUME NEW N \in Nat, NEW par, IsTree(par, N), NEW m, NEW S \in SUBSET (1..N),
           m \in S \cup {Null}, \A c \in S : par[c] \in S \cup {Null}
    PROVE  Up(par, m) \subseteq S
  BY DEF Up, IsTree

LEMMA UpContains ==
    ASSUME NEW N \in Nat, NEW par, IsTree(par, N), NEW m \in 0..N
    PROVE  /\ Up(par, m) \subseteq 1..N /\ m \in Up(par, m) \cup {Null}
           /\ \A c \in Up(par, m) : par[c] \in Up(par, m) \cup {Null}
<1>1. Up(par, m) \subseteq 1..N /\ DOMAIN par = 1..N
  BY DEF Up, IsTree
<1>2. m \in Up(par, m) \cup {Null}
  BY <1>1 DEF Up, Null
<1>3. ASSUME NEW c \in Up(par, m) PROVE par[c] \in Up(par, m) \cup {Null}
  <2> SUFFICES ASSUME par[c] # Null PROVE par[c] \in Up(par, m)
    OBVIOUS
  <2>1. c \in 1..N /\ par[c] \in 1..N
    BY <1>1 DEF IsTree, Null
  <2>2. ASSUME NEW S \in SUBSET (1..N), m \in S \cup {Null}, \A d \in S : par[d] \in S \cup {Null}
        PROVE  par[c] \in S
    <3>1. c \in S
      BY <2>2, UpLeast
    <3> QED BY <2>2, <3>1
  <2> QED BY <1>1, <2>1, <2>2 DEF Up
<1> QED
  BY <1>1, <1>2, <1>3

(* The numbers get smaller on the way up.                                    *)
LEMMA UpDescends ==
    ASSUME NEW N \in Nat, NEW par, IsTree(par, N), NEW m \in 0..N
    PROVE  \A a \in Up(par, m) : a <= m
<1> DEFINE S == {a \in 1..N : a <= m}
<1>1. m \in S \cup {Null} /\ \A c \in S : par[c] \in S \cup {Null}
  BY DEF IsTree, Null
<1>2. S \in SUBSET (1..N)
  OBVIOUS
<1> HIDE DEF S
<1>3. Up(par, m) \subseteq S
  BY <1>1, <1>2, UpLeast
<1> QED
  BY <1>3 DEF S

(* What is above a machine is above its parent, or the machine itself.       *)
LEMMA UpOfChild ==
    ASSUME NEW N \in Nat, NEW par, IsTree(par, N), NEW m \in 1..N
    PROVE  Up(par, m) = {m} \cup Up(par, par[m]) /\ m \notin Up(par, par[m])
<1> DEFINE p == par[m]
           S == {m} \cup Up(par, p)
<1>1. p \in 0..N /\ p < m /\ m # Null /\ m \in 0..N
  BY DEF IsTree, Null
<1>2. /\ Up(par, p) \subseteq 1..N /\ p \in Up(par, p) \cup {Null}
      /\ \A c \in Up(par, p) : par[c] \in Up(par, p) \cup {Null}
  BY <1>1, UpContains
<1>3. S \in SUBSET (1..N) /\ m \in S /\ \A c \in S : par[c] \in S \cup {Null}
  BY <1>2
<1> HIDE DEF S
<1>4. Up(par, m) \subseteq S
  BY <1>3, UpLeast
<1>5. /\ Up(par, m) \subseteq 1..N /\ m \in Up(par, m)
      /\ \A c \in Up(par, m) : par[c] \in Up(par, m) \cup {Null}
  BY <1>1, UpContains
<1>6. Up(par, p) \subseteq Up(par, m)
  BY <1>5, UpLeast
<1>7. m \notin Up(par, p)
  BY <1>1, UpDescends
<1> QED
  BY <1>4, <1>5, <1>6, <1>7 DEF S

(* A machine opened last is above no other.                                  *)
LEMMA UpOfOlder ==
    ASSUME NEW N \in Nat, NEW par, IsTree(par, N), NEW new, IsTree(new, N + 1),
           \A c \in 1..N : new[c] = par[c], NEW m \in 0..N
    PROVE  Up(new, m) = Up(par, m)
<1>1. Up(new, m) \subseteq Up(par, m)
  <2>1. /\ Up(par, m) \subseteq 1..N /\ m \in Up(par, m) \cup {Null}
        /\ \A c \in Up(par, m) : par[c] \in Up(par, m) \cup {Null}
    BY UpContains
  <2>2. Up(par, m) \in SUBSET (1..N + 1) /\ \A c \in Up(par, m) : new[c] \in Up(par, m) \cup {Null}
    BY <2>1
  <2>3. N + 1 \in Nat
    OBVIOUS
  <2> QED BY <2>1, <2>2, <2>3, UpLeast
<1>2. Up(par, m) \subseteq Up(new, m)
  <2> DEFINE S == Up(new, m) \cap 1..N
  <2>1. /\ Up(new, m) \subseteq 1..N + 1 /\ m \in Up(new, m) \cup {Null}
        /\ \A c \in Up(new, m) : new[c] \in Up(new, m) \cup {Null}
    BY UpContains
  <2>2. m \in S \cup {Null}
    BY <2>1 DEF Null
  <2>3. \A c \in S : par[c] \in S \cup {Null}
    BY <2>1 DEF IsTree, Null
  <2>4. S \in SUBSET (1..N)
    OBVIOUS
  <2> HIDE DEF S
  <2>5. Up(par, m) \subseteq S
    BY <2>2, <2>3, <2>4, UpLeast
  <2> QED BY <2>5 DEF S
<1> QED
  BY <1>1, <1>2


-----------------------------------------------------------------------------
(* What the record updates change.                                           *)

(* Declarations leave alone what a record says about the tree of machines.   *)
SameSkeleton(a, b) ==
    /\ a.parent = b.parent /\ a.returns = b.returns /\ a.captured = b.captured
    /\ a.machine_list = b.machine_list /\ a.sub_machine_depth = b.sub_machine_depth
    /\ a.heterogeneous_children = b.heterogeneous_children
    /\ a.shared_event_count = b.shared_event_count
    /\ a.parent_event_reference_count = b.parent_event_reference_count

(* A state's name is taken.                                                  *)
LEMMA WithStateFields ==
    ASSUME NEW mi \in MachineInfo, NEW n \in Names
    PROVE  LET w == WithState(mi, n)
           IN  /\ w \in MachineInfo /\ SameSkeleton(w, mi)
               /\ w.event_list = mi.event_list
               /\ w.shared_with_parent = mi.shared_with_parent
               /\ w.psharing_sub_machines = mi.psharing_sub_machines
               /\ \A k \in Names : w.id_list[k] = "EVENT" => mi.id_list[k] = "EVENT"
<1> DEFINE w == WithState(mi, n)
<1>1. SameSkeleton(w, mi)
  BY Zenon DEF WithState, MachineInfo, SameSkeleton
<1>2. /\ w.event_list = mi.event_list
      /\ w.shared_with_parent = mi.shared_with_parent
      /\ w.psharing_sub_machines = mi.psharing_sub_machines
  BY Zenon DEF WithState, MachineInfo
<1>3. w.id_list = [mi.id_list EXCEPT ![n] = "STATE"] /\ w.states = mi.states + 1
  BY Zenon DEF WithState, MachineInfo
<1>4. mi.id_list \in [Names -> Tokens] /\ mi.states + 1 \in Nat
  BY DEF MachineInfo
<1>5. [mi.id_list EXCEPT ![n] = "STATE"] \in [Names -> Tokens]
  BY <1>4 DEF Tokens
<1>6. w \in MachineInfo
  BY <1>4, <1>5, Zenon DEF WithState, MachineInfo
<1> QED
  BY <1>1, <1>2, <1>3, <1>4, <1>6

(* A name becomes an event's, and the event is listed.                       *)
LEMMA WithEventFields ==
    ASSUME NEW mi \in MachineInfo, NEW n \in Names
    PROVE  LET w == WithEvent(mi, n)
           IN  /\ w \in MachineInfo /\ SameSkeleton(w, mi)
               /\ w.event_list = Append(mi.event_list, n)
               /\ w.shared_with_parent = mi.shared_with_parent
               /\ w.psharing_sub_machines = mi.psharing_sub_machines
               /\ \A k \in Names : w.id_list[k] = "EVENT" => k = n \/ mi.id_list[k] = "EVENT"
<1> DEFINE w == WithEvent(mi, n)
<1>1. SameSkeleton(w, mi)
  BY Zenon DEF WithEvent, MachineInfo, SameSkeleton
<1>2. /\ w.event_list = Append(mi.event_list, n)
      /\ w.shared_with_parent = mi.shared_with_parent
      /\ w.psharing_sub_machines = mi.psharing_sub_machines
  BY Zenon DEF WithEvent, MachineInfo
<1>3. w.id_list = [mi.id_list EXCEPT ![n] = "EVENT"]
  BY Zenon DEF WithEvent, MachineInfo
<1>4. mi.id_list \in [Names -> Tokens] /\ Append(mi.event_list, n) \in Seq(Names)
  BY DEF MachineInfo
<1>5. [mi.id_list EXCEPT ![n] = "EVENT"] \in [Names -> Tokens]
  BY <1>4 DEF Tokens
<1>6. w \in MachineInfo
  BY <1>4, <1>5, Zenon DEF WithEvent, MachineInfo
<1> QED
  BY <1>1, <1>2, <1>3, <1>4, <1>6

(* A parent's event is listed, whether or not its name was new.              *)
LEMMA WithParentEventFields ==
    ASSUME NEW mi \in MachineInfo, NEW n \in Names
    PROVE  LET w == WithParentEvent(mi, AddUniqueId(mi.id_list, n).id_list, n)
           IN  /\ w \in MachineInfo /\ SameSkeleton(w, mi)
               /\ w.event_list = Append(mi.event_list, n)
               /\ w.shared_with_parent = mi.shared_with_parent \cup {n}
               /\ w.psharing_sub_machines = mi.psharing_sub_machines
               /\ \A k \in Names : w.id_list[k] = "EVENT" => k = n \/ mi.id_list[k] = "EVENT"
<1> DEFINE ids == AddUniqueId(mi.id_list, n).id_list
           w == WithParentEvent(mi, ids, n)
<1>1. mi.id_list \in [Names -> Tokens] /\ Append(mi.event_list, n) \in Seq(Names)
      /\ mi.shared_with_parent \cup {n} \in SUBSET Names
  BY DEF MachineInfo
<1>2. ids = mi.id_list \/ ids = [mi.id_list EXCEPT ![n] = "EVENT"]
  BY DEF AddUniqueId
<1>3. /\ ids \in [Names -> Tokens]
      /\ \A k \in Names : ids[k] = "EVENT" => k = n \/ mi.id_list[k] = "EVENT"
  BY <1>1, <1>2 DEF Tokens
<1> HIDE DEF ids
<1>4. SameSkeleton(w, mi)
  BY Zenon DEF WithParentEvent, MachineInfo, SameSkeleton
<1>5. /\ w.event_list = Append(mi.event_list, n)
      /\ w.shared_with_parent = mi.shared_with_parent \cup {n}
      /\ w.psharing_sub_machines = mi.psharing_sub_machines
      /\ w.id_list = ids
  BY Zenon DEF WithParentEvent, MachineInfo
<1>6. w \in MachineInfo
  BY <1>1, <1>3, Zenon DEF WithParentEvent, MachineInfo
<1> QED
  BY <1>3, <1>4, <1>5, <1>6 DEF ids

(* The parent's event gets one more sharer.                                  *)
LEMMA SharedByFields ==
    ASSUME NEW pi \in MachineInfo, NEW n \in Names, NEW m \in Nat
    PROVE  LET w == SharedBy(pi, n, m)
           IN  /\ w \in MachineInfo /\ SameSkeleton(w, pi)
               /\ w.event_list = pi.event_list /\ w.id_list = pi.id_list
               /\ w.shared_with_parent = pi.shared_with_parent
               /\ \A k \in Names : w.psharing_sub_machines[k] =
                      IF k = n THEN Append(pi.psharing_sub_machines[n], m)
                      ELSE pi.psharing_sub_machines[k]
<1> DEFINE w == SharedBy(pi, n, m)
           sharers == Append(pi.psharing_sub_machines[n], m)
<1>1. pi.psharing_sub_machines \in [Names -> Seq(Nat)] /\ sharers \in Seq(Nat)
  BY DEF MachineInfo
<1>2. SameSkeleton(w, pi)
  BY Zenon DEF SharedBy, WithSharer, MachineInfo, SameSkeleton
<1>3. /\ w.event_list = pi.event_list /\ w.id_list = pi.id_list
      /\ w.shared_with_parent = pi.shared_with_parent
      /\ w.psharing_sub_machines = [pi.psharing_sub_machines EXCEPT ![n] = sharers]
  BY Zenon DEF SharedBy, WithSharer, MachineInfo
<1>4. [pi.psharing_sub_machines EXCEPT ![n] = sharers] \in [Names -> Seq(Nat)]
  BY <1>1
<1>5. w \in MachineInfo
  BY <1>4, Zenon DEF SharedBy, WithSharer, MachineInfo
<1> QED
  BY <1>1, <1>2, <1>3, <1>5

(* What no step of the closing brace changes.                                *)
SameNamespace(a, b) ==
    /\ a.parent = b.parent /\ a.returns = b.returns
    /\ a.id_list = b.id_list /\ a.event_list = b.event_list
    /\ a.shared_with_parent = b.shared_with_parent
    /\ a.psharing_sub_machines = b.psharing_sub_machines

LEMMA CapturedFields ==
    ASSUME NEW mi \in MachineInfo,
           EventsSharedWithParent(mi) \in Nat, EventsSharedByOthers(mi) \in Nat
    PROVE  LET w == Captured(mi)
           IN  /\ w \in MachineInfo /\ SameNamespace(w, mi) /\ w.captured = TRUE
               /\ w.machine_list = mi.machine_list
               /\ w.sub_machine_depth = mi.sub_machine_depth
               /\ w.heterogeneous_children = mi.heterogeneous_children
               /\ w.shared_event_count = EventsSharedWithParent(mi)
               /\ w.parent_event_reference_count = EventsSharedByOthers(mi)
<1> DEFINE w == Captured(mi)
<1>1. w \in MachineInfo
  BY Zenon DEF Captured, MachineInfo
<1>2. SameNamespace(w, mi)
  BY Zenon DEF Captured, MachineInfo, SameNamespace
<1>3. w.captured = TRUE /\ w.machine_list = mi.machine_list
  BY Zenon DEF Captured, MachineInfo
<1>4. w.sub_machine_depth = mi.sub_machine_depth
      /\ w.heterogeneous_children = mi.heterogeneous_children
  BY Zenon DEF Captured, MachineInfo
<1>5. w.shared_event_count = EventsSharedWithParent(mi)
      /\ w.parent_event_reference_count = EventsSharedByOthers(mi)
  BY Zenon DEF Captured, MachineInfo
<1> QED
  BY <1>1, <1>2, <1>3, <1>4, <1>5

LEMMA WithSubMachineFields ==
    ASSUME NEW pi \in MachineInfo, NEW m \in Nat
    PROVE  LET w == WithSubMachine(pi, m)
           IN  /\ w \in MachineInfo /\ SameNamespace(w, pi) /\ w.captured = pi.captured
               /\ w.machine_list = Append(pi.machine_list, m)
               /\ w.sub_machine_depth = pi.sub_machine_depth
               /\ w.heterogeneous_children = HeterogeneousChildren(pi, machines[m].returns)
               /\ w.shared_event_count = pi.shared_event_count
               /\ w.parent_event_reference_count = pi.parent_event_reference_count
<1> DEFINE w == WithSubMachine(pi, m)
<1>1. /\ Append(pi.machine_list, m) \in Seq(Nat)
      /\ HeterogeneousChildren(pi, machines[m].returns) \in BOOLEAN
  BY DEF MachineInfo, HeterogeneousChildren
<1>2. w \in MachineInfo
  BY <1>1, Zenon DEF WithSubMachine, MachineInfo
<1>3. SameNamespace(w, pi)
  BY Zenon DEF WithSubMachine, MachineInfo, SameNamespace
<1>4. w.captured = pi.captured /\ w.machine_list = Append(pi.machine_list, m)
  BY Zenon DEF WithSubMachine, MachineInfo
<1>5. w.sub_machine_depth = pi.sub_machine_depth
      /\ w.heterogeneous_children = HeterogeneousChildren(pi, machines[m].returns)
  BY Zenon DEF WithSubMachine, MachineInfo
<1>6. w.shared_event_count = pi.shared_event_count
      /\ w.parent_event_reference_count = pi.parent_event_reference_count
  BY Zenon DEF WithSubMachine, MachineInfo
<1> QED
  BY <1>2, <1>3, <1>4, <1>5, <1>6

LEMMA RaisedFields ==
    ASSUME NEW mi \in MachineInfo, NEW n \in Nat
    PROVE  LET w == Raised(mi, n)
           IN  /\ w \in MachineInfo /\ SameNamespace(w, mi) /\ w.captured = mi.captured
               /\ w.machine_list = mi.machine_list
               /\ w.sub_machine_depth = mi.sub_machine_depth + n
               /\ w.heterogeneous_children = mi.heterogeneous_children
               /\ w.shared_event_count = mi.shared_event_count
               /\ w.parent_event_reference_count = mi.parent_event_reference_count
<1> DEFINE w == Raised(mi, n)
<1>1. mi.sub_machine_depth + n \in Nat
  BY DEF MachineInfo
<1>2. w \in MachineInfo
  BY <1>1, Zenon DEF Raised, MachineInfo
<1>3. SameNamespace(w, mi)
  BY Zenon DEF Raised, MachineInfo, SameNamespace
<1>4. w.captured = mi.captured /\ w.machine_list = mi.machine_list
  BY Zenon DEF Raised, MachineInfo
<1>5. w.sub_machine_depth = mi.sub_machine_depth + n
      /\ w.heterogeneous_children = mi.heterogeneous_children
  BY Zenon DEF Raised, MachineInfo
<1>6. w.shared_event_count = mi.shared_event_count
      /\ w.parent_event_reference_count = mi.parent_event_reference_count
  BY Zenon DEF Raised, MachineInfo
<1> QED
  BY <1>2, <1>3, <1>4, <1>5, <1>6



-----------------------------------------------------------------------------
(* What is used of sequences.                                                *)
LEMMA AppendedSet ==
    ASSUME NEW T, NEW s \in Seq(T), NEW x \in T
    PROVE  ToSet(Append(s, x)) = ToSet(s) \cup {x}
<1>1. \A i \in 1..Len(s) : Append(s, x)[i] = s[i]
  OBVIOUS
<1>2. Append(s, x)[Len(s) + 1] = x /\ Len(Append(s, x)) = Len(s) + 1
  OBVIOUS
<1>3. DOMAIN s = 1..Len(s) /\ DOMAIN Append(s, x) = 1..Len(s) + 1 /\ Len(s) \in Nat
  OBVIOUS
<1>4. ToSet(Append(s, x)) \subseteq ToSet(s) \cup {x}
  BY <1>1, <1>2, <1>3, SMTT(20) DEF ToSet
<1>5. ToSet(s) \cup {x} \subseteq ToSet(Append(s, x))
  BY <1>1, <1>2, <1>3, SMTT(20) DEF ToSet
<1> QED
  BY <1>4, <1>5

LEMMA AppendedOrder ==
    ASSUME NEW s \in Seq(Nat), NEW x \in Nat,
           \A a, b \in DOMAIN s : a < b => s[a] <= s[b], \A a \in DOMAIN s : s[a] <= x
    PROVE  \A a, b \in DOMAIN Append(s, x) : a < b => Append(s, x)[a] <= Append(s, x)[b]
<1>1. /\ Len(s) \in Nat /\ DOMAIN s = 1..Len(s) /\ DOMAIN Append(s, x) = 1..Len(s) + 1
      /\ Append(s, x)[Len(s) + 1] = x
      /\ \A a \in 1..Len(s) : Append(s, x)[a] = s[a]
  OBVIOUS
<1>2. SUFFICES ASSUME NEW a \in 1..Len(s) + 1, NEW b \in 1..Len(s) + 1, a < b
      PROVE  Append(s, x)[a] <= Append(s, x)[b]
  BY <1>1
<1>3. a \in 1..Len(s) /\ (b \in 1..Len(s) \/ b = Len(s) + 1)
  BY <1>1, <1>2
<1>4. CASE b = Len(s) + 1
  BY <1>1, <1>3, <1>4
<1>5. CASE b \in 1..Len(s)
  BY <1>1, <1>2, <1>3, <1>5
<1> QED
  BY <1>3, <1>4, <1>5

(* The machines are numbered, and their parents make a tree.                 *)
LEMMA MachinesAreATree ==
    ASSUME RecordsInv
    PROVE  /\ Len(machines) \in Nat /\ Machines = 1..Len(machines)
           /\ IsTree(Parents, Len(machines))
           /\ \A m \in Machines : machines[m] \in MachineInfo /\ Parents[m] = machines[m].parent
<1>1. machines \in Seq(MachineInfo) /\ \A m \in Machines : machines[m].parent < m
  BY DEF RecordsInv
<1>2. Len(machines) \in Nat /\ DOMAIN machines = 1..Len(machines)
      /\ \A m \in DOMAIN machines : machines[m] \in MachineInfo
  BY <1>1
<1>3. \A m \in Machines : machines[m].parent \in Nat
  BY <1>2 DEF MachineInfo, Machines
<1> QED
  BY <1>1, <1>2, <1>3 DEF Machines, Parents, IsTree

LEMMA InitIInv == Init => IInv
<1> SUFFICES ASSUME Init PROVE IInv
  OBVIOUS
<1>1. machines = <<>> /\ Machines = {} /\ pmachineInfo = Null
  BY DEF Init, Machines
<1>2. RecordsInv
  <2>1. machines \in Seq(MachineInfo) /\ Len(machines) = 0 /\ 0 <= MaxMachines
    BY <1>1, BoundsAssumption
  <2>2. pmachineInfo \in 0..Len(machines)
    BY <1>1, <2>1 DEF Null
  <2>3. good \in BOOLEAN /\ trapped \in BOOLEAN
    BY Zenon DEF Init
  <2> QED BY <1>1, <2>1, <2>2, <2>3 DEF RecordsInv
<1>3. NestInv /\ ListInv /\ EventsInv /\ DepthInv
  BY <1>1 DEF NestInv, ListInv, EventsInv, DepthInv
<1>4. SharersAreMutual /\ HeterogeneousIsExact /\ CountsMatchSharing
  BY <1>1 DEF SharersAreMutual, HeterogeneousIsExact, CountsMatchSharing
<1> QED
  BY <1>2, <1>3, <1>4 DEF IInv

(* Steps that only trap.                                                     *)
LEMMA SameMachines ==
    ASSUME IInv, UNCHANGED <<machines, pmachineInfo>>, good' \in BOOLEAN, trapped' \in BOOLEAN
    PROVE  IInv'
<1>1. RecordsInv'
  BY DEF IInv, RecordsInv, Machines
<1>2. NestInv'
  BY DEF IInv, NestInv, SubMachines, Machines, Enclosing, HasParents
<1>3. ListInv' /\ EventsInv'
  BY DEF IInv, ListInv, EventsInv, SubMachines, Machines, Parental
<1>4. DepthInv'
  BY DEF IInv, DepthInv, ParentalWithin, Machines, Enclosing, HasParents, Parental
<1>5. SharersAreMutual'
  BY DEF IInv, SharersAreMutual, SubMachines, Machines
<1>6. HeterogeneousIsExact' /\ CountsMatchSharing'
  BY DEF IInv, HeterogeneousIsExact, CountsMatchSharing, SubMachines, Machines
<1> QED
  BY <1>1, <1>2, <1>3, <1>4, <1>5, <1>6 DEF IInv



-----------------------------------------------------------------------------
(* Declarations.                                                             *)

(* A machine without sub-machines and the one around it are both open.       *)
LEMMA OpenAround ==
    ASSUME IInv, pmachineInfo # Null
    PROVE  LET p == Current.parent
           IN  /\ pmachineInfo \in Machines /\ Current \in MachineInfo /\ ~Current.captured
               /\ p < pmachineInfo
               /\ p # Null => p \in Machines /\ ~machines[p].captured
               /\ Enclosing(pmachineInfo) = {pmachineInfo} \cup Enclosing(p)
               /\ pmachineInfo \notin Enclosing(p) /\ Enclosing(p) \subseteq Machines
               /\ p # Null => p \in Enclosing(p)
<1> DEFINE N == Len(machines)
           p == Current.parent
<1>1. /\ N \in Nat /\ Machines = 1..N /\ IsTree(Parents, N)
      /\ \A m \in Machines : machines[m] \in MachineInfo /\ Parents[m] = machines[m].parent
  BY MachinesAreATree DEF IInv
<1>2. pmachineInfo \in 1..N /\ p < pmachineInfo
  BY <1>1 DEF IInv, RecordsInv, Null, Current
<1>3. p = Parents[pmachineInfo] /\ p \in 0..N
  BY <1>1, <1>2 DEF Current, MachineInfo
<1>4. Enclosing(pmachineInfo) = Up(Parents, pmachineInfo) /\ Enclosing(p) = Up(Parents, p)
  BY EnclosingIsUp
<1>5. Up(Parents, pmachineInfo) = {pmachineInfo} \cup Up(Parents, p)
      /\ pmachineInfo \notin Up(Parents, p)
  BY <1>1, <1>2, <1>3, UpOfChild
<1>6. Up(Parents, p) \subseteq 1..N /\ p \in Up(Parents, p) \cup {Null}
  BY <1>1, <1>3, UpContains
<1>7. \A m \in Machines : m \in Enclosing(pmachineInfo) <=> ~machines[m].captured
  BY DEF IInv, NestInv
<1> QED
  BY <1>1, <1>2, <1>4, <1>5, <1>6, <1>7 DEF Current

LEMMA SkeletonKept ==
    ASSUME IInv, pmachineInfo # Null, pmachineInfo' = pmachineInfo, Machines' = Machines,
           Len(machines') = Len(machines),
           \A m \in Machines : SameSkeleton(machines'[m], machines[m]),
           \A m \in Machines : m # pmachineInfo =>
               machines'[m].shared_with_parent = machines[m].shared_with_parent
    PROVE  /\ NestInv' /\ ListInv' /\ DepthInv' /\ HeterogeneousIsExact' /\ CountsMatchSharing'
           /\ \A m : SubMachines(m)' = SubMachines(m)
           /\ \A m \in Machines : machines'[m].parent = machines[m].parent
<1>1. /\ \A m \in Machines : machines'[m].parent = machines[m].parent
                             /\ machines'[m].returns = machines[m].returns
                             /\ machines'[m].captured = machines[m].captured
      /\ \A m \in Machines : machines'[m].machine_list = machines[m].machine_list
                             /\ machines'[m].sub_machine_depth = machines[m].sub_machine_depth
      /\ \A m \in Machines : machines'[m].heterogeneous_children
                                 = machines[m].heterogeneous_children
      /\ \A m \in Machines : machines'[m].shared_event_count = machines[m].shared_event_count
                             /\ machines'[m].parent_event_reference_count
                                    = machines[m].parent_event_reference_count
  BY DEF SameSkeleton
<1>2. \A m : SubMachines(m)' = SubMachines(m)
  BY <1>1 DEF SubMachines
<1>3. \A m : Enclosing(m)' = Enclosing(m)
  <2>1. Parents' = Parents
    BY <1>1 DEF Parents
  <2> QED BY <2>1, EnclosingIsUp
<1>4. NestInv'
  BY <1>1, <1>2, <1>3 DEF IInv, NestInv
<1>5. \A m \in Machines : Parental(m)' <=> Parental(m)
  BY <1>1 DEF Parental
<1>6. ListInv'
  <2>1. \A m \in Machines : Parental(m) <=> \E c \in SubMachines(m) : machines[c].captured
    BY DEF IInv, ListInv
  <2>2. \A m : SubMachines(m) \subseteq Machines
    BY DEF SubMachines
  <2> QED BY <1>1, <1>2, <1>5, <2>1, <2>2 DEF ListInv
<1>7. DepthInv'
  <2>1. \A m \in Machines : ParentalWithin(m)' = ParentalWithin(m)
    BY <1>3, <1>5 DEF ParentalWithin
  <2> QED BY <1>1, <2>1 DEF IInv, DepthInv
<1>8. HeterogeneousIsExact'
  <2>1. \A m : SubMachines(m) \subseteq Machines
    BY DEF SubMachines
  <2>2. \A m \in Machines :
            machines[m].heterogeneous_children <=>
                \E c \in SubMachines(m) : machines[c].captured
                                          /\ machines[c].returns # machines[m].returns
    BY DEF IInv, HeterogeneousIsExact
  <2> QED BY <1>1, <1>2, <2>1, <2>2 DEF HeterogeneousIsExact
<1>9. CountsMatchSharing'
  <2> DEFINE p == Current.parent
  <2>1. ~Current.captured /\ (p # Null => ~machines[p].captured)
    BY OpenAround
  <2>2. SUFFICES ASSUME NEW m \in Machines, machines[m].captured
        PROVE  /\ machines'[m].parent_event_reference_count > 0
                     <=> \E c \in SubMachines(m) : machines'[c].shared_with_parent # {}
               /\ machines'[m].shared_event_count > 0 <=> machines'[m].shared_with_parent # {}
    BY <1>1, <1>2 DEF CountsMatchSharing
  <2>3. /\ machines[m].parent_event_reference_count > 0
              <=> \E c \in SubMachines(m) : machines[c].shared_with_parent # {}
        /\ machines[m].shared_event_count > 0 <=> machines[m].shared_with_parent # {}
    BY <2>2 DEF IInv, CountsMatchSharing
  <2>4. m # pmachineInfo /\ (p # Null => m # p) /\ m # Null
    BY <2>1, <2>2, MachinesAreATree DEF Current, IInv, Null
  <2>5. \A c \in SubMachines(m) : c \in Machines /\ c # pmachineInfo
    BY <2>4 DEF SubMachines, Current
  <2> QED BY <1>1, <2>3, <2>4, <2>5
<1> QED
  BY <1>1, <1>2, <1>4, <1>6, <1>7, <1>8, <1>9

(* Nothing is asked of sharers where neither they nor what is shared change. *)
LEMMA SharingKept ==
    ASSUME IInv, Machines' = Machines, \A m : SubMachines(m)' = SubMachines(m),
           \A m \in Machines :
               machines'[m].shared_with_parent = machines[m].shared_with_parent
               /\ machines'[m].psharing_sub_machines = machines[m].psharing_sub_machines
    PROVE  SharersAreMutual'
<1>1. SUFFICES ASSUME NEW m \in Machines, NEW n \in Names
      PROVE  LET sharers == machines'[m].psharing_sub_machines[n]
             IN  /\ ToSet(sharers) = {c \in SubMachines(m) : n \in machines'[c].shared_with_parent}
                 /\ \A i, j \in DOMAIN sharers : i < j => sharers[i] <= sharers[j]
  BY DEF SharersAreMutual
<1>2. LET sharers == machines[m].psharing_sub_machines[n]
      IN  /\ ToSet(sharers) = {c \in SubMachines(m) : n \in machines[c].shared_with_parent}
          /\ \A i, j \in DOMAIN sharers : i < j => sharers[i] <= sharers[j]
  BY DEF IInv, SharersAreMutual
<1>3. SubMachines(m) \subseteq Machines
  BY DEF SubMachines
<1> QED
  BY <1>2, <1>3


(* The records are typed as long as their updates are.                       *)
LEMMA RecordsKept ==
    ASSUME IInv, DOMAIN machines' = Machines, machines' \in [Machines -> MachineInfo],
           \A m \in Machines : machines'[m].parent = machines[m].parent,
           pmachineInfo' \in 0..Len(machines), good' \in BOOLEAN, trapped' \in BOOLEAN
    PROVE  RecordsInv' /\ Machines' = Machines /\ Len(machines') = Len(machines)
<1>1. /\ Len(machines) \in Nat /\ Machines = 1..Len(machines)
      /\ Len(machines) <= MaxMachines /\ \A m \in Machines : machines[m].parent < m
  BY MachinesAreATree DEF IInv, RecordsInv
<1>2. machines' \in Seq(MachineInfo) /\ Len(machines') = Len(machines)
  BY <1>1
<1>3. Machines' = Machines
  BY DEF Machines
<1>4. good' \in BOOLEAN /\ trapped' \in BOOLEAN
  OBVIOUS
<1> QED
  BY <1>1, <1>2, <1>3, <1>4 DEF RecordsInv

LEMMA DeclareStateStep ==
    ASSUME IInv, NEW n \in Names, DeclareState(n) PROVE IInv'
<1> DEFINE w == WithState(Current, n)
<1>1. /\ pmachineInfo # Null /\ machines' = [machines EXCEPT ![pmachineInfo] = w]
      /\ UNCHANGED <<pmachineInfo, good, trapped>>
  BY DEF DeclareState, MayDeclare, Current
<1>2. pmachineInfo \in Machines /\ Current \in MachineInfo
  BY <1>1, OpenAround
<1>3. /\ w \in MachineInfo /\ SameSkeleton(w, Current)
      /\ w.event_list = Current.event_list
      /\ w.shared_with_parent = Current.shared_with_parent
      /\ w.psharing_sub_machines = Current.psharing_sub_machines
      /\ \A k \in Names : w.id_list[k] = "EVENT" => Current.id_list[k] = "EVENT"
  BY <1>2, WithStateFields
<1> HIDE DEF w
<1>4. /\ DOMAIN machines' = Machines
      /\ \A m \in Machines : machines'[m] = IF m = pmachineInfo THEN w ELSE machines[m]
  BY <1>1, <1>2 DEF Machines
<1>5. /\ \A m \in Machines : machines[m] \in MachineInfo
      /\ pmachineInfo \in 0..Len(machines) /\ good \in BOOLEAN /\ trapped \in BOOLEAN
  BY MachinesAreATree DEF IInv, RecordsInv
<1>6. \A m \in Machines : SameSkeleton(machines'[m], machines[m])
  BY <1>3, <1>4 DEF SameSkeleton, Current
<1>7. machines' \in [Machines -> MachineInfo]
  BY <1>1, <1>3, <1>4, <1>5 DEF Machines
<1>8. \A m \in Machines : machines'[m].parent = machines[m].parent
  BY <1>6 DEF SameSkeleton
<1>9. RecordsInv' /\ Machines' = Machines /\ Len(machines') = Len(machines)
  BY <1>1, <1>4, <1>5, <1>7, <1>8, RecordsKept
<1>10. \A m \in Machines :
           /\ machines'[m].event_list = machines[m].event_list
           /\ machines'[m].shared_with_parent = machines[m].shared_with_parent
           /\ machines'[m].psharing_sub_machines = machines[m].psharing_sub_machines
           /\ \A k \in Names :
                  machines'[m].id_list[k] = "EVENT" => machines[m].id_list[k] = "EVENT"
  BY <1>3, <1>4 DEF Current
<1>11. /\ NestInv' /\ ListInv' /\ DepthInv' /\ HeterogeneousIsExact' /\ CountsMatchSharing'
       /\ \A m : SubMachines(m)' = SubMachines(m)
  BY <1>1, <1>6, <1>9, <1>10, SkeletonKept
<1>12. EventsInv'
  BY <1>9, <1>10 DEF IInv, EventsInv
<1>13. SharersAreMutual'
  BY <1>9, <1>10, <1>11, SharingKept
<1> QED
  BY <1>9, <1>11, <1>12, <1>13 DEF IInv

LEMMA DeclareEventStep ==
    ASSUME IInv, NEW n \in Names, DeclareEvent(n) PROVE IInv'
<1> DEFINE w == WithEvent(Current, n)
<1>1. /\ pmachineInfo # Null /\ machines' = [machines EXCEPT ![pmachineInfo] = w]
      /\ UNCHANGED <<pmachineInfo, good, trapped>>
  BY DEF DeclareEvent, MayDeclare, Current
<1>2. pmachineInfo \in Machines /\ Current \in MachineInfo
  BY <1>1, OpenAround
<1>3. /\ w \in MachineInfo /\ SameSkeleton(w, Current)
      /\ w.event_list = Append(Current.event_list, n)
      /\ w.shared_with_parent = Current.shared_with_parent
      /\ w.psharing_sub_machines = Current.psharing_sub_machines
      /\ \A k \in Names : w.id_list[k] = "EVENT" => k = n \/ Current.id_list[k] = "EVENT"
  BY <1>2, WithEventFields
<1> HIDE DEF w
<1>4. /\ DOMAIN machines' = Machines
      /\ \A m \in Machines : machines'[m] = IF m = pmachineInfo THEN w ELSE machines[m]
  BY <1>1, <1>2 DEF Machines
<1>5. /\ \A m \in Machines : machines[m] \in MachineInfo
      /\ pmachineInfo \in 0..Len(machines) /\ good \in BOOLEAN /\ trapped \in BOOLEAN
  BY MachinesAreATree DEF IInv, RecordsInv
<1>6. \A m \in Machines : SameSkeleton(machines'[m], machines[m])
  BY <1>3, <1>4 DEF SameSkeleton, Current
<1>7. machines' \in [Machines -> MachineInfo]
  BY <1>1, <1>3, <1>4, <1>5 DEF Machines
<1>8. \A m \in Machines : machines'[m].parent = machines[m].parent
  BY <1>6 DEF SameSkeleton
<1>9. RecordsInv' /\ Machines' = Machines /\ Len(machines') = Len(machines)
  BY <1>1, <1>4, <1>5, <1>7, <1>8, RecordsKept
<1>10. \A m \in Machines :
           /\ machines'[m].shared_with_parent = machines[m].shared_with_parent
           /\ machines'[m].psharing_sub_machines = machines[m].psharing_sub_machines
  BY <1>3, <1>4 DEF Current
<1>11. /\ NestInv' /\ ListInv' /\ DepthInv' /\ HeterogeneousIsExact' /\ CountsMatchSharing'
       /\ \A m : SubMachines(m)' = SubMachines(m)
  BY <1>1, <1>6, <1>9, <1>10, SkeletonKept
<1>12. EventsInv'
  <2>1. ToSet(w.event_list) = ToSet(Current.event_list) \cup {n}
    BY <1>2, <1>3, AppendedSet DEF MachineInfo
  <2>2. \A k \in Names :
            \/ w.id_list[k] = "EVENT" \/ k \in w.shared_with_parent
            \/ w.psharing_sub_machines[k] # <<>>
            => k \in ToSet(w.event_list)
    BY <1>2, <1>3, <2>1 DEF IInv, EventsInv, Current
  <2> QED BY <1>4, <1>9, <2>2 DEF IInv, EventsInv
<1>13. SharersAreMutual'
  BY <1>9, <1>10, <1>11, SharingKept
<1> QED
  BY <1>9, <1>11, <1>12, <1>13 DEF IInv


(* The machine that shares an event is the last that has been opened, so it  *)
(* goes after those that share the event already.                            *)
LEMMA ShareParentEventStep ==
    ASSUME IInv, NEW n \in Names, ShareParentEvent(n) PROVE IInv'
<1> DEFINE m == pmachineInfo
           p == Current.parent
           w == WithParentEvent(Current, AddUniqueId(Current.id_list, n).id_list, n)
           v == SharedBy(machines[p], n, m)
<1>1. /\ m # Null /\ p # Null /\ SubMachines(m) = {}
      /\ machines[p].id_list[n] = "EVENT"
      /\ UNCHANGED <<pmachineInfo, trapped>>
      /\ good' = (good /\ AddUniqueId(Current.id_list, n).ret_val)
  BY DEF ShareParentEvent, MayDeclare
<1>2. m \in Machines /\ Current \in MachineInfo /\ p < m /\ p \in Machines
  BY <1>1, OpenAround
<1>3. machines' = [machines EXCEPT ![m] = w, ![p] = v]
  BY <1>2 DEF ShareParentEvent, Current
<1>4. /\ w \in MachineInfo /\ SameSkeleton(w, Current)
      /\ w.event_list = Append(Current.event_list, n)
      /\ w.shared_with_parent = Current.shared_with_parent \cup {n}
      /\ w.psharing_sub_machines = Current.psharing_sub_machines
      /\ \A k \in Names : w.id_list[k] = "EVENT" => k = n \/ Current.id_list[k] = "EVENT"
  BY <1>2, WithParentEventFields
<1>5. /\ Len(machines) \in Nat /\ Machines = 1..Len(machines)
      /\ \A i \in Machines : machines[i] \in MachineInfo
      /\ m \in 0..Len(machines) /\ m \in Nat /\ good \in BOOLEAN /\ trapped \in BOOLEAN
  BY MachinesAreATree, <1>2 DEF IInv, RecordsInv
<1>6. /\ v \in MachineInfo /\ SameSkeleton(v, machines[p])
      /\ v.event_list = machines[p].event_list /\ v.id_list = machines[p].id_list
      /\ v.shared_with_parent = machines[p].shared_with_parent
      /\ \A k \in Names : v.psharing_sub_machines[k] =
             IF k = n THEN Append(machines[p].psharing_sub_machines[n], m)
             ELSE machines[p].psharing_sub_machines[k]
  <2>1. machines[p] \in MachineInfo /\ m \in Nat
    BY <1>2, <1>5
  <2> HIDE DEF p, m, w
  <2> QED BY <2>1, SharedByFields
<1>7. good' \in BOOLEAN /\ trapped' \in BOOLEAN
  <2>1. AddUniqueId(Current.id_list, n).ret_val \in BOOLEAN
    BY DEF AddUniqueId, AsBool
  <2> QED BY <1>1, <1>5, <2>1
<1> HIDE DEF m, p, w, v
<1>8. m # p
  BY <1>2, <1>5
<1>9. /\ DOMAIN machines' = Machines /\ machines'[m] = w /\ machines'[p] = v
      /\ \A i \in Machines : i # m /\ i # p => machines'[i] = machines[i]
  BY <1>2, <1>3, <1>8 DEF Machines
<1>10. \A i \in Machines : SameSkeleton(machines'[i], machines[i])
  BY <1>4, <1>6, <1>9 DEF SameSkeleton, Current, m
<1>11. machines' \in [Machines -> MachineInfo]
  BY <1>3, <1>4, <1>5, <1>6, <1>9 DEF Machines
<1>12. \A i \in Machines : machines'[i].parent = machines[i].parent
  BY <1>10 DEF SameSkeleton
<1>13. m' = m /\ pmachineInfo' = pmachineInfo /\ pmachineInfo = m
  BY <1>1 DEF m
<1>14. RecordsInv' /\ Machines' = Machines /\ Len(machines') = Len(machines)
  BY <1>5, <1>7, <1>9, <1>11, <1>12, <1>13, RecordsKept
<1>15. \A i \in Machines : i # m =>
           machines'[i].shared_with_parent = machines[i].shared_with_parent
  BY <1>6, <1>9
<1>16. /\ NestInv' /\ ListInv' /\ DepthInv' /\ HeterogeneousIsExact' /\ CountsMatchSharing'
       /\ \A i : SubMachines(i)' = SubMachines(i)
  BY <1>1, <1>10, <1>13, <1>14, <1>15, SkeletonKept
<1>17. EventsInv'
  <2>1. ToSet(w.event_list) = ToSet(Current.event_list) \cup {n}
    BY <1>2, <1>4, AppendedSet DEF MachineInfo
  <2>2. Current = machines[m]
    BY DEF Current, m
  <2>3. \A k \in Names :
            \/ w.id_list[k] = "EVENT" \/ k \in w.shared_with_parent
            \/ w.psharing_sub_machines[k] # <<>>
            => k \in ToSet(w.event_list)
    BY <1>2, <1>4, <2>1, <2>2 DEF IInv, EventsInv
  <2>4. \A k \in Names :
            \/ v.id_list[k] = "EVENT" \/ k \in v.shared_with_parent
            \/ v.psharing_sub_machines[k] # <<>>
            => k \in ToSet(v.event_list)
    BY <1>1, <1>2, <1>6 DEF IInv, EventsInv, p
  <2> QED BY <1>9, <1>14, <2>3, <2>4 DEF IInv, EventsInv
<1>18. SharersAreMutual'
  <2>1. SUFFICES ASSUME NEW i \in Machines, NEW k \in Names
        PROVE  LET sharers == machines'[i].psharing_sub_machines[k]
               IN  /\ ToSet(sharers) =
                          {c \in SubMachines(i) : k \in machines'[c].shared_with_parent}
                   /\ \A a, b \in DOMAIN sharers : a < b => sharers[a] <= sharers[b]
    BY <1>14, <1>16 DEF SharersAreMutual
  <2> DEFINE old == machines[i].psharing_sub_machines[k]
  <2>2. /\ ToSet(old) = {c \in SubMachines(i) : k \in machines[c].shared_with_parent}
        /\ \A a, b \in DOMAIN old : a < b => old[a] <= old[b]
    BY DEF IInv, SharersAreMutual
  <2>3. SubMachines(i) \subseteq Machines /\ \A c \in SubMachines(i) : machines[c].parent = i
    BY DEF SubMachines
  <2>4. CASE i = p /\ k = n
    <3>1. machines'[i].psharing_sub_machines[k] = Append(old, m)
      BY <1>6, <1>9, <2>4
    <3>2. old \in Seq(Nat)
      BY <1>5 DEF MachineInfo
    <3>3. ToSet(Append(old, m)) = ToSet(old) \cup {m}
      BY <1>5, <3>2, AppendedSet
    <3>4. m \in SubMachines(i) /\ k \in machines'[m].shared_with_parent
      BY <1>2, <1>4, <1>9, <2>4 DEF SubMachines, p, m, Current
    <3>5. {c \in SubMachines(i) : k \in machines'[c].shared_with_parent} = ToSet(old) \cup {m}
      BY <1>15, <2>2, <2>3, <3>4
    <3>6. \A a \in DOMAIN old : old[a] <= m
      <4>1. m = Len(machines)
        BY <1>1 DEF IInv, NestInv, m
      <4>2. \A a \in DOMAIN old : old[a] \in ToSet(old)
        BY DEF ToSet
      <4> QED BY <1>5, <2>2, <2>3, <4>1, <4>2
    <3>7. \A a, b \in DOMAIN Append(old, m) : a < b => Append(old, m)[a] <= Append(old, m)[b]
      BY <1>5, <2>2, <3>2, <3>6, AppendedOrder
    <3> QED BY <3>1, <3>3, <3>5, <3>7
  <2>5. CASE ~(i = p /\ k = n)
    <3>1. machines'[i].psharing_sub_machines[k] = old
      BY <1>4, <1>6, <1>9, <2>5 DEF Current, m
    <3>2. \A c \in SubMachines(i) :
              k \in machines'[c].shared_with_parent <=> k \in machines[c].shared_with_parent
      <4>1. \A c \in SubMachines(i) : c = m => k # n
        BY <2>3, <2>5 DEF p, m, Current
      <4>2. k # n => (k \in machines'[m].shared_with_parent
                          <=> k \in machines[m].shared_with_parent)
        BY <1>4, <1>9 DEF Current, m
      <4> QED BY <1>15, <2>3, <4>1, <4>2
    <3> QED BY <2>2, <3>1, <3>2
  <2> QED BY <2>4, <2>5
<1> QED
  BY <1>14, <1>16, <1>17, <1>18 DEF IInv



-----------------------------------------------------------------------------
(* A brace opens.                                                            *)

LEMMA PrefixFields ==
    ASSUME NEW q \in Nat, NEW r \in Returns
    PROVE  LET w == MachinePrefix(q, r)
           IN  /\ w \in MachineInfo
               /\ w.parent = q /\ w.returns = r /\ w.captured = FALSE
               /\ w.event_list = <<>> /\ w.shared_with_parent = {} /\ w.machine_list = <<>>
               /\ \A n \in Names : w.id_list[n] = "LOOKUP"
               /\ \A n \in Names : w.psharing_sub_machines[n] = <<>>
               /\ w.sub_machine_depth = 0 /\ w.heterogeneous_children = FALSE
<1>1. /\ [n \in Names |-> "LOOKUP"] \in [Names -> Tokens]
      /\ [n \in Names |-> <<>>] \in [Names -> Seq(Nat)]
      /\ <<>> \in Seq(Names) /\ <<>> \in Seq(Nat) /\ 0 \in Nat
  BY DEF Tokens
<1>2. MachinePrefix(q, r) \in MachineInfo
  BY <1>1, Zenon DEF MachinePrefix, MachineInfo
<1> QED
  BY <1>2 DEF MachinePrefix

LEMMA OpenMachineStep ==
    ASSUME IInv, NEW r \in Returns, OpenMachine(r) PROVE IInv'
<1>0. Len(machines) \in Nat /\ pmachineInfo \in 0..Len(machines)
  BY MachinesAreATree DEF IInv, RecordsInv
<1> PICK N \in Nat : N = Len(machines)
  BY <1>0
<1> PICK q \in 0..N : q = pmachineInfo
  BY <1>0
<1> PICK new \in Nat : new = N + 1
  BY <1>0
<1> DEFINE w == MachinePrefix(q, r)
<1>1. /\ N < MaxMachines /\ machines' = Append(machines, w) /\ pmachineInfo' = new
      /\ q = Null => machines = <<>>
      /\ UNCHANGED <<good, trapped>>
  BY DEF OpenMachine
<1>2. /\ N \in Nat /\ Machines = 1..N /\ IsTree(Parents, N)
      /\ \A m \in Machines : machines[m] \in MachineInfo /\ Parents[m] = machines[m].parent
  BY MachinesAreATree DEF IInv
<1>3. /\ machines \in Seq(MachineInfo) /\ q \in 0..N
      /\ good \in BOOLEAN /\ trapped \in BOOLEAN
      /\ \A m \in Machines : machines[m].parent < m
  BY DEF IInv, RecordsInv
<1>4. /\ w \in MachineInfo
      /\ w.parent = q /\ w.returns = r /\ w.captured = FALSE
      /\ w.event_list = <<>> /\ w.shared_with_parent = {} /\ w.machine_list = <<>>
      /\ \A n \in Names : w.id_list[n] = "LOOKUP"
      /\ \A n \in Names : w.psharing_sub_machines[n] = <<>>
      /\ w.sub_machine_depth = 0 /\ w.heterogeneous_children = FALSE
  <2>1. q \in Nat
    OBVIOUS
  <2> QED BY <2>1, PrefixFields, Zenon
<1> HIDE DEF w
<1>5. /\ machines' \in Seq(MachineInfo) /\ Len(machines') = new
      /\ Machines' = 1..new /\ machines'[new] = w
      /\ \A m \in 1..N : machines'[m] = machines[m]
  <2>1. Append(machines, w) \in Seq(MachineInfo) /\ Len(Append(machines, w)) = new
    BY <1>3, <1>4
  <2>2. /\ DOMAIN Append(machines, w) = 1..new /\ Append(machines, w)[new] = w
        /\ \A m \in 1..N : Append(machines, w)[m] = machines[m]
    BY <1>3, <1>4, <2>1, AppendProperties
  <2> QED BY <1>1, <2>1, <2>2 DEF Machines
<1>6. RecordsInv'
  <2>1. new \in 0..new /\ new <= MaxMachines
    BY <1>1, <1>2, BoundsAssumption
  <2>2. \A m \in 1..new : machines'[m].parent < m
    BY <1>2, <1>3, <1>4, <1>5
  <2>3. good' \in BOOLEAN /\ trapped' \in BOOLEAN
    BY <1>1, <1>3
  <2> QED BY <1>1, <1>5, <2>1, <2>2, <2>3 DEF RecordsInv
<1>7. /\ IsTree(Parents', new) /\ \A m \in 1..N : Parents'[m] = Parents[m]
      /\ Parents'[new] = q
  <2>1. \A m \in 1..new : Parents'[m] = machines'[m].parent
    BY <1>5 DEF Parents
  <2>2. new \in Nat
    BY <1>2
  <2>3. (\A m \in Machines : machines[m] \in MachineInfo)'
        /\ (\A m \in Machines : machines[m].parent < m)'
    BY <1>5, <1>6 DEF RecordsInv
  <2>4. \A m \in 1..new : machines'[m].parent \in Nat
    BY <1>5, <2>3 DEF MachineInfo
  <2>5. IsTree(Parents', new)
    BY <1>5, <2>3, <2>4 DEF Parents, IsTree
  <2> QED BY <1>2, <1>4, <1>5, <2>1, <2>5
<1>8. \A m \in 0..N : Enclosing(m)' = Enclosing(m)
  BY <1>2, <1>7, UpOfOlder, EnclosingIsUp
<1>9. Enclosing(new)' = {new} \cup Enclosing(q)
  <2>1. new \in Nat /\ new \in 1..new
    BY <1>2
  <2>2. Up(Parents', new) = {new} \cup Up(Parents', q)
    BY <1>7, <2>1, UpOfChild
  <2>3. Up(Parents', q) = Up(Parents, q)
    BY <1>2, <1>3, <1>7, UpOfOlder
  <2> QED BY <2>2, <2>3, EnclosingIsUp
<1>10. \A m \in 0..N : Enclosing(m) \subseteq 1..N
  BY <1>2, UpContains, EnclosingIsUp
<1>11. /\ \A m \in 1..N : SubMachines(m)' = SubMachines(m) \cup IF m = q THEN {new} ELSE {}
       /\ SubMachines(new)' = {}
       /\ \A m \in 1..N : SubMachines(m) \subseteq 1..N
       /\ new \notin 1..N
  <2>1. SubMachines(new)' = {}
    BY <1>2, <1>5, <1>6 DEF SubMachines, RecordsInv
  <2>2. \A m \in 1..N : SubMachines(m) \subseteq 1..N /\ new \notin 1..N
    BY <1>2 DEF SubMachines
  <2>3. \A m \in 1..N : SubMachines(m)' = SubMachines(m) \cup IF m = q THEN {new} ELSE {}
    <3>1. Machines' = Machines \cup {new} /\ Machines = 1..N
      BY <1>2, <1>5
    <3> QED BY <1>4, <1>5, <3>1, <2>2 DEF SubMachines
  <2> QED BY <1>2, <2>1, <2>2, <2>3
<1>12. NestInv'
  <2>1. \A m \in 1..N : m \in Enclosing(q) <=> ~machines[m].captured
    BY <1>2 DEF IInv, NestInv
  <2>2. \A m \in 1..new : m \in {new} \cup Enclosing(q) <=> ~machines'[m].captured
    BY <1>2, <1>3, <1>4, <1>5, <1>10, <1>11, <2>1
  <2> QED BY <1>1, <1>5, <1>9, <2>2 DEF NestInv
<1>13. /\ \A m \in 1..N : Parental(m)' <=> Parental(m)
       /\ ~Parental(new)'
  BY <1>4, <1>5 DEF Parental
<1>15. ListInv'
  <2>1. \A m \in 1..N : Parental(m) <=> \E c \in SubMachines(m) : machines[c].captured
    BY <1>2 DEF IInv, ListInv
  <2>2. \A m \in 1..N : (\E c \in SubMachines(m)' : machines'[c].captured)
                        <=> (\E c \in SubMachines(m) : machines[c].captured)
    BY <1>4, <1>5, <1>11
  <2>3. \A m \in 1..new : m \in 1..N \/ m = new
    BY <1>2
  <2> QED BY <1>5, <1>11, <1>13, <2>1, <2>2, <2>3 DEF ListInv
<1>16. EventsInv'
  <2>1. \A m \in 1..new : m \in 1..N \/ m = new
    BY <1>2
  <2> QED BY <1>2, <1>4, <1>5, <2>1 DEF IInv, EventsInv
<1>17. DepthInv'
  <2>1. \A m \in 1..N : ParentalWithin(m)' = ParentalWithin(m)
    <3>1. \A d \in 1..N : Enclosing(d)' = Enclosing(d)
      BY <1>2, <1>8
    <3>2. \A d \in 1..new : d \in 1..N \/ d = new
      BY <1>2
    <3> QED BY <1>2, <1>5, <1>11, <1>13, <3>1, <3>2 DEF ParentalWithin
  <2>2. ParentalWithin(new)' = {}
    <3>1. \A d \in 1..N : new \notin Enclosing(d)'
      BY <1>2, <1>8, <1>10, <1>11
    <3>2. \A d \in 1..new : d \in 1..N \/ d = new
      BY <1>2
    <3> QED BY <1>5, <1>13, <3>1, <3>2 DEF ParentalWithin
  <2>3. Cardinality(ParentalWithin(new)') = 0
    BY <2>2, FS_EmptySet
  <2>4. \A m \in 1..N : machines[m].sub_machine_depth = Cardinality(ParentalWithin(m))
    BY <1>2 DEF IInv, DepthInv
  <2>5. \A m \in 1..new : m \in 1..N \/ m = new
    BY <1>2
  <2> QED BY <1>4, <1>5, <2>1, <2>3, <2>4, <2>5 DEF DepthInv
<1>18. SharersAreMutual'
  <2>1. SUFFICES ASSUME NEW m \in 1..new, NEW n \in Names
        PROVE  LET sharers == machines'[m].psharing_sub_machines[n]
               IN  /\ ToSet(sharers) =
                          {c \in SubMachines(m)' : n \in machines'[c].shared_with_parent}
                   /\ \A a, b \in DOMAIN sharers : a < b => sharers[a] <= sharers[b]
    BY <1>5 DEF SharersAreMutual
  <2>2. CASE m = new
    BY <1>4, <1>5, <1>11, <2>2 DEF ToSet
  <2>3. CASE m \in 1..N
    <3>1. LET sharers == machines[m].psharing_sub_machines[n]
          IN  /\ ToSet(sharers) = {c \in SubMachines(m) : n \in machines[c].shared_with_parent}
              /\ \A a, b \in DOMAIN sharers : a < b => sharers[a] <= sharers[b]
      BY <1>2, <2>3 DEF IInv, SharersAreMutual
    <3>2. {c \in SubMachines(m)' : n \in machines'[c].shared_with_parent}
              = {c \in SubMachines(m) : n \in machines[c].shared_with_parent}
      BY <1>4, <1>5, <1>11, <2>3
    <3> QED BY <1>5, <2>3, <3>1, <3>2
  <2> QED BY <1>2, <2>2, <2>3
<1>19. HeterogeneousIsExact'
  <2>1. \A m \in 1..N : machines[m].heterogeneous_children <=>
            \E c \in SubMachines(m) : machines[c].captured
                                      /\ machines[c].returns # machines[m].returns
    BY <1>2 DEF IInv, HeterogeneousIsExact
  <2>2. \A m \in 1..N : machines'[m].heterogeneous_children <=>
            \E c \in SubMachines(m)' : machines'[c].captured
                                       /\ machines'[c].returns # machines'[m].returns
    BY <1>4, <1>5, <1>11, <2>1
  <2>3. \A m \in 1..new : m \in 1..N \/ m = new
    BY <1>2
  <2> QED BY <1>4, <1>5, <1>11, <2>2, <2>3 DEF HeterogeneousIsExact
<1>20. CountsMatchSharing'
  <2>1. \A m \in 1..N : machines[m].captured =>
            /\ machines[m].parent_event_reference_count > 0
                   <=> \E c \in SubMachines(m) : machines[c].shared_with_parent # {}
            /\ machines[m].shared_event_count > 0 <=> machines[m].shared_with_parent # {}
    BY <1>2 DEF IInv, CountsMatchSharing
  <2>2. \A m \in 1..N : (\E c \in SubMachines(m)' : machines'[c].shared_with_parent # {})
                        <=> (\E c \in SubMachines(m) : machines[c].shared_with_parent # {})
    BY <1>4, <1>5, <1>11
  <2>3. \A m \in 1..new : m \in 1..N \/ m = new
    BY <1>2
  <2> QED BY <1>4, <1>5, <2>1, <2>2, <2>3 DEF CountsMatchSharing
<1> QED
  BY <1>6, <1>12, <1>15, <1>16, <1>17, <1>18, <1>19, <1>20 DEF IInv



-----------------------------------------------------------------------------
(* A brace closes.                                                           *)

(* The counts are above zero when an entry of the event list is counted.     *)
LEMMA EntriesCounted ==
    ASSUME NEW s \in Seq(Names), NEW P
    PROVE  LET n == Cardinality({i \in DOMAIN s : s[i] \in P})
           IN  n \in Nat /\ (n > 0 <=> \E k \in ToSet(s) : k \in P)
<1> DEFINE E == {i \in DOMAIN s : s[i] \in P}
<1>1. Len(s) \in Nat /\ DOMAIN s = 1..Len(s)
  OBVIOUS
<1>2. IsFiniteSet(E)
  <2>1. E \subseteq 1..Len(s)
    BY <1>1
  <2>2. IsFiniteSet(1..Len(s))
    BY <1>1, FS_Interval
  <2> QED BY <2>1, <2>2, FS_Subset
<1>3. Cardinality(E) \in Nat /\ (Cardinality(E) = 0 <=> E = {})
  BY <1>2, FS_CardinalityType, FS_EmptySet
<1>4. E # {} <=> \E k \in ToSet(s) : k \in P
  BY DEF ToSet
<1> QED
  BY <1>3, <1>4

LEMMA CountsCounted ==
    ASSUME NEW mi \in MachineInfo
    PROVE  /\ EventsSharedByOthers(mi) \in Nat /\ EventsSharedWithParent(mi) \in Nat
           /\ EventsSharedByOthers(mi) > 0
                  <=> \E k \in ToSet(mi.event_list) : mi.psharing_sub_machines[k] # <<>>
           /\ EventsSharedWithParent(mi) > 0
                  <=> \E k \in ToSet(mi.event_list) : k \in mi.shared_with_parent
<1> DEFINE s == mi.event_list
           P == {k \in Names : mi.psharing_sub_machines[k] # <<>>}
<1>1. s \in Seq(Names) /\ DOMAIN s = 1..Len(s) /\ \A i \in DOMAIN s : s[i] \in Names
  BY DEF MachineInfo
<1>2. EventsSharedByOthers(mi) = Cardinality({i \in DOMAIN s : s[i] \in P})
  <2>1. {i \in DOMAIN s : s[i] \in P}
            = {i \in DOMAIN s : mi.psharing_sub_machines[s[i]] # <<>>}
    BY <1>1
  <2> QED BY <2>1 DEF EventsSharedByOthers
<1>3. \A k \in ToSet(s) : k \in P <=> mi.psharing_sub_machines[k] # <<>>
  BY <1>1 DEF ToSet
<1>4. EventsSharedWithParent(mi)
          = Cardinality({i \in DOMAIN s : s[i] \in mi.shared_with_parent})
  BY DEF EventsSharedWithParent
<1> HIDE DEF P
<1>5. EventsSharedByOthers(mi) \in Nat
      /\ (EventsSharedByOthers(mi) > 0 <=> \E k \in ToSet(s) : k \in P)
  BY <1>1, <1>2, EntriesCounted
<1>6. EventsSharedWithParent(mi) \in Nat
      /\ (EventsSharedWithParent(mi) > 0 <=> \E k \in ToSet(s) : k \in mi.shared_with_parent)
  BY <1>1, <1>4, EntriesCounted
<1> QED
  BY <1>3, <1>5, <1>6

(* What the closing brace of machine m, with the parent p, makes of the      *)
(* records; n is what it raises the depths by.                               *)
Closes(m, p, n) ==
    /\ Machines' = Machines
    /\ \A i \in Machines :
           /\ machines'[i] \in MachineInfo /\ SameNamespace(machines'[i], machines[i])
           /\ machines'[i].captured <=> machines[i].captured \/ i = m
           /\ machines'[i].machine_list # <<>> <=> machines[i].machine_list # <<>> \/ i = p
           /\ machines'[i].sub_machine_depth =
                  machines[i].sub_machine_depth + IF i \in Enclosing(p) THEN n ELSE 0
           /\ machines'[i].heterogeneous_children <=>
                  machines[i].heterogeneous_children
                  \/ (i = p /\ machines[p].returns # machines[m].returns)
    /\ \A i \in Machines : i # m =>
           /\ machines'[i].shared_event_count = machines[i].shared_event_count
           /\ machines'[i].parent_event_reference_count = machines[i].parent_event_reference_count
    /\ machines'[m].shared_event_count = EventsSharedWithParent(machines[m])
    /\ machines'[m].parent_event_reference_count = EventsSharedByOthers(machines[m])

LEMMA CaptureCloses ==
    ASSUME IInv, CaptureMachine
    PROVE  \E m \in Machines, p \in Nat, n \in {0, 1} :
               /\ m = pmachineInfo /\ p = Current.parent /\ pmachineInfo' = p
               /\ n = IF p # Null /\ ~Parental(p) THEN 1 ELSE 0
               /\ Closes(m, p, n) /\ DOMAIN machines' = DOMAIN machines
               /\ UNCHANGED <<good, trapped>>
<1>1. pmachineInfo # Null
  BY DEF CaptureMachine
<1>2. pmachineInfo \in Machines /\ Current \in MachineInfo /\ Current = machines[pmachineInfo]
  BY <1>1, OpenAround DEF Current
<1>3. Current.parent \in Nat
  BY <1>2 DEF MachineInfo
<1> PICK m \in Machines : m = pmachineInfo
  BY <1>2
<1> PICK p \in Nat : p = Current.parent
  BY <1>3
<1> DEFINE n0 == IF p # Null /\ ~Parental(p) THEN 1 ELSE 0
<1> PICK n \in {0, 1} : n = n0
  OBVIOUS
<1>4. /\ p # Null => p \in Machines
      /\ Enclosing(m) = {m} \cup Enclosing(p) /\ m \notin Enclosing(p)
      /\ p # Null => p \in Enclosing(p)
      /\ p # m
  BY <1>1, OpenAround, MachinesAreATree DEF IInv
<1>5. /\ machines' = [i \in Machines |->
             IF i = m THEN Captured(machines[m])
             ELSE IF i = p THEN Raised(WithSubMachine(machines[p], m), n)
             ELSE IF i \in Enclosing(m) THEN Raised(machines[i], n)
             ELSE machines[i]]
      /\ pmachineInfo' = p /\ UNCHANGED <<good, trapped>>
  <2>1. n = IF p = Null THEN 0 ELSE DepthIncrease(machines[p])
    BY DEF DepthIncrease, Parental
  <2> QED BY <2>1 DEF CaptureMachine, ContextAfter, Current
<1>6. /\ \A i \in Machines : machines[i] \in MachineInfo
      /\ m \in Nat /\ n \in Nat /\ Null \notin Machines /\ Enclosing(Null) = {}
  BY MachinesAreATree, UpOfNull, EnclosingIsUp DEF IInv, Null
<1>7. DOMAIN machines' = Machines
  BY <1>5
<1>8. /\ Captured(machines[m]) \in MachineInfo
      /\ SameNamespace(Captured(machines[m]), machines[m])
      /\ Captured(machines[m]).captured = TRUE
      /\ Captured(machines[m]).machine_list = machines[m].machine_list
      /\ Captured(machines[m]).sub_machine_depth = machines[m].sub_machine_depth
      /\ Captured(machines[m]).heterogeneous_children = machines[m].heterogeneous_children
      /\ Captured(machines[m]).shared_event_count = EventsSharedWithParent(machines[m])
      /\ Captured(machines[m]).parent_event_reference_count = EventsSharedByOthers(machines[m])
  BY <1>6, CountsCounted, CapturedFields
<1>9. ASSUME NEW i \in Machines
      PROVE  /\ Raised(machines[i], n) \in MachineInfo
             /\ SameNamespace(Raised(machines[i], n), machines[i])
             /\ Raised(machines[i], n).captured = machines[i].captured
             /\ Raised(machines[i], n).machine_list = machines[i].machine_list
             /\ Raised(machines[i], n).sub_machine_depth = machines[i].sub_machine_depth + n
             /\ Raised(machines[i], n).heterogeneous_children = machines[i].heterogeneous_children
             /\ Raised(machines[i], n).shared_event_count = machines[i].shared_event_count
             /\ Raised(machines[i], n).parent_event_reference_count
                    = machines[i].parent_event_reference_count
  BY <1>6, RaisedFields
<1>10. ASSUME p # Null
       PROVE  LET w == Raised(WithSubMachine(machines[p], m), n)
              IN  /\ w \in MachineInfo /\ SameNamespace(w, machines[p])
                  /\ w.captured = machines[p].captured
                  /\ w.machine_list # <<>>
                  /\ w.sub_machine_depth = machines[p].sub_machine_depth + n
                  /\ w.heterogeneous_children
                         = HeterogeneousChildren(machines[p], machines[m].returns)
                  /\ w.shared_event_count = machines[p].shared_event_count
                  /\ w.parent_event_reference_count = machines[p].parent_event_reference_count
  <2> DEFINE v == WithSubMachine(machines[p], m)
             w == Raised(v, n)
  <2>1. machines[p] \in MachineInfo
    BY <1>4, <1>6, <1>10
  <2>2. /\ v \in MachineInfo /\ SameNamespace(v, machines[p])
        /\ v.captured = machines[p].captured
        /\ v.machine_list = Append(machines[p].machine_list, m)
        /\ v.sub_machine_depth = machines[p].sub_machine_depth
        /\ v.heterogeneous_children = HeterogeneousChildren(machines[p], machines[m].returns)
        /\ v.shared_event_count = machines[p].shared_event_count
        /\ v.parent_event_reference_count = machines[p].parent_event_reference_count
    BY <1>6, <2>1, WithSubMachineFields
  <2>3. Append(machines[p].machine_list, m) # <<>>
    <3>1. machines[p].machine_list \in Seq(Nat)
      BY <2>1 DEF MachineInfo
    <3> QED BY <1>6, <3>1, AppendProperties
  <2> HIDE DEF v
  <2>4. /\ w \in MachineInfo /\ SameNamespace(w, v) /\ w.captured = v.captured
        /\ w.machine_list = v.machine_list
        /\ w.sub_machine_depth = v.sub_machine_depth + n
        /\ w.heterogeneous_children = v.heterogeneous_children
        /\ w.shared_event_count = v.shared_event_count
        /\ w.parent_event_reference_count = v.parent_event_reference_count
    BY <1>6, <2>2, RaisedFields
  <2> HIDE DEF w
  <2>5. SameNamespace(w, machines[p])
    BY <2>2, <2>4 DEF SameNamespace
  <2>6. /\ w \in MachineInfo /\ SameNamespace(w, machines[p])
        /\ w.captured = machines[p].captured
        /\ w.machine_list # <<>>
        /\ w.sub_machine_depth = machines[p].sub_machine_depth + n
        /\ w.heterogeneous_children = HeterogeneousChildren(machines[p], machines[m].returns)
        /\ w.shared_event_count = machines[p].shared_event_count
        /\ w.parent_event_reference_count = machines[p].parent_event_reference_count
    BY <2>2, <2>3, <2>4, <2>5
  <2> QED BY <2>6 DEF w, v
<1>11. Closes(m, p, n)
  <2>1. \A i \in Machines :
            /\ machines'[i] \in MachineInfo /\ SameNamespace(machines'[i], machines[i])
            /\ machines'[i].captured <=> machines[i].captured \/ i = m
            /\ machines'[i].machine_list # <<>> <=> machines[i].machine_list # <<>> \/ i = p
            /\ machines'[i].sub_machine_depth =
                   machines[i].sub_machine_depth + IF i \in Enclosing(p) THEN n ELSE 0
            /\ machines'[i].heterogeneous_children <=>
                   machines[i].heterogeneous_children
                   \/ (i = p /\ machines[p].returns # machines[m].returns)
    <3> SUFFICES ASSUME NEW i \in Machines
        PROVE  /\ machines'[i] \in MachineInfo /\ SameNamespace(machines'[i], machines[i])
               /\ machines'[i].captured <=> machines[i].captured \/ i = m
               /\ machines'[i].machine_list # <<>> <=> machines[i].machine_list # <<>> \/ i = p
               /\ machines'[i].sub_machine_depth =
                      machines[i].sub_machine_depth + IF i \in Enclosing(p) THEN n ELSE 0
               /\ machines'[i].heterogeneous_children <=>
                      machines[i].heterogeneous_children
                      \/ (i = p /\ machines[p].returns # machines[m].returns)
      OBVIOUS
    <3>1. machines[i].sub_machine_depth + 0 = machines[i].sub_machine_depth
      BY <1>6 DEF MachineInfo
    <3>2. CASE i = m
      BY <1>4, <1>5, <1>8, <3>1, <3>2
    <3>3. CASE i = p
      BY <1>4, <1>5, <1>6, <1>10, <3>3 DEF HeterogeneousChildren
    <3>4. CASE i # m /\ i # p /\ i \in Enclosing(m)
      BY <1>4, <1>5, <1>9, <3>4
    <3>5. CASE i # m /\ i # p /\ i \notin Enclosing(m)
      <4>1. machines'[i] = machines[i]
        BY <1>5, <3>5
      <4> QED BY <1>4, <1>6, <3>1, <3>5, <4>1 DEF SameNamespace
    <3> QED BY <3>2, <3>3, <3>4, <3>5
  <2>2. \A i \in Machines : i # m =>
            /\ machines'[i].shared_event_count = machines[i].shared_event_count
            /\ machines'[i].parent_event_reference_count
                   = machines[i].parent_event_reference_count
    <3> SUFFICES ASSUME NEW i \in Machines, i # m
        PROVE  /\ machines'[i].shared_event_count = machines[i].shared_event_count
               /\ machines'[i].parent_event_reference_count
                      = machines[i].parent_event_reference_count
      OBVIOUS
    <3>1. CASE i = p
      BY <1>5, <1>6, <1>10, <3>1
    <3>2. CASE i # p
      BY <1>5, <1>9, <3>2
    <3> QED BY <3>1, <3>2
  <2>3. machines'[m] = Captured(machines[m])
    BY <1>5
  <2>4. Machines' = Machines
    BY <1>7 DEF Machines
  <2> QED BY <1>8, <2>1, <2>2, <2>3, <2>4 DEF Closes
<1> QED
  BY <1>5, <1>7, <1>11 DEF Machines


LEMMA CaptureMachineStep ==
    ASSUME IInv, CaptureMachine PROVE IInv'
<1>1. PICK m \in Machines, p \in Nat, n \in {0, 1} :
          /\ m = pmachineInfo /\ p = Current.parent /\ pmachineInfo' = p
          /\ n = IF p # Null /\ ~Parental(p) THEN 1 ELSE 0
          /\ Closes(m, p, n) /\ DOMAIN machines' = DOMAIN machines
          /\ UNCHANGED <<good, trapped>>
  BY CaptureCloses
<1>2. pmachineInfo # Null
  BY DEF CaptureMachine
<1>3. /\ Machines' = Machines /\ \A i \in Machines : machines'[i] \in MachineInfo
      /\ \A i \in Machines : /\ machines'[i].parent = machines[i].parent
                             /\ machines'[i].returns = machines[i].returns
                             /\ machines'[i].id_list = machines[i].id_list
      /\ \A i \in Machines : /\ machines'[i].event_list = machines[i].event_list
                             /\ machines'[i].shared_with_parent = machines[i].shared_with_parent
                             /\ machines'[i].psharing_sub_machines
                                    = machines[i].psharing_sub_machines
  BY <1>1 DEF Closes, SameNamespace
<1>4. /\ \A i \in Machines : machines'[i].captured <=> machines[i].captured \/ i = m
      /\ \A i \in Machines : machines'[i].machine_list # <<>>
                                 <=> machines[i].machine_list # <<>> \/ i = p
      /\ \A i \in Machines : machines'[i].sub_machine_depth =
             machines[i].sub_machine_depth + IF i \in Enclosing(p) THEN n ELSE 0
      /\ \A i \in Machines : machines'[i].heterogeneous_children <=>
             machines[i].heterogeneous_children
             \/ (i = p /\ machines[p].returns # machines[m].returns)
  BY <1>1 DEF Closes
<1>5. /\ p < m /\ ~machines[m].captured /\ machines[m].parent = p
      /\ p # Null => p \in Machines /\ p \in Enclosing(p)
      /\ Enclosing(m) = {m} \cup Enclosing(p) /\ m \notin Enclosing(p)
      /\ Enclosing(p) \subseteq Machines
  BY <1>1, <1>2, OpenAround DEF Current
<1>6. /\ Len(machines) \in Nat /\ Machines = 1..Len(machines) /\ Null \notin Machines
      /\ \A i \in Machines : machines[i] \in MachineInfo
      /\ good \in BOOLEAN /\ trapped \in BOOLEAN
  BY MachinesAreATree DEF IInv, RecordsInv, Null
<1>7. RecordsInv'
  <2>1. machines' \in [Machines -> MachineInfo]
    <3>1. machines' = [i \in Machines |-> machines'[i]]
      BY <1>1 DEF CaptureMachine, Machines
    <3> QED BY <1>3, <3>1
  <2>2. p \in 0..Len(machines)
    BY <1>5, <1>6
  <2>3. DOMAIN machines' = Machines
    BY <1>1 DEF Machines
  <2> QED BY <1>1, <1>3, <1>6, <2>1, <2>2, <2>3, RecordsKept
<1>8. \A i : SubMachines(i)' = SubMachines(i) /\ SubMachines(i) \subseteq Machines
  BY <1>3 DEF SubMachines
<1>9. \A i : Enclosing(i)' = Enclosing(i)
  <2>1. Parents' = Parents
    BY <1>3 DEF Parents
  <2> QED BY <2>1, EnclosingIsUp
<1>10. m \in SubMachines(p) /\ \A i \in Machines : m \in SubMachines(i) => i = p
  BY <1>5 DEF SubMachines
<1>11. NestInv'
  <2>1. \A i \in Machines : i \in Enclosing(m) <=> ~machines[i].captured
    BY <1>1 DEF IInv, NestInv
  <2>2. \A i \in Machines : i \in Enclosing(p) <=> ~machines'[i].captured
    BY <1>4, <1>5, <2>1
  <2> QED BY <1>1, <1>3, <1>8, <1>9, <1>10, <2>2 DEF NestInv
<1>12. \A i \in Machines : Parental(i)' <=> Parental(i) \/ i = p
  BY <1>4 DEF Parental
<1>13. ListInv'
  <2>1. \A i \in Machines : Parental(i) <=> \E c \in SubMachines(i) : machines[c].captured
    BY DEF IInv, ListInv
  <2>2. \A i \in Machines : Parental(i)' <=> \E c \in SubMachines(i) : machines'[c].captured
    BY <1>4, <1>8, <1>10, <1>12, <2>1
  <2> QED BY <1>3, <1>8, <2>2 DEF ListInv
<1>14. EventsInv'
  BY <1>3 DEF IInv, EventsInv
<1>15. DepthInv'
  <2> SUFFICES ASSUME NEW i \in Machines
      PROVE  machines'[i].sub_machine_depth = Cardinality(ParentalWithin(i)')
    BY <1>3 DEF DepthInv
  <2>1. machines[i].sub_machine_depth = Cardinality(ParentalWithin(i))
    BY DEF IInv, DepthInv
  <2>2. ParentalWithin(i)' = {d \in Machines : i \in Enclosing(d) /\ (Parental(d) \/ d = p)}
    BY <1>3, <1>9, <1>12 DEF ParentalWithin
  <2>3. ParentalWithin(i) = {d \in Machines : i \in Enclosing(d) /\ Parental(d)}
    BY DEF ParentalWithin
  <2>4. machines[i].sub_machine_depth \in Nat
    BY <1>6 DEF MachineInfo
  <2>5. CASE n = 1 /\ i \in Enclosing(p)
    <3>1. p # Null /\ ~Parental(p) /\ p \in Machines
      BY <1>1, <1>5, <2>5
    <3>2. p \notin ParentalWithin(i) /\ ParentalWithin(i)' = ParentalWithin(i) \cup {p}
      BY <2>2, <2>3, <2>5, <3>1
    <3>3. IsFiniteSet(ParentalWithin(i))
      <4>1. IsFiniteSet(1..Len(machines)) /\ ParentalWithin(i) \subseteq 1..Len(machines)
        BY <1>6, <2>3, FS_Interval
      <4> QED BY <4>1, FS_Subset
    <3>4. Cardinality(ParentalWithin(i)') = Cardinality(ParentalWithin(i)) + 1
      BY <3>2, <3>3, FS_AddElement
    <3> QED BY <1>4, <2>1, <2>5, <3>4
  <2>6. CASE ~(n = 1 /\ i \in Enclosing(p))
    <3>1. ParentalWithin(i)' = ParentalWithin(i)
      <4>1. p \in Machines /\ i \in Enclosing(p) => Parental(p)
        BY <1>1, <1>6, <2>6
      <4> QED BY <2>2, <2>3, <4>1
    <3>2. machines'[i].sub_machine_depth = machines[i].sub_machine_depth
      BY <1>4, <2>4, <2>6
    <3> QED BY <2>1, <3>1, <3>2
  <2> QED BY <2>5, <2>6
<1>16. SharersAreMutual'
  BY <1>3, <1>8, SharingKept
<1>17. HeterogeneousIsExact'
  <2>1. \A i \in Machines : machines[i].heterogeneous_children <=>
            \E c \in SubMachines(i) : machines[c].captured
                                      /\ machines[c].returns # machines[i].returns
    BY DEF IInv, HeterogeneousIsExact
  <2>2. \A i \in Machines : machines'[i].heterogeneous_children <=>
            \E c \in SubMachines(i) : machines'[c].captured
                                      /\ machines'[c].returns # machines'[i].returns
    BY <1>3, <1>4, <1>8, <1>10, <2>1
  <2> QED BY <1>3, <1>8, <2>2 DEF HeterogeneousIsExact
<1>18. CountsMatchSharing'
  <2>1. SUFFICES ASSUME NEW i \in Machines, machines'[i].captured
        PROVE  /\ machines'[i].parent_event_reference_count > 0
                     <=> \E c \in SubMachines(i) : machines[c].shared_with_parent # {}
               /\ machines'[i].shared_event_count > 0 <=> machines[i].shared_with_parent # {}
    BY <1>3, <1>8 DEF CountsMatchSharing
  <2>2. CASE i # m
    BY <1>1, <1>4, <2>1, <2>2 DEF IInv, CountsMatchSharing, Closes
  <2>3. CASE i = m
    <3> DEFINE mi == machines[m]
    <3>1. /\ machines'[m].shared_event_count = EventsSharedWithParent(mi)
          /\ machines'[m].parent_event_reference_count = EventsSharedByOthers(mi)
      BY <1>1 DEF Closes
    <3>2. /\ EventsSharedByOthers(mi) > 0
                 <=> \E k \in ToSet(mi.event_list) : mi.psharing_sub_machines[k] # <<>>
          /\ EventsSharedWithParent(mi) > 0
                 <=> \E k \in ToSet(mi.event_list) : k \in mi.shared_with_parent
      BY <1>6, CountsCounted
    <3>3. mi.shared_with_parent \subseteq Names /\ ToSet(mi.event_list) \subseteq Names
      <4>1. mi.shared_with_parent \subseteq Names /\ mi.event_list \in Seq(Names)
        BY <1>6 DEF MachineInfo
      <4> QED BY <4>1 DEF ToSet
    <3>4. (\E k \in ToSet(mi.event_list) : k \in mi.shared_with_parent)
              <=> mi.shared_with_parent # {}
      BY <3>3 DEF IInv, EventsInv
    <3>5. (\E k \in ToSet(mi.event_list) : mi.psharing_sub_machines[k] # <<>>)
              <=> \E k \in Names : mi.psharing_sub_machines[k] # <<>>
      BY <3>3 DEF IInv, EventsInv
    <3>6. \A k \in Names : mi.psharing_sub_machines[k] # <<>>
                               <=> \E c \in SubMachines(m) : k \in machines[c].shared_with_parent
      <4> SUFFICES ASSUME NEW k \in Names
          PROVE  mi.psharing_sub_machines[k] # <<>>
                     <=> \E c \in SubMachines(m) : k \in machines[c].shared_with_parent
        OBVIOUS
      <4>1. ToSet(mi.psharing_sub_machines[k])
                = {c \in SubMachines(m) : k \in machines[c].shared_with_parent}
        BY DEF IInv, SharersAreMutual
      <4>2. mi.psharing_sub_machines[k] \in Seq(Nat)
        BY <1>6 DEF MachineInfo
      <4>3. mi.psharing_sub_machines[k] # <<>> <=> ToSet(mi.psharing_sub_machines[k]) # {}
        <5> DEFINE s == mi.psharing_sub_machines[k]
        <5>1. s # <<>> <=> Len(s) > 0
          BY <4>2, EmptySeq
        <5>2. DOMAIN s = 1..Len(s) /\ Len(s) \in Nat
          BY <4>2
        <5> HIDE DEF s
        <5>3. Len(s) > 0 <=> 1..Len(s) # {}
          <6>1. Len(s) > 0 => 1 \in 1..Len(s)
            BY <5>2
          <6> QED BY <5>2, <6>1
        <5>4. s # <<>> <=> ToSet(s) # {}
          BY <5>1, <5>2, <5>3 DEF ToSet
        <5> QED BY <5>4 DEF s
      <4> QED BY <4>1, <4>3
    <3>7. \A c \in SubMachines(m) : machines[c].shared_with_parent \subseteq Names
      BY <1>6, <1>8 DEF MachineInfo
    <3>8. (\E k \in Names : mi.psharing_sub_machines[k] # <<>>)
              <=> \E c \in SubMachines(m) : machines[c].shared_with_parent # {}
      BY <3>6, <3>7
    <3> QED BY <2>3, <3>1, <3>2, <3>4, <3>5, <3>8
  <2> QED BY <2>2, <2>3
<1> QED
  BY <1>7, <1>11, <1>13, <1>14, <1>15, <1>16, <1>17, <1>18 DEF IInv



-----------------------------------------------------------------------------
LEMMA NextIInv == IInv /\ [Next]_vars => IInv'
<1> SUFFICES ASSUME IInv, [Next]_vars PROVE IInv'
  OBVIOUS
<1>1. good \in BOOLEAN /\ trapped \in BOOLEAN
  BY DEF IInv, RecordsInv
<1>2. CASE \E r \in Returns : OpenMachine(r)
  BY <1>2, OpenMachineStep
<1>3. ASSUME NEW n \in Names, DeclareState(n) \/ DeclareEvent(n) \/ ShareParentEvent(n)
      PROVE  IInv'
  BY <1>3, DeclareStateStep, DeclareEventStep, ShareParentEventStep
<1>4. CASE NamespaceOfNoParent \/ DivideByZero
  BY <1>1, <1>4, SameMachines DEF NamespaceOfNoParent, DivideByZero
<1>5. CASE CaptureMachine
  BY <1>5, CaptureMachineStep
<1>6. CASE UNCHANGED vars
  BY <1>1, <1>6, SameMachines DEF vars
<1> QED
  BY <1>2, <1>3, <1>4, <1>5, <1>6 DEF Next

LEMMA Inductive == Spec => []IInv
  BY InitIInv, NextIInv, PTL DEF Spec

(* The bound of the depths is that of the number of machines.                *)
LEMMA TypeOfIInv == IInv => TypeOK
<1> SUFFICES ASSUME IInv PROVE TypeOK
  OBVIOUS
<1>1. /\ Len(machines) \in Nat /\ Machines = 1..Len(machines)
      /\ \A m \in Machines : machines[m] \in MachineInfo
  BY MachinesAreATree DEF IInv
<1>2. /\ good \in BOOLEAN /\ trapped \in BOOLEAN
      /\ pmachineInfo \in 0..Len(machines) /\ Len(machines) <= MaxMachines
      /\ \A m \in Machines : machines[m].parent < m
  BY DEF IInv, RecordsInv
<1>3. Enclosing(pmachineInfo) = {m \in Machines : ~machines[m].captured}
  <2>1. Enclosing(pmachineInfo) \subseteq Machines
    BY DEF Enclosing
  <2> QED BY <2>1 DEF IInv, NestInv
<1>4. ASSUME NEW m \in Machines
      PROVE  /\ machines[m].parent \in 0..(m - 1) /\ machines[m].returns \in Returns
             /\ machines[m].id_list \in [Names -> {"LOOKUP", "STATE", "EVENT"}]
             /\ machines[m].event_list \in Seq(Names)
             /\ machines[m].sub_machine_depth \in 0..MaxMachines
             /\ machines[m].heterogeneous_children \in BOOLEAN
  <2>1. machines[m] \in MachineInfo
    BY <1>1
  <2>2. machines[m].parent \in 0..(m - 1)
    BY <1>1, <1>2, <2>1 DEF MachineInfo
  <2>3. machines[m].sub_machine_depth \in 0..MaxMachines
    <3>1. machines[m].sub_machine_depth = Cardinality(ParentalWithin(m))
      BY DEF IInv, DepthInv
    <3>2. IsFiniteSet(1..Len(machines)) /\ Cardinality(1..Len(machines)) = Len(machines)
      <4>1. 1 \in Int /\ Len(machines) \in Int
        BY <1>1
      <4>2. Cardinality(1..Len(machines))
                = IF 1 > Len(machines) THEN 0 ELSE Len(machines) - 1 + 1
        BY <4>1, FS_Interval
      <4> QED BY <1>1, <4>1, <4>2, FS_Interval
    <3>3. ParentalWithin(m) \subseteq 1..Len(machines)
      BY <1>1 DEF ParentalWithin
    <3>4. Cardinality(ParentalWithin(m)) <= Len(machines)
      BY <3>2, <3>3, FS_Subset
    <3>5. machines[m].sub_machine_depth \in Nat
      BY <2>1 DEF MachineInfo
    <3> QED BY <1>1, <1>2, <3>1, <3>4, <3>5, BoundsAssumption
  <2> QED BY <2>1, <2>2, <2>3 DEF MachineInfo, Tokens
<1> QED
  BY <1>2, <1>3, <1>4 DEF TypeOK

(* A machine that is above another, and is not that one, has a sub-machine   *)
(* on the way.                                                               *)
LEMMA UpThroughChild ==
    ASSUME NEW N \in Nat, NEW par, IsTree(par, N), NEW d \in 1..N, NEW m \in Up(par, d), m # d
    PROVE  \E c \in Up(par, d) : par[c] = m
<1> SUFFICES ASSUME \A c \in Up(par, d) : par[c] # m PROVE FALSE
  OBVIOUS
<1> DEFINE S == Up(par, d) \ {m}
<1>1. /\ Up(par, d) \subseteq 1..N /\ d \in Up(par, d) \cup {Null}
      /\ \A c \in Up(par, d) : par[c] \in Up(par, d) \cup {Null}
  BY UpContains
<1>2. S \in SUBSET (1..N) /\ d \in S \cup {Null} /\ \A c \in S : par[c] \in S \cup {Null}
  BY <1>1
<1>3. m \notin S
  OBVIOUS
<1> HIDE DEF S
<1>4. Up(par, d) \subseteq S
  BY <1>2, UpLeast
<1> QED
  BY <1>3, <1>4

(* The sub-machines of a captured machine have all been captured before it.  *)
LEMMA CapturedInside ==
    ASSUME IInv, NEW m \in Machines, machines[m].captured
    PROVE  /\ \A c \in SubMachines(m) : c \in Machines /\ machines[c].captured
           /\ Parental(m) <=> SubMachines(m) # {}
<1>1. /\ Len(machines) \in Nat /\ Machines = 1..Len(machines) /\ IsTree(Parents, Len(machines))
      /\ \A i \in Machines : Parents[i] = machines[i].parent
      /\ pmachineInfo \in 0..Len(machines)
  BY MachinesAreATree DEF IInv, RecordsInv
<1>2. \A c \in Enclosing(pmachineInfo) : Parents[c] \in Enclosing(pmachineInfo) \cup {Null}
  BY <1>1, UpContains, EnclosingIsUp
<1>3. \A i \in Machines : i \in Enclosing(pmachineInfo) <=> ~machines[i].captured
  BY DEF IInv, NestInv
<1>4. \A c \in SubMachines(m) : c \in Machines /\ machines[c].captured
  <2> SUFFICES ASSUME NEW c \in SubMachines(m), ~machines[c].captured PROVE FALSE
    BY DEF SubMachines
  <2>1. c \in Machines /\ Parents[c] = m /\ m # Null
    BY <1>1 DEF SubMachines, Null
  <2> QED BY <1>2, <1>3, <2>1
<1>5. Parental(m) <=> \E c \in SubMachines(m) : machines[c].captured
  BY DEF IInv, ListInv
<1> QED
  BY <1>4, <1>5

LEMMA DepthOfIInv == IInv => DepthOneIsExact
<1> SUFFICES ASSUME IInv, NEW m \in Machines, machines[m].captured
    PROVE  machines[m].sub_machine_depth = 1
               <=> SubMachines(m) # {} /\ \A c \in SubMachines(m) : SubMachines(c) = {}
  BY DEF DepthOneIsExact
<1> DEFINE PW == ParentalWithin(m)
<1>1. /\ Len(machines) \in Nat /\ Machines = 1..Len(machines) /\ IsTree(Parents, Len(machines))
      /\ \A i \in Machines : Parents[i] = machines[i].parent
  BY MachinesAreATree DEF IInv
<1>2. machines[m].sub_machine_depth = Cardinality(PW)
  BY DEF IInv, DepthInv
<1>3. \A d : d \in PW <=> d \in Machines /\ m \in Enclosing(d) /\ Parental(d)
  BY DEF ParentalWithin
<1>4. \A d \in Machines : d \in Enclosing(d) /\ Enclosing(d) \subseteq Machines
  BY <1>1, UpContains, EnclosingIsUp DEF Null
<1>5. \A c \in SubMachines(m) : c \in Machines /\ m \in Enclosing(c) /\ c # m
  <2> TAKE c \in SubMachines(m)
  <2>1. c \in Machines /\ Parents[c] = m /\ c \in 1..Len(machines)
    BY <1>1 DEF SubMachines
  <2>2. Enclosing(c) = {c} \cup Enclosing(m) /\ c \notin Enclosing(m)
    BY <1>1, <2>1, UpOfChild, EnclosingIsUp
  <2> QED BY <1>4, <2>1, <2>2
<1>6. IsFiniteSet(PW)
  <2>1. PW \subseteq 1..Len(machines) /\ IsFiniteSet(1..Len(machines))
    BY <1>1, <1>3, FS_Interval
  <2> QED BY <2>1, FS_Subset
<1>7. Cardinality(PW) = 1 <=> \E x : PW = {x}
  BY <1>6, FS_Singleton
<1>8. /\ \A c \in SubMachines(m) : machines[c].captured
      /\ Parental(m) <=> SubMachines(m) # {}
      /\ \A c \in SubMachines(m) : Parental(c) <=> SubMachines(c) # {}
  BY <1>5, CapturedInside
<1>9. ASSUME NEW d \in PW, d # m
      PROVE  \E c \in SubMachines(m) : SubMachines(c) # {}
  <2>1. d \in 1..Len(machines) /\ m \in Up(Parents, d) /\ Parental(d)
    BY <1>1, <1>3, EnclosingIsUp
  <2>2. PICK c \in Up(Parents, d) : Parents[c] = m
    BY <1>1, <1>9, <2>1, UpThroughChild
  <2>3. c \in Machines /\ c \in SubMachines(m)
    BY <1>1, <1>4, <2>1, <2>2, EnclosingIsUp DEF SubMachines
  <2>4. CASE c = d
    BY <1>8, <2>1, <2>3, <2>4
  <2>5. CASE c # d
    <3>1. PICK b \in Up(Parents, d) : Parents[b] = c
      <4> HIDE DEF PW
      <4>1. Len(machines) \in Nat /\ IsTree(Parents, Len(machines))
        BY <1>1
      <4>2. d \in 1..Len(machines) /\ c # d
        BY <2>1, <2>5
      <4>3. c \in Up(Parents, d)
        BY <2>2
      <4> HIDE DEF Parents
      <4> QED BY <4>1, <4>2, <4>3, UpThroughChild
    <3>2. b \in SubMachines(c)
      BY <1>1, <1>4, <2>1, <3>1, EnclosingIsUp DEF SubMachines
    <3> QED BY <2>3, <3>2
  <2> QED BY <2>4, <2>5
<1> HIDE DEF PW
<1>10. ASSUME SubMachines(m) # {}, \A c \in SubMachines(m) : SubMachines(c) = {}
       PROVE  PW = {m}
  <2>1. m \in PW
    BY <1>3, <1>4, <1>8, <1>10
  <2> QED BY <1>9, <1>10, <2>1
<1>11. ASSUME NEW x, PW = {x}
       PROVE  SubMachines(m) # {} /\ \A c \in SubMachines(m) : SubMachines(c) = {}
  <2>1. SubMachines(m) # {}
    <3>1. CASE x = m
      BY <1>3, <1>8, <1>11, <3>1
    <3>2. CASE x # m
      BY <1>9, <1>11, <3>2
    <3> QED BY <3>1, <3>2
  <2>2. m \in PW
    BY <1>3, <1>4, <1>8, <2>1
  <2>3. \A c \in SubMachines(m) : c \notin PW
    BY <1>5, <1>11, <2>2
  <2> QED BY <1>3, <1>5, <1>8, <2>1, <2>3
<1> QED
  BY <1>2, <1>7, <1>10, <1>11

(* Types; the machines that are still open are those around the one being    *)
(* parsed; and the depth that increase_sub_machine_depth counts in any       *)
(* machine stays below the number of machines.                               *)
THEOREM CaptureTypeCorrect == Spec => []TypeOK
  BY Inductive, TypeOfIInv, PTL

(* The list of sharers that add_shared_event keeps for an event holds the    *)
(* sub-machines that share it and no other, in the order of declaration.     *)
THEOREM SharersAreRecorded == Spec => []SharersAreMutual
<1>1. IInv => SharersAreMutual
  BY DEF IInv
<1> QED
  BY <1>1, Inductive, PTL

(* A machine is marked heterogeneous just when the actions of some captured  *)
(* sub-machine return something else than its own.                           *)
THEOREM HeterogeneousIsRecorded == Spec => []HeterogeneousIsExact
<1>1. IInv => HeterogeneousIsExact
  BY DEF IInv
<1> QED
  BY <1>1, Inductive, PTL

(* The depth of a captured machine is one just when it has sub-machines and  *)
(* none of them has any.                                                     *)
THEOREM DepthOneIsRecorded == Spec => []DepthOneIsExact
  BY Inductive, DepthOfIInv, PTL

(* The counts taken at the closing brace say whether events are shared.      *)
THEOREM CountsAreRecorded == Spec => []CountsMatchSharing
<1>1. IInv => CountsMatchSharing
  BY DEF IInv
<1> QED
  BY <1>1, Inductive, PTL
=============================================================================
