-------------------------- MODULE ActionArray_proofs --------------------------
(***************************************************************************)
(* The action array, for every set of states and events, every set of      *)
(* declarations and every length of a description: it holds what the       *)
(* matrices say, a cell named twice is refused, the facts recorded on the  *)
(* way are those of the array.                                             *)
(***************************************************************************)
EXTENDS ActionArray, FiniteSetTheorems, SequenceTheorems, TLAPS

(* The lists of declaration i, (ALL) resolved.                               *)
EventsOf(i) == MatrixEvents(decls[i])
StatesOf(i) == MatrixStates(decls[i])

(* How many events, and states of the current event, are behind.             *)
EventsDone == Len(EventsOf(pai)) - Len(events)
StatesDone == Len(StatesOf(pai)) - Len(states)

(* The cell at position k, p of declaration i has been filled.               *)
Filled(i, k, p) ==
    \/ i < pai
    \/ i = pai /\ at # "declaration" /\ k <= EventsDone
    \/ i = pai /\ at \in {"states", "error"} /\ k = EventsDone + 1 /\ p <= StatesDone

EventPositions(i) == 1..Len(EventsOf(i))
StatePositions(i) == 1..Len(StatesOf(i))

(* What is left of the lists of the declaration being processed is their end. *)
ListsInv ==
    /\ decls \in [1..Len(decls) -> Declarations] /\ Len(decls) \in 0..MaxDecls
    /\ pai \in 1..Len(decls) + 1
    /\ at \in {"declaration", "events", "states", "error"}
    /\ at # "declaration" =>
          /\ pai \in DOMAIN decls
          /\ events \in Seq(Events) /\ Len(events) <= Len(EventsOf(pai))
          /\ \A k \in 1..Len(events) : events[k] = EventsOf(pai)[EventsDone + k]
    /\ at \in {"states", "error"} =>
          /\ events # <<>>
          /\ states \in Seq(States) /\ Len(states) <= Len(StatesOf(pai))
          /\ \A p \in 1..Len(states) : states[p] = StatesOf(pai)[StatesDone + p]

(* The array holds the filled cells, and nothing else.                       *)
FilledInv ==
    \A i \in DOMAIN decls : \A k \in EventPositions(i), p \in StatePositions(i) :
        Filled(i, k, p) => array[EventsOf(i)[k]][StatesOf(i)[p]] = i

FilledWith(i, k, p, x, s) ==
    Filled(i, k, p) /\ EventsOf(i)[k] = x /\ StatesOf(i)[p] = s

HeldInv ==
    \A x \in Events, s \in States : array[x][s] # NULL =>
        \E i \in DOMAIN decls : /\ i = array[x][s]
                                /\ \E k \in EventPositions(i), p \in StatePositions(i) :
                                      FilledWith(i, k, p, x, s)

(* No declaration has filled a cell twice.                                   *)
OnceInv ==
    \A i \in DOMAIN decls : \A k, l \in EventPositions(i), p, q \in StatePositions(i) :
        /\ Filled(i, k, p) /\ Filled(i, l, q)
        /\ EventsOf(i)[k] = EventsOf(i)[l] /\ StatesOf(i)[p] = StatesOf(i)[q]
        => k = l /\ p = q

ArrayInv ==
    /\ array \in [Events -> [States -> Index \cup {NULL}]]
    /\ FilledInv /\ HeldInv /\ OnceInv
    /\ Failed => Clash

(* The declaration an event is counted for came to it; only that one counts. *)
CountInv ==
    /\ single \in [Events -> Index \cup {NULL}] /\ count \in [Events -> Nat]
    /\ \A x \in Events : single[x] # NULL =>
          /\ single[x] \in DOMAIN decls /\ single[x] <= pai
          /\ at = "declaration" => single[x] < pai
          /\ x \in ToSet(EventsOf(single[x]))
    /\ at \in {"states", "error"} =>
          /\ single[Head(events)] # NULL
          /\ count[Head(events)] = IF single[Head(events)] = pai THEN StatesDone ELSE 0

(* An event is marked only when one declaration has filled its row.          *)
OneDeclaration(x) == \E i \in Index : \A s \in States : array[x][s] = i

MarkedInv ==
    /\ inAll \in [Events -> BOOLEAN]
    /\ \A x \in Events : inAll[x] => OneDeclaration(x)

(* A row that one declaration has filled is marked, once its event is behind. *)
RowInv ==
    ~Failed => \A x \in Events : OneDeclaration(x) =>
        \/ inAll[x]
        \/ at = "states" /\ Head(events) = x /\ \A s \in States : array[x][s] = pai

(* The facts HandlersMatchTheArray states, action by action.                 *)
Brings(x, s, w) == array[x][s] # NULL /\ decls[array[x][s]].action = w

HandledInv ==
    /\ handled \in [States -> SUBSET Events] /\ handling \in [Events -> SUBSET States]
    /\ taken \in [States -> SUBSET Actions] /\ caused \in [Events -> SUBSET Actions]
    /\ \A x \in Events, s \in States : /\ x \in handled[s] <=> array[x][s] # NULL
                                       /\ s \in handling[x] <=> array[x][s] # NULL
    /\ \A s \in States : \A w : w \in taken[s] <=> w # "" /\ \E x \in Events : Brings(x, s, w)
    /\ \A x \in Events : \A w : w \in caused[x] <=> w # "" /\ \E s \in States : Brings(x, s, w)
    /\ \A x \in Events : count[x] <= Cardinality(handling[x])

NeighboursInv ==
    /\ inbound \in [States -> SUBSET States] /\ outbound \in [States -> SUBSET States]
    /\ TransitionsAreMirrored

IInv == ListsInv /\ ArrayInv /\ CountInv /\ MarkedInv /\ HandledInv /\ NeighboursInv

-----------------------------------------------------------------------------
(* What stands for (ALL): the set's members, each once.                      *)
LEMMA SequenceOfSet ==
    ASSUME NEW S, IsFiniteSet(S)
    PROVE  SetToSeq(S) \in Seq(S) /\ Len(SetToSeq(S)) = Cardinality(S)
<1>1. Cardinality(S) \in Nat /\ ExistsBijection(1..Cardinality(S), S)
  BY FS_CardinalityType
<1>2. \E f \in [1..Cardinality(S) -> S] : IsInjective(f)
  BY <1>1 DEF ExistsBijection, Bijection, Injection
<1>3. SetToSeq(S) \in [1..Cardinality(S) -> S]
  BY <1>2 DEF SetToSeq
<1> QED
  BY <1>1, <1>3

(* The matrix of a declaration names events and states of the machine.  When *)
(* some state has no machine of its own, it names at least one state.        *)
LEMMA MatrixFacts ==
    ASSUME NEW a \in Declarations
    PROVE  /\ MatrixEvents(a) \in Seq(Events) /\ MatrixStates(a) \in Seq(States)
           /\ States # ViaMachine => Len(MatrixStates(a)) > 0
           /\ a.to \subseteq States /\ a.action \in Actions
<1>1. /\ a.events \in Seq(Events) /\ a.states \in Seq(States)
      /\ a.to \subseteq States /\ a.action \in Actions
  BY DeclarationAssumption DEF Matrix, EventVector, Actions
<1>2. IsFiniteSet(Events \ Consumed) /\ IsFiniteSet(States \ ViaMachine)
  BY MachineAssumption, FS_Difference
<1>3. MatrixEvents(a) \in Seq(Events)
  <2>1. SetToSeq(Events \ Consumed) \in Seq(Events)
    BY <1>2, SequenceOfSet, SeqMonotonic, Events \ Consumed \subseteq Events
  <2> QED BY <1>1, <2>1 DEF MatrixEvents
<1>4. MatrixStates(a) \in Seq(States)
  <2>1. SetToSeq(States \ ViaMachine) \in Seq(States)
    BY <1>2, SequenceOfSet, SeqMonotonic, States \ ViaMachine \subseteq States
  <2> QED BY <1>1, <2>1 DEF MatrixStates
<1>5. ASSUME States # ViaMachine PROVE Len(MatrixStates(a)) > 0
  <2>1. States \ ViaMachine # {}
    BY <1>5, MachineAssumption
  <2>2. /\ Cardinality(States \ ViaMachine) \in Nat
        /\ Cardinality(States \ ViaMachine) # 0
    BY <2>1, <1>2, FS_EmptySet, FS_CardinalityType
  <2>3. Len(SetToSeq(States \ ViaMachine)) > 0
    BY <2>2, <1>2, SequenceOfSet
  <2>4. a.states # <<>> => Len(a.states) > 0
    BY <1>1, EmptySeq
  <2> QED BY <2>3, <2>4 DEF MatrixStates
<1> QED
  BY <1>1, <1>3, <1>4, <1>5

(* The lists of every declaration of the description are such lists.         *)
LEMMA ListFacts ==
    ASSUME ListsInv
    PROVE  /\ Len(decls) \in Nat /\ DOMAIN decls = 1..Len(decls)
           /\ Len(decls) <= MaxDecls /\ MaxDecls \in Nat
           /\ pai \in Nat \ {0} /\ pai \in 1..Len(decls) + 1
           /\ \A i \in DOMAIN decls :
                 /\ decls[i] \in Declarations /\ i \in Index /\ i \in Nat \ {0}
                 /\ Len(EventsOf(i)) \in Nat /\ Len(StatesOf(i)) \in Nat
                 /\ DOMAIN EventsOf(i) = EventPositions(i)
                 /\ DOMAIN StatesOf(i) = StatePositions(i)
                 /\ \A k \in EventPositions(i) : EventsOf(i)[k] \in Events /\ k \in Nat \ {0}
                 /\ \A p \in StatePositions(i) : StatesOf(i)[p] \in States /\ p \in Nat \ {0}
                 /\ States # ViaMachine => Len(StatesOf(i)) > 0
<1>1. /\ Len(decls) \in Nat /\ DOMAIN decls = 1..Len(decls)
      /\ Len(decls) <= MaxDecls /\ MaxDecls \in Nat
      /\ pai \in Nat \ {0} /\ pai \in 1..Len(decls) + 1
  BY MachineAssumption DEF ListsInv
<1>2. ASSUME NEW i \in DOMAIN decls
      PROVE  /\ decls[i] \in Declarations /\ i \in Index /\ i \in Nat \ {0}
             /\ EventsOf(i) \in Seq(Events) /\ StatesOf(i) \in Seq(States)
             /\ States # ViaMachine => Len(StatesOf(i)) > 0
  <2>1. decls[i] \in Declarations /\ i \in Index /\ i \in Nat \ {0}
    BY <1>1, <1>2 DEF ListsInv, Index
  <2> QED BY <2>1, MatrixFacts DEF EventsOf, StatesOf
<1> QED
  BY <1>1, <1>2, LenProperties, ElementOfSeq DEF EventPositions, StatePositions

(* The heads of what is left of the lists are the next event and state.      *)
LEMMA EventCursor ==
    ASSUME ListsInv, at # "declaration"
    PROVE  /\ pai \in DOMAIN decls
           /\ Len(events) \in Nat /\ EventsDone \in Nat
           /\ events # <<>> => /\ EventsDone + 1 \in EventPositions(pai)
                               /\ Head(events) = EventsOf(pai)[EventsDone + 1]
                               /\ Head(events) \in Events
           /\ events = <<>> => EventsDone = Len(EventsOf(pai))
<1>1. /\ pai \in DOMAIN decls
      /\ events \in Seq(Events) /\ Len(events) \in Nat /\ Len(events) <= Len(EventsOf(pai))
      /\ Len(EventsOf(pai)) \in Nat
      /\ \A k \in 1..Len(events) : events[k] = EventsOf(pai)[EventsDone + k]
  BY ListFacts, LenProperties DEF ListsInv
<1>2. ASSUME events # <<>>
      PROVE  1 \in 1..Len(events) /\ Head(events) = events[1] /\ Head(events) \in Events
  BY <1>1, <1>2, EmptySeq, HeadTailProperties
<1>3. events = <<>> => Len(events) = 0
  OBVIOUS
<1> QED
  BY <1>1, <1>2, <1>3 DEF EventsDone, EventPositions

LEMMA StateCursor ==
    ASSUME ListsInv, at \in {"states", "error"}
    PROVE  /\ events # <<>>
           /\ Len(states) \in Nat /\ StatesDone \in Nat
           /\ StatesDone <= Len(StatesOf(pai))
           /\ states # <<>> => /\ StatesDone + 1 \in StatePositions(pai)
                               /\ Head(states) = StatesOf(pai)[StatesDone + 1]
                               /\ Head(states) \in States
           /\ states = <<>> => StatesDone = Len(StatesOf(pai))
<1>1. /\ events # <<>> /\ pai \in DOMAIN decls
      /\ states \in Seq(States) /\ Len(states) \in Nat /\ Len(states) <= Len(StatesOf(pai))
      /\ Len(StatesOf(pai)) \in Nat
      /\ \A p \in 1..Len(states) : states[p] = StatesOf(pai)[StatesDone + p]
  BY ListFacts, LenProperties DEF ListsInv
<1>2. ASSUME states # <<>>
      PROVE  1 \in 1..Len(states) /\ Head(states) = states[1] /\ Head(states) \in States
  BY <1>1, <1>2, EmptySeq, HeadTailProperties
<1>3. states = <<>> => Len(states) = 0
  OBVIOUS
<1> QED
  BY <1>1, <1>2, <1>3 DEF StatesDone, StatePositions

(* A step that fills no cell leaves what is said of the array as it is.      *)
LEMMA SameCells ==
    ASSUME ArrayInv, UNCHANGED <<decls, array>>,
           \A i \in DOMAIN decls : \A k \in EventPositions(i), p \in StatePositions(i) :
               Filled(i, k, p)' <=> Filled(i, k, p),
           Failed' => Clash
    PROVE  ArrayInv'
<1>1. /\ \A i : EventsOf(i)' = EventsOf(i) /\ StatesOf(i)' = StatesOf(i)
      /\ \A i : EventPositions(i)' = EventPositions(i) /\ StatePositions(i)' = StatePositions(i)
      /\ Clash' <=> Clash
  BY DEF EventsOf, StatesOf, EventPositions, StatePositions, Clash
<1>2. FilledInv'
  BY <1>1 DEF ArrayInv, FilledInv
<1>3. HeldInv'
  BY <1>1 DEF ArrayInv, HeldInv, FilledWith
<1>4. OnceInv'
  BY <1>1 DEF ArrayInv, OnceInv
<1> QED
  BY <1>1, <1>2, <1>3, <1>4 DEF ArrayInv

-----------------------------------------------------------------------------
(* A step that leaves the array and the lists alone, and only lowers counts. *)
LEMMA SameNeighbours ==
    ASSUME IInv, UNCHANGED <<decls, array, lists>>,
           \A x \in Events : count'[x] <= Cardinality(handling[x])
    PROVE  HandledInv' /\ NeighboursInv'
<1>1. UNCHANGED <<decls, array, handled, handling, taken, caused, inbound, outbound>>
  BY DEF lists
<1>2. HandledInv'
  <2>1. \A x, s, w : Brings(x, s, w)' <=> Brings(x, s, w)
    BY <1>1 DEF Brings
  <2> QED BY <1>1, <2>1 DEF IInv, HandledInv
<1>3. NeighboursInv'
  BY <1>1 DEF IInv, NeighboursInv, TransitionsAreMirrored
<1> QED
  BY <1>2, <1>3

LEMMA SameMarks ==
    ASSUME IInv, UNCHANGED <<array, inAll>>
    PROVE  MarkedInv'
  BY DEF IInv, MarkedInv, OneDeclaration

LEMMA InitIInv == Init => IInv
<1> SUFFICES ASSUME Init PROVE IInv
  OBVIOUS
<1>1. PICK n \in 0..MaxDecls : decls \in [1..n -> Declarations]
  BY DEF Init
<1>2. n \in Nat /\ DOMAIN decls = 1..n /\ Len(decls) = n
  BY <1>1, MachineAssumption
<1>3. ListsInv
  BY <1>1, <1>2 DEF Init, ListsInv
<1>4. ArrayInv
  <2>1. \A i \in DOMAIN decls : \A k, p : ~Filled(i, k, p)
    BY <1>2 DEF Init, Filled
  <2>2. array \in [Events -> [States -> Index \cup {NULL}]]
    BY DEF Init
  <2>3. HeldInv
    BY DEF Init, HeldInv
  <2> QED BY <2>1, <2>2, <2>3 DEF ArrayInv, FilledInv, OnceInv, Init, Failed
<1>5. CountInv
  BY DEF Init, CountInv, NULL
<1>6. MarkedInv
  BY DEF Init, MarkedInv
<1>7. HandledInv
  BY FS_EmptySet DEF Init, HandledInv, Brings
<1>8. NeighboursInv
  BY DEF Init, NeighboursInv, TransitionsAreMirrored
<1> QED
  BY <1>3, <1>4, <1>5, <1>6, <1>7, <1>8 DEF IInv

-----------------------------------------------------------------------------
LEMMA ProcessActionInfoStep == ASSUME IInv, ProcessActionInfo PROVE IInv'
<1> USE DEF IInv
<1>1. /\ pai \in DOMAIN decls /\ events' = EventsOf(pai)
      /\ at = "declaration" /\ at' = "events" /\ UNCHANGED <<decls, pai, states, records>>
  BY ListFacts DEF ProcessActionInfo, EventsOf
<1>2. EventsOf(pai) \in Seq(Events) /\ Len(EventsOf(pai)) \in Nat
  BY <1>1, ListFacts, MatrixFacts DEF EventsOf
<1>3. EventsOf(pai)' = EventsOf(pai) /\ EventsDone' = 0
  BY <1>1, <1>2 DEF EventsOf, EventsDone
<1>4. ListsInv'
  BY <1>1, <1>2, <1>3 DEF ListsInv
<1>5. ArrayInv'
  <2>1. ASSUME NEW i \in DOMAIN decls, NEW k \in EventPositions(i), NEW p \in StatePositions(i)
        PROVE  Filled(i, k, p)' <=> Filled(i, k, p)
    BY <1>1, <1>3, ListFacts DEF Filled
  <2> QED BY <1>1, <2>1, SameCells DEF records, Failed
<1>6. CountInv'
  BY <1>1, ListFacts DEF CountInv, EventsOf, records
<1> QED
  BY <1>1, <1>4, <1>5, <1>6, SameMarks, SameNeighbours DEF records, HandledInv

LEMMA StartEventStep == ASSUME IInv, StartEvent PROVE IInv'
<1> USE DEF IInv
<1> DEFINE x == Head(events)
<1>1. /\ pai \in DOMAIN decls /\ states' = StatesOf(pai) /\ events # <<>>
      /\ at = "events" /\ at' = "states"
      /\ UNCHANGED <<decls, pai, events, array, inAll, lists>>
      /\ count' = [count EXCEPT ![x] = 0]
      /\ single' = [single EXCEPT ![x] = IF @ = NULL THEN pai ELSE @]
  BY EventCursor DEF StartEvent, StatesOf
<1>2. /\ StatesOf(pai) \in Seq(States) /\ Len(StatesOf(pai)) \in Nat
      /\ x = EventsOf(pai)[EventsDone + 1] /\ x \in Events
      /\ EventsDone + 1 \in EventPositions(pai)
  BY <1>1, ListFacts, MatrixFacts, EventCursor DEF StatesOf
<1>3. /\ EventsOf(pai)' = EventsOf(pai) /\ EventsDone' = EventsDone
      /\ StatesOf(pai)' = StatesOf(pai) /\ StatesDone' = 0
  BY <1>1, <1>2 DEF EventsOf, EventsDone, StatesOf, StatesDone
<1>4. ListsInv'
  BY <1>1, <1>2, <1>3 DEF ListsInv
<1>5. ArrayInv'
  <2>1. ASSUME NEW i \in DOMAIN decls, NEW k \in EventPositions(i), NEW p \in StatePositions(i)
        PROVE  Filled(i, k, p)' <=> Filled(i, k, p)
    BY <1>1, <1>3, ListFacts DEF Filled
  <2> QED BY <1>1, <2>1, SameCells DEF Failed
<1>6. CountInv'
  <2>1. /\ single' \in [Events -> Index \cup {NULL}] /\ count' \in [Events -> Nat]
        /\ \A y \in Events : single'[y] # NULL =>
              /\ single'[y] \in DOMAIN decls /\ single'[y] <= pai
              /\ y \in ToSet(EventsOf(single'[y]))
    <3>1. x \in ToSet(EventsOf(pai)) /\ pai \in Index
      BY <1>1, <1>2, ListFacts DEF ToSet
    <3>2. ASSUME NEW y \in Events
          PROVE  /\ single'[y] = IF y = x /\ single[y] = NULL THEN pai ELSE single[y]
                 /\ single[y] # NULL => /\ single[y] \in DOMAIN decls /\ single[y] <= pai
                                        /\ y \in ToSet(EventsOf(single[y]))
      BY <1>1, <1>2 DEF CountInv
    <3>3. single' \in [Events -> Index \cup {NULL}] /\ count' \in [Events -> Nat]
      BY <1>1, <1>2, <3>1 DEF CountInv
    <3> QED BY <1>1, <3>1, <3>2, <3>3, ListFacts
  <2>2. single'[x] # NULL /\ count'[x] = 0
    BY <1>1, <1>2, ListFacts DEF CountInv, NULL
  <2>3. \A i : EventsOf(i)' = EventsOf(i)
    BY <1>1 DEF EventsOf
  <2> QED BY <1>1, <1>3, <2>1, <2>2, <2>3 DEF CountInv
<1>7. \A y \in Events : count'[y] <= Cardinality(handling[y])
  <2>1. \A y \in Events : Cardinality(handling[y]) \in Nat
    BY MachineAssumption, FS_Subset, FS_CardinalityType DEF HandledInv
  <2>2. \A y \in Events : count'[y] = IF y = x THEN 0 ELSE count[y]
    BY <1>1, <1>2 DEF CountInv
  <2>3. \A y \in Events : count[y] <= Cardinality(handling[y])
    BY DEF HandledInv
  <2> QED BY <2>1, <2>2, <2>3
<1> QED
  BY <1>1, <1>4, <1>5, <1>6, <1>7, SameMarks, SameNeighbours

LEMMA EndActionInfoStep == ASSUME IInv, EndActionInfo PROVE IInv'
<1> USE DEF IInv
<1>1. /\ pai \in DOMAIN decls /\ pai \in Nat /\ pai' = pai + 1 /\ events = <<>>
      /\ at = "events" /\ at' = "declaration"
      /\ UNCHANGED <<decls, events, states, records>>
  BY EventCursor, ListFacts DEF EndActionInfo
<1>2. EventsDone = Len(EventsOf(pai))
  BY <1>1, EventCursor
<1>3. ListsInv'
  BY <1>1, ListFacts DEF ListsInv
<1>4. ArrayInv'
  <2>1. ASSUME NEW i \in DOMAIN decls, NEW k \in EventPositions(i), NEW p \in StatePositions(i)
        PROVE  Filled(i, k, p)' <=> Filled(i, k, p)
    BY <1>1, <1>2, ListFacts DEF Filled, EventPositions
  <2> QED BY <1>1, <2>1, SameCells DEF records, Failed
<1>5. CountInv'
  BY <1>1, ListFacts DEF CountInv, EventsOf, records
<1> QED
  BY <1>1, <1>3, <1>4, <1>5, SameMarks, SameNeighbours DEF records, HandledInv

(* The count reaches the number of states only when the declaration being    *)
(* processed has filled the whole row: its positions name distinct states.   *)
LEMMA CountedRow ==
    ASSUME IInv, at \in {"states", "error"}, count[Head(events)] = Cardinality(States)
    PROVE  OneDeclaration(Head(events))
<1> USE DEF IInv
<1> DEFINE x == Head(events)
           n == Cardinality(States)
<1>1. /\ pai \in DOMAIN decls /\ pai \in Index /\ n \in Nat
      /\ EventsDone + 1 \in EventPositions(pai) /\ x = EventsOf(pai)[EventsDone + 1]
  BY EventCursor, StateCursor, ListFacts, MachineAssumption, FS_CardinalityType
<1>2. CASE n = 0
  <2>1. States = {}
    BY <1>2, MachineAssumption, FS_EmptySet
  <2> QED BY <1>1, <2>1 DEF OneDeclaration
<1>3. CASE n # 0
  <2>1. StatesDone = n
    BY <1>3 DEF CountInv
  <2>2. \A p \in 1..n : p \in StatePositions(pai) /\ Filled(pai, EventsDone + 1, p)
    BY <1>1, <2>1, StateCursor, ListFacts DEF Filled, StatePositions
  <2> DEFINE f == [p \in 1..n |-> StatesOf(pai)[p]]
  <2>3. f \in [1..n -> States]
    BY <1>1, <2>2, ListFacts
  <2>4. IsInjective(f)
    BY <1>1, <2>2 DEF IsInjective, ArrayInv, OnceInv
  <2>5. f \in Injection(1..n, States)
    BY <2>3, <2>4 DEF Injection
  <2>6. Cardinality(1..n) = n
    BY <1>1, <1>3, FS_Interval
  <2>7. f \in Surjection(1..n, States)
    BY <2>5, <2>6, MachineAssumption, FS_Injection
  <2>8. \A s \in States : \E p \in 1..n : StatesOf(pai)[p] = s
    BY <2>7 DEF Surjection
  <2>9. \A s \in States : array[x][s] = pai
    BY <1>1, <2>2, <2>8 DEF ArrayInv, FilledInv
  <2> QED BY <1>1, <2>9 DEF OneDeclaration
<1> QED
  BY <1>1, <1>2, <1>3

LEMMA EndEventStep == ASSUME IInv, EndEvent PROVE IInv'
<1> USE DEF IInv
<1> DEFINE x == Head(events)
<1>1. /\ states = <<>> /\ at = "states" /\ at' = "events" /\ events' = Tail(events)
      /\ UNCHANGED <<decls, pai, states, array, single, count, lists>>
      /\ inAll' = [inAll EXCEPT ![x] = @ \/ count[x] = Cardinality(States)]
  BY DEF EndEvent, JudgeEvent
<1>2. /\ pai \in DOMAIN decls /\ events # <<>> /\ Len(events) \in Nat /\ EventsDone \in Nat
      /\ StatesDone = Len(StatesOf(pai)) /\ x \in Events
  BY <1>1, EventCursor, StateCursor
<1>3. /\ Tail(events) \in Seq(Events) /\ Len(Tail(events)) = Len(events) - 1
      /\ \A k \in 1..Len(events) - 1 : Tail(events)[k] = events[k + 1]
  BY <1>1, <1>2, HeadTailProperties DEF ListsInv
<1>4. \A i : EventsOf(i)' = EventsOf(i) /\ StatesOf(i)' = StatesOf(i)
  BY <1>1 DEF EventsOf, StatesOf
<1>5. EventsDone' = EventsDone + 1
  <2>1. EventsDone' = Len(EventsOf(pai)) - Len(Tail(events))
    BY <1>1 DEF EventsDone, EventsOf
  <2> QED BY <1>2, <1>3, <2>1, ListFacts DEF EventsDone
<1>6. ListsInv'
  <2>1. \A k \in 1..Len(events) : events[k] = EventsOf(pai)[EventsDone + k]
    BY <1>1 DEF ListsInv
  <2>2. \A k \in 1..Len(events)' : events'[k] = EventsOf(pai)[EventsDone + 1 + k]
    BY <1>1, <1>2, <1>3, <2>1
  <2>3. Len(events)' <= Len(EventsOf(pai))
    BY <1>1, <1>2, <1>3, ListFacts DEF ListsInv
  <2> QED BY <1>1, <1>2, <1>3, <1>4, <1>5, <2>2, <2>3 DEF ListsInv
<1>7. ArrayInv'
  <2>1. ASSUME NEW i \in DOMAIN decls, NEW k \in EventPositions(i), NEW p \in StatePositions(i)
        PROVE  Filled(i, k, p)' <=> Filled(i, k, p)
    BY <1>1, <1>2, <1>5, ListFacts DEF Filled, StatePositions
  <2> QED BY <1>1, <2>1, SameCells DEF Failed
<1>8. CountInv'
  BY <1>1, <1>4 DEF CountInv
<1>9. MarkedInv'
  <2>1. \A y : OneDeclaration(y)' <=> OneDeclaration(y)
    BY <1>1 DEF OneDeclaration
  <2>2. count[x] = Cardinality(States) => OneDeclaration(x)
    BY <1>1, CountedRow
  <2> QED BY <1>1, <1>2, <2>1, <2>2 DEF MarkedInv
<1>10. HandledInv' /\ NeighboursInv'
  BY <1>1, SameNeighbours DEF HandledInv
<1> QED
  BY <1>6, <1>7, <1>8, <1>9, <1>10

LEMMA RefuseCellStep == ASSUME IInv, RefuseCell PROVE IInv'
<1> USE DEF IInv
<1> DEFINE x == Head(events)
           s == Head(states)
<1>1. /\ states # <<>> /\ at = "states" /\ at' = "error" /\ array[x][s] # NULL
      /\ UNCHANGED <<decls, pai, events, states, array, single, count, lists>>
      /\ inAll' = [inAll EXCEPT ![x] = @ \/ count[x] = Cardinality(States)]
  BY DEF RefuseCell, JudgeEvent
<1>2. \A i : EventsOf(i)' = EventsOf(i) /\ StatesOf(i)' = StatesOf(i)
  BY <1>1 DEF EventsOf, StatesOf
<1>3. EventsDone' = EventsDone /\ StatesDone' = StatesDone
  BY <1>1, <1>2 DEF EventsDone, StatesDone
<1>4. /\ pai \in DOMAIN decls /\ EventsDone \in Nat /\ StatesDone \in Nat
      /\ EventsDone + 1 \in EventPositions(pai) /\ x = EventsOf(pai)[EventsDone + 1]
      /\ StatesDone + 1 \in StatePositions(pai) /\ s = StatesOf(pai)[StatesDone + 1]
      /\ x \in Events /\ s \in States
  BY <1>1, EventCursor, StateCursor
<1>5. ListsInv'
  BY <1>1, <1>2, <1>3 DEF ListsInv
<1>6. Clash
  <2>0. PICK j \in DOMAIN decls :
            \E l \in EventPositions(j), q \in StatePositions(j) : FilledWith(j, l, q, x, s)
    BY <1>1, <1>4 DEF ArrayInv, HeldInv
  <2>1. PICK l \in EventPositions(j), q \in StatePositions(j) : FilledWith(j, l, q, x, s)
    BY <2>0
  <2>2. ~Filled(pai, EventsDone + 1, StatesDone + 1)
    BY <1>1, <1>4, ListFacts DEF Filled
  <2>3. <<pai, EventsDone + 1, StatesDone + 1>> # <<j, l, q>>
    BY <2>1, <2>2 DEF FilledWith
  <2>4. /\ EventsDone + 1 \in DOMAIN EventsOf(pai) /\ StatesDone + 1 \in DOMAIN StatesOf(pai)
        /\ l \in DOMAIN EventsOf(j) /\ q \in DOMAIN StatesOf(j)
    BY <1>4, <2>1, ListFacts
  <2> QED BY <1>4, <2>1, <2>3, <2>4 DEF Clash, EventsOf, StatesOf, FilledWith
<1>7. ArrayInv'
  <2>1. ASSUME NEW i \in DOMAIN decls, NEW k \in EventPositions(i), NEW p \in StatePositions(i)
        PROVE  Filled(i, k, p)' <=> Filled(i, k, p)
    BY <1>1, <1>3 DEF Filled
  <2>2. Clash'
    BY <1>1, <1>6 DEF Clash
  <2> QED BY <1>1, <2>1, <2>2, <1>6, SameCells
<1>8. CountInv'
  BY <1>1, <1>2, <1>3 DEF CountInv
<1>9. MarkedInv'
  <2>1. \A y : OneDeclaration(y)' <=> OneDeclaration(y)
    BY <1>1 DEF OneDeclaration
  <2>2. count[x] = Cardinality(States) => OneDeclaration(x)
    BY <1>1, CountedRow
  <2> QED BY <1>1, <1>4, <2>1, <2>2 DEF MarkedInv
<1>10. HandledInv' /\ NeighboursInv'
  BY <1>1, SameNeighbours DEF HandledInv
<1> QED
  BY <1>5, <1>7, <1>8, <1>9, <1>10

LEMMA AddCellStep == ASSUME IInv, AddCell PROVE IInv'
<1> USE DEF IInv
<1> DEFINE x == Head(events)
           s == Head(states)
           k == EventsDone + 1
           p == StatesDone + 1
           to == decls[pai].to \ {s}
<1>1. /\ at = "states" /\ at' = at /\ states # <<>> /\ array[x][s] = NULL
      /\ array' = [array EXCEPT ![x][s] = pai]
      /\ count' = [count EXCEPT ![x] = IF single[x] = pai THEN @ + 1 ELSE @]
      /\ states' = Tail(states)
      /\ UNCHANGED <<decls, pai, at, events, single, inAll>>
  BY DEF AddCell, Record
<1>2. /\ handled' = [handled EXCEPT ![s] = @ \cup {x}]
      /\ handling' = [handling EXCEPT ![x] = @ \cup {s}]
      /\ taken' = [taken EXCEPT ![s] = @ \cup ({decls[pai].action} \ {""})]
      /\ caused' = [caused EXCEPT ![x] = @ \cup ({decls[pai].action} \ {""})]
      /\ outbound' = [outbound EXCEPT ![s] = @ \cup to]
      /\ inbound' = [t \in States |-> inbound[t] \cup IF t \in to THEN {s} ELSE {}]
  BY DEF AddCell, Record, MarkHandled, MarkAction
<1>3. /\ pai \in DOMAIN decls /\ pai \in Index /\ pai \in Nat \ {0}
      /\ EventsDone \in Nat /\ StatesDone \in Nat
      /\ k \in EventPositions(pai) /\ x = EventsOf(pai)[k] /\ x \in Events
      /\ p \in StatePositions(pai) /\ s = StatesOf(pai)[p] /\ s \in States
      /\ Len(states) \in Nat /\ Len(StatesOf(pai)) \in Nat /\ events # <<>>
  BY <1>1, EventCursor, StateCursor, ListFacts
<1>4. /\ to \subseteq States /\ \A t \in States : t \in to <=> t \in decls[pai].to /\ t # s
      /\ decls[pai].action \in Actions
  BY <1>3, ListFacts, MatrixFacts
<1>5. /\ Tail(states) \in Seq(States) /\ Len(Tail(states)) = Len(states) - 1
      /\ \A q \in 1..Len(states) - 1 : Tail(states)[q] = states[q + 1]
  BY <1>1, <1>3, HeadTailProperties DEF ListsInv
<1>6. \A i : /\ EventsOf(i)' = EventsOf(i) /\ StatesOf(i)' = StatesOf(i)
             /\ EventPositions(i)' = EventPositions(i) /\ StatePositions(i)' = StatePositions(i)
  BY <1>1 DEF EventsOf, StatesOf, EventPositions, StatePositions
<1>7. EventsDone' = EventsDone /\ StatesDone' = StatesDone + 1
  <2>1. StatesDone' = Len(StatesOf(pai)) - Len(Tail(states))
    BY <1>1 DEF StatesDone, StatesOf
  <2>2. EventsDone' = EventsDone
    BY <1>1 DEF EventsDone, EventsOf
  <2>3. Len(states) \in Nat /\ Len(StatesOf(pai)) \in Nat /\ Len(Tail(states)) = Len(states) - 1
    BY <1>3, <1>5
  <2> QED BY <2>1, <2>2, <2>3 DEF StatesDone
<1>8. \A y \in Events, t \in States :
          array'[y][t] = IF y = x /\ t = s THEN pai ELSE array[y][t]
  BY <1>1, <1>3 DEF ArrayInv
<1>9. ASSUME NEW i \in DOMAIN decls, NEW l \in EventPositions(i), NEW q \in StatePositions(i)
      PROVE  Filled(i, l, q)' <=> Filled(i, l, q) \/ (i = pai /\ l = k /\ q = p)
  <2>1. /\ at = "states" /\ at' = "states" /\ pai' = pai
        /\ EventsDone \in Nat /\ StatesDone \in Nat /\ pai \in Nat
        /\ i \in Nat /\ l \in Nat /\ q \in Nat
    BY <1>1, <1>3, ListFacts
  <2>2. Filled(i, l, q) <=> \/ i < pai
                            \/ i = pai /\ l <= EventsDone
                            \/ i = pai /\ l = EventsDone + 1 /\ q <= StatesDone
    BY <2>1 DEF Filled
  <2>3. Filled(i, l, q)' <=> \/ i < pai
                             \/ i = pai /\ l <= EventsDone
                             \/ i = pai /\ l = EventsDone + 1 /\ q <= StatesDone + 1
    BY <2>1, <1>7 DEF Filled
  <2> QED BY <2>1, <2>2, <2>3
<1> HIDE DEF k, p, x, s, to
<1>10. ASSUME NEW i \in DOMAIN decls, NEW l \in EventPositions(i), NEW q \in StatePositions(i),
              Filled(i, l, q)
       PROVE  /\ EventsOf(i)[l] \in Events /\ StatesOf(i)[q] \in States
              /\ array[EventsOf(i)[l]][StatesOf(i)[q]] = i /\ i # NULL
              /\ ~(EventsOf(i)[l] = x /\ StatesOf(i)[q] = s)
  BY <1>1, <1>10, ListFacts DEF ArrayInv, FilledInv, NULL
<1>11. ListsInv'
  <2>1. \A q \in 1..Len(states) : states[q] = StatesOf(pai)[StatesDone + q]
    BY <1>1 DEF ListsInv
  <2>2. \A q \in 1..Len(states)' : states'[q] = StatesOf(pai)[StatesDone + 1 + q]
    BY <1>1, <1>3, <1>5, <2>1
  <2>3. Len(states)' <= Len(StatesOf(pai))
    BY <1>1, <1>3, <1>5 DEF ListsInv
  <2> QED BY <1>1, <1>3, <1>5, <1>6, <1>7, <2>2, <2>3 DEF ListsInv
<1>12. ArrayInv'
  <2>1. array' \in [Events -> [States -> Index \cup {NULL}]]
    BY <1>1, <1>3 DEF ArrayInv
  <2>2. FilledInv'
    <3> SUFFICES ASSUME NEW i \in DOMAIN decls,
                        NEW l \in EventPositions(i), NEW q \in StatePositions(i),
                        Filled(i, l, q)'
                 PROVE  array'[EventsOf(i)[l]][StatesOf(i)[q]] = i
      BY <1>1, <1>6 DEF FilledInv
    <3>1. CASE Filled(i, l, q)
      BY <3>1, <1>8, <1>10
    <3>2. CASE i = pai /\ l = k /\ q = p
      BY <3>2, <1>3, <1>8
    <3> QED BY <1>9, <3>1, <3>2
  <2>3. HeldInv'
    <3> SUFFICES ASSUME NEW y \in Events, NEW t \in States, array'[y][t] # NULL
                 PROVE  \E i \in DOMAIN decls :
                            /\ i = array'[y][t]
                            /\ \E l \in EventPositions(i), q \in StatePositions(i) :
                                   /\ Filled(i, l, q)'
                                   /\ EventsOf(i)[l] = y /\ StatesOf(i)[q] = t
      BY <1>1, <1>6 DEF HeldInv, FilledWith
    <3>1. CASE y = x /\ t = s
      BY <3>1, <1>3, <1>8, <1>9
    <3>2. CASE ~(y = x /\ t = s)
      <4>1. array'[y][t] = array[y][t]
        BY <3>2, <1>8
      <4> QED BY <4>1, <1>9 DEF ArrayInv, HeldInv, FilledWith
    <3> QED BY <3>1, <3>2
  <2>4. OnceInv'
    <3> SUFFICES ASSUME NEW i \in DOMAIN decls,
                        NEW l \in EventPositions(i), NEW q \in StatePositions(i),
                        NEW l2 \in EventPositions(i), NEW q2 \in StatePositions(i),
                        Filled(i, l, q)', Filled(i, l2, q2)',
                        EventsOf(i)[l] = EventsOf(i)[l2], StatesOf(i)[q] = StatesOf(i)[q2]
                 PROVE  l = l2 /\ q = q2
      BY <1>1, <1>6 DEF OnceInv
    <3>1. CASE Filled(i, l, q) /\ Filled(i, l2, q2)
      BY <3>1 DEF ArrayInv, OnceInv
    <3>2. CASE ~(Filled(i, l, q) /\ Filled(i, l2, q2))
      BY <3>2, <1>3, <1>9, <1>10
    <3> QED BY <3>1, <3>2
  <2> QED BY <1>1, <2>1, <2>2, <2>3, <2>4 DEF ArrayInv, Failed
<1>13. CountInv'
  <2>1. /\ count[x] \in Nat /\ single[x] # NULL
        /\ count[x] = IF single[x] = pai THEN StatesDone ELSE 0
    BY <1>1, <1>3 DEF CountInv, x
  <2>2. count' \in [Events -> Nat]
    BY <1>1, <1>3, <2>1 DEF CountInv
  <2>3. count'[x] = IF single[x] = pai THEN StatesDone + 1 ELSE 0
    BY <1>1, <1>3, <2>1 DEF CountInv
  <2> QED BY <1>1, <1>3, <1>6, <1>7, <2>1, <2>2, <2>3 DEF CountInv, x
<1>14. MarkedInv'
  <2> SUFFICES ASSUME NEW y \in Events, inAll[y] PROVE OneDeclaration(y)'
    BY <1>1 DEF MarkedInv
  <2>1. PICK i \in Index : \A t \in States : array[y][t] = i
    BY DEF MarkedInv, OneDeclaration
  <2>2. y # x
    BY <1>1, <1>3, <2>1 DEF Index, NULL
  <2> QED BY <1>8, <2>1, <2>2 DEF OneDeclaration
<1>15. HandledInv'
  <2> DEFINE named == {decls[pai].action} \ {""}
  <2>0. /\ named \in SUBSET Actions
        /\ \A w : w \in named <=> w # "" /\ w = decls[pai].action
    BY <1>4
  <2> HIDE DEF named
  <2>1. /\ handled' \in [States -> SUBSET Events] /\ handling' \in [Events -> SUBSET States]
        /\ taken' \in [States -> SUBSET Actions] /\ caused' \in [Events -> SUBSET Actions]
        /\ \A t \in States : /\ handled'[t] = IF t = s THEN handled[t] \cup {x} ELSE handled[t]
                             /\ taken'[t] = IF t = s THEN taken[t] \cup named ELSE taken[t]
        /\ \A y \in Events : /\ handling'[y] = IF y = x THEN handling[y] \cup {s} ELSE handling[y]
                             /\ caused'[y] = IF y = x THEN caused[y] \cup named ELSE caused[y]
    <3>1. /\ handled \in [States -> SUBSET Events] /\ handling \in [Events -> SUBSET States]
          /\ taken \in [States -> SUBSET Actions] /\ caused \in [Events -> SUBSET Actions]
      BY DEF HandledInv
    <3>2. /\ taken' = [taken EXCEPT ![s] = @ \cup named]
          /\ caused' = [caused EXCEPT ![x] = @ \cup named]
      BY <1>2 DEF named
    <3>3. /\ handled' \in [States -> SUBSET Events]
          /\ \A t \in States : handled'[t] = IF t = s THEN handled[t] \cup {x} ELSE handled[t]
      BY <1>2, <1>3, <3>1
    <3>4. /\ handling' \in [Events -> SUBSET States]
          /\ \A y \in Events : handling'[y] = IF y = x THEN handling[y] \cup {s} ELSE handling[y]
      BY <1>2, <1>3, <3>1
    <3>5. /\ taken' \in [States -> SUBSET Actions]
          /\ \A t \in States : taken'[t] = IF t = s THEN taken[t] \cup named ELSE taken[t]
      BY <1>3, <2>0, <3>1, <3>2
    <3>6. /\ caused' \in [Events -> SUBSET Actions]
          /\ \A y \in Events : caused'[y] = IF y = x THEN caused[y] \cup named ELSE caused[y]
      BY <1>3, <2>0, <3>1, <3>2
    <3> QED BY <3>3, <3>4, <3>5, <3>6
  <2>2. \A y \in Events, t \in States : /\ y \in handled'[t] <=> array'[y][t] # NULL
                                        /\ t \in handling'[y] <=> array'[y][t] # NULL
    <3>1. \A y \in Events, t \in States : /\ y \in handled[t] <=> array[y][t] # NULL
                                          /\ t \in handling[y] <=> array[y][t] # NULL
      BY DEF HandledInv
    <3> QED BY <2>1, <3>1, <1>3, <1>8 DEF NULL
  <2>3. ASSUME NEW y \in Events, NEW t \in States, NEW w
        PROVE  Brings(y, t, w)' <=> Brings(y, t, w) \/ (y = x /\ t = s /\ w = decls[pai].action)
    BY <1>1, <1>3, <1>8 DEF Brings, NULL
  <2>4. ASSUME NEW t \in States, NEW w
        PROVE  w \in taken'[t] <=> w # "" /\ \E y \in Events : Brings(y, t, w)'
    <3>1. w \in taken'[t] <=> w \in taken[t] \/ (t = s /\ w # "" /\ w = decls[pai].action)
      BY <2>0, <2>1
    <3>2. w \in taken[t] <=> w # "" /\ \E y \in Events : Brings(y, t, w)
      BY DEF HandledInv
    <3>3. (\E y \in Events : Brings(y, t, w)') <=>
              \/ \E y \in Events : Brings(y, t, w)
              \/ t = s /\ w = decls[pai].action
      BY <1>3, <2>3
    <3> QED BY <3>1, <3>2, <3>3
  <2>5. ASSUME NEW y \in Events, NEW w
        PROVE  w \in caused'[y] <=> w # "" /\ \E t \in States : Brings(y, t, w)'
    <3>1. w \in caused'[y] <=> w \in caused[y] \/ (y = x /\ w # "" /\ w = decls[pai].action)
      BY <2>0, <2>1
    <3>2. w \in caused[y] <=> w # "" /\ \E t \in States : Brings(y, t, w)
      BY DEF HandledInv
    <3>3. (\E t \in States : Brings(y, t, w)') <=>
              \/ \E t \in States : Brings(y, t, w)
              \/ y = x /\ w = decls[pai].action
      BY <1>3, <2>3
    <3> QED BY <3>1, <3>2, <3>3
  <2>6. ASSUME NEW y \in Events
        PROVE  count'[y] <= Cardinality(handling'[y])
    <3>1. IsFiniteSet(handling[y]) /\ Cardinality(handling[y]) \in Nat
      BY MachineAssumption, FS_Subset, FS_CardinalityType DEF HandledInv
    <3>2. count[y] <= Cardinality(handling[y]) /\ count[y] \in Nat
      BY DEF HandledInv, CountInv
    <3>3. CASE y = x
      <4>1. s \notin handling[x] /\ handling'[x] = handling[x] \cup {s}
        BY <1>1, <1>3, <2>1 DEF HandledInv
      <4>2. Cardinality(handling'[x]) = Cardinality(handling[x]) + 1
        BY <3>1, <3>3, <4>1, FS_AddElement
      <4>3. count'[x] <= count[x] + 1
        BY <1>1, <1>3, <3>2, <3>3 DEF CountInv
      <4>4. count'[x] \in Nat
        BY <1>3, <1>13 DEF CountInv
      <4> QED BY <3>1, <3>2, <3>3, <4>2, <4>3, <4>4
    <3>4. CASE y # x
      <4>1. handling'[y] = handling[y] /\ count'[y] = count[y]
        BY <1>1, <1>3, <2>1, <3>4 DEF CountInv
      <4> QED BY <3>2, <4>1
    <3> QED BY <3>3, <3>4
  <2> QED BY <2>1, <2>2, <2>4, <2>5, <2>6 DEF HandledInv
<1>16. NeighboursInv'
  <2>1. /\ inbound' \in [States -> SUBSET States] /\ outbound' \in [States -> SUBSET States]
        /\ \A t \in States : \A u : /\ u \in inbound'[t] <=> u \in inbound[t] \/ (u = s /\ t \in to)
                                    /\ u \in outbound'[t] <=> u \in outbound[t] \/ (t = s /\ u \in to)
    <3>1. inbound \in [States -> SUBSET States] /\ outbound \in [States -> SUBSET States]
      BY DEF NeighboursInv
    <3>2. /\ outbound' \in [States -> SUBSET States]
          /\ \A t \in States : outbound'[t] = IF t = s THEN outbound[t] \cup to ELSE outbound[t]
      BY <1>2, <1>3, <1>4, <3>1
    <3>3. /\ inbound' \in [States -> SUBSET States]
          /\ \A t \in States : inbound'[t] = inbound[t] \cup IF t \in to THEN {s} ELSE {}
      BY <1>2, <1>3, <1>4, <3>1
    <3> QED BY <3>2, <3>3
  <2>2. \A u, t \in States : u \in inbound'[t] <=> t \in outbound'[u]
    BY <1>3, <2>1 DEF NeighboursInv, TransitionsAreMirrored
  <2>3. ASSUME NEW u \in States, NEW t \in States
        PROVE  t \in outbound'[u] <=> t # u /\ \E y \in Events : /\ array'[y][u] # NULL
                                                                 /\ t \in decls[array'[y][u]].to
    <3>1. t \in outbound[u] <=> t # u /\ \E y \in Events : /\ array[y][u] # NULL
                                                           /\ t \in decls[array[y][u]].to
      BY DEF NeighboursInv, TransitionsAreMirrored
    <3>2. ASSUME NEW y \in Events
          PROVE  array'[y][u] # NULL /\ t \in decls[array'[y][u]].to <=>
                     \/ array[y][u] # NULL /\ t \in decls[array[y][u]].to
                     \/ y = x /\ u = s /\ t \in decls[pai].to
      BY <1>1, <1>3, <1>8 DEF NULL
    <3>3. t \in outbound'[u] <=> t \in outbound[u] \/ (u = s /\ t \in decls[pai].to /\ t # s)
      BY <1>4, <2>1
    <3> QED BY <1>3, <3>1, <3>2, <3>3
  <2> QED BY <1>1, <2>1, <2>2, <2>3 DEF NeighboursInv, TransitionsAreMirrored
<1> QED
  BY <1>11, <1>12, <1>13, <1>14, <1>15, <1>16

LEMMA NextIInv == IInv /\ [Next]_vars => IInv'
<1> SUFFICES ASSUME IInv, [Next]_vars PROVE IInv'
  OBVIOUS
<1>1. ASSUME Next PROVE IInv'
  BY <1>1, ProcessActionInfoStep, StartEventStep, RefuseCellStep, AddCellStep,
     EndEventStep, EndActionInfoStep DEF Next
<1>2. ASSUME UNCHANGED vars PROVE IInv'
  <2> USE <1>2 DEF IInv, vars, records, lists
  <2>1. ListsInv' /\ CountInv'
    BY DEF ListsInv, CountInv, EventsOf, StatesOf, EventsDone, StatesDone
  <2>2. ArrayInv'
    <3>1. \A i, k, p : Filled(i, k, p)' <=> Filled(i, k, p)
      BY DEF Filled, EventsDone, StatesDone, EventsOf, StatesOf
    <3>2. Failed' => Clash
      BY DEF ArrayInv, Failed
    <3> QED BY <3>1, <3>2, SameCells
  <2>3. MarkedInv' /\ HandledInv' /\ NeighboursInv'
    BY SameMarks, SameNeighbours DEF HandledInv
  <2> QED BY <2>1, <2>2, <2>3
<1> QED
  BY <1>1, <1>2

LEMMA Inductive == Spec => []IInv
  BY InitIInv, NextIInv, PTL DEF Spec

-----------------------------------------------------------------------------
(* Once every declaration is behind, all their cells are filled.             *)
LEMMA PopulatedFilled ==
    ASSUME IInv, Populated, NEW i \in DOMAIN decls
    PROVE  \A k, p : Filled(i, k, p)
  BY ListFacts DEF IInv, Populated, Filled

LEMMA ArrayFollows == IInv => ArrayHoldsTheMatrices
<1> SUFFICES ASSUME IInv, Populated
             PROVE  /\ ~Clash
                    /\ \A x \in Events, s \in States, i \in DOMAIN decls :
                           Covers(i, x, s) <=> array[x][s] = i
  BY DEF ArrayHoldsTheMatrices, IInv, ArrayInv
<1> USE DEF IInv
<1>1. ~Clash
  <2> SUFFICES ASSUME NEW i \in DOMAIN decls, NEW j \in DOMAIN decls,
                      NEW k \in DOMAIN EventsOf(i), NEW l \in DOMAIN EventsOf(j),
                      NEW p \in DOMAIN StatesOf(i), NEW q \in DOMAIN StatesOf(j),
                      <<i, k, p>> # <<j, l, q>>,
                      EventsOf(i)[k] = EventsOf(j)[l], StatesOf(i)[p] = StatesOf(j)[q]
               PROVE  FALSE
    BY DEF Clash, EventsOf, StatesOf
  <2>1. /\ k \in EventPositions(i) /\ p \in StatePositions(i)
        /\ l \in EventPositions(j) /\ q \in StatePositions(j)
    BY ListFacts
  <2>2. array[EventsOf(i)[k]][StatesOf(i)[p]] = i /\ array[EventsOf(j)[l]][StatesOf(j)[q]] = j
    BY <2>1, PopulatedFilled DEF ArrayInv, FilledInv
  <2>3. i = j
    BY <2>2
  <2>4. k = l /\ p = q
    BY <2>1, <2>3, PopulatedFilled DEF ArrayInv, OnceInv
  <2> QED BY <2>3, <2>4
<1>2. ASSUME NEW x \in Events, NEW s \in States, NEW i \in DOMAIN decls, Covers(i, x, s)
      PROVE  array[x][s] = i
  <2>1. PICK k \in DOMAIN EventsOf(i) : EventsOf(i)[k] = x
    BY <1>2 DEF Covers, EventsOf, ToSet
  <2>2. PICK p \in DOMAIN StatesOf(i) : StatesOf(i)[p] = s
    BY <1>2 DEF Covers, StatesOf, ToSet
  <2> QED BY <2>1, <2>2, PopulatedFilled, ListFacts DEF ArrayInv, FilledInv
<1>3. ASSUME NEW x \in Events, NEW s \in States, NEW i \in DOMAIN decls, array[x][s] = i
      PROVE  Covers(i, x, s)
  <2>1. array[x][s] # NULL
    BY <1>3, ListFacts DEF NULL
  <2>2. \E k \in EventPositions(i), p \in StatePositions(i) : FilledWith(i, k, p, x, s)
    BY <1>3, <2>1 DEF ArrayInv, HeldInv
  <2>3. PICK k \in EventPositions(i), p \in StatePositions(i) : FilledWith(i, k, p, x, s)
    BY <2>2
  <2>4. k \in DOMAIN EventsOf(i) /\ p \in DOMAIN StatesOf(i)
    BY <2>3, ListFacts
  <2> QED BY <2>3, <2>4 DEF FilledWith, Covers, EventsOf, StatesOf, ToSet
<1> QED
  BY <1>1, <1>2, <1>3

LEMMA FactsFollow == IInv => FactsMatchTheArray
<1> SUFFICES ASSUME HandledInv PROVE HandlersMatchTheArray
  BY DEF FactsMatchTheArray, IInv, NeighboursInv
<1>1. \A x \in Events, s \in States :
          /\ x \in handled[s] <=> array[x][s] # NULL
          /\ s \in handling[x] <=> array[x][s] # NULL
  BY DEF HandledInv
<1>2. ASSUME NEW s \in States
      PROVE  taken[s] = {decls[array[x][s]].action : x \in handled[s]} \ {""}
  <2>1. handled[s] \subseteq Events
    BY DEF HandledInv
  <2>2. \A w : (\E x \in Events : Brings(x, s, w)) <=> \E x \in handled[s] : w = decls[array[x][s]].action
    BY <1>1, <2>1 DEF Brings
  <2>3. \A w : w \in taken[s] <=> w # "" /\ \E x \in handled[s] : w = decls[array[x][s]].action
    BY <2>2 DEF HandledInv
  <2>4. \A w : w \in taken[s] <=> w \in {decls[array[x][s]].action : x \in handled[s]} \ {""}
    BY <2>3
  <2> QED BY <2>4
<1>3. ASSUME NEW x \in Events
      PROVE  caused[x] = {decls[array[x][s]].action : s \in handling[x]} \ {""}
  <2>1. handling[x] \subseteq States
    BY DEF HandledInv
  <2>2. \A w : (\E s \in States : Brings(x, s, w)) <=> \E s \in handling[x] : w = decls[array[x][s]].action
    BY <1>1, <2>1 DEF Brings
  <2>3. \A w : w \in caused[x] <=> w # "" /\ \E s \in handling[x] : w = decls[array[x][s]].action
    BY <2>2 DEF HandledInv
  <2>4. \A w : w \in caused[x] <=> w \in {decls[array[x][s]].action : s \in handling[x]} \ {""}
    BY <2>3
  <2> QED BY <2>4
<1> QED
  BY <1>1, <1>2, <1>3 DEF HandlersMatchTheArray

LEMMA TypeFollows == IInv => TypeOK
<1> SUFFICES ASSUME IInv PROVE TypeOK
  OBVIOUS
<1>1. pai \in 1..MaxDecls + 1
  BY ListFacts DEF IInv
<1> QED
  BY <1>1 DEF IInv, ListsInv, ArrayInv, CountInv, MarkedInv, HandledInv, NeighboursInv, TypeOK

-----------------------------------------------------------------------------
(* When a declaration has filled the row of the event it has just gone       *)
(* through, it is the one the event is counted for, and the count is the     *)
(* number of states: an earlier declaration that came to the event would     *)
(* have filled a cell of it.                                                 *)
LEMMA RowIsCounted ==
    ASSUME States # ViaMachine, IInv, at = "states", states = <<>>,
           \A s \in States : array[Head(events)][s] = pai
    PROVE  count[Head(events)] = Cardinality(States)
<1> USE DEF IInv
<1> DEFINE x == Head(events)
           n == Len(StatesOf(pai))
<1>1. /\ pai \in DOMAIN decls /\ n \in Nat /\ StatesDone = n /\ x \in Events
      /\ EventsDone + 1 \in EventPositions(pai) /\ x = EventsOf(pai)[EventsDone + 1]
  BY EventCursor, StateCursor, ListFacts
<1>2. single[x] = pai
  <2>1. /\ single[x] # NULL /\ single[x] \in DOMAIN decls /\ single[x] <= pai
        /\ x \in ToSet(EventsOf(single[x]))
    BY <1>1 DEF CountInv
  <2> SUFFICES ASSUME single[x] < pai PROVE FALSE
    BY <1>1, <2>1, ListFacts
  <2> DEFINE j == single[x]
  <2> HIDE DEF j
  <2>2. j \in DOMAIN decls /\ j < pai /\ j # pai
    BY <1>1, <2>1, ListFacts DEF j
  <2>3. PICK l \in EventPositions(j) : EventsOf(j)[l] = x
    BY <2>1, <2>2, ListFacts DEF ToSet, j
  <2>4. 1 \in StatePositions(j) /\ StatesOf(j)[1] \in States
    <3>1. Len(StatesOf(j)) \in Nat /\ Len(StatesOf(j)) > 0
      BY <2>2, ListFacts
    <3>2. 1 \in StatePositions(j)
      BY <3>1 DEF StatePositions
    <3> QED BY <2>2, <3>2, ListFacts
  <2>5. array[x][StatesOf(j)[1]] = j
    BY <2>2, <2>3, <2>4 DEF ArrayInv, FilledInv, Filled
  <2> QED BY <2>2, <2>4, <2>5
<1>3. count[x] = n
  BY <1>1, <1>2 DEF CountInv
<1> DEFINE f == [p \in 1..n |-> StatesOf(pai)[p]]
<1>4. \A p \in 1..n : p \in StatePositions(pai) /\ Filled(pai, EventsDone + 1, p)
  BY <1>1, ListFacts DEF Filled, StatePositions
<1>5. f \in Injection(1..n, States)
  <2>1. f \in [1..n -> States]
    BY <1>1, <1>4, ListFacts
  <2>2. IsInjective(f)
    BY <1>1, <1>4 DEF IsInjective, ArrayInv, OnceInv
  <2> QED BY <2>1, <2>2 DEF Injection
<1>6. f \in Surjection(1..n, States)
  <2>1. ASSUME NEW s \in States PROVE \E p \in 1..n : f[p] = s
    <3>1. array[x][s] = pai /\ array[x][s] # NULL
      BY <1>1, ListFacts DEF NULL
    <3>2. \E k \in EventPositions(pai), p \in StatePositions(pai) : FilledWith(pai, k, p, x, s)
      BY <1>1, <3>1 DEF ArrayInv, HeldInv
    <3>3. PICK k \in EventPositions(pai), p \in StatePositions(pai) : FilledWith(pai, k, p, x, s)
      BY <3>2
    <3> QED BY <3>3 DEF FilledWith, StatePositions
  <2> QED BY <1>5, <2>1 DEF Surjection, Injection
<1>7. Cardinality(1..n) = n
  <2> HIDE DEF n
  <2>1. n \in Nat /\ n \in Int /\ 1 \in Int
    BY <1>1
  <2>2. Cardinality(1..n) = IF 1 > n THEN 0 ELSE n - 1 + 1
    BY <2>1, FS_Interval
  <2> QED BY <2>1, <2>2
<1> QED
  BY <1>3, <1>5, <1>6, <1>7, MachineAssumption, FS_Injection

LEMMA RowStep ==
    ASSUME States # ViaMachine, IInv, RowInv, [Next]_vars
    PROVE  RowInv'
<1> USE DEF IInv
<1>1. ASSUME at # "states", UNCHANGED <<array, inAll>>, at # "error"
      PROVE  RowInv'
  BY <1>1 DEF RowInv, OneDeclaration, Failed
<1>2. CASE ProcessActionInfo \/ EndActionInfo
  BY <1>1, <1>2 DEF ProcessActionInfo, EndActionInfo, records
<1>3. CASE StartEvent
  BY <1>1, <1>3 DEF StartEvent
<1>4. CASE RefuseCell
  BY <1>4 DEF RefuseCell, RowInv, Failed
<1>5. CASE AddCell
  <2> DEFINE x == Head(events)
             s == Head(states)
  <2>1. /\ array' = [array EXCEPT ![x][s] = pai] /\ at = "states"
        /\ UNCHANGED <<pai, at, events, inAll>>
        /\ x \in Events /\ s \in States
    BY <1>5, EventCursor, StateCursor DEF AddCell, Record
  <2>2. \A y \in Events, t \in States :
            array'[y][t] = IF y = x /\ t = s THEN pai ELSE array[y][t]
    BY <2>1 DEF ArrayInv
  <2> HIDE DEF s
  <2> SUFFICES ASSUME NEW y \in Events, OneDeclaration(y)'
               PROVE  inAll[y] \/ (x = y /\ \A t \in States : array'[y][t] = pai)
    BY <2>1 DEF RowInv
  <2>3. CASE y = x
    BY <2>1, <2>2, <2>3 DEF OneDeclaration
  <2>4. CASE y # x
    BY <2>1, <2>2, <2>4 DEF RowInv, OneDeclaration, Failed
  <2> QED BY <2>3, <2>4
<1>6. CASE EndEvent
  <2> DEFINE x == Head(events)
  <2>1. /\ at = "states" /\ at' = "events" /\ states = <<>> /\ UNCHANGED <<array>>
        /\ inAll' = [inAll EXCEPT ![x] = @ \/ count[x] = Cardinality(States)]
        /\ x \in Events
    BY <1>6, EventCursor, StateCursor DEF EndEvent, JudgeEvent
  <2> SUFFICES ASSUME NEW y \in Events, OneDeclaration(y)
               PROVE  inAll'[y]
    BY <2>1 DEF RowInv, OneDeclaration
  <2>2. inAll[y] \/ (x = y /\ \A s \in States : array[y][s] = pai)
    BY <2>1 DEF RowInv, Failed
  <2>3. inAll'[y] = IF y = x THEN inAll[x] \/ count[x] = Cardinality(States) ELSE inAll[y]
    BY <2>1 DEF MarkedInv
  <2> QED BY <2>1, <2>2, <2>3, RowIsCounted
<1>7. CASE UNCHANGED vars
  BY <1>7 DEF vars, records, RowInv, OneDeclaration, Failed
<1> QED
  BY <1>2, <1>3, <1>4, <1>5, <1>6, <1>7 DEF Next

LEMMA RowsAreMarked ==
    ASSUME States # ViaMachine
    PROVE  Spec => [](IInv /\ RowInv)
<1>1. Init => RowInv
  <2> SUFFICES ASSUME Init PROVE RowInv
    OBVIOUS
  <2>1. States # {}
    BY MachineAssumption
  <2> QED BY <2>1 DEF Init, RowInv, OneDeclaration, Index, NULL
<1>2. IInv /\ RowInv /\ [Next]_vars => RowInv'
  BY RowStep
<1> QED
  BY <1>1, <1>2, Inductive, PTL DEF Spec

-----------------------------------------------------------------------------
(* The types, of populate_action_array's cursors and records: the index of   *)
(* the declaration stays within the description, and an event is counted at  *)
(* most once for each state it is handled in.                                *)
THEOREM TypeCorrect == Spec => []TypeOK
  BY Inductive, TypeFollows, PTL

(* The array holds for each cell the declaration whose matrix names it, and  *)
(* nothing else, and the parse fails exactly when a cell is named twice: for *)
(* every list of declarations, in every order, (ALL) and repeated names      *)
(* included.                                                                 *)
THEOREM ArrayIsTheMatrices == Spec => []ArrayHoldsTheMatrices
  BY Inductive, ArrayFollows, PTL

(* The events a state handles, the states that handle an event, the actions  *)
(* either brings about and the lists of inbound and outbound transitions say *)
(* what the array says at every step, a failed parse included.               *)
THEOREM FactsAreTheArray == Spec => []FactsMatchTheArray
  BY Inductive, FactsFollow, PTL

(* An event is marked as handled alike in all states only when one           *)
(* declaration fills its row: the switch generator takes no event out of the *)
(* state functions that some state handles in its own way.                   *)
THEOREM MarkedRowsAreWhole == Spec => [](\A x \in Events : inAll[x] => OneDeclaration(x))
<1>1. IInv => \A x \in Events : inAll[x] => OneDeclaration(x)
  BY DEF IInv, MarkedInv
<1> QED BY <1>1, Inductive, PTL

(* Where some state has no machine of its own, the mark says exactly that.   *)
(* Where every state has one, the declarations' (ALL) is empty; one of them  *)
(* may be the first for an event, and another, which names the states, fill  *)
(* its row without being counted.                                            *)
THEOREM MarkIsOneDeclaration ==
    ASSUME States # ViaMachine
    PROVE  Spec => []InAllMeansOneDeclaration
<1>1. IInv /\ RowInv => InAllMeansOneDeclaration
  BY DEF IInv, MarkedInv, RowInv, OneDeclaration, InAllMeansOneDeclaration, Populated, Failed
<1> QED
  BY <1>1, RowsAreMarked, PTL
=============================================================================
