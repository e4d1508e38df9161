----------------------------- MODULE LinkedList ------------------------------
(***************************************************************************)
(* list.c: doubly linked lists that keep a head, a tail and a count, whose *)
(* elements carry their position.  The parser builds every list of a       *)
(* description with them, and the generators index by the ordinals.        *)
(*                                                                         *)
(* An element is the index of its record in "heap"; calloc never hands out *)
(* an index twice, so that a use of a freed element is recognised.         *)
(***************************************************************************)
EXTENDS Integers, Sequences, FiniteSets, SequencesExt

CONSTANTS
    Members,      \* what mbr may point to, ordered as integers
    Lists,
    MaxElements   \* bound: elements allocated in a behaviour

ASSUME MembersAssumption == Members \subseteq Int /\ MaxElements \in Nat

VARIABLES
    heap,   \* the elements, by address
    list,   \* the LIST records
    freed   \* addresses given back by free_list

vars == <<heap, list, freed>>

Null == 0
Empty == [count |-> 0, head |-> Null, tail |-> Null]

(* The elements seen when each is followed by the one its link leads to.     *)
Walk(start, link) ==
    LET from[n \in 0..Len(link)] ==
            [a \in 0..Len(link) |->
                IF a = Null \/ n = 0 THEN <<>> ELSE <<a>> \o from[n - 1][link[a]]]
    IN  from[Len(link)][start]

(* iterate_list and reverse_iterate_list, to the end: the elements seen.    *)
Iterate(hp, hdr) == Walk(hdr.head, [a \in 1..Len(hp) |-> hp[a].next])
ReverseIterate(hp, hdr) == Walk(hdr.tail, [a \in 1..Len(hp) |-> hp[a].prev])

Forward(l) == Iterate(heap, list[l])
Backward(l) == ReverseIterate(heap, list[l])
MembersOf(hp, hdr) == LET s == Iterate(hp, hdr) IN [i \in DOMAIN s |-> hp[s[i]].mbr]

(* "List integrity": the links of both directions agree.                    *)
Integral(l) == Backward(l) = Reverse(Forward(l))

-----------------------------------------------------------------------------
Init == heap = <<>> /\ list = [l \in Lists |-> Empty] /\ freed = {}

Linking(hp, a, b) == [hp EXCEPT ![a].next = b]
LinkingBack(hp, a, b) == [hp EXCEPT ![a].prev = b]
Numbering(hp, a, n) == [hp[a] EXCEPT !.ordinal = n]
Element(x, prev, next, n) == [mbr |-> x, prev |-> prev, next |-> next, ordinal |-> n]

(* The elements and the record that add_to_list leaves behind.              *)
Added(m, x) ==
    LET new == Len(m.heap) + 1
    IN  IF m.hdr.head = Null
        THEN [heap |-> Append(m.heap, Element(x, Null, Null, m.hdr.count)),
              hdr  |-> [count |-> 1, head |-> new, tail |-> new]]
        ELSE [heap |-> Append(Linking(m.heap, m.hdr.tail, new),
                              Element(x, m.hdr.tail, Null, m.hdr.count)),
              hdr  |-> [count |-> m.hdr.count + 1, head |-> m.hdr.head, tail |-> new]]

(* add_unique_to_list; with_test differs in what is compared.               *)
AddedUnique(m, x) ==
    IF Contains(MembersOf(m.heap, m.hdr), x) THEN m ELSE Added(m, x)

In(l) == [heap |-> heap, hdr |-> list[l]]

Store(l, m) ==
    /\ Len(m.heap) <= MaxElements
    /\ heap' = m.heap /\ list' = [list EXCEPT ![l] = m.hdr]
    /\ UNCHANGED freed

AddToList(l, x) == Store(l, Added(In(l), x))
AddUniqueToList(l, x) == Store(l, AddedUnique(In(l), x))

(* update_ordinal over the elements in s; reset_ordinals over a whole list.  *)
Shifted(hp, s, k) ==
    [a \in 1..Len(hp) |-> IF Contains(s, a) THEN Numbering(hp, a, hp[a].ordinal + k) ELSE hp[a]]

Renumbered(m) ==
    LET s == Iterate(m.heap, m.hdr)
        at(a) == SelectInSeq(s, LAMBDA b : b = a)
    IN  [heap |-> [a \in 1..Len(m.heap) |->
                       IF at(a) = 0 THEN m.heap[a] ELSE Numbering(m.heap, a, at(a) - 1)],
         hdr  |-> m.hdr]

(* add_to_list_ordered, in front of the element "at", whose prev becomes      *)
(* "back": a head has no element before it; another one has, by its prev.    *)
Spliced(m, at, x, back) ==
    LET new  == Len(m.heap) + 1
        was  == m.heap[at].prev
        hp   == Append(LinkingBack(m.heap, at, back), Element(x, was, at, 0))
    IN  Renumbered([heap |-> IF at = m.hdr.head THEN hp ELSE Linking(hp, was, new),
                    hdr  |-> [count |-> m.hdr.count + 1,
                              head  |-> IF at = m.hdr.head THEN new ELSE m.hdr.head,
                              tail  |-> m.hdr.tail]])

(* Fault: the element behind the new one keeps its prev.                     *)
InsertedWithoutPrev(m, at, x) == Spliced(m, at, x, m.heap[at].prev)

InsertedBefore(m, at, x) == Spliced(m, at, x, Len(m.heap) + 1)

AddToListOrdered(l, x) ==
    LET i == SelectInSeq(MembersOf(heap, list[l]), LAMBDA y : x < y)
    IN  /\ Integral(l)
        /\ Store(l, IF i = 0 THEN Added(In(l), x)
                             ELSE InsertedBefore(In(l), Forward(l)[i], x))

(* remove_from_list: the head, the tail or an element between two others is  *)
(* unlinked; of a single element, which is both, only the count tells.       *)
Unlinked(m, a) ==
    LET el     == m.heap[a]
        isHead == a = m.hdr.head
        isTail == ~isHead /\ a = m.hdr.tail
        head   == IF ~isHead THEN m.hdr.head ELSE IF el.next # Null THEN el.next ELSE m.hdr.tail
        hp     == IF isHead THEN LinkingBack(m.heap, head, Null)
                  ELSE IF isTail THEN Linking(m.heap, el.prev, Null)
                  ELSE LinkingBack(Linking(m.heap, el.prev, el.next), el.next, el.prev)
        hdr    == [count |-> m.hdr.count - 1, head |-> head,
                   tail  |-> IF isTail THEN el.prev ELSE m.hdr.tail]
    IN  Renumbered([heap |-> Linking(hp, a, Null),
                    hdr  |-> IF hdr.count = 0 THEN Empty ELSE hdr])

RemoveFromList(l, x) ==
    LET i == SelectInSeq(MembersOf(heap, list[l]), LAMBDA y : y = x)
    IN  Integral(l) /\ i # 0 /\ Store(l, Unlinked(In(l), Forward(l)[i]))

-----------------------------------------------------------------------------
(* move_list: the source's elements change hands; their ordinals go up by k.  *)
Linked(dest, src, k) ==
    IF list[dest].tail = Null THEN heap
    ELSE Linking(Shifted(heap, Forward(src), k), list[dest].tail, list[src].head)

(* Fault: the elements moved keep their ordinals.                            *)
JoinedHeapUnshifted(dest, src) == Linked(dest, src, 0)

JoinedHeap(dest, src) == Linked(dest, src, list[dest].count)

Both(dest, src, tail) ==
    [count |-> list[dest].count + list[src].count,
     head  |-> IF list[dest].tail = Null THEN list[src].head ELSE list[dest].head,
     tail  |-> tail]

(* Faults: the source's record is not cleared; the tail stays.               *)
JoinedWithoutReset(dest, src) ==
    [list EXCEPT ![dest] = Both(dest, src, list[src].tail)]
JoinedKeepingTail(dest, src) ==
    [list EXCEPT ![dest] = Both(dest, src, IF @.tail = Null THEN list[src].tail ELSE @.tail),
                 ![src] = Empty]

Joined(dest, src) ==
    [list EXCEPT ![dest] = Both(dest, src, list[src].tail), ![src] = Empty]

(* Every caller moves a list that holds a declaration: src is not empty.     *)
MoveList(dest, src) ==
    /\ list[src].head # Null
    /\ heap' = JoinedHeap(dest, src) /\ list' = Joined(dest, src)
    /\ UNCHANGED freed

(* The members of src that are wanted, one after another, go to dest;        *)
(* move_list_unique is the same with all of them, and leaves src to be freed. *)
Copied(m, q, keep) ==
    LET upTo[n \in 0..Len(q)] ==
            IF n = 0 THEN m
            ELSE IF q[n] \in keep THEN Added(upTo[n - 1], q[n]) ELSE upTo[n - 1]
    IN  upTo[Len(q)]

CopiedUnique(m, q, keep) ==
    LET upTo[n \in 0..Len(q)] ==
            IF n = 0 THEN m
            ELSE IF q[n] \in keep THEN AddedUnique(upTo[n - 1], q[n]) ELSE upTo[n - 1]
    IN  upTo[Len(q)]

CopyList(dest, src, keep) ==
    Store(dest, Copied(In(dest), MembersOf(heap, list[src]), keep))

CopyListUnique(dest, src, keep) ==
    Store(dest, CopiedUnique(In(dest), MembersOf(heap, list[src]), keep))

(* free_list, and the init_list that gives the name a record again.          *)
FreeList(l) ==
    /\ freed' = freed \cup ToSet(Forward(l))
    /\ list' = [list EXCEPT ![l] = Empty]
    /\ UNCHANGED heap

Next ==
    \E l \in Lists :
        \/ \E x \in Members : \/ AddToList(l, x) \/ AddUniqueToList(l, x)
                              \/ AddToListOrdered(l, x) \/ RemoveFromList(l, x)
        \/ FreeList(l)
        \/ \E src \in Lists \ {l} :
              \/ MoveList(l, src)
              \/ \E keep \in SUBSET Members : \/ CopyList(l, src, keep)
                                              \/ CopyListUnique(l, src, keep)

Spec == Init /\ [][Next]_vars

-----------------------------------------------------------------------------
TypeOK ==
    /\ heap \in Seq([mbr : Members, next : Nat, prev : Nat, ordinal : Nat])
    /\ list \in [Lists -> [count : 0..MaxElements, head : 0..Len(heap), tail : 0..Len(heap)]]
    /\ freed \subseteq DOMAIN heap

(* What each list holds, from head to tail.                                  *)
Contents == [l \in Lists |-> MembersOf(heap, list[l])]

Q == INSTANCE ListSeq WITH contents <- Contents

(* Read from head to tail, a list is the sequence its operations describe.   *)
ImplementsSequences == Q!Spec

(* count, tail and the ordinals, by which find_nth_list_member and the action *)
(* array index, agree with the links, whatever lists were joined or cut.     *)
PositionsAgree ==
    \A l \in Lists :
        LET s == Forward(l)
        IN  /\ list[l].count = Len(s)
            /\ list[l].tail = IF s = <<>> THEN Null ELSE Last(s)
            /\ \A i \in DOMAIN s : heap[s[i]].ordinal = i - 1

(* No element is on two lists, or on one after it was freed.                 *)
ElementsHaveOneOwner ==
    \A l \in Lists :
        /\ ToSet(Forward(l)) \cap freed = {}
        /\ \A k \in Lists \ {l} : ToSet(Forward(l)) \cap ToSet(Forward(k)) = {}

(* A list that can be read backwards stays so in every operation but the     *)
(* joining of another list to it, or the taking over of an unreadable one.   *)
OnlyJoiningUnlinks ==
    [][\A l \in Lists :
          Integral(l) => \/ Integral(l)'
                         \/ \E k \in Lists \ {l} :
                               /\ Forward(k) # <<>> /\ list'[k] = Empty
                               /\ Forward(l) # <<>> \/ ~Integral(k)
                               /\ Forward(l)' = Forward(l) \o Forward(k)]_vars
=============================================================================
