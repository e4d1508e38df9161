-------------------------- MODULE LinkedList_proofs --------------------------
(***************************************************************************)
(* list.c does to its elements what ListSeq says of sequences, for any     *)
(* number of lists, members and elements, in every order of operations:    *)
(* along the links of a list lie its elements, in the order of the         *)
(* sequence, each with its ordinal, none on two lists.                     *)
(***************************************************************************)
EXTENDS LinkedList, FiniteSetTheorems, SequenceTheorems, WellFoundedInduction, TLAPS

(* Induction up to N: a set with 0, and with each number's successor.        *)
LEMMA Induction ==
    ASSUME NEW N \in Nat, NEW S, 0 \in S, \A n \in 0..N-1 : n \in S => n + 1 \in S
    PROVE  \A n \in 0..N : n \in S
<1> SUFFICES ASSUME NEW m \in 0..N, m \notin S PROVE FALSE
  OBVIOUS
<1> DEFINE F == {n \in 0..N : n \notin S}
<1>1. IsWellFoundedOn(OpToRel(<, Nat), Nat)
  BY NatLessThanWellFounded
<1>2. F \subseteq Nat /\ F # {}
  OBVIOUS
<1> HIDE DEF F
<1>3. \E n \in F : \A k \in F : ~(k < n)
  <2>1. \E n \in F : \A k \in F : ~(<<k, n>> \in OpToRel(<, Nat))
    BY <1>1, <1>2, WFMin
  <2> QED BY <1>2, <2>1 DEF OpToRel
<1>4. PICK n \in F : \A k \in F : ~(k < n)
  BY <1>3
<1>5. n \in 0..N /\ n \notin S /\ n # 0
  BY <1>4 DEF F
<1>6. n - 1 \in 0..N-1 /\ n - 1 \in S
  BY <1>4, <1>5 DEF F
<1> QED BY <1>5, <1>6

(* What is said of a function's value for n by the one for n - 1 defines it. *)
Recurs(f, N, X, x0, G) ==
    f \in [0..N -> X] /\ f[0] = x0 /\ \A n \in 1..N : f[n] = G[n][f[n - 1]]

(* A function with given first value and steps.                              *)
LEMMA RecursionExists ==
    ASSUME NEW N \in Nat, NEW X, NEW x0 \in X, NEW G \in [1..N -> [X -> X]]
    PROVE  \E f : Recurs(f, N, X, x0, G)
<1> DEFINE Up(f, k) == f[0] = x0 /\ \A n \in 1..k : f[n] = G[n][f[n - 1]]
           S == {k \in 0..N : \E f \in [0..k -> X] : Up(f, k)}
<1>1. 0 \in S
  <2> DEFINE f == [n \in 0..0 |-> x0]
  <2>1. f \in [0..0 -> X] /\ f[0] = x0 /\ 1..0 = {}
    OBVIOUS
  <2> HIDE DEF f
  <2> QED BY <2>1
<1>2. ASSUME NEW k \in 0..N-1, k \in S PROVE k + 1 \in S
  <2>1. PICK f \in [0..k -> X] : Up(f, k)
    BY <1>2
  <2> DEFINE g == [n \in 0..k+1 |-> IF n = k + 1 THEN G[k + 1][f[k]] ELSE f[n]]
  <2>2. f[k] \in X /\ k + 1 \in 1..N /\ G[k + 1] \in [X -> X]
    BY <2>1
  <2>3. g \in [0..k+1 -> X]
    BY <2>1, <2>2
  <2>4. g[0] = x0
    BY <2>1
  <2>5. g[k + 1] = G[k + 1][f[k]] /\ \A n \in 0..k : g[n] = f[n]
    OBVIOUS
  <2> HIDE DEF g
  <2>6. ASSUME NEW n \in 1..k+1 PROVE g[n] = G[n][g[n - 1]]
    <3>1. CASE n = k + 1
      <4>1. g[n - 1] = f[k]
        BY <2>5, <3>1
      <4> QED BY <2>5, <3>1, <4>1
    <3>2. CASE n \in 1..k
      <4>1. g[n - 1] = f[n - 1] /\ g[n] = f[n]
        BY <2>5, <3>2
      <4> QED BY <2>1, <3>2, <4>1
    <3> QED BY <3>1, <3>2
  <2> QED BY <2>3, <2>4, <2>6
<1> HIDE DEF S
<1>3. N \in S
  <2>1. \A k \in 0..N-1 : k \in S => k + 1 \in S
    BY <1>2
  <2>2. \A n \in 0..N : n \in S
    BY <1>1, <2>1, Induction
  <2> QED BY <2>2
<1>4. PICK f \in [0..N -> X] : Up(f, N)
  BY <1>3 DEF S
<1> QED BY <1>4 DEF Recurs

-----------------------------------------------------------------------------
(* The walk along links that stay in the heap.                               *)
InHeap(link) == link \in Seq(Nat) /\ \A a \in 1..Len(link) : link[a] \in 0..Len(link)

Step(from, link, n) ==
    [a \in 0..Len(link) |-> IF a = Null \/ n = 0 THEN <<>> ELSE <<a>> \o from[n - 1][link[a]]]

(* The function that the walk is defined by.                                 *)
LEMMA StepsExist ==
    ASSUME NEW link, InHeap(link)
    PROVE  \E from : from = [n \in 0..Len(link) |-> Step(from, link, n)]
<1> DEFINE N == Len(link)
           X == [0..N -> Seq(0..N)]
           x0 == [a \in 0..N |-> <<>>]
           Further(h) == [a \in 0..N |-> IF a = Null THEN <<>> ELSE <<a>> \o h[link[a]]]
           G == [n \in 1..N |-> [h \in X |-> Further(h)]]
<1>1. N \in Nat /\ \A a \in 1..N : link[a] \in 0..N
  BY DEF InHeap
<1>2. x0 \in X
  OBVIOUS
<1>3. \A h \in X : Further(h) \in X
  <2> TAKE h \in X
  <2>1. \A a \in 0..N : (IF a = Null THEN <<>> ELSE <<a>> \o h[link[a]]) \in Seq(0..N)
    <3> TAKE a \in 0..N
    <3>1. CASE a = Null
      BY <3>1
    <3>2. CASE a # Null
      <4>1. h[link[a]] \in Seq(0..N) /\ <<a>> \in Seq(0..N)
        BY <1>1, <3>2 DEF Null
      <4> QED BY <3>2, <4>1
    <3> QED BY <3>1, <3>2
  <2> QED BY <2>1
<1> HIDE DEF X, Further, N
<1>4. G \in [1..N -> [X -> X]]
  BY <1>3
<1>5. \A h \in X, n \in 1..N : G[n][h] = Further(h)
  OBVIOUS
<1> HIDE DEF G, x0
<1>6. PICK f : Recurs(f, N, X, x0, G)
  <2>1. N \in Nat
    BY <1>1
  <2> QED BY <2>1, <1>2, <1>4, RecursionExists
<1>7. ASSUME NEW n \in 0..N PROVE f[n] = Step(f, link, n)
  <2>1. CASE n = 0
    BY <1>6, <2>1 DEF Step, x0, N, Recurs
  <2>2. CASE n # 0
    <3>1. n \in 1..N /\ n - 1 \in 0..N /\ f[n - 1] \in X
      BY <1>1, <1>6, <2>2 DEF Recurs
    <3>2. f[n] = Further(f[n - 1])
      BY <1>5, <1>6, <3>1 DEF Recurs
    <3> QED BY <2>2, <3>2 DEF Step, Further, N
  <2> QED BY <2>1, <2>2
<1>8. f = [n \in 0..N |-> Step(f, link, n)]
  BY <1>6, <1>7 DEF Recurs
<1> QED
  BY <1>8 DEF N

(* The walk, one element further at each step.                               *)
LEMMA WalkSteps ==
    ASSUME NEW link, InHeap(link), NEW start
    PROVE  \E from : /\ Walk(start, link) = from[Len(link)][start]
                     /\ \A n \in 0..Len(link) : from[n] = Step(from, link, n)
<1> DEFINE Is(from) == from = [n \in 0..Len(link) |-> Step(from, link, n)]
           it == CHOOSE from : Is(from)
<1>1. Walk(start, link) = it[Len(link)][start]
  BY DEF Walk, Step
<1>2. \E from : Is(from)
  BY StepsExist
<1> HIDE DEF Is
<1>3. Is(it)
  BY <1>2
<1> HIDE DEF it
<1>4. \A n \in 0..Len(link) : it[n] = Step(it, link, n)
  BY <1>3 DEF Is
<1> QED
  BY <1>1, <1>4

(* Where the links lead through a list's elements, these are what is seen.   *)
Follows(s, start, link) ==
    /\ start = IF s = <<>> THEN Null ELSE s[1]
    /\ \A i \in 1..Len(s) : link[s[i]] = IF i = Len(s) THEN Null ELSE s[i + 1]

Distinct(s) == \A i, j \in 1..Len(s) : s[i] = s[j] => i = j

(* Distinct elements are as many as the heap holds at most.                  *)
LEMMA NoLongerThanHeap ==
    ASSUME NEW N \in Nat, NEW s \in Seq(1..N), Distinct(s)
    PROVE  Len(s) <= N
<1> DEFINE I == 1..Len(s)
<1>1. Len(s) \in Nat /\ s \in [I -> 1..N]
  OBVIOUS
<1>2. IsFiniteSet(I) /\ Cardinality(I) = Len(s)
  <2>1. 0 <= Len(s) /\ Len(s) - 1 + 1 = Len(s)
    BY <1>1
  <2>2. 1 \in Int /\ Len(s) \in Int
    BY <1>1
  <2>3. /\ IsFiniteSet(1..Len(s))
        /\ Cardinality(1..Len(s)) = IF 1 > Len(s) THEN 0 ELSE Len(s) - 1 + 1
    BY <2>2, FS_Interval
  <2> QED BY <1>1, <2>1, <2>3
<1>3. IsFiniteSet(1..N) /\ Cardinality(1..N) = N
  BY FS_Interval
<1>4. s \in Injection(I, 1..N)
  BY <1>1 DEF Injection, IsInjective, Distinct
<1>5. Cardinality(I) <= Cardinality(1..N)
  BY <1>2, <1>3, <1>4, FS_Injection
<1> QED
  BY <1>2, <1>3, <1>5

(* Where the links lead through a string of elements, the walk sees it.      *)
LEMMA WalkIs ==
    ASSUME NEW link, InHeap(link), NEW s \in Seq(1..Len(link)), Distinct(s),
           NEW start, Follows(s, start, link)
    PROVE  Walk(start, link) = s
<1> DEFINE N == Len(link)
           K == Len(s)
<1>1. N \in Nat /\ K \in 0..N /\ \A i \in 1..K : s[i] \in 1..N
  <2>1. N \in Nat /\ K \in Nat /\ \A i \in 1..K : s[i] \in 1..N
    BY DEF InHeap
  <2> QED BY <2>1, NoLongerThanHeap
<1>2. PICK from : /\ Walk(start, link) = from[N][start]
                  /\ \A n \in 0..N : from[n] = Step(from, link, n)
  BY WalkSteps
<1> DEFINE At(k) == IF k = 0 THEN Null ELSE s[K - k + 1]
           S == {k \in 0..K : \A n \in k..N : from[n][At(k)] = SubSeq(s, K - k + 1, K)}
<1>3. 0 \in S
  <2>1. \A n \in 0..N : from[n][Null] = <<>>
    <3> TAKE n \in 0..N
    <3>1. 0 \in 0..N /\ from[n] = Step(from, link, n)
      BY <1>1, <1>2
    <3> QED BY <3>1 DEF Step, Null
  <2>2. SubSeq(s, K + 1, K) = <<>>
    BY <1>1, SubSeqEmpty
  <2>3. At(0) = Null /\ K - 0 + 1 = K + 1 /\ 0 \in 0..K
    BY <1>1
  <2> HIDE DEF At, N, K
  <2>4. \A n \in 0..N : from[n][At(0)] = SubSeq(s, K - 0 + 1, K)
    BY <2>1, <2>2, <2>3
  <2> QED BY <2>3, <2>4
<1>4. ASSUME NEW k \in 0..K-1, k \in S PROVE k + 1 \in S
  <2> DEFINE i == K - k
  <2>1. i \in 1..K /\ k + 1 \in 0..K /\ K - (k + 1) + 1 = i /\ K - k + 1 = i + 1 /\ k + 1 # 0
    BY <1>1
  <2>2. s[i] \in 1..N /\ s[i] \in 0..N /\ s[i] # Null
    BY <1>1, <2>1 DEF Null
  <2>3. link[s[i]] = IF k = 0 THEN Null ELSE s[i + 1]
    <3>1. k = 0 <=> i = Len(s)
      <4>1. k \in Nat /\ K \in Nat
        BY <1>1
      <4>2. k = 0 <=> K - k = K
        BY <4>1
      <4> QED BY <4>2
    <3>2. i \in 1..Len(s)
      BY <2>1
    <3> HIDE DEF S, At, N, i
    <3> QED BY <3>1, <3>2 DEF Follows
  <2>4. SubSeq(s, i, K) = <<s[i]>> \o SubSeq(s, i + 1, K)
    BY <1>1, <2>1, SubSeqRecursiveFirst
  <2>5. ASSUME NEW n \in k+1..N PROVE from[n][s[i]] = SubSeq(s, i, K)
    <3>1. n \in 0..N /\ n # 0 /\ n - 1 \in k..N
      BY <1>1, <2>1
    <3>2. from[n][s[i]] = <<s[i]>> \o from[n - 1][link[s[i]]]
      BY <1>2, <2>2, <3>1 DEF Step
    <3>3. from[n - 1][link[s[i]]] = SubSeq(s, i + 1, K)
      BY <1>4, <2>1, <2>3, <3>1
    <3> QED BY <2>4, <3>2, <3>3
  <2> QED BY <2>1, <2>5
<1> HIDE DEF S
<1>5. K \in S
  <2>1. K \in Nat /\ \A k \in 0..K-1 : k \in S => k + 1 \in S
    BY <1>1, <1>4
  <2>2. \A k \in 0..K : k \in S
    BY <2>1, <1>3, Induction
  <2> QED BY <2>1, <2>2
<1>6. from[N][start] = SubSeq(s, 1, K)
  <2>1. start = At(K)
    BY <1>1 DEF Follows
  <2> QED BY <1>1, <1>5, <2>1 DEF S
<1> QED
  BY <1>2, <1>6, SubSeqFull

-----------------------------------------------------------------------------
(* What is written to one element.                                           *)
Elem == [mbr : Members, next : Nat, prev : Nat, ordinal : Nat]

Heap(hp) ==
    /\ hp \in Seq(Elem)
    /\ \A a \in 1..Len(hp) : hp[a].next \in 0..Len(hp) /\ hp[a].prev \in 0..Len(hp)

(* An element with one field changed.                                        *)
LEMMA FieldSet ==
    ASSUME NEW r \in Elem, NEW v \in Nat
    PROVE  /\ [r EXCEPT !.next = v] \in Elem
           /\ [r EXCEPT !.next = v].next = v
           /\ [r EXCEPT !.next = v].mbr = r.mbr
           /\ [r EXCEPT !.next = v].prev = r.prev
           /\ [r EXCEPT !.next = v].ordinal = r.ordinal
           /\ [r EXCEPT !.prev = v] \in Elem
           /\ [r EXCEPT !.prev = v].prev = v
           /\ [r EXCEPT !.prev = v].mbr = r.mbr
           /\ [r EXCEPT !.prev = v].next = r.next
           /\ [r EXCEPT !.prev = v].ordinal = r.ordinal
           /\ [r EXCEPT !.ordinal = v] \in Elem
           /\ [r EXCEPT !.ordinal = v].ordinal = v
           /\ [r EXCEPT !.ordinal = v].mbr = r.mbr
           /\ [r EXCEPT !.ordinal = v].next = r.next
           /\ [r EXCEPT !.ordinal = v].prev = r.prev
  BY DEF Elem

(* The heap with one next changed, with one prev changed, with one ordinal.  *)
LEMMA LinkingIs ==
    ASSUME NEW hp \in Seq(Elem), NEW a, NEW b \in Nat
    PROVE  /\ Linking(hp, a, b) \in Seq(Elem) /\ Len(Linking(hp, a, b)) = Len(hp)
           /\ \A c \in 1..Len(hp) :
                 /\ Linking(hp, a, b)[c].next = IF c = a THEN b ELSE hp[c].next
                 /\ Linking(hp, a, b)[c].mbr = hp[c].mbr
                 /\ Linking(hp, a, b)[c].prev = hp[c].prev
                 /\ Linking(hp, a, b)[c].ordinal = hp[c].ordinal
                 /\ c # a => Linking(hp, a, b)[c] = hp[c]
<1> DEFINE new == [hp[a] EXCEPT !.next = b]
           h == [hp EXCEPT ![a] = new]
<1>1. Linking(hp, a, b) = h
  BY DEF Linking
<1>2. a \in 1..Len(hp) =>
         /\ new \in Elem /\ new.next = b /\ new.mbr = hp[a].mbr
         /\ new.prev = hp[a].prev /\ new.ordinal = hp[a].ordinal
  <2> HAVE a \in 1..Len(hp)
  <2>1. hp[a] \in Elem
    OBVIOUS
  <2> QED BY <2>1, FieldSet
<1> HIDE DEF new
<1>3. h \in Seq(Elem) /\ Len(h) = Len(hp)
  <2>1. \A c \in 1..Len(hp) : h[c] \in Elem
    BY <1>2
  <2>2. Len(hp) \in Nat /\ hp \in [1..Len(hp) -> Elem]
    OBVIOUS
  <2>3. h \in [1..Len(hp) -> Elem]
    BY <2>1, <2>2
  <2> HIDE DEF h
  <2> QED BY <2>2, <2>3
<1>4. \A c \in 1..Len(hp) : h[c] = IF c = a THEN new ELSE hp[c]
  OBVIOUS
<1> HIDE DEF h
<1> QED
  BY <1>1, <1>2, <1>3, <1>4

LEMMA LinkingBackIs ==
    ASSUME NEW hp \in Seq(Elem), NEW a, NEW b \in Nat
    PROVE  /\ LinkingBack(hp, a, b) \in Seq(Elem) /\ Len(LinkingBack(hp, a, b)) = Len(hp)
           /\ \A c \in 1..Len(hp) :
                 /\ LinkingBack(hp, a, b)[c].prev = IF c = a THEN b ELSE hp[c].prev
                 /\ LinkingBack(hp, a, b)[c].mbr = hp[c].mbr
                 /\ LinkingBack(hp, a, b)[c].next = hp[c].next
                 /\ LinkingBack(hp, a, b)[c].ordinal = hp[c].ordinal
                 /\ c # a => LinkingBack(hp, a, b)[c] = hp[c]
<1> DEFINE new == [hp[a] EXCEPT !.prev = b]
           h == [hp EXCEPT ![a] = new]
<1>1. LinkingBack(hp, a, b) = h
  BY DEF LinkingBack
<1>2. a \in 1..Len(hp) =>
         /\ new \in Elem /\ new.prev = b /\ new.mbr = hp[a].mbr
         /\ new.next = hp[a].next /\ new.ordinal = hp[a].ordinal
  <2> HAVE a \in 1..Len(hp)
  <2>1. hp[a] \in Elem
    OBVIOUS
  <2> QED BY <2>1, FieldSet
<1> HIDE DEF new
<1>3. h \in Seq(Elem) /\ Len(h) = Len(hp)
  <2>1. \A c \in 1..Len(hp) : h[c] \in Elem
    BY <1>2
  <2>2. Len(hp) \in Nat /\ hp \in [1..Len(hp) -> Elem]
    OBVIOUS
  <2>3. h \in [1..Len(hp) -> Elem]
    BY <2>1, <2>2
  <2> HIDE DEF h
  <2> QED BY <2>2, <2>3
<1>4. \A c \in 1..Len(hp) : h[c] = IF c = a THEN new ELSE hp[c]
  OBVIOUS
<1> HIDE DEF h
<1> QED
  BY <1>1, <1>2, <1>3, <1>4

LEMMA NumberingIs ==
    ASSUME NEW hp \in Seq(Elem), NEW a \in 1..Len(hp), NEW n \in Nat
    PROVE  /\ Numbering(hp, a, n) \in Elem
           /\ Numbering(hp, a, n).ordinal = n
           /\ Numbering(hp, a, n).mbr = hp[a].mbr
           /\ Numbering(hp, a, n).next = hp[a].next
           /\ Numbering(hp, a, n).prev = hp[a].prev
<1>1. hp[a] \in Elem
  OBVIOUS
<1> QED BY <1>1, FieldSet DEF Numbering

(* A new element.                                                            *)
LEMMA ElementIs ==
    ASSUME NEW x \in Members, NEW p \in Nat, NEW n \in Nat, NEW o \in Nat
    PROVE  /\ Element(x, p, n, o) \in Elem
           /\ Element(x, p, n, o).mbr = x
           /\ Element(x, p, n, o).prev = p
           /\ Element(x, p, n, o).next = n
           /\ Element(x, p, n, o).ordinal = o
  BY DEF Element, Elem

-----------------------------------------------------------------------------
(* The elements in s, from the head of hdr to its tail; what a prev leads to *)
(* is the element before, or nothing, where another list was joined.         *)
Before(s, i) == IF i = 1 THEN Null ELSE s[i - 1]
After(s, i) == IF i = Len(s) THEN Null ELSE s[i + 1]

Chained(hp, hdr, s) ==
    /\ s \in Seq(1..Len(hp)) /\ Distinct(s)
    /\ hdr.count = Len(s)
    /\ hdr.head = IF Len(s) = 0 THEN Null ELSE s[1]
    /\ hdr.tail = IF Len(s) = 0 THEN Null ELSE s[Len(s)]
    /\ \A i \in 1..Len(s) : /\ hp[s[i]].next = After(s, i)
                            /\ hp[s[i]].prev \in {Null, Before(s, i)}

Strung(hp, hdr, s) == Chained(hp, hdr, s) /\ \A i \in 1..Len(s) : hp[s[i]].ordinal = i - 1

Aligned(hp, s) == \A i \in 1..Len(s) : hp[s[i]].prev = Before(s, i)

(* What is read forwards, and backwards as far as the first prev that is     *)
(* nothing.                                                                  *)
LEMMA IterateIs ==
    ASSUME NEW hp, Heap(hp), NEW hdr, NEW s, Chained(hp, hdr, s)
    PROVE  Iterate(hp, hdr) = s
<1> DEFINE link == [a \in 1..Len(hp) |-> hp[a].next]
<1>1. Len(hp) \in Nat /\ \A a \in 1..Len(hp) : hp[a].next \in 0..Len(hp)
  BY DEF Heap
<1>2. link \in Seq(Nat) /\ Len(link) = Len(hp) /\ \A a \in 1..Len(hp) : link[a] = hp[a].next
  BY <1>1
<1>3. Iterate(hp, hdr) = Walk(hdr.head, link)
  BY DEF Iterate
<1> HIDE DEF link
<1>4. InHeap(link)
  BY <1>1, <1>2 DEF InHeap
<1>5. s \in Seq(1..Len(link)) /\ Distinct(s)
  BY <1>2 DEF Chained
<1>6. Follows(s, hdr.head, link)
  <2>1. s = <<>> <=> Len(s) = 0
    BY <1>5
  <2>2. ASSUME NEW i \in 1..Len(s)
        PROVE  link[s[i]] = IF i = Len(s) THEN Null ELSE s[i + 1]
    <3>1. s[i] \in 1..Len(hp)
      BY <1>2, <1>5
    <3> QED BY <1>2, <3>1 DEF Chained, After
  <2> QED BY <2>1, <2>2 DEF Follows, Chained
<1> QED
  BY <1>3, <1>4, <1>5, <1>6, WalkIs

(* Backwards, the walk ends at the last element without a prev.              *)
LEMMA BackFrom ==
    ASSUME NEW hp, Heap(hp), NEW hdr, NEW s, Strung(hp, hdr, s), NEW i \in 1..Len(s),
           hp[s[i]].prev = Null, \A j \in i+1..Len(s) : hp[s[j]].prev = s[j - 1]
    PROVE  ReverseIterate(hp, hdr) = [j \in 1..Len(s)-i+1 |-> s[Len(s) - j + 1]]
<1> DEFINE link == [a \in 1..Len(hp) |-> hp[a].prev]
           K == Len(s)
           N == Len(s) - i + 1
           r == [j \in 1..N |-> s[K - j + 1]]
<1>1. Len(hp) \in Nat /\ \A a \in 1..Len(hp) : hp[a].prev \in 0..Len(hp)
  BY DEF Heap
<1>2. link \in Seq(Nat) /\ Len(link) = Len(hp) /\ \A a \in 1..Len(hp) : link[a] = hp[a].prev
  BY <1>1
<1>3. ReverseIterate(hp, hdr) = Walk(hdr.tail, link)
  BY DEF ReverseIterate
<1> HIDE DEF link
<1>4. InHeap(link)
  BY <1>1, <1>2 DEF InHeap
<1>5. /\ s \in Seq(1..Len(link)) /\ Distinct(s)
      /\ K \in Nat /\ \A j \in 1..K : s[j] \in 1..Len(hp)
  <2>1. s \in Seq(1..Len(hp)) /\ Distinct(s)
    BY DEF Strung, Chained
  <2>2. s \in Seq(1..Len(link))
    BY <1>2, <2>1
  <2>3. K \in Nat /\ \A j \in 1..K : s[j] \in 1..Len(hp)
    BY <2>1
  <2> QED BY <2>1, <2>2, <2>3
<1>6. N \in 1..K
  BY <1>5
<1>7. \A j \in 1..N : /\ K - j + 1 \in 1..K
                      /\ K - j + 1 \in i..K /\ (K - j + 1 = i <=> j = N)
  BY <1>5
<1>8. r \in Seq(1..Len(link)) /\ Len(r) = N
  BY <1>2, <1>5, <1>6, <1>7
<1>9. \A j \in 1..N : r[j] = s[K - j + 1]
  OBVIOUS
<1> HIDE DEF r
<1>10. Distinct(r)
  <2> SUFFICES ASSUME NEW j \in 1..N, NEW k \in 1..N, r[j] = r[k] PROVE j = k
    BY <1>8 DEF Distinct
  <2>1. K - j + 1 \in 1..K /\ K - k + 1 \in 1..K
    BY <1>5, <1>7
  <2>2. s[K - j + 1] = s[K - k + 1]
    BY <1>9
  <2>3. K - j + 1 = K - k + 1
    BY <1>5, <2>1, <2>2 DEF Distinct
  <2> QED BY <1>5, <2>3
<1>11. Follows(r, hdr.tail, link)
  <2>1. hdr.tail = r[1] /\ r # <<>>
    <3>1. r[1] = s[K] /\ N # 0 /\ K # 0
      BY <1>5, <1>6, <1>9
    <3> QED BY <1>8, <3>1 DEF Strung, Chained
  <2>2. ASSUME NEW j \in 1..N
        PROVE  link[r[j]] = IF j = N THEN Null ELSE r[j + 1]
    <3> DEFINE k == K - j + 1
    <3>1. k \in i..K /\ k \in 1..K /\ (k = i <=> j = N) /\ link[r[j]] = hp[s[k]].prev
      <4>1. k \in i..K /\ k \in 1..K /\ (k = i <=> j = N)
        BY <1>7
      <4>2. r[j] = s[k] /\ s[k] \in 1..Len(hp)
        BY <1>5, <1>9, <4>1
      <4> QED BY <1>2, <4>1, <4>2
    <3>2. CASE j = N
      BY <3>1, <3>2
    <3>3. CASE j # N
      <4>1. k \in i+1..K /\ k - 1 = K - (j + 1) + 1 /\ j + 1 \in 1..N
        <5>1. K \in Nat /\ i \in Nat /\ j \in Nat /\ j <= N /\ j # N /\ N \in Nat
          BY <1>5, <1>6, <3>3
        <5>2. k > i
          <6>1. N = K - i + 1 /\ k = K - j + 1
            OBVIOUS
          <6> HIDE DEF N, K, k
          <6>2. j < N
            BY <5>1
          <6> QED BY <5>1, <6>1, <6>2
        <5> QED BY <3>1, <5>1, <5>2
      <4>2. r[j + 1] = s[k - 1]
        BY <1>9, <4>1
      <4> QED BY <3>1, <3>3, <4>1, <4>2
    <3> QED BY <3>2, <3>3
  <2> QED BY <1>8, <2>1, <2>2 DEF Follows
<1>12. Walk(hdr.tail, link) = r
  BY <1>4, <1>8, <1>10, <1>11, WalkIs
<1> QED
  BY <1>3, <1>12 DEF r

(* A set of positions has a greatest and a least.                            *)
LEMMA Greatest ==
    ASSUME NEW N \in Nat, NEW S, S \subseteq 1..N, S # {}
    PROVE  \E n \in S : \A m \in S : m <= n
<1> SUFFICES ASSUME ~\E n \in S : \A m \in S : m <= n PROVE FALSE
  OBVIOUS
<1> DEFINE T == {n \in 0..N : \E m \in S : m > n}
<1>1. 0 \in T
  <2>1. PICK m : m \in S
    OBVIOUS
  <2>2. m \in 1..N /\ m > 0
    BY <2>1
  <2> QED BY <2>1, <2>2
<1>2. ASSUME NEW n \in 0..N-1, n \in T PROVE n + 1 \in T
  <2>1. PICK m \in S : m > n
    BY <1>2
  <2>2. \A q \in S : \E p \in S : ~(p <= q)
    OBVIOUS
  <2>5. PICK p \in S : ~(p <= m)
    BY <2>2
  <2>3. m \in Int /\ p \in Int /\ n \in Int
    OBVIOUS
  <2>4. p > n + 1
    BY <2>1, <2>5, <2>3
  <2> QED BY <2>4
<1> HIDE DEF T
<1>3. N \in T
  <2>1. \A n \in 0..N-1 : n \in T => n + 1 \in T
    BY <1>2
  <2>2. \A n \in 0..N : n \in T
    BY <1>1, <2>1, Induction
  <2> QED BY <2>2
<1>4. PICK m \in S : m > N
  BY <1>3 DEF T
<1> QED BY <1>4

LEMMA Least ==
    ASSUME NEW N \in Nat, NEW S, S \subseteq 1..N, S # {}
    PROVE  \E n \in S : \A m \in S : n <= m
<1> DEFINE R == {N + 1 - n : n \in S}
<1>1. R \subseteq 1..N
  <2>1. \A n \in S : N + 1 - n \in 1..N
    OBVIOUS
  <2> QED BY <2>1
<1>2. \A n \in S : N + 1 - n \in R
  OBVIOUS
<1>7. R # {}
  OBVIOUS
<1>3. PICK r \in R : \A q \in R : q <= r
  BY <1>1, <1>7, Greatest
<1>4. PICK n \in S : r = N + 1 - n
  OBVIOUS
<1>5. \A m \in S : n <= m
  <2> TAKE m \in S
  <2>1. m \in Int /\ n \in Int /\ N + 1 - m \in R
    BY <1>2
  <2> HIDE DEF R
  <2>2. N + 1 - m <= N + 1 - n
    BY <1>3, <1>4, <2>1
  <2> QED BY <2>1, <2>2
<1> QED BY <1>5

(* A list can be read backwards exactly when every prev is the one before.   *)
LEMMA IntegralIsAligned ==
    ASSUME NEW hp, Heap(hp), NEW hdr, NEW s, Strung(hp, hdr, s)
    PROVE  ReverseIterate(hp, hdr) = Reverse(s) <=> Aligned(hp, s)
<1> DEFINE K == Len(s)
<1>1. K \in Nat /\ s \in Seq(1..Len(hp))
  BY DEF Strung, Chained
<1>2. CASE K = 0
  <2> DEFINE link == [a \in 1..Len(hp) |-> hp[a].prev]
  <2>1. Len(hp) \in Nat /\ \A a \in 1..Len(hp) : hp[a].prev \in 0..Len(hp)
    BY DEF Heap
  <2>2. link \in Seq(Nat) /\ Len(link) = Len(hp) /\ \A a \in 1..Len(hp) : link[a] = hp[a].prev
    BY <2>1
  <2>3. ReverseIterate(hp, hdr) = Walk(hdr.tail, link)
    BY DEF ReverseIterate
  <2> HIDE DEF link
  <2>4. InHeap(link)
    BY <2>1, <2>2 DEF InHeap
  <2>5. s = <<>> /\ s \in Seq(1..Len(link)) /\ Distinct(s) /\ Follows(s, hdr.tail, link)
    BY <1>1, <1>2, <2>2 DEF Strung, Chained, Follows
  <2>6. Walk(hdr.tail, link) = s
    BY <2>4, <2>5, WalkIs
  <2>7. Reverse(s) = s
    BY <2>5 DEF Reverse
  <2> QED BY <1>2, <2>3, <2>6, <2>7 DEF Aligned
<1>3. CASE K # 0
  <2> DEFINE Broken == {i \in 1..K : hp[s[i]].prev = Null}
  <2>1. 1 \in 1..K /\ hp[s[1]].prev = Null
    BY <1>1, <1>3 DEF Strung, Chained, Before
  <2>2. Broken \subseteq 1..K /\ 1 \in Broken
    BY <2>1
  <2>3. \A j \in 1..K : hp[s[j]].prev \in {Null, Before(s, j)}
    BY DEF Strung, Chained
  <2>4. PICK i \in Broken : \A j \in Broken : j <= i
    BY <1>1, <2>2, Greatest
  <2>5. i \in 1..K /\ hp[s[i]].prev = Null
    BY <2>4
  <2>6. \A j \in i+1..K : hp[s[j]].prev = s[j - 1]
    BY <1>1, <2>3, <2>4, <2>5 DEF Before
  <2>7. ReverseIterate(hp, hdr) = [j \in 1..K-i+1 |-> s[K - j + 1]]
    BY <2>5, <2>6, BackFrom
  <2>8. Reverse(s) = [j \in 1..K |-> s[K - j + 1]]
    BY <1>1 DEF Reverse
  <2>9. CASE i = 1
    <3>1. K - i + 1 = K
      BY <1>1, <2>9
    <3>2. \A j \in 1..K : hp[s[j]].prev = Before(s, j)
      BY <1>1, <2>1, <2>6, <2>9 DEF Before
    <3> QED BY <2>7, <2>8, <3>1, <3>2 DEF Aligned
  <2>10. CASE i # 1
    <3>1. hp[s[i]].prev # Before(s, i)
      <4>1. s[i - 1] \in 1..Len(hp)
        BY <1>1, <2>5, <2>10
      <4> QED BY <2>5, <2>10, <4>1 DEF Before, Null
    <3>2. ReverseIterate(hp, hdr) # Reverse(s)
      <4>1. K - i + 1 \in Nat /\ K - i + 1 < K
        BY <1>1, <2>5, <2>10
      <4> DEFINE r == [j \in 1..K-i+1 |-> s[K - j + 1]]
                 t == [j \in 1..K |-> s[K - j + 1]]
      <4>2. DOMAIN r = 1..K-i+1 /\ DOMAIN t = 1..K
        OBVIOUS
      <4>3. K \in DOMAIN t /\ K \notin DOMAIN r
        BY <1>1, <1>3, <4>1, <4>2
      <4> HIDE DEF r, t
      <4>4. r # t
        BY <4>3
      <4> QED BY <2>7, <2>8, <4>4 DEF r, t
    <3> QED BY <2>5, <3>1, <3>2 DEF Aligned
  <2> QED BY <2>9, <2>10
<1> QED
  BY <1>2, <1>3

-----------------------------------------------------------------------------
(* What an operation makes of a list whose elements are s, and of the heap.  *)
Header == [count : Nat, head : Nat, tail : Nat]

Sound(m, s) == Heap(m.heap) /\ m.hdr \in Header /\ Strung(m.heap, m.hdr, s)

Held(hp, s) == [i \in 1..Len(s) |-> hp[s[i]].mbr]

(* Elements of other lists are as they were; those of this list are its own  *)
(* or new, and hold what they held.                                          *)
Keeps(m, s, n, t) ==
    /\ Len(m.heap) <= Len(n.heap)
    /\ \A a \in 1..Len(m.heap) :
          /\ n.heap[a].mbr = m.heap[a].mbr
          /\ (\A i \in 1..Len(s) : s[i] # a) => n.heap[a] = m.heap[a]
    /\ \A i \in 1..Len(t) : t[i] > Len(m.heap) \/ \E j \in 1..Len(s) : t[i] = s[j]

Becomes(m, s, n, t) ==
    Sound(n, t) /\ Keeps(m, s, n, t) /\ (Aligned(m.heap, s) => Aligned(n.heap, t))

(* A sequence with one more.                                                 *)
LEMMA AppendIs ==
    ASSUME NEW S, NEW s \in Seq(S), NEW x \in S
    PROVE  Append(s, x) = [i \in 1..Len(s)+1 |-> IF i = Len(s) + 1 THEN x ELSE s[i]]
<1> DEFINE a == Append(s, x)
<1>1. a \in Seq(S) /\ Len(a) = Len(s) + 1
  OBVIOUS
<1>2. \A i \in 1..Len(s)+1 : a[i] = IF i = Len(s) + 1 THEN x ELSE s[i]
  OBVIOUS
<1> HIDE DEF a
<1>3. a = [i \in 1..Len(a) |-> a[i]]
  BY <1>1
<1>4. a = [i \in 1..Len(s)+1 |-> a[i]]
  BY <1>1, <1>3
<1>5. a = [i \in 1..Len(s)+1 |-> IF i = Len(s) + 1 THEN x ELSE s[i]]
  BY <1>2, <1>4
<1> QED BY <1>5 DEF a

(* What a heap, and a string of its elements, are made of.                   *)
LEMMA HeapOf ==
    ASSUME NEW hp, Heap(hp)
    PROVE  /\ hp \in Seq(Elem) /\ Len(hp) \in Nat
           /\ \A a \in 1..Len(hp) :
                 /\ hp[a] \in Elem /\ hp[a].mbr \in Members /\ hp[a].ordinal \in Nat
                 /\ hp[a].next \in 0..Len(hp) /\ hp[a].prev \in 0..Len(hp)
<1>1. hp \in Seq(Elem)
  BY DEF Heap
<1>2. \A a \in 1..Len(hp) : hp[a] \in Elem
  BY <1>1
<1>3. \A a \in 1..Len(hp) : hp[a].mbr \in Members /\ hp[a].ordinal \in Nat
  BY <1>2 DEF Elem
<1> QED BY <1>1, <1>2, <1>3 DEF Heap

LEMMA StrungOf ==
    ASSUME NEW hp, NEW hdr, NEW s, Strung(hp, hdr, s)
    PROVE  /\ s \in Seq(1..Len(hp)) /\ Len(s) \in Nat
           /\ \A i \in 1..Len(s) : s[i] \in 1..Len(hp)
           /\ \A i, j \in 1..Len(s) : s[i] = s[j] => i = j
<1>1. s \in Seq(1..Len(hp)) /\ Distinct(s)
  BY DEF Strung, Chained
<1> QED BY <1>1 DEF Distinct

(* The heap and the record of add_to_list.                                   *)
LEMMA AddedIs ==
    ASSUME NEW m, NEW s, Sound(m, s), NEW x \in Members
    PROVE  LET n   == Added(m, x)
               new == Len(m.heap) + 1
           IN  /\ n.heap \in Seq(Elem) /\ Len(n.heap) = new
               /\ \A a \in 1..Len(m.heap) :
                     /\ n.heap[a].next = IF a = m.hdr.tail THEN new ELSE m.heap[a].next
                     /\ n.heap[a].mbr = m.heap[a].mbr
                     /\ n.heap[a].prev = m.heap[a].prev
                     /\ n.heap[a].ordinal = m.heap[a].ordinal
                     /\ a # m.hdr.tail => n.heap[a] = m.heap[a]
               /\ n.heap[new].mbr = x
               /\ n.heap[new].prev = m.hdr.tail
               /\ n.heap[new].next = Null
               /\ n.heap[new].ordinal = Len(s)
               /\ n.hdr.count = Len(s) + 1
               /\ n.hdr.head = IF Len(s) = 0 THEN new ELSE s[1]
               /\ n.hdr.tail = new
<1> DEFINE n == Added(m, x)
           hp == m.heap
           new == Len(hp) + 1
<1>1. hp \in Seq(Elem) /\ Len(hp) \in Nat /\ new \in Nat
  BY HeapOf DEF Sound
<1>2. Len(s) \in Nat /\ m.hdr.count = Len(s) /\ m.hdr.tail \in Nat
  BY DEF Sound, Strung, Chained, Header
<1>3. CASE Len(s) = 0
  <2>1. m.hdr.head = Null /\ m.hdr.tail = Null
    BY <1>3 DEF Sound, Strung, Chained
  <2> DEFINE e == Element(x, Null, Null, m.hdr.count)
  <2>2. e \in Elem /\ e.mbr = x /\ e.prev = Null /\ e.next = Null /\ e.ordinal = Len(s)
    BY <1>2, ElementIs DEF Null
  <2>3. n.heap = Append(hp, e) /\ n.hdr.count = 1 /\ n.hdr.head = new /\ n.hdr.tail = new
    BY <2>1 DEF Added
  <2> HIDE DEF e, n
  <2>4. /\ n.heap \in Seq(Elem) /\ Len(n.heap) = new /\ n.heap[new] = e
        /\ \A a \in 1..Len(hp) : n.heap[a] = hp[a] /\ a # m.hdr.tail
    BY <1>1, <2>1, <2>2, <2>3 DEF Null
  <2> QED BY <1>2, <1>3, <2>1, <2>2, <2>3, <2>4 DEF n
<1>4. CASE Len(s) # 0
  <2>1. m.hdr.head = s[1] /\ s[1] \in 1..Len(hp) /\ m.hdr.head # Null
    BY <1>2, <1>4, StrungOf DEF Sound, Strung, Chained, Null
  <2> DEFINE e == Element(x, m.hdr.tail, Null, m.hdr.count)
             h == Linking(hp, m.hdr.tail, new)
  <2>2. /\ e \in Elem /\ e.mbr = x /\ e.prev = m.hdr.tail
        /\ e.next = Null /\ e.ordinal = Len(s)
    BY <1>2, ElementIs DEF Null
  <2>3. /\ n.heap = Append(h, e)
        /\ n.hdr.count = Len(s) + 1 /\ n.hdr.head = s[1] /\ n.hdr.tail = new
    BY <1>2, <2>1 DEF Added
  <2>4. /\ h \in Seq(Elem) /\ Len(h) = Len(hp)
        /\ \A a \in 1..Len(hp) :
              /\ h[a].next = IF a = m.hdr.tail THEN new ELSE hp[a].next
              /\ h[a].mbr = hp[a].mbr
              /\ h[a].prev = hp[a].prev
              /\ h[a].ordinal = hp[a].ordinal
              /\ a # m.hdr.tail => h[a] = hp[a]
    BY <1>1, LinkingIs
  <2> HIDE DEF e, n, h
  <2>5. /\ n.heap \in Seq(Elem) /\ Len(n.heap) = new /\ n.heap[new] = e
        /\ \A a \in 1..Len(hp) : n.heap[a] = h[a]
    BY <1>1, <2>2, <2>3, <2>4
  <2> QED BY <1>4, <2>2, <2>3, <2>4, <2>5 DEF n
<1> QED BY <1>3, <1>4

(* add_to_list puts its member at the end.                                   *)
LEMMA AddedBecomes ==
    ASSUME NEW m, NEW s, Sound(m, s), NEW x \in Members
    PROVE  LET t == Append(s, Len(m.heap) + 1)
           IN  /\ Becomes(m, s, Added(m, x), t)
               /\ Held(Added(m, x).heap, t) = Append(Held(m.heap, s), x)
<1> DEFINE n == Added(m, x)
           hp == m.heap
           new == Len(hp) + 1
           K == Len(s)
           t == Append(s, new)
<1>1. /\ hp \in Seq(Elem) /\ Len(hp) \in Nat /\ K \in Nat
      /\ \A a \in 1..Len(hp) : hp[a].next \in 0..Len(hp) /\ hp[a].prev \in 0..Len(hp)
      /\ s \in Seq(1..Len(hp))
      /\ \A i \in 1..K : s[i] \in 1..Len(hp)
      /\ \A i, j \in 1..K : s[i] = s[j] => i = j
  BY HeapOf, StrungOf DEF Sound
<1>2. /\ m.hdr.head = IF K = 0 THEN Null ELSE s[1]
      /\ m.hdr.tail = IF K = 0 THEN Null ELSE s[K]
      /\ \A i \in 1..K : /\ hp[s[i]].next = After(s, i)
                         /\ hp[s[i]].prev \in {Null, Before(s, i)}
                         /\ hp[s[i]].ordinal = i - 1
  BY DEF Sound, Strung, Chained
<1>3. /\ n.heap \in Seq(Elem) /\ Len(n.heap) = new
      /\ \A a \in 1..Len(hp) :
            /\ n.heap[a].next = IF a = m.hdr.tail THEN new ELSE hp[a].next
            /\ n.heap[a].mbr = hp[a].mbr
            /\ n.heap[a].prev = hp[a].prev
            /\ n.heap[a].ordinal = hp[a].ordinal
            /\ a # m.hdr.tail => n.heap[a] = hp[a]
      /\ n.heap[new].mbr = x
      /\ n.heap[new].prev = m.hdr.tail
      /\ n.heap[new].next = Null
      /\ n.heap[new].ordinal = K
      /\ n.hdr.count = K + 1
      /\ n.hdr.head = IF K = 0 THEN new ELSE s[1]
      /\ n.hdr.tail = new
  BY AddedIs
<1>4. n.hdr \in Header
  BY <1>1, <1>2 DEF Header, Added, Sound
<1>5. /\ t \in Seq(1..new) /\ Len(t) = K + 1 /\ t[K + 1] = new /\ K + 1 \in 1..K+1
      /\ \A i \in 1..K : t[i] = s[i]
  <2>1. s \in Seq(1..new) /\ new \in 1..new
    BY <1>1
  <2> QED BY <1>1, <2>1
<1>6. K = Len(s) /\ new = Len(hp) + 1
  OBVIOUS
<1> HIDE DEF n, t, hp, K, new
<1>7. \A i \in 1..K+1 : i = K + 1 \/ i \in 1..K
  BY <1>1
<1>8. \A i \in 1..K : i + 1 \in 1..K+1 /\ i # K + 1 /\ (i # K => i + 1 \in 1..K)
  BY <1>1
<1>9. \A i \in 1..K+1 : i # 1 => i - 1 \in 1..K
  BY <1>1
<1>10. m.hdr.tail \in 0..Len(hp) /\ \A a \in 1..Len(hp) : a # new
  BY <1>1, <1>2, <1>6 DEF Null
<1>11. \A i \in 1..K : s[i] = m.hdr.tail <=> i = K
  BY <1>1, <1>2
<1>12. \A i \in 1..K+1 : Before(t, i) = IF i = 1 THEN Null ELSE s[i - 1]
  BY <1>5, <1>9 DEF Before
<1>13. \A i \in 1..K : After(t, i) = IF i = K THEN new ELSE s[i + 1]
  BY <1>5, <1>8 DEF After
<1>14. After(t, K + 1) = Null /\ Before(t, K + 1) = m.hdr.tail
  <2>1. K = 0 <=> K + 1 = 1
    BY <1>1
  <2>2. K + 1 - 1 = K
    BY <1>1
  <2>3. Before(t, K + 1) = IF K = 0 THEN Null ELSE s[K]
    <3>1. ASSUME NEW i \in 1..K+1, i = K + 1
          PROVE  Before(t, i) = IF K = 0 THEN Null ELSE s[K]
      <4>1. i - 1 = K /\ (i = 1 <=> K = 0)
        BY <1>1, <3>1
      <4>2. Before(t, i) = IF i = 1 THEN Null ELSE s[i - 1]
        BY <1>12
      <4> QED BY <4>1, <4>2
    <3> QED BY <1>5, <3>1
  <2>4. After(t, K + 1) = Null
    BY <1>5 DEF After
  <2> QED BY <1>2, <2>3, <2>4
<1>15. Heap(n.heap)
  <2>1. ASSUME NEW a \in 1..new PROVE n.heap[a].next \in 0..new /\ n.heap[a].prev \in 0..new
    <3>1. 0 \in 0..new /\ new \in 0..new /\ \A b \in 0..Len(hp) : b \in 0..new
      BY <1>1, <1>6
    <3>2. CASE a = new
      BY <1>3, <1>10, <3>1, <3>2 DEF Null
    <3>3. CASE a \in 1..Len(hp)
      BY <1>1, <1>3, <3>1, <3>3
    <3> QED BY <1>1, <1>6, <3>2, <3>3
  <2> QED BY <1>3, <2>1 DEF Heap
<1>16. Strung(n.heap, n.hdr, t)
  <2>1. Distinct(t)
    <3> SUFFICES ASSUME NEW i \in 1..K+1, NEW j \in 1..K+1, t[i] = t[j] PROVE i = j
      BY <1>5 DEF Distinct
    <3>1. \A k \in 1..K : t[k] # new
      BY <1>1, <1>5, <1>10
    <3> QED BY <1>1, <1>5, <1>7, <3>1
  <2>2. ASSUME NEW i \in 1..K+1
        PROVE  /\ n.heap[t[i]].next = After(t, i)
               /\ n.heap[t[i]].prev \in {Null, Before(t, i)}
               /\ n.heap[t[i]].ordinal = i - 1
    <3>1. CASE i = K + 1
      <4>1. i - 1 = K
        BY <1>1, <3>1
      <4> QED BY <1>3, <1>5, <1>14, <3>1, <4>1
    <3>2. CASE i \in 1..K
      <4>1. t[i] = s[i] /\ s[i] \in 1..Len(hp) /\ Before(t, i) = Before(s, i)
        BY <1>1, <1>5, <1>12, <3>2 DEF Before
      <4>2. After(s, i) = IF i = K THEN Null ELSE s[i + 1]
        BY <1>6 DEF After
      <4>3. n.heap[s[i]].next = IF i = K THEN new ELSE s[i + 1]
        BY <1>2, <1>3, <1>11, <3>2, <4>1, <4>2
      <4>4. n.heap[t[i]].next = After(t, i)
        BY <1>13, <3>2, <4>1, <4>3
      <4>5. hp[s[i]].prev \in {Null, Before(s, i)} /\ hp[s[i]].ordinal = i - 1
        BY <1>2, <3>2
      <4>6. n.heap[s[i]].prev = hp[s[i]].prev /\ n.heap[s[i]].ordinal = hp[s[i]].ordinal
        BY <1>3, <4>1
      <4> QED BY <4>1, <4>4, <4>5, <4>6
    <3> QED BY <1>7, <3>1, <3>2
  <2>3. t[1] = IF K = 0 THEN new ELSE s[1]
    <3>1. K = 0 => K + 1 = 1
      BY <1>1
    <3>2. K # 0 => 1 \in 1..K
      BY <1>1
    <3> QED BY <1>5, <3>1, <3>2
  <2>4. Len(n.heap) = new /\ K + 1 # 0
    BY <1>1, <1>3
  <2> QED BY <1>3, <1>5, <2>1, <2>2, <2>3, <2>4 DEF Strung, Chained
<1>17. \A a \in 1..Len(hp) :
          /\ n.heap[a].mbr = hp[a].mbr
          /\ (\A i \in 1..K : s[i] # a) => n.heap[a] = hp[a]
  <2> TAKE a \in 1..Len(hp)
  <2>1. (\A i \in 1..K : s[i] # a) => a # m.hdr.tail
    <3>1. K # 0 => K \in 1..K
      BY <1>1
    <3>2. a # Null
      BY <1>1 DEF Null
    <3> QED BY <1>2, <3>1, <3>2
  <2> QED BY <1>3, <2>1
<1>18. \A i \in 1..K+1 : t[i] > Len(hp) \/ \E j \in 1..K : t[i] = s[j]
  <2>1. new > Len(hp)
    BY <1>1, <1>6
  <2> TAKE i \in 1..K+1
  <2>2. CASE i = K + 1
    BY <1>5, <2>1, <2>2
  <2>3. CASE i \in 1..K
    BY <1>5, <2>3
  <2> QED BY <1>7, <2>2, <2>3
<1>19. Aligned(hp, s) => Aligned(n.heap, t)
  <2> SUFFICES ASSUME Aligned(hp, s), NEW i \in 1..K+1
               PROVE  n.heap[t[i]].prev = Before(t, i)
    BY <1>5 DEF Aligned
  <2>1. CASE i = K + 1
    BY <1>3, <1>5, <1>14, <2>1
  <2>2. CASE i \in 1..K
    <3>1. t[i] = s[i] /\ s[i] \in 1..Len(hp) /\ Before(t, i) = Before(s, i)
      BY <1>1, <1>5, <1>12, <2>2 DEF Before
    <3>2. hp[s[i]].prev = Before(s, i)
      BY <1>6, <2>2 DEF Aligned
    <3> QED BY <1>3, <3>1, <3>2
  <2> QED BY <1>7, <2>1, <2>2
<1>20. Becomes(m, s, n, t)
  <2>1. Len(hp) <= Len(n.heap)
    BY <1>1, <1>3, <1>6
  <2>2. Sound(n, t)
    BY <1>4, <1>15, <1>16 DEF Sound
  <2> QED BY <1>5, <1>17, <1>18, <1>19, <2>1, <2>2 DEF Becomes, Keeps, hp, K
<1>21. Held(n.heap, t) = Append(Held(hp, s), x)
  <2> DEFINE g == Held(hp, s)
             d == Held(n.heap, t)
  <2>1. \A i \in 1..K+1 : n.heap[t[i]].mbr = IF i = K + 1 THEN x ELSE hp[s[i]].mbr
    <3> TAKE i \in 1..K+1
    <3>1. CASE i = K + 1
      BY <1>3, <1>5, <3>1
    <3>2. CASE i \in 1..K
      <4>1. t[i] = s[i] /\ s[i] \in 1..Len(hp) /\ i # K + 1
        BY <1>1, <1>5, <3>2
      <4> QED BY <1>3, <4>1
    <3> QED BY <1>7, <3>1, <3>2
  <2>2. \A i \in 1..K : hp[s[i]].mbr \in Members
    BY <1>1, HeapOf DEF Sound, hp
  <2>3. g \in Seq(Members) /\ Len(g) = K /\ \A i \in 1..K : g[i] = hp[s[i]].mbr
    BY <1>1, <1>6, <2>2 DEF Held
  <2>4. d = [i \in 1..K+1 |-> IF i = K + 1 THEN x ELSE hp[s[i]].mbr]
    BY <1>5, <2>1 DEF Held
  <2> HIDE DEF g, d
  <2>5. Append(g, x) = [i \in 1..K+1 |-> IF i = K + 1 THEN x ELSE hp[s[i]].mbr]
    <3>1. Append(g, x) = [i \in 1..Len(g)+1 |-> IF i = Len(g) + 1 THEN x ELSE g[i]]
      BY <2>3, AppendIs
    <3>2. \A i \in 1..K+1 : (IF i = K + 1 THEN x ELSE g[i])
                             = IF i = K + 1 THEN x ELSE hp[s[i]].mbr
      BY <1>7, <2>3
    <3> QED BY <2>3, <3>1, <3>2
  <2> QED BY <2>4, <2>5 DEF g, d
<1> QED BY <1>20, <1>21 DEF n, t, hp, new

-----------------------------------------------------------------------------
(* The position of a in s, as reset_ordinals counts it.                      *)
LEMMA MinIs ==
    ASSUME NEW N \in Nat, NEW S, S \subseteq 1..N, S # {}
    PROVE  Min(S) \in S /\ \A n \in S : Min(S) <= n
<1>1. \E n \in S : \A m \in S : n <= m
  BY Least
<1> QED BY <1>1 DEF Min

Position(s, a) == SelectInSeq(s, LAMBDA b : b = a)

(* Where an element lies on its list.                                        *)
LEMMA PositionIs ==
    ASSUME NEW S, NEW s \in Seq(S), Distinct(s), NEW a
    PROVE  /\ \A i \in 1..Len(s) : s[i] = a => Position(s, a) = i
           /\ (\A i \in 1..Len(s) : s[i] # a) => Position(s, a) = 0
<1> DEFINE I == {i \in 1..Len(s) : s[i] = a}
           p == Position(s, a)
<1>1. p = IF I # {} THEN Min(I) ELSE 0
  BY DEF SelectInSeq, Position
<1> HIDE DEF p
<1>2. ASSUME NEW i \in 1..Len(s), s[i] = a PROVE p = i
  <2>1. i \in I /\ I \subseteq 1..Len(s) /\ I # {} /\ Len(s) \in Nat
    BY <1>2
  <2>2. Min(I) \in I
    BY <2>1, MinIs
  <2>3. Min(I) = i
    BY <1>2, <2>2 DEF Distinct
  <2> QED BY <1>1, <2>1, <2>3
<1>3. (\A i \in 1..Len(s) : s[i] # a) => p = 0
  BY <1>1
<1> QED BY <1>2, <1>3 DEF p

OnlyRenumbers(m, s, n) ==
    /\ Heap(n.heap) /\ Len(n.heap) = Len(m.heap) /\ n.hdr = m.hdr
    /\ Strung(n.heap, n.hdr, s)
    /\ \A a \in 1..Len(m.heap) :
          /\ n.heap[a].mbr = m.heap[a].mbr
          /\ n.heap[a].next = m.heap[a].next
          /\ n.heap[a].prev = m.heap[a].prev
          /\ (\A i \in 1..Len(s) : s[i] # a) => n.heap[a] = m.heap[a]

(* reset_ordinals changes ordinals alone, to the positions.                  *)
LEMMA RenumberedIs ==
    ASSUME NEW m, NEW s, Heap(m.heap), Chained(m.heap, m.hdr, s)
    PROVE  OnlyRenumbers(m, s, Renumbered(m))
<1> DEFINE hp == m.heap
           n == Renumbered(m)
           at(a) == Position(s, a)
           h == [a \in 1..Len(hp) |->
                    IF at(a) = 0 THEN hp[a] ELSE Numbering(hp, a, at(a) - 1)]
<1>1. Iterate(hp, m.hdr) = s
  BY IterateIs
<1>2. n.heap = h /\ n.hdr = m.hdr
  BY <1>1 DEF Renumbered, Position
<1>3. /\ hp \in Seq(Elem) /\ Len(hp) \in Nat
      /\ \A a \in 1..Len(hp) :
            hp[a] \in Elem /\ hp[a].next \in 0..Len(hp) /\ hp[a].prev \in 0..Len(hp)
  BY HeapOf
<1>4. /\ s \in Seq(1..Len(hp)) /\ Distinct(s) /\ Len(s) \in Nat
      /\ \A i \in 1..Len(s) : s[i] \in 1..Len(hp)
  <2>1. s \in Seq(1..Len(hp)) /\ Distinct(s)
    BY DEF Chained
  <2> QED BY <2>1
<1>5. ASSUME NEW a
      PROVE  /\ \A i \in 1..Len(s) : s[i] = a => at(a) = i
             /\ (\A i \in 1..Len(s) : s[i] # a) => at(a) = 0
  BY <1>4, PositionIs
<1> HIDE DEF at, hp, n
<1>6. ASSUME NEW a \in 1..Len(hp)
      PROVE  /\ h[a] \in Elem
             /\ h[a].mbr = hp[a].mbr
             /\ h[a].next = hp[a].next
             /\ h[a].prev = hp[a].prev
             /\ (\A i \in 1..Len(s) : s[i] # a) => h[a] = hp[a]
  <2>1. CASE \A i \in 1..Len(s) : s[i] # a
    BY <1>3, <1>5, <2>1
  <2>2. CASE \E i \in 1..Len(s) : s[i] = a
    <3>1. PICK i \in 1..Len(s) : s[i] = a
      BY <2>2
    <3>2. at(a) = i /\ i # 0 /\ i - 1 \in Nat
      BY <1>4, <1>5, <3>1
    <3>3. h[a] = Numbering(hp, a, i - 1)
      BY <3>2
    <3> HIDE DEF h
    <3> QED BY <1>3, <2>2, <3>2, <3>3, NumberingIs
  <2> QED BY <2>1, <2>2
<1>7. ASSUME NEW i \in 1..Len(s) PROVE h[s[i]].ordinal = i - 1
  <2>1. s[i] \in 1..Len(hp) /\ at(s[i]) = i /\ i # 0 /\ i - 1 \in Nat
    BY <1>4, <1>5
  <2>2. h[s[i]] = Numbering(hp, s[i], i - 1)
    BY <2>1
  <2> HIDE DEF h
  <2> QED BY <1>3, <2>1, <2>2, NumberingIs
<1>8. h \in Seq(Elem) /\ Len(h) = Len(hp)
  <2>1. h \in [1..Len(hp) -> Elem]
    BY <1>6
  <2> HIDE DEF h
  <2> QED BY <1>3, <2>1
<1> HIDE DEF h
<1>9. Heap(h)
  BY <1>3, <1>6, <1>8 DEF Heap
<1>10. Strung(h, m.hdr, s)
  <2>1. \A i \in 1..Len(s) : /\ h[s[i]].next = After(s, i)
                             /\ h[s[i]].prev \in {Null, Before(s, i)}
    <3> TAKE i \in 1..Len(s)
    <3>1. hp[s[i]].next = After(s, i) /\ hp[s[i]].prev \in {Null, Before(s, i)}
      BY DEF Chained, hp
    <3> QED BY <1>4, <1>6, <3>1
  <2>2. Chained(h, m.hdr, s)
    BY <1>8, <2>1 DEF Chained, hp
  <2> QED BY <1>7, <2>2 DEF Strung
<1> QED
  BY <1>2, <1>6, <1>8, <1>9, <1>10 DEF OnlyRenumbers, n, hp

-----------------------------------------------------------------------------
(* A sequence with x put in at i.                                            *)
Widened(f, s, i, x) ==
    /\ Len(f) = Len(s) + 1
    /\ \A j \in 1..Len(s)+1 : f[j] = IF j < i THEN s[j] ELSE IF j = i THEN x ELSE s[j - 1]

LEMMA InsertAtIs ==
    ASSUME NEW S, NEW s \in Seq(S), NEW i \in 1..Len(s), NEW x \in S
    PROVE  InsertAt(s, i, x) \in Seq(S) /\ Widened(InsertAt(s, i, x), s, i, x)
<1> DEFINE b == SubSeq(s, 1, i - 1)
           c == SubSeq(s, i, Len(s))
           bx == b \o <<x>>
<1>1. b \in Seq(S) /\ Len(b) = i - 1 /\ \A j \in 1..i-1 : b[j] = s[j]
  OBVIOUS
<1>2. c \in Seq(S) /\ Len(c) = Len(s) - i + 1 /\ \A j \in 1..Len(s)-i+1 : c[j] = s[i + j - 1]
  OBVIOUS
<1> HIDE DEF b, c
<1>3. /\ bx \in Seq(S) /\ Len(bx) = i
      /\ \A j \in 1..i : bx[j] = IF j = i THEN x ELSE b[j]
  BY <1>1
<1> HIDE DEF bx
<1>4. /\ bx \o c \in Seq(S) /\ Len(bx \o c) = Len(s) + 1
      /\ \A j \in 1..Len(s)+1 : (bx \o c)[j] = IF j <= i THEN bx[j] ELSE c[j - i]
  <2>1. /\ bx \o c \in Seq(S) /\ Len(bx \o c) = Len(bx) + Len(c)
        /\ \A j \in 1..Len(bx)+Len(c) :
              (bx \o c)[j] = IF j <= Len(bx) THEN bx[j] ELSE c[j - Len(bx)]
    BY <1>2, <1>3, ConcatProperties
  <2>2. Len(bx) = i /\ Len(bx) + Len(c) = Len(s) + 1
    BY <1>2, <1>3
  <2> QED BY <2>1, <2>2
<1>5. InsertAt(s, i, x) = bx \o c
  BY DEF InsertAt, b, c, bx
<1>6. ASSUME NEW j \in 1..Len(s)+1
      PROVE  (bx \o c)[j] = IF j < i THEN s[j] ELSE IF j = i THEN x ELSE s[j - 1]
  <2>1. CASE j <= i
    <3>1. (bx \o c)[j] = IF j = i THEN x ELSE b[j]
      BY <1>3, <1>4, <2>1
    <3>2. j # i => j < i /\ j \in 1..i-1
      BY <2>1
    <3> QED BY <1>1, <3>1, <3>2
  <2>2. CASE ~(j <= i)
    <3>1. j - i \in 1..Len(s)-i+1 /\ i + (j - i) - 1 = j - 1
      BY <2>2
    <3> QED BY <1>2, <1>4, <2>2, <3>1
  <2> QED BY <2>1, <2>2
<1> QED BY <1>4, <1>5, <1>6 DEF Widened

(* A sequence with one less.                                                 *)
LEMMA RemoveAtIs ==
    ASSUME NEW S, NEW s \in Seq(S), NEW i \in 1..Len(s)
    PROVE  /\ RemoveAt(s, i) \in Seq(S)
           /\ Len(RemoveAt(s, i)) = Len(s) - 1
           /\ \A j \in 1..Len(s)-1 : RemoveAt(s, i)[j] = IF j < i THEN s[j] ELSE s[j + 1]
<1> DEFINE b == SubSeq(s, 1, i - 1)
           c == SubSeq(s, i + 1, Len(s))
<1>1. b \in Seq(S) /\ Len(b) = i - 1 /\ \A j \in 1..i-1 : b[j] = s[j]
  OBVIOUS
<1>2. c \in Seq(S) /\ Len(c) = Len(s) - i /\ \A j \in 1..Len(s)-i : c[j] = s[i + j]
  OBVIOUS
<1> HIDE DEF b, c
<1>3. /\ b \o c \in Seq(S) /\ Len(b \o c) = Len(s) - 1
      /\ \A j \in 1..Len(s)-1 : (b \o c)[j] = IF j <= i - 1 THEN b[j] ELSE c[j - (i - 1)]
  <2>1. /\ b \o c \in Seq(S) /\ Len(b \o c) = Len(b) + Len(c)
        /\ \A j \in 1..Len(b)+Len(c) :
              (b \o c)[j] = IF j <= Len(b) THEN b[j] ELSE c[j - Len(b)]
    BY <1>1, <1>2, ConcatProperties
  <2>2. Len(b) = i - 1 /\ Len(b) + Len(c) = Len(s) - 1
    BY <1>1, <1>2
  <2> QED BY <2>1, <2>2
<1>4. RemoveAt(s, i) = b \o c
  BY DEF RemoveAt, b, c
<1>5. ASSUME NEW j \in 1..Len(s)-1
      PROVE  (b \o c)[j] = IF j < i THEN s[j] ELSE s[j + 1]
  <2>1. CASE j < i
    BY <1>1, <1>3, <2>1
  <2>2. CASE ~(j < i)
    <3>1. j - (i - 1) \in 1..Len(s)-i /\ i + (j - (i - 1)) = j + 1 /\ ~(j <= i - 1)
      BY <2>2
    <3> QED BY <1>2, <1>3, <2>2, <3>1
  <2> QED BY <2>1, <2>2
<1> QED BY <1>3, <1>4, <1>5

(* What add_to_list_ordered has linked before it renumbers.                  *)
SplicedHeap(m, at, x) ==
    LET new == Len(m.heap) + 1
        hp  == Append(LinkingBack(m.heap, at, new), Element(x, m.heap[at].prev, at, 0))
    IN  IF at = m.hdr.head THEN hp ELSE Linking(hp, m.heap[at].prev, new)

SplicedHeader(m, at) ==
    [count |-> m.hdr.count + 1,
     head  |-> IF at = m.hdr.head THEN Len(m.heap) + 1 ELSE m.hdr.head,
     tail  |-> m.hdr.tail]

(* The heap and the record of add_to_list_ordered, before it renumbers.      *)
LEMMA SplicedIs ==
    ASSUME NEW m, NEW s, Sound(m, s), Aligned(m.heap, s), NEW x \in Members,
           NEW i \in 1..Len(s)
    PROVE  LET h   == SplicedHeap(m, s[i], x)
               hd  == SplicedHeader(m, s[i])
               new == Len(m.heap) + 1
           IN  /\ h \in Seq(Elem) /\ Len(h) = new
               /\ \A a \in 1..Len(m.heap) :
                     /\ h[a].next = IF i # 1 /\ a = s[i - 1] THEN new ELSE m.heap[a].next
                     /\ h[a].prev = IF a = s[i] THEN new ELSE m.heap[a].prev
                     /\ h[a].mbr = m.heap[a].mbr
                     /\ (\A j \in 1..Len(s) : s[j] # a) => h[a] = m.heap[a]
               /\ h[new].mbr = x
               /\ h[new].next = s[i]
               /\ h[new].prev = Before(s, i)
               /\ hd.count = Len(s) + 1
               /\ hd.head = IF i = 1 THEN new ELSE s[1]
               /\ hd.tail = s[Len(s)]
<1> DEFINE hp == m.heap
           new == Len(hp) + 1
           h == SplicedHeap(m, s[i], x)
           hd == SplicedHeader(m, s[i])
           e == Element(x, hp[s[i]].prev, s[i], 0)
           b == LinkingBack(hp, s[i], new)
           c == Append(b, e)
<1>1. /\ hp \in Seq(Elem) /\ Len(hp) \in Nat /\ new \in Nat /\ Len(s) \in Nat
      /\ \A j \in 1..Len(s) : s[j] \in 1..Len(hp)
      /\ \A j, k \in 1..Len(s) : s[j] = s[k] => j = k
  <2>1. Heap(hp) /\ Strung(hp, m.hdr, s)
    BY DEF Sound
  <2>2. hp \in Seq(Elem) /\ Len(hp) \in Nat
    BY <2>1, HeapOf
  <2> QED BY <2>1, <2>2, StrungOf
<1>2. /\ m.hdr.count = Len(s) /\ m.hdr.head = s[1] /\ m.hdr.tail = s[Len(s)]
      /\ 1 \in 1..Len(s) /\ Len(s) \in 1..Len(s)
  BY <1>1 DEF Sound, Strung, Chained
<1>3. s[i] = m.hdr.head <=> i = 1
  BY <1>1, <1>2
<1>4. hp[s[i]].prev = Before(s, i)
  BY DEF Aligned
<1>5. i # 1 => i - 1 \in 1..Len(s) /\ Before(s, i) = s[i - 1]
  BY <1>1 DEF Before
<1>6. Before(s, i) \in Nat
  BY <1>1, <1>5 DEF Before, Null
<1>7. /\ e \in Elem /\ e.mbr = x /\ e.prev = Before(s, i) /\ e.next = s[i]
  <2>1. s[i] \in Nat /\ 0 \in Nat
    BY <1>1
  <2> QED BY <1>4, <1>6, <2>1, ElementIs
<1>8. /\ b \in Seq(Elem) /\ Len(b) = Len(hp)
      /\ \A a \in 1..Len(hp) : /\ b[a].next = hp[a].next
                               /\ b[a].prev = IF a = s[i] THEN new ELSE hp[a].prev
                               /\ b[a].mbr = hp[a].mbr
                               /\ a # s[i] => b[a] = hp[a]
  BY <1>1, LinkingBackIs
<1>9. h = IF s[i] = m.hdr.head THEN c ELSE Linking(c, hp[s[i]].prev, new)
  BY DEF SplicedHeap
<1> HIDE DEF h, b, e
<1>10. c \in Seq(Elem) /\ Len(c) = new /\ c[new] = e /\ \A a \in 1..Len(hp) : c[a] = b[a]
  BY <1>1, <1>7, <1>8
<1>11. \A a \in 1..Len(hp) : a # new /\ a \in 1..new
  BY <1>1
<1> HIDE DEF c
<1>12. /\ hd.count = Len(s) + 1 /\ hd.tail = s[Len(s)]
       /\ hd.head = IF i = 1 THEN new ELSE s[1]
  BY <1>2, <1>3 DEF SplicedHeader
<1> HIDE DEF hd, hp
<1>13. CASE i = 1
  <2>1. h = c
    BY <1>3, <1>9, <1>13
  <2>2. \A a \in 1..Len(hp) : (\A j \in 1..Len(s) : s[j] # a) => c[a] = hp[a]
    BY <1>8, <1>10
  <2> QED BY <1>7, <1>8, <1>10, <1>12, <1>13, <2>1, <2>2 DEF h, hd, hp
<1>14. CASE i # 1
  <2>1. h = Linking(c, s[i - 1], new)
    BY <1>3, <1>4, <1>5, <1>9, <1>14
  <2>2. /\ h \in Seq(Elem) /\ Len(h) = new
        /\ \A a \in 1..new : /\ h[a].next = IF a = s[i - 1] THEN new ELSE c[a].next
                             /\ h[a].prev = c[a].prev
                             /\ h[a].mbr = c[a].mbr
                             /\ a # s[i - 1] => h[a] = c[a]
    BY <1>1, <1>10, <2>1, LinkingIs
  <2>3. s[i - 1] # new /\ new \in 1..new
    BY <1>1, <1>5, <1>11, <1>14
  <2>4. ASSUME NEW a \in 1..Len(hp)
        PROVE  /\ h[a].next = IF i # 1 /\ a = s[i - 1] THEN new ELSE hp[a].next
               /\ h[a].prev = IF a = s[i] THEN new ELSE hp[a].prev
               /\ h[a].mbr = hp[a].mbr
               /\ (\A j \in 1..Len(s) : s[j] # a) => h[a] = hp[a]
    <3>1. c[a] = b[a]
      BY <1>10
    <3>2. a \in 1..new
      BY <1>11
    <3>3. (\A j \in 1..Len(s) : s[j] # a) => a # s[i] /\ a # s[i - 1]
      BY <1>5, <1>14
    <3> QED BY <1>8, <1>14, <2>2, <3>1, <3>2, <3>3
  <2>5. /\ h[new].mbr = x /\ h[new].next = s[i] /\ h[new].prev = Before(s, i)
    BY <1>7, <1>10, <2>2, <2>3
  <2> QED BY <1>12, <2>2, <2>4, <2>5 DEF h, hd, hp
<1> QED BY <1>13, <1>14

(* Renumbering completes what was linked.                                    *)
LEMMA RenumberedBecomes ==
    ASSUME NEW m, NEW s, NEW n, NEW t, Len(m.heap) \in Nat,
           Heap(n.heap), n.hdr \in Header, Chained(n.heap, n.hdr, t), Aligned(n.heap, t),
           Keeps(m, s, n, t)
    PROVE  /\ Becomes(m, s, Renumbered(n), t)
           /\ Held(Renumbered(n).heap, t) = Held(n.heap, t)
<1> DEFINE r == Renumbered(n)
<1>1. /\ Heap(r.heap) /\ Len(r.heap) = Len(n.heap) /\ r.hdr = n.hdr
      /\ Strung(r.heap, r.hdr, t)
      /\ \A a \in 1..Len(n.heap) :
            /\ r.heap[a].mbr = n.heap[a].mbr
            /\ r.heap[a].prev = n.heap[a].prev
            /\ (\A i \in 1..Len(t) : t[i] # a) => r.heap[a] = n.heap[a]
  <2>1. Heap(n.heap) /\ Chained(n.heap, n.hdr, t)
    OBVIOUS
  <2>2. OnlyRenumbers(n, t, r)
    BY <2>1, RenumberedIs
  <2> HIDE DEF r
  <2> QED BY <2>2 DEF OnlyRenumbers
<1> HIDE DEF r
<1>2. Len(n.heap) \in Nat /\ \A i \in 1..Len(t) : t[i] \in 1..Len(n.heap)
  <2>1. t \in Seq(1..Len(n.heap))
    BY DEF Chained
  <2> QED BY <2>1, HeapOf
<1>3. Sound(r, t)
  BY <1>1 DEF Sound
<1>4. ASSUME NEW a \in 1..Len(m.heap)
      PROVE  /\ r.heap[a].mbr = m.heap[a].mbr
             /\ (\A i \in 1..Len(s) : s[i] # a) => r.heap[a] = m.heap[a]
  <2>1. a \in 1..Len(n.heap)
    BY <1>2 DEF Keeps
  <2>2. (\A i \in 1..Len(s) : s[i] # a) => \A i \in 1..Len(t) : t[i] # a
    <3> SUFFICES ASSUME \A i \in 1..Len(s) : s[i] # a, NEW i \in 1..Len(t), t[i] = a
                 PROVE  FALSE
      OBVIOUS
    <3>1. ~(a > Len(m.heap))
      OBVIOUS
    <3> QED BY <3>1 DEF Keeps
  <2> QED BY <1>1, <2>1, <2>2 DEF Keeps
<1>5. Aligned(r.heap, t)
  BY <1>1, <1>2 DEF Aligned
<1>6. Held(r.heap, t) = Held(n.heap, t)
  BY <1>1, <1>2 DEF Held
<1>7. Len(m.heap) <= Len(r.heap)
  BY <1>1 DEF Keeps
<1>8. \A i \in 1..Len(t) : t[i] > Len(m.heap) \/ \E j \in 1..Len(s) : t[i] = s[j]
  BY DEF Keeps
<1> QED
  BY <1>3, <1>4, <1>5, <1>6, <1>7, <1>8 DEF Becomes, Keeps, r

(* add_to_list_ordered puts its member in front of the one at i.             *)
LEMMA InsertedBecomes ==
    ASSUME NEW m, NEW s, Sound(m, s), Aligned(m.heap, s), NEW x \in Members,
           NEW i \in 1..Len(s)
    PROVE  LET t == InsertAt(s, i, Len(m.heap) + 1)
               n == InsertedBefore(m, s[i], x)
           IN  /\ Becomes(m, s, n, t)
               /\ Held(n.heap, t) = InsertAt(Held(m.heap, s), i, x)
<1> DEFINE hp == m.heap
           new == Len(hp) + 1
           K == Len(s)
           h == SplicedHeap(m, s[i], x)
           hd == SplicedHeader(m, s[i])
           p == [heap |-> h, hdr |-> hd]
           t == InsertAt(s, i, new)
           n == InsertedBefore(m, s[i], x)
<1>1. n = Renumbered(p)
  BY DEF InsertedBefore, Spliced, SplicedHeap, SplicedHeader
<1>2. p.heap = h /\ p.hdr = hd
  OBVIOUS
<1> HIDE DEF p
<1>3. /\ hp \in Seq(Elem) /\ Len(hp) \in Nat /\ K \in Nat /\ s \in Seq(1..Len(hp))
      /\ \A j \in 1..K : s[j] \in 1..Len(hp)
      /\ \A j, k \in 1..K : s[j] = s[k] => j = k
      /\ \A a \in 1..Len(hp) : hp[a].next \in 0..Len(hp) /\ hp[a].prev \in 0..Len(hp)
      /\ \A a \in 1..Len(hp) : hp[a].mbr \in Members
  <2>1. Heap(hp) /\ Strung(hp, m.hdr, s)
    BY DEF Sound
  <2> QED BY <2>1, HeapOf, StrungOf
<1>4. \A j \in 1..K : hp[s[j]].next = After(s, j) /\ hp[s[j]].prev = Before(s, j)
  BY DEF Sound, Strung, Chained, Aligned
<1>5. /\ h \in Seq(Elem) /\ Len(h) = new
      /\ \A a \in 1..Len(hp) :
            /\ h[a].next = IF i # 1 /\ a = s[i - 1] THEN new ELSE hp[a].next
            /\ h[a].prev = IF a = s[i] THEN new ELSE hp[a].prev
            /\ h[a].mbr = hp[a].mbr
            /\ (\A j \in 1..K : s[j] # a) => h[a] = hp[a]
      /\ h[new].mbr = x /\ h[new].next = s[i] /\ h[new].prev = Before(s, i)
      /\ hd.count = K + 1
      /\ hd.head = IF i = 1 THEN new ELSE s[1]
      /\ hd.tail = s[K]
  BY SplicedIs
<1>6. s \in Seq(1..new) /\ new \in 1..new /\ new \in Nat
  BY <1>3
<1>8. hd \in Header
  BY <1>3 DEF Header, SplicedHeader, Sound
<1>9. K = Len(s) /\ new = Len(hp) + 1
  OBVIOUS
<1> HIDE DEF hp, new, K, h, hd, p, n
<1>7. /\ t \in Seq(1..new) /\ Len(t) = K + 1
      /\ \A j \in 1..K+1 : t[j] = IF j < i THEN s[j] ELSE IF j = i THEN new ELSE s[j - 1]
  <2>1. /\ t \in Seq(1..new) /\ Len(t) = Len(s) + 1
        /\ \A j \in 1..Len(s)+1 :
              t[j] = IF j < i THEN s[j] ELSE IF j = i THEN new ELSE s[j - 1]
    <3> DEFINE A == 1..new
    <3>1. s \in Seq(A) /\ new \in A
      BY <1>6
    <3> HIDE DEF A
    <3>2. t \in Seq(A) /\ Widened(t, s, i, new)
      BY <3>1, InsertAtIs
    <3> HIDE DEF t
    <3> QED BY <3>2 DEF A, Widened
  <2> QED BY <1>9, <2>1
<1> HIDE DEF t
<1>10. Heap(h)
  <2> SUFFICES ASSUME NEW a \in 1..new
               PROVE  h[a].next \in 0..new /\ h[a].prev \in 0..new
    BY <1>5 DEF Heap
  <2>1. 0 \in 0..new /\ new \in 0..new /\ \A b \in 0..Len(hp) : b \in 0..new
    BY <1>3, <1>9
  <2>2. CASE a = new
    <3>1. s[i] \in 0..new
      BY <1>3, <1>9
    <3>2. hp[s[i]].prev = Before(s, i) /\ hp[s[i]].prev \in 0..Len(hp)
      BY <1>3, <1>4, <1>9
    <3> QED BY <1>5, <2>1, <2>2, <3>1, <3>2
  <2>3. CASE a \in 1..Len(hp)
    BY <1>3, <1>5, <2>1, <2>3
  <2> QED BY <1>3, <1>9, <2>2, <2>3
(* A position of t is before that of the new element, its own or after it.   *)
<1>11. \A j \in 1..K+1 : \/ j < i /\ j \in 1..K
                         \/ j = i
                         \/ j > i /\ j - 1 \in 1..K /\ j - 1 >= i
  BY <1>3, <1>9
<1>12. Distinct(t)
  <2> SUFFICES ASSUME NEW j \in 1..K+1, NEW k \in 1..K+1, t[j] = t[k] PROVE j = k
    BY <1>7 DEF Distinct
  <2>1. \A l \in 1..K : s[l] # new
    BY <1>3, <1>9
  <2>2. ASSUME NEW l \in 1..K+1, l # i
        PROVE  \E q \in 1..K : t[l] = s[q] /\ q = IF l < i THEN l ELSE l - 1
    BY <1>7, <1>11, <2>2
  <2>3. t[i] = new
    BY <1>3, <1>7, <1>9
  <2>4. CASE j = i \/ k = i
    BY <2>1, <2>2, <2>3, <2>4
  <2>5. CASE j # i /\ k # i
    <3>1. PICK q \in 1..K : t[j] = s[q] /\ q = IF j < i THEN j ELSE j - 1
      BY <2>2, <2>5
    <3>2. PICK r \in 1..K : t[k] = s[r] /\ r = IF k < i THEN k ELSE k - 1
      BY <2>2, <2>5
    <3>3. q = r
      BY <1>3, <3>1, <3>2
    <3> QED BY <2>5, <3>1, <3>2, <3>3
  <2> QED BY <2>4, <2>5
<1>13. ASSUME NEW j \in 1..K+1
       PROVE  h[t[j]].next = After(t, j) /\ h[t[j]].prev = Before(t, j)
  <2>1. After(t, j) = IF j = K + 1 THEN Null ELSE t[j + 1]
    BY <1>7 DEF After
  <2>2. Before(t, j) = IF j = 1 THEN Null ELSE t[j - 1]
    BY DEF Before
  <2>3. \A k \in 1..K : After(s, k) = IF k = K THEN Null ELSE s[k + 1]
    BY <1>9 DEF After
  <2>4. \A k \in 1..K : Before(s, k) = IF k = 1 THEN Null ELSE s[k - 1]
    BY DEF Before
  <2>5. CASE j < i
    <3>1. j \in 1..K /\ j + 1 \in 1..K+1 /\ j # K /\ j # K + 1 /\ t[j] = s[j]
      <4>1. j \in 1..K /\ j + 1 \in 1..K+1 /\ j # K /\ j # K + 1
        BY <1>3, <1>9, <2>5
      <4> QED BY <1>7, <2>5, <4>1
    <3>2. s[j] \in 1..Len(hp) /\ s[j] # s[i]
      BY <1>3, <1>9, <2>5, <3>1
    <3>3. hp[s[j]].next = s[j + 1] /\ hp[s[j]].prev = Before(s, j)
      BY <1>4, <2>3, <3>1
    <3>4. Before(t, j) = Before(s, j)
      <4>1. j # 1 => j - 1 \in 1..K+1 /\ j - 1 < i
        BY <1>3, <1>9, <2>5
      <4> QED BY <1>7, <2>2, <2>4, <3>1, <4>1
    <3>5. i # 1 /\ s[j] = s[i - 1] <=> j + 1 = i
      <4>1. i - 1 \in 1..K /\ i # 1
        BY <1>3, <1>9, <2>5
      <4>2. s[j] = s[i - 1] <=> j = i - 1
        BY <1>3, <3>1, <4>1
      <4> QED BY <4>1, <4>2
    <3>6. h[s[j]].next = IF j + 1 = i THEN new ELSE s[j + 1]
      BY <1>5, <3>2, <3>3, <3>5
    <3>7. h[s[j]].prev = Before(s, j)
      BY <1>5, <3>2, <3>3
    <3>8. t[j + 1] = IF j + 1 = i THEN new ELSE s[j + 1]
      <4>1. j + 1 < i \/ j + 1 = i
        BY <2>5
      <4> QED BY <1>7, <3>1, <4>1
    <3> QED BY <2>1, <3>1, <3>4, <3>6, <3>7, <3>8
  <2>6. CASE j = i
    <3>1. t[j] = new /\ j + 1 \in 1..K+1 /\ j # K + 1 /\ t[j + 1] = s[i]
      <4>1. j + 1 \in 1..K+1 /\ j # K + 1 /\ ~(j + 1 < i) /\ j + 1 # i /\ j + 1 - 1 = i
        BY <1>3, <1>9, <2>6
      <4>2. t[j + 1] = s[j + 1 - 1]
        BY <1>7, <4>1
      <4> QED BY <1>7, <2>6, <4>1, <4>2
    <3>2. Before(t, j) = Before(s, i)
      <4>1. j # 1 => j - 1 \in 1..K+1 /\ j - 1 < i
        BY <1>3, <1>9, <2>6
      <4> QED BY <1>7, <1>9, <2>2, <2>4, <2>6, <4>1
    <3> QED BY <1>5, <2>1, <3>1, <3>2
  <2>7. CASE j > i
    <3> DEFINE k == j - 1
    <3>1. k \in 1..K /\ k >= i /\ k + 1 = j /\ t[j] = s[k] /\ j # 1
      BY <1>3, <1>7, <1>9, <2>7
    <3>2. s[k] \in 1..Len(hp) /\ (i # 1 => s[k] # s[i - 1]) /\ (s[k] = s[i] <=> k = i)
      <4>1. i # 1 => i - 1 \in 1..K /\ i - 1 # k
        BY <1>9, <3>1
      <4> QED BY <1>3, <1>9, <3>1, <4>1
    <3>3. hp[s[k]].next = (IF k = K THEN Null ELSE s[k + 1]) /\ hp[s[k]].prev = Before(s, k)
      BY <1>4, <2>3, <3>1
    <3>4. After(t, j) = IF k = K THEN Null ELSE s[k + 1]
      <4>1. k = K <=> j = K + 1
        BY <1>3
      <4>2. j # K + 1 => j + 1 \in 1..K+1 /\ ~(j + 1 < i) /\ j + 1 # i /\ j + 1 - 1 = k + 1
        BY <1>3, <2>7
      <4> QED BY <1>7, <2>1, <4>1, <4>2
    <3>5. Before(t, j) = IF k = i THEN new ELSE s[k - 1]
      <4>1. k \in 1..K+1 /\ ~(k < i) /\ t[k] = IF k = i THEN new ELSE s[k - 1]
        BY <1>3, <1>7, <3>1
      <4> QED BY <2>2, <3>1, <4>1
    <3>6. h[s[k]].next = hp[s[k]].next
      BY <1>5, <3>2
    <3>7. h[s[k]].prev = IF k = i THEN new ELSE Before(s, k)
      BY <1>5, <3>2, <3>3
    <3>8. k # i => Before(s, k) = s[k - 1]
      BY <2>4, <3>1
    <3> QED BY <3>1, <3>3, <3>4, <3>5, <3>6, <3>7, <3>8
  <2> QED BY <1>11, <2>5, <2>6, <2>7
<1>14. Chained(h, hd, t)
  <2>1. t[1] = IF i = 1 THEN new ELSE s[1]
    <3>1. 1 \in 1..K+1 /\ (1 < i <=> i # 1)
      BY <1>3, <1>9
    <3> QED BY <1>7, <3>1
  <2>2. t[K + 1] = s[K]
    <3>1. ASSUME NEW j \in 1..K+1, j = K + 1 PROVE t[j] = s[K]
      <4>1. ~(j < i) /\ j # i /\ j - 1 = K
        BY <1>3, <1>9, <3>1
      <4>2. t[j] = s[j - 1]
        BY <1>7, <4>1
      <4> QED BY <4>1, <4>2
    <3>2. K + 1 \in 1..K+1
      BY <1>3
    <3> QED BY <3>1, <3>2
  <2>3. K + 1 # 0
    BY <1>3
  <2> QED BY <1>5, <1>7, <1>12, <1>13, <2>1, <2>2, <2>3 DEF Chained
<1>15. Aligned(h, t)
  BY <1>7, <1>13 DEF Aligned
<1>16. \A j \in 1..K+1 : t[j] > Len(hp) \/ \E k \in 1..K : t[j] = s[k]
  <2> TAKE j \in 1..K+1
  <2>1. new > Len(hp)
    BY <1>3, <1>9
  <2> QED BY <1>7, <1>11, <2>1
<1>17. Becomes(m, s, n, t) /\ Held(n.heap, t) = Held(h, t)
  <2>1. /\ Heap(p.heap) /\ p.hdr \in Header /\ Chained(p.heap, p.hdr, t)
        /\ Aligned(p.heap, t) /\ Len(m.heap) \in Nat
    BY <1>2, <1>3, <1>8, <1>10, <1>14, <1>15 DEF hp
  <2>2. Len(m.heap) <= Len(p.heap)
    BY <1>2, <1>3, <1>5, <1>9 DEF hp
  <2>3. \A a \in 1..Len(m.heap) :
              /\ p.heap[a].mbr = m.heap[a].mbr
              /\ (\A j \in 1..Len(s) : s[j] # a) => p.heap[a] = m.heap[a]
    BY <1>2, <1>5, <1>9 DEF hp
  <2>4. \A j \in 1..Len(t) : t[j] > Len(m.heap) \/ \E k \in 1..Len(s) : t[j] = s[k]
    BY <1>7, <1>9, <1>16 DEF hp
  <2>5. Keeps(m, s, p, t)
    BY <2>2, <2>3, <2>4 DEF Keeps
  <2>6. /\ Becomes(m, s, Renumbered(p), t)
        /\ Held(Renumbered(p).heap, t) = Held(p.heap, t)
    BY <2>1, <2>5, RenumberedBecomes
  <2> QED BY <1>1, <1>2, <2>6
<1>18. Held(h, t) = InsertAt(Held(hp, s), i, x)
  <2> DEFINE g == Held(hp, s)
             d == Held(h, t)
             f == InsertAt(g, i, x)
  <2>1. g \in Seq(Members) /\ Len(g) = K /\ \A j \in 1..K : g[j] = hp[s[j]].mbr
    BY <1>3, <1>9 DEF Held
  <2>2. d = [j \in 1..K+1 |-> h[t[j]].mbr]
    BY <1>7 DEF Held
  <2> HIDE DEF g, d
  <2>3. i \in 1..Len(g)
    BY <1>9, <2>1
  <2>4. /\ f \in Seq(Members) /\ Len(f) = K + 1
        /\ \A j \in 1..K+1 : f[j] = IF j < i THEN g[j] ELSE IF j = i THEN x ELSE g[j - 1]
    <3>1. g \in Seq(Members)
      BY <2>1
    <3>2. f \in Seq(Members) /\ Widened(f, g, i, x)
      BY <2>3, <3>1, InsertAtIs
    <3> HIDE DEF f
    <3> QED BY <2>1, <3>2 DEF Widened
  <2> HIDE DEF f
  <2>5. \A j \in 1..K : h[s[j]].mbr = g[j]
    BY <1>3, <1>5, <2>1
  <2>6. \A j \in 1..K+1 : h[t[j]].mbr = f[j]
    <3> TAKE j \in 1..K+1
    <3>1. CASE j < i
      <4>1. j \in 1..K
        BY <1>3, <1>9, <3>1
      <4>2. t[j] = s[j]
        BY <1>7, <3>1
      <4>3. f[j] = g[j]
        BY <2>4, <3>1
      <4>4. h[s[j]].mbr = g[j]
        BY <2>5, <4>1
      <4> QED BY <4>2, <4>3, <4>4
    <3>2. CASE j = i
      BY <1>5, <1>7, <2>4, <3>2
    <3>3. CASE j > i
      <4>1. j - 1 \in 1..K /\ ~(j < i) /\ j # i
        BY <1>11, <3>3
      <4>2. t[j] = s[j - 1] /\ f[j] = g[j - 1]
        BY <1>7, <2>4, <4>1
      <4>3. h[s[j - 1]].mbr = g[j - 1]
        BY <2>5, <4>1
      <4> QED BY <4>2, <4>3
    <3> QED BY <1>11, <3>1, <3>2, <3>3
  <2>7. f = [j \in 1..K+1 |-> f[j]]
    BY <2>4
  <2>8. f = d
    BY <2>2, <2>6, <2>7
  <2> QED BY <2>8 DEF f, d, g
<1> QED
  BY <1>17, <1>18 DEF n, t, hp, new

-----------------------------------------------------------------------------
(* What remove_from_list has linked before it renumbers.                     *)
HeadWithout(m, a) ==
    IF a # m.hdr.head THEN m.hdr.head
    ELSE IF m.heap[a].next # Null THEN m.heap[a].next ELSE m.hdr.tail

HeapWithout(m, a) ==
    LET el == m.heap[a]
        hp == IF a = m.hdr.head THEN LinkingBack(m.heap, HeadWithout(m, a), Null)
              ELSE IF a = m.hdr.tail THEN Linking(m.heap, el.prev, Null)
              ELSE LinkingBack(Linking(m.heap, el.prev, el.next), el.next, el.prev)
    IN  Linking(hp, a, Null)

HeaderWithout(m, a) ==
    IF m.hdr.count - 1 = 0 THEN Empty
    ELSE [count |-> m.hdr.count - 1,
          head  |-> HeadWithout(m, a),
          tail  |-> IF a # m.hdr.head /\ a = m.hdr.tail THEN m.heap[a].prev ELSE m.hdr.tail]

(* remove_from_list links, then renumbers.                                   *)
LEMMA UnlinkedSplit ==
    ASSUME NEW m, NEW a
    PROVE  Unlinked(m, a) = Renumbered([heap |-> HeapWithout(m, a),
                                        hdr  |-> HeaderWithout(m, a)])
<1>1. CASE a = m.hdr.head
  BY <1>1 DEF Unlinked, HeapWithout, HeaderWithout, HeadWithout
<1>2. CASE a # m.hdr.head
  BY <1>2 DEF Unlinked, HeapWithout, HeaderWithout, HeadWithout
<1> QED BY <1>1, <1>2

(* The links past the element at i.                                          *)
Unlinking(h, hd, hp, s, i) ==
    /\ h \in Seq(Elem) /\ Len(h) = Len(hp)
    /\ \A a \in 1..Len(hp) :
          /\ h[a].next \in {hp[a].next, Null, After(s, i)}
          /\ h[a].prev \in {hp[a].prev, Null, Before(s, i)}
          /\ a # s[i] =>
             /\ h[a].next = IF i # 1 /\ a = s[i - 1] THEN After(s, i) ELSE hp[a].next
             /\ h[a].prev = IF i # Len(s) /\ a = s[i + 1] THEN Before(s, i) ELSE hp[a].prev
          /\ h[a].mbr = hp[a].mbr
          /\ (\A j \in 1..Len(s) : s[j] # a) => h[a] = hp[a]
    /\ hd.count = Len(s) - 1
    /\ hd.head = IF Len(s) = 1 THEN Null ELSE IF i = 1 THEN s[2] ELSE s[1]
    /\ hd.tail = IF Len(s) = 1 THEN Null ELSE IF i = Len(s) THEN s[i - 1] ELSE s[Len(s)]

LEMMA UnlinkedIs ==
    ASSUME NEW m, NEW s, Sound(m, s), Aligned(m.heap, s), NEW i \in 1..Len(s)
    PROVE  Unlinking(HeapWithout(m, s[i]), HeaderWithout(m, s[i]), m.heap, s, i)
<1> DEFINE hp == m.heap
           K == Len(s)
           h == HeapWithout(m, s[i])
           hd == HeaderWithout(m, s[i])
<1>1. /\ hp \in Seq(Elem) /\ Len(hp) \in Nat /\ K \in Nat
      /\ \A j \in 1..K : s[j] \in 1..Len(hp)
      /\ \A j, k \in 1..K : s[j] = s[k] => j = k
  <2>1. Heap(hp) /\ Strung(hp, m.hdr, s)
    BY DEF Sound
  <2> QED BY <2>1, HeapOf, StrungOf
<1>2. /\ m.hdr.count = K /\ m.hdr.head = s[1] /\ m.hdr.tail = s[K]
      /\ 1 \in 1..K /\ K \in 1..K
  BY <1>1 DEF Sound, Strung, Chained
<1>3. (s[i] = m.hdr.head <=> i = 1) /\ (s[i] = m.hdr.tail <=> i = K)
  BY <1>1, <1>2
<1>4. hp[s[i]].next = After(s, i) /\ hp[s[i]].prev = Before(s, i)
  BY DEF Sound, Strung, Chained, Aligned
<1>5. /\ After(s, i) = IF i = K THEN Null ELSE s[i + 1]
      /\ Before(s, i) = IF i = 1 THEN Null ELSE s[i - 1]
  BY DEF After, Before
<1>6. (i # 1 => i - 1 \in 1..K /\ i - 1 # i) /\ (i # K => i + 1 \in 1..K /\ i + 1 # i)
  BY <1>1
<1>7. Null \in Nat /\ After(s, i) \in Nat /\ Before(s, i) \in Nat
  BY <1>1, <1>5, <1>6 DEF Null
<1>8. /\ i # 1 => s[i - 1] \in 1..Len(hp) /\ s[i - 1] # s[i] /\ s[i - 1] # Null
      /\ i # K => s[i + 1] \in 1..Len(hp) /\ s[i + 1] # s[i] /\ s[i + 1] # Null
  BY <1>1, <1>6 DEF Null
<1>9. HeadWithout(m, s[i]) = IF i # 1 THEN s[1] ELSE IF K = 1 THEN s[K] ELSE s[i + 1]
  <2>1. CASE i # 1
    BY <1>2, <1>3, <2>1 DEF HeadWithout
  <2>2. CASE i = 1 /\ K = 1
    BY <1>2, <1>3, <1>4, <1>5, <2>2 DEF HeadWithout
  <2>3. CASE i = 1 /\ K # 1
    BY <1>2, <1>3, <1>4, <1>5, <1>8, <2>3 DEF HeadWithout
  <2> QED BY <2>1, <2>2, <2>3
<1> HIDE DEF hp, K, h, hd
<1>10. /\ hd.count = K - 1
       /\ hd.head = IF K = 1 THEN Null ELSE IF i = 1 THEN s[2] ELSE s[1]
       /\ hd.tail = IF K = 1 THEN Null ELSE IF i = K THEN s[i - 1] ELSE s[K]
  <2>1. CASE K = 1
    BY <1>2, <2>1 DEF hd, HeaderWithout, Empty
  <2>2. CASE K # 1
    <3>1. K - 1 # 0
      BY <1>1, <2>2
    <3>2. /\ hd.count = m.hdr.count - 1 /\ hd.head = HeadWithout(m, s[i])
          /\ hd.tail = IF s[i] # m.hdr.head /\ s[i] = m.hdr.tail THEN hp[s[i]].prev ELSE m.hdr.tail
      BY <1>2, <3>1 DEF hd, HeaderWithout, hp
    <3>3. i = 1 => s[i + 1] = s[2]
      OBVIOUS
    <3>4. hd.tail = IF i = K THEN s[i - 1] ELSE s[K]
      BY <1>2, <1>3, <1>4, <1>5, <2>2, <3>2
    <3> QED BY <1>2, <1>9, <2>2, <3>2, <3>3, <3>4
  <2> QED BY <2>1, <2>2
<1> DEFINE Right(g) ==
       /\ g \in Seq(Elem) /\ Len(g) = Len(hp)
       /\ \A a \in 1..Len(hp) :
             /\ g[a].next \in {hp[a].next, Null, After(s, i)}
             /\ g[a].prev \in {hp[a].prev, Null, Before(s, i)}
             /\ a # s[i] =>
                /\ g[a].next = IF i # 1 /\ a = s[i - 1] THEN After(s, i) ELSE hp[a].next
                /\ g[a].prev = IF i # K /\ a = s[i + 1] THEN Before(s, i) ELSE hp[a].prev
             /\ g[a].mbr = hp[a].mbr
             /\ (\A j \in 1..K : s[j] # a) => g[a] = hp[a]
<1>11. \A g : Right(g) => Right(Linking(g, s[i], Null))
  <2> SUFFICES ASSUME NEW g, Right(g) PROVE Right(Linking(g, s[i], Null))
    OBVIOUS
  <2> DEFINE l == Linking(g, s[i], Null)
  <2>1. /\ l \in Seq(Elem) /\ Len(l) = Len(g)
        /\ \A c \in 1..Len(g) :
                 /\ l[c].next = IF c = s[i] THEN Null ELSE g[c].next
                 /\ l[c].mbr = g[c].mbr
                 /\ l[c].prev = g[c].prev
                 /\ c # s[i] => l[c] = g[c]
    BY <1>7, LinkingIs
  <2> HIDE DEF l
  <2>2. Len(g) = Len(hp)
    OBVIOUS
  <2>3. ASSUME NEW a \in 1..Len(hp)
        PROVE  /\ l[a].next \in {hp[a].next, Null, After(s, i)}
               /\ l[a].prev \in {hp[a].prev, Null, Before(s, i)}
               /\ l[a].mbr = hp[a].mbr
    BY <2>1, <2>2
  <2>4. ASSUME NEW a \in 1..Len(hp), a # s[i]
        PROVE  /\ l[a].next = IF i # 1 /\ a = s[i - 1] THEN After(s, i) ELSE hp[a].next
               /\ l[a].prev = IF i # K /\ a = s[i + 1] THEN Before(s, i) ELSE hp[a].prev
    <3>1. l[a] = g[a]
      BY <2>1, <2>2, <2>4
    <3> QED BY <2>4, <3>1
  <2>5. ASSUME NEW a \in 1..Len(hp), \A j \in 1..K : s[j] # a
        PROVE  l[a] = hp[a]
    <3>1. a # s[i]
      BY <2>5 DEF K
    <3> QED BY <2>1, <2>2, <2>5, <3>1
  <2>6. Right(l)
    BY <2>1, <2>2, <2>3, <2>4, <2>5
  <2> QED BY <2>6 DEF l
<1>12. CASE i = 1
  <2> DEFINE f == HeadWithout(m, s[i])
             g == LinkingBack(hp, f, Null)
  <2>1. h = Linking(g, s[i], Null)
    BY <1>3, <1>12 DEF h, HeapWithout, hp
  <2>2. f = IF K = 1 THEN s[i] ELSE s[i + 1]
    BY <1>9, <1>12
  <2> HIDE DEF f
  <2>3. /\ g \in Seq(Elem) /\ Len(g) = Len(hp)
        /\ \A c \in 1..Len(hp) :
                 /\ g[c].prev = IF c = f THEN Null ELSE hp[c].prev
                 /\ g[c].mbr = hp[c].mbr
                 /\ g[c].next = hp[c].next
                 /\ c # f => g[c] = hp[c]
    BY <1>1, <1>7, LinkingBackIs
  <2> HIDE DEF g
  <2>4. f = s[1] \/ (2 \in 1..K /\ f = s[2])
    BY <1>6, <1>12, <2>2
  <2>5. Right(g)
    <3>1. ASSUME NEW a \in 1..Len(hp), a # s[i]
          PROVE  g[a].prev = IF i # K /\ a = s[i + 1] THEN Before(s, i) ELSE hp[a].prev
      BY <1>5, <1>12, <2>2, <2>3, <3>1
    <3>2. ASSUME NEW a \in 1..Len(hp), \A j \in 1..K : s[j] # a PROVE g[a] = hp[a]
      BY <1>2, <2>3, <2>4, <3>2
    <3> QED BY <1>12, <2>3, <3>1, <3>2
  <2> QED BY <1>10, <1>11, <2>1, <2>5 DEF Unlinking, h, hd, hp, K
<1>13. CASE i # 1 /\ i = K
  <2> DEFINE g == Linking(hp, hp[s[i]].prev, Null)
  <2>1. h = Linking(g, s[i], Null)
    BY <1>3, <1>13 DEF h, HeapWithout, hp
  <2>2. hp[s[i]].prev = s[i - 1]
    BY <1>4, <1>5, <1>13
  <2>3. /\ g \in Seq(Elem) /\ Len(g) = Len(hp)
        /\ \A c \in 1..Len(hp) :
                 /\ g[c].next = IF c = s[i - 1] THEN Null ELSE hp[c].next
                 /\ g[c].mbr = hp[c].mbr
                 /\ g[c].prev = hp[c].prev
                 /\ c # s[i - 1] => g[c] = hp[c]
    <3>1. g = Linking(hp, s[i - 1], Null)
      BY <2>2
    <3> HIDE DEF g
    <3>2. hp \in Seq(Elem) /\ Null \in Nat
      BY <1>1, <1>7
    <3> QED BY <3>1, <3>2, LinkingIs
  <2> HIDE DEF g
  <2>4. Right(g)
    BY <1>5, <1>6, <1>13, <2>3
  <2> QED BY <1>10, <1>11, <2>1, <2>4 DEF Unlinking, h, hd, hp, K
<1>14. CASE i # 1 /\ i # K
  <2> DEFINE k == Linking(hp, hp[s[i]].prev, hp[s[i]].next)
             g == LinkingBack(k, hp[s[i]].next, hp[s[i]].prev)
  <2>1. h = Linking(g, s[i], Null)
    BY <1>3, <1>14 DEF h, HeapWithout, hp
  <2>2. hp[s[i]].prev = s[i - 1] /\ hp[s[i]].next = s[i + 1]
    BY <1>4, <1>5, <1>14
  <2>3. /\ k \in Seq(Elem) /\ Len(k) = Len(hp)
        /\ \A c \in 1..Len(hp) :
                 /\ k[c].next = IF c = s[i - 1] THEN s[i + 1] ELSE hp[c].next
                 /\ k[c].mbr = hp[c].mbr
                 /\ k[c].prev = hp[c].prev
                 /\ c # s[i - 1] => k[c] = hp[c]
    BY <1>1, <1>4, <1>7, <2>2, LinkingIs
  <2> HIDE DEF k
  <2>4. /\ g \in Seq(Elem) /\ Len(g) = Len(hp)
        /\ \A c \in 1..Len(hp) :
                 /\ g[c].prev = IF c = s[i + 1] THEN s[i - 1] ELSE k[c].prev
                 /\ g[c].mbr = k[c].mbr
                 /\ g[c].next = k[c].next
                 /\ c # s[i + 1] => g[c] = k[c]
    BY <1>1, <1>4, <1>7, <2>2, <2>3, LinkingBackIs
  <2> HIDE DEF g
  <2>5. After(s, i) = s[i + 1] /\ Before(s, i) = s[i - 1] /\ i - 1 \in 1..K /\ i + 1 \in 1..K
    BY <1>5, <1>6, <1>14
  <2>6. Right(g)
    BY <1>14, <2>3, <2>4, <2>5
  <2> QED BY <1>10, <1>11, <2>1, <2>6 DEF Unlinking, h, hd, hp, K
<1> QED BY <1>12, <1>13, <1>14

(* remove_from_list takes the element at i out.                              *)
LEMMA UnlinkedBecomes ==
    ASSUME NEW m, NEW s, Sound(m, s), Aligned(m.heap, s), NEW i \in 1..Len(s)
    PROVE  LET n == Unlinked(m, s[i])
           IN  /\ Becomes(m, s, n, RemoveAt(s, i))
               /\ Held(n.heap, RemoveAt(s, i)) = RemoveAt(Held(m.heap, s), i)
<1> DEFINE hp == m.heap
           K == Len(s)
           A == 1..Len(hp)
           h == HeapWithout(m, s[i])
           hd == HeaderWithout(m, s[i])
           p == [heap |-> h, hdr |-> hd]
           t == RemoveAt(s, i)
           n == Unlinked(m, s[i])
<1>1. n = Renumbered(p)
  BY UnlinkedSplit
<1>2. p.heap = h /\ p.hdr = hd
  OBVIOUS
<1> HIDE DEF p, n
<1>3. /\ hp \in Seq(Elem) /\ Len(hp) \in Nat /\ K \in Nat /\ s \in Seq(1..Len(hp))
      /\ \A j \in 1..K : s[j] \in 1..Len(hp)
      /\ \A j, k \in 1..K : s[j] = s[k] => j = k
      /\ \A a \in 1..Len(hp) : hp[a].next \in 0..Len(hp) /\ hp[a].prev \in 0..Len(hp)
      /\ \A a \in 1..Len(hp) : hp[a].mbr \in Members
  <2>1. Heap(hp) /\ Strung(hp, m.hdr, s)
    BY DEF Sound
  <2> QED BY <2>1, HeapOf, StrungOf
<1>4. \A j \in 1..K : hp[s[j]].next = After(s, j) /\ hp[s[j]].prev = Before(s, j)
  BY DEF Sound, Strung, Chained, Aligned
<1>5. /\ h \in Seq(Elem) /\ Len(h) = Len(hp)
      /\ \A a \in 1..Len(hp) :
            /\ h[a].next \in {hp[a].next, Null, After(s, i)}
            /\ h[a].prev \in {hp[a].prev, Null, Before(s, i)}
            /\ a # s[i] =>
               /\ h[a].next = IF i # 1 /\ a = s[i - 1] THEN After(s, i) ELSE hp[a].next
               /\ h[a].prev = IF i # K /\ a = s[i + 1] THEN Before(s, i) ELSE hp[a].prev
            /\ h[a].mbr = hp[a].mbr
            /\ (\A j \in 1..K : s[j] # a) => h[a] = hp[a]
      /\ hd.count = K - 1
      /\ hd.head = IF K = 1 THEN Null ELSE IF i = 1 THEN s[2] ELSE s[1]
      /\ hd.tail = IF K = 1 THEN Null ELSE IF i = K THEN s[i - 1] ELSE s[K]
  <2>1. Unlinking(h, hd, hp, s, i)
    BY UnlinkedIs
  <2> HIDE DEF h, hd, hp
  <2> QED BY <2>1 DEF Unlinking
<1>6. K = Len(s) /\ A = 1..Len(hp)
  OBVIOUS
<1> HIDE DEF A
<1>7. /\ t \in Seq(A) /\ Len(t) = K - 1
      /\ \A j \in 1..K-1 : t[j] = IF j < i THEN s[j] ELSE s[j + 1]
  <2>1. s \in Seq(A)
    BY <1>3, <1>6
  <2> HIDE DEF hp, h, hd
  <2>2. /\ t \in Seq(A) /\ Len(t) = Len(s) - 1
        /\ \A j \in 1..Len(s)-1 : t[j] = IF j < i THEN s[j] ELSE s[j + 1]
    BY <2>1, RemoveAtIs
  <2> QED BY <2>2
<1> HIDE DEF hp, K, h, hd, t
<1>8. i \in 1..K /\ K - 1 \in Nat
  BY <1>3, <1>6
<1>9. hp[s[i]].next = After(s, i) /\ hp[s[i]].prev = Before(s, i) /\ s[i] \in 1..Len(hp)
  BY <1>3, <1>4, <1>8
<1>10. hd \in Header
  <2>1. /\ K # 1 => 2 \in 1..K /\ 1 \in 1..K /\ K \in 1..K
        /\ i # 1 => i - 1 \in 1..K
    BY <1>3, <1>8
  <2>2. Null \in Nat /\ \A j \in 1..K : s[j] \in Nat
    BY <1>3 DEF Null
  <2>3. hd.head \in Nat
    BY <1>5, <2>1, <2>2
  <2>4. hd.tail \in Nat
    BY <1>5, <1>8, <2>1, <2>2
  <2>5. hd = [count |-> hd.count, head |-> hd.head, tail |-> hd.tail]
    BY DEF hd, HeaderWithout, Empty
  <2> QED BY <1>5, <1>8, <2>3, <2>4, <2>5 DEF Header
<1>11. Heap(h)
  <2>1. Null \in 0..Len(hp)
    BY <1>3 DEF Null
  <2>2. After(s, i) \in 0..Len(hp) /\ Before(s, i) \in 0..Len(hp)
    BY <1>3, <1>9
  <2> QED BY <1>3, <1>5, <2>1, <2>2 DEF Heap
(* A position of t is that of an element before the one removed, or behind.  *)
<1>12. \A j \in 1..K-1 : \/ j < i /\ j \in 1..K /\ j # i
                         \/ ~(j < i) /\ j + 1 \in 1..K /\ j + 1 > i
  BY <1>3, <1>8
<1>13. ASSUME NEW j \in 1..K-1
       PROVE  \E q \in 1..K : t[j] = s[q] /\ q # i /\ q = IF j < i THEN j ELSE j + 1
  <2>1. CASE j < i
    BY <1>7, <1>12, <2>1
  <2>2. CASE ~(j < i)
    <3>1. j + 1 \in 1..K /\ j + 1 # i
      BY <1>3, <1>8, <2>2
    <3> QED BY <1>7, <2>2, <3>1
  <2> QED BY <2>1, <2>2
<1>14. Distinct(t)
  <2> SUFFICES ASSUME NEW j \in 1..K-1, NEW k \in 1..K-1, t[j] = t[k] PROVE j = k
    BY <1>7 DEF Distinct
  <2>1. PICK q \in 1..K : t[j] = s[q] /\ q = IF j < i THEN j ELSE j + 1
    BY <1>13
  <2>2. PICK r \in 1..K : t[k] = s[r] /\ r = IF k < i THEN k ELSE k + 1
    BY <1>13
  <2>3. q = r
    BY <1>3, <2>1, <2>2
  <2> QED BY <1>3, <1>8, <2>1, <2>2, <2>3
<1>15. ASSUME NEW j \in 1..K-1
       PROVE  h[t[j]].next = After(t, j) /\ h[t[j]].prev = Before(t, j)
  <2>1. After(t, j) = IF j = K - 1 THEN Null ELSE t[j + 1]
    BY <1>7 DEF After
  <2>2. Before(t, j) = IF j = 1 THEN Null ELSE t[j - 1]
    BY DEF Before
  <2>3. \A k \in 1..K : After(s, k) = IF k = K THEN Null ELSE s[k + 1]
    BY <1>6 DEF After
  <2>4. \A k \in 1..K : Before(s, k) = IF k = 1 THEN Null ELSE s[k - 1]
    BY DEF Before
  <2>5. CASE j < i
    <3>1. j \in 1..K /\ t[j] = s[j] /\ s[j] \in 1..Len(hp) /\ s[j] # s[i]
      BY <1>3, <1>7, <1>8, <1>12, <2>5
    <3>2. hp[s[j]].next = s[j + 1] /\ hp[s[j]].prev = Before(s, j)
      <4>1. j # K
        BY <1>8, <2>5
      <4> QED BY <1>4, <2>3, <3>1, <4>1
    <3>3. Before(t, j) = Before(s, j)
      <4>1. j # 1 => j - 1 \in 1..K-1 /\ j - 1 < i
        BY <1>3, <1>8, <2>5
      <4> QED BY <1>7, <2>2, <2>4, <3>1, <4>1
    <3>4. h[s[j]].prev = Before(s, j)
      <4>1. i # K => i + 1 \in 1..K /\ i + 1 # j
        BY <1>3, <1>8, <2>5
      <4> QED BY <1>3, <1>5, <3>1, <3>2, <4>1
    <3>5. h[s[j]].next = IF j + 1 = i THEN After(s, i) ELSE s[j + 1]
      <4>1. i - 1 \in 1..K /\ i # 1
        BY <1>3, <1>8, <2>5
      <4>2. s[j] = s[i - 1] <=> j = i - 1
        BY <1>3, <3>1, <4>1
      <4>3. j = i - 1 <=> j + 1 = i
        BY <1>3, <1>8
      <4> QED BY <1>5, <3>1, <3>2, <4>1, <4>2, <4>3
    <3>6. After(t, j) = IF j + 1 = i THEN After(s, i) ELSE s[j + 1]
      <4>1. CASE j + 1 = i
        <5>1. i = K <=> j = K - 1
          BY <1>3, <1>8, <4>1
        <5>2. j # K - 1 => j + 1 \in 1..K-1 /\ ~(j + 1 < i) /\ j + 1 + 1 = i + 1
          BY <1>3, <1>8, <4>1
        <5> QED BY <1>7, <1>8, <2>1, <2>3, <4>1, <5>1, <5>2
      <4>2. CASE j + 1 # i
        <5>1. j # K - 1 /\ j + 1 \in 1..K-1 /\ j + 1 < i
          BY <1>3, <1>8, <2>5, <4>2
        <5> QED BY <1>7, <2>1, <4>2, <5>1
      <4> QED BY <4>1, <4>2
    <3> QED BY <3>1, <3>3, <3>4, <3>5, <3>6
  <2>6. CASE ~(j < i)
    <3> DEFINE k == j + 1
    <3>1. k \in 1..K /\ k > i /\ t[j] = s[k] /\ k # 1
      <4>1. k \in 1..K /\ k > i /\ k # 1
        BY <1>3, <1>8, <2>6
      <4>2. t[j] = s[k]
        BY <1>7, <2>6
      <4> QED BY <4>1, <4>2
    <3>2. s[k] \in 1..Len(hp) /\ s[k] # s[i]
      BY <1>3, <1>8, <3>1
    <3>3. hp[s[k]].next = (IF k = K THEN Null ELSE s[k + 1]) /\ hp[s[k]].prev = s[k - 1]
      BY <1>4, <2>3, <2>4, <3>1
    <3>4. After(t, j) = IF k = K THEN Null ELSE s[k + 1]
      <4>1. k = K <=> j = K - 1
        BY <1>3
      <4>2. j # K - 1 => j + 1 \in 1..K-1 /\ ~(j + 1 < i)
        BY <1>3, <1>8, <2>6
      <4> QED BY <1>7, <2>1, <4>1, <4>2
    <3>5. h[s[k]].next = hp[s[k]].next
      <4>1. i # 1 => i - 1 \in 1..K /\ i - 1 # k
        BY <1>3, <1>8, <3>1
      <4> QED BY <1>3, <1>5, <3>1, <3>2, <4>1
    <3>6. h[s[k]].prev = IF j = i THEN Before(s, i) ELSE s[j]
      <4>1. i # K => i + 1 \in 1..K /\ (i + 1 = k <=> j = i)
        BY <1>3, <1>8
      <4>2. i = K => j # i
        BY <1>3, <1>8
      <4>3. k - 1 = j
        BY <1>3
      <4>4. i # K => (s[k] = s[i + 1] <=> j = i)
        BY <1>3, <3>1, <4>1
      <4> QED BY <1>5, <3>2, <3>3, <4>2, <4>3, <4>4
    <3>7. Before(t, j) = IF j = i THEN Before(s, i) ELSE s[j]
      <4>1. j # 1 => j - 1 \in 1..K-1 /\ (j = i => j - 1 < i)
        BY <1>3, <1>8, <2>6
      <4>2. j # i => j # 1 /\ ~(j - 1 < i) /\ j - 1 + 1 = j
        BY <1>3, <1>8, <2>6
      <4>3. CASE j = i
        BY <1>7, <1>8, <2>2, <2>4, <4>1, <4>3
      <4>4. CASE j # i
        BY <1>7, <2>2, <4>1, <4>2, <4>4
      <4> QED BY <4>3, <4>4
    <3> QED BY <3>1, <3>3, <3>4, <3>5, <3>6, <3>7
  <2> QED BY <2>5, <2>6
<1>16. Chained(h, hd, t)
  <2>1. K - 1 # 0 => t[1] = IF i = 1 THEN s[2] ELSE s[1]
    <3>1. K - 1 # 0 => 1 \in 1..K-1 /\ (1 < i <=> i # 1)
      BY <1>3, <1>8
    <3>2. 1 + 1 = 2
      OBVIOUS
    <3> QED BY <1>7, <3>1, <3>2
  <2>2. K - 1 # 0 => t[K - 1] = IF i = K THEN s[i - 1] ELSE s[K]
    <3>1. ASSUME NEW j \in 1..K-1, j = K - 1 PROVE t[j] = IF i = K THEN s[i - 1] ELSE s[K]
      <4>1. (j < i <=> i = K) /\ j + 1 = K /\ (i = K => j = i - 1)
        BY <1>3, <1>8, <3>1
      <4> QED BY <1>7, <4>1
    <3>2. ASSUME NEW k \in Nat, k # 0 PROVE k \in 1..k
      BY <3>2
    <3> QED BY <1>8, <3>1, <3>2
  <2>3. K - 1 = 0 <=> K = 1
    BY <1>3
  <2>4. t \in Seq(1..Len(h))
    BY <1>5, <1>6, <1>7
  <2> QED BY <1>5, <1>7, <1>14, <1>15, <2>1, <2>2, <2>3, <2>4 DEF Chained
<1>17. Aligned(h, t)
  BY <1>7, <1>15 DEF Aligned
<1>18. \A j \in 1..K-1 : \E k \in 1..K : t[j] = s[k]
  BY <1>13
<1>19. Becomes(m, s, n, t) /\ Held(n.heap, t) = Held(h, t)
  <2>1. /\ Heap(p.heap) /\ p.hdr \in Header /\ Chained(p.heap, p.hdr, t)
        /\ Aligned(p.heap, t) /\ Len(m.heap) \in Nat
    BY <1>2, <1>3, <1>10, <1>11, <1>16, <1>17 DEF hp
  <2>2. Len(m.heap) <= Len(p.heap)
    BY <1>2, <1>3, <1>5 DEF hp
  <2>3. \A a \in 1..Len(m.heap) :
              /\ p.heap[a].mbr = m.heap[a].mbr
              /\ (\A j \in 1..Len(s) : s[j] # a) => p.heap[a] = m.heap[a]
    BY <1>2, <1>5, <1>6 DEF hp
  <2>4. \A j \in 1..Len(t) : t[j] > Len(m.heap) \/ \E k \in 1..Len(s) : t[j] = s[k]
    BY <1>6, <1>7, <1>18 DEF hp
  <2>5. Keeps(m, s, p, t)
    BY <2>2, <2>3, <2>4 DEF Keeps
  <2>6. /\ Becomes(m, s, Renumbered(p), t)
        /\ Held(Renumbered(p).heap, t) = Held(p.heap, t)
    BY <2>1, <2>5, RenumberedBecomes
  <2> QED BY <1>1, <1>2, <2>6
<1>20. Held(h, t) = RemoveAt(Held(hp, s), i)
  <2> DEFINE g == Held(hp, s)
             d == Held(h, t)
             f == RemoveAt(g, i)
  <2>1. g \in Seq(Members) /\ Len(g) = K /\ \A j \in 1..K : g[j] = hp[s[j]].mbr
    BY <1>3, <1>6 DEF Held
  <2>2. d = [j \in 1..K-1 |-> h[t[j]].mbr]
    BY <1>7 DEF Held
  <2> HIDE DEF g, d
  <2>3. i \in 1..Len(g)
    BY <1>8, <2>1
  <2>4. /\ f \in Seq(Members) /\ Len(f) = K - 1
        /\ \A j \in 1..K-1 : f[j] = IF j < i THEN g[j] ELSE g[j + 1]
    <3>1. /\ f \in Seq(Members) /\ Len(f) = Len(g) - 1
          /\ \A j \in 1..Len(g)-1 : f[j] = IF j < i THEN g[j] ELSE g[j + 1]
      <4>1. g \in Seq(Members)
        BY <2>1
      <4> QED BY <2>3, <4>1, RemoveAtIs
    <3> QED BY <2>1, <3>1
  <2> HIDE DEF f
  <2>5. \A j \in 1..K : h[s[j]].mbr = g[j]
    BY <1>3, <1>5, <2>1
  <2>6. \A j \in 1..K-1 : h[t[j]].mbr = f[j]
    <3> TAKE j \in 1..K-1
    <3>1. CASE j < i
      <4>1. j \in 1..K
        BY <1>3, <1>8, <3>1
      <4> QED BY <1>7, <2>4, <2>5, <3>1, <4>1
    <3>2. CASE ~(j < i)
      <4>1. j + 1 \in 1..K
        BY <1>3, <1>8
      <4> QED BY <1>7, <2>4, <2>5, <3>2, <4>1
    <3> QED BY <3>1, <3>2
  <2>7. f = [j \in 1..K-1 |-> f[j]]
    BY <2>4
  <2>8. f = d
    BY <2>2, <2>6, <2>7
  <2> QED BY <2>8 DEF f, d, g
<1> QED
  BY <1>19, <1>20 DEF n, t, hp

-----------------------------------------------------------------------------
(* The copying of one list to another, member by member.                     *)
HeapAndHeader == [heap : Seq(Elem), hdr : Header]

(* add_to_list keeps to heaps and records.                                   *)
LEMMA AddedType ==
    ASSUME NEW m \in HeapAndHeader, NEW x \in Members
    PROVE  Added(m, x) \in HeapAndHeader /\ AddedUnique(m, x) \in HeapAndHeader
<1>1. /\ m.heap \in Seq(Elem) /\ Len(m.heap) \in Nat /\ m.hdr \in Header
      /\ m.hdr.count \in Nat /\ m.hdr.head \in Nat /\ m.hdr.tail \in Nat
  <2>1. m.heap \in Seq(Elem) /\ m.hdr \in Header
    BY DEF HeapAndHeader
  <2> QED BY <2>1 DEF Header
<1>2. Null \in Nat
  BY DEF Null
<1> DEFINE new == Len(m.heap) + 1
           e == Element(x, Null, Null, m.hdr.count)
           f == Element(x, m.hdr.tail, Null, m.hdr.count)
           h == Linking(m.heap, m.hdr.tail, new)
<1>3. new \in Nat
  BY <1>1
<1>4. e \in Elem /\ f \in Elem
  BY <1>1, <1>2, ElementIs
<1>5. h \in Seq(Elem)
  BY <1>1, <1>3, LinkingIs
<1>6. Added(m, x) =
        IF m.hdr.head = Null
        THEN [heap |-> Append(m.heap, e), hdr |-> [count |-> 1, head |-> new, tail |-> new]]
        ELSE [heap |-> Append(h, f),
              hdr  |-> [count |-> m.hdr.count + 1, head |-> m.hdr.head, tail |-> new]]
  BY DEF Added
<1> HIDE DEF new, e, f, h
<1>7. Append(m.heap, e) \in Seq(Elem) /\ Append(h, f) \in Seq(Elem)
  BY <1>1, <1>4, <1>5
<1>8. /\ [count |-> 1, head |-> new, tail |-> new] \in Header
      /\ [count |-> m.hdr.count + 1, head |-> m.hdr.head, tail |-> new] \in Header
  BY <1>1, <1>3 DEF Header
<1>9. Added(m, x) \in HeapAndHeader
  BY <1>6, <1>7, <1>8 DEF HeapAndHeader
<1> QED BY <1>9 DEF AddedUnique

CopySteps(f, m, q, keep) ==
    \A n \in 0..Len(q) :
       f[n] = IF n = 0 THEN m ELSE IF q[n] \in keep THEN Added(f[n - 1], q[n]) ELSE f[n - 1]

(* The steps of the four copying loops.                                      *)
LEMMA CopyStepsExist ==
    ASSUME NEW m \in HeapAndHeader, NEW q \in Seq(Members), NEW keep
    PROVE  \E f : Copied(m, q, keep) = f[Len(q)] /\ CopySteps(f, m, q, keep)
<1> DEFINE N == Len(q)
           X == HeapAndHeader
           Is(f) == f = [n \in 0..N |-> IF n = 0 THEN m
                                       ELSE IF q[n] \in keep THEN Added(f[n - 1], q[n])
                                       ELSE f[n - 1]]
           it == CHOOSE f : Is(f)
           Then(n, h) == IF q[n] \in keep THEN Added(h, q[n]) ELSE h
           G == [n \in 1..N |-> [h \in X |-> Then(n, h)]]
<1>1. Copied(m, q, keep) = it[N]
  BY DEF Copied
<1>2. N \in Nat /\ m \in X /\ \A n \in 1..N : q[n] \in Members
  OBVIOUS
<1>3. ASSUME NEW n \in 1..N, NEW h \in X PROVE Then(n, h) \in X
  BY <1>2, AddedType
<1> HIDE DEF N, X, Then
<1>4. G \in [1..N -> [X -> X]]
  BY <1>3
<1>5. \A n \in 1..N, h \in X : G[n][h] = Then(n, h)
  OBVIOUS
<1> HIDE DEF G
<1>6. PICK f : Recurs(f, N, X, m, G)
  BY <1>2, <1>4, RecursionExists
<1>7. f \in [0..N -> X] /\ f[0] = m /\ \A n \in 1..N : f[n] = G[n][f[n - 1]]
  BY <1>6 DEF Recurs
<1>8. ASSUME NEW n \in 1..N PROVE f[n] = Then(n, f[n - 1])
  <2>1. n - 1 \in 0..N
    BY <1>2
  <2>2. f[n - 1] \in X
    BY <1>7, <2>1
  <2> QED BY <1>5, <1>7, <2>2
<1>9. Is(f)
  <2>1. \A n \in 0..N : n # 0 => n \in 1..N
    BY <1>2
  <2>2. \A n \in 0..N :
           f[n] = IF n = 0 THEN m ELSE IF q[n] \in keep THEN Added(f[n - 1], q[n]) ELSE f[n - 1]
    BY <1>7, <1>8, <2>1 DEF Then
  <2> QED BY <1>7, <2>2
<1> HIDE DEF Is
<1>10. Is(it)
  BY <1>9
<1> HIDE DEF it
<1>11. CopySteps(it, m, q, keep)
  BY <1>10 DEF Is, CopySteps, N
<1> QED BY <1>1, <1>11 DEF N

UniqueCopySteps(f, m, q, keep) ==
    \A n \in 0..Len(q) :
       f[n] = IF n = 0 THEN m ELSE IF q[n] \in keep THEN AddedUnique(f[n - 1], q[n]) ELSE f[n - 1]

LEMMA UniqueCopyStepsExist ==
    ASSUME NEW m \in HeapAndHeader, NEW q \in Seq(Members), NEW keep
    PROVE  \E f : CopiedUnique(m, q, keep) = f[Len(q)] /\ UniqueCopySteps(f, m, q, keep)
<1> DEFINE N == Len(q)
           X == HeapAndHeader
           Is(f) == f = [n \in 0..N |-> IF n = 0 THEN m
                                       ELSE IF q[n] \in keep THEN AddedUnique(f[n - 1], q[n])
                                       ELSE f[n - 1]]
           it == CHOOSE f : Is(f)
           Then(n, h) == IF q[n] \in keep THEN AddedUnique(h, q[n]) ELSE h
           G == [n \in 1..N |-> [h \in X |-> Then(n, h)]]
<1>1. CopiedUnique(m, q, keep) = it[N]
  BY DEF CopiedUnique
<1>2. N \in Nat /\ m \in X /\ \A n \in 1..N : q[n] \in Members
  OBVIOUS
<1>3. ASSUME NEW n \in 1..N, NEW h \in X PROVE Then(n, h) \in X
  BY <1>2, AddedType
<1> HIDE DEF N, X, Then
<1>4. G \in [1..N -> [X -> X]]
  BY <1>3
<1>5. \A n \in 1..N, h \in X : G[n][h] = Then(n, h)
  OBVIOUS
<1> HIDE DEF G
<1>6. PICK f : Recurs(f, N, X, m, G)
  BY <1>2, <1>4, RecursionExists
<1>7. f \in [0..N -> X] /\ f[0] = m /\ \A n \in 1..N : f[n] = G[n][f[n - 1]]
  BY <1>6 DEF Recurs
<1>8. ASSUME NEW n \in 1..N PROVE f[n] = Then(n, f[n - 1])
  <2>1. n - 1 \in 0..N
    BY <1>2
  <2>2. f[n - 1] \in X
    BY <1>7, <2>1
  <2> QED BY <1>5, <1>7, <2>2
<1>9. Is(f)
  <2>1. \A n \in 0..N : n # 0 => n \in 1..N
    BY <1>2
  <2>2. \A n \in 0..N :
           f[n] = IF n = 0 THEN m ELSE IF q[n] \in keep THEN AddedUnique(f[n - 1], q[n]) ELSE f[n - 1]
    BY <1>7, <1>8, <2>1 DEF Then
  <2> QED BY <1>7, <2>2
<1> HIDE DEF Is
<1>10. Is(it)
  BY <1>9
<1> HIDE DEF it
<1>11. UniqueCopySteps(it, m, q, keep)
  BY <1>10 DEF Is, UniqueCopySteps, N
<1> QED BY <1>1, <1>11 DEF N

AppendSteps(f, m, q, keep) ==
    \A n \in 0..Len(q) :
       f[n] = IF n = 0 THEN m ELSE IF q[n] \in keep THEN Append(f[n - 1], q[n]) ELSE f[n - 1]

LEMMA AppendStepsExist ==
    ASSUME NEW m \in Seq(Members), NEW q \in Seq(Members), NEW keep
    PROVE  \E f : Q!AppendAll(m, q, keep) = f[Len(q)] /\ AppendSteps(f, m, q, keep)
<1> DEFINE N == Len(q)
           X == Seq(Members)
           Is(f) == f = [n \in 0..N |-> IF n = 0 THEN m
                                       ELSE IF q[n] \in keep THEN Append(f[n - 1], q[n])
                                       ELSE f[n - 1]]
           it == CHOOSE f : Is(f)
           Then(n, h) == IF q[n] \in keep THEN Append(h, q[n]) ELSE h
           G == [n \in 1..N |-> [h \in X |-> Then(n, h)]]
<1>1. Q!AppendAll(m, q, keep) = it[N]
  BY DEF Q!AppendAll
<1>2. N \in Nat /\ m \in X /\ \A n \in 1..N : q[n] \in Members
  OBVIOUS
<1>3. ASSUME NEW n \in 1..N, NEW h \in X PROVE Then(n, h) \in X
  BY <1>2
<1> HIDE DEF N, X, Then
<1>4. G \in [1..N -> [X -> X]]
  BY <1>3
<1>5. \A n \in 1..N, h \in X : G[n][h] = Then(n, h)
  OBVIOUS
<1> HIDE DEF G
<1>6. PICK f : Recurs(f, N, X, m, G)
  BY <1>2, <1>4, RecursionExists
<1>7. f \in [0..N -> X] /\ f[0] = m /\ \A n \in 1..N : f[n] = G[n][f[n - 1]]
  BY <1>6 DEF Recurs
<1>8. ASSUME NEW n \in 1..N PROVE f[n] = Then(n, f[n - 1])
  <2>1. n - 1 \in 0..N
    BY <1>2
  <2>2. f[n - 1] \in X
    BY <1>7, <2>1
  <2> QED BY <1>5, <1>7, <2>2
<1>9. Is(f)
  <2>1. \A n \in 0..N : n # 0 => n \in 1..N
    BY <1>2
  <2>2. \A n \in 0..N :
           f[n] = IF n = 0 THEN m ELSE IF q[n] \in keep THEN Append(f[n - 1], q[n]) ELSE f[n - 1]
    BY <1>7, <1>8, <2>1 DEF Then
  <2> QED BY <1>7, <2>2
<1> HIDE DEF Is
<1>10. Is(it)
  BY <1>9
<1> HIDE DEF it
<1>11. AppendSteps(it, m, q, keep)
  BY <1>10 DEF Is, AppendSteps, N
<1> QED BY <1>1, <1>11 DEF N

AppendNewSteps(f, m, q, keep) ==
    \A n \in 0..Len(q) :
       f[n] = IF n = 0 THEN m ELSE IF q[n] \in keep THEN Q!AppendNew(f[n - 1], q[n]) ELSE f[n - 1]

LEMMA AppendNewStepsExist ==
    ASSUME NEW m \in Seq(Members), NEW q \in Seq(Members), NEW keep
    PROVE  \E f : Q!AppendAllNew(m, q, keep) = f[Len(q)] /\ AppendNewSteps(f, m, q, keep)
<1> DEFINE N == Len(q)
           X == Seq(Members)
           Is(f) == f = [n \in 0..N |-> IF n = 0 THEN m
                                       ELSE IF q[n] \in keep THEN Q!AppendNew(f[n - 1], q[n])
                                       ELSE f[n - 1]]
           it == CHOOSE f : Is(f)
           Then(n, h) == IF q[n] \in keep THEN Q!AppendNew(h, q[n]) ELSE h
           G == [n \in 1..N |-> [h \in X |-> Then(n, h)]]
<1>1. Q!AppendAllNew(m, q, keep) = it[N]
  BY DEF Q!AppendAllNew
<1>2. N \in Nat /\ m \in X /\ \A n \in 1..N : q[n] \in Members
  OBVIOUS
<1>3. ASSUME NEW n \in 1..N, NEW h \in X PROVE Then(n, h) \in X
  BY <1>2 DEF Q!AppendNew
<1> HIDE DEF N, X, Then
<1>4. G \in [1..N -> [X -> X]]
  BY <1>3
<1>5. \A n \in 1..N, h \in X : G[n][h] = Then(n, h)
  OBVIOUS
<1> HIDE DEF G
<1>6. PICK f : Recurs(f, N, X, m, G)
  BY <1>2, <1>4, RecursionExists
<1>7. f \in [0..N -> X] /\ f[0] = m /\ \A n \in 1..N : f[n] = G[n][f[n - 1]]
  BY <1>6 DEF Recurs
<1>8. ASSUME NEW n \in 1..N PROVE f[n] = Then(n, f[n - 1])
  <2>1. n - 1 \in 0..N
    BY <1>2
  <2>2. f[n - 1] \in X
    BY <1>7, <2>1
  <2> QED BY <1>5, <1>7, <2>2
<1>9. Is(f)
  <2>1. \A n \in 0..N : n # 0 => n \in 1..N
    BY <1>2
  <2>2. \A n \in 0..N :
           f[n] = IF n = 0 THEN m ELSE IF q[n] \in keep THEN Q!AppendNew(f[n - 1], q[n]) ELSE f[n - 1]
    BY <1>7, <1>8, <2>1 DEF Then
  <2> QED BY <1>7, <2>2
<1> HIDE DEF Is
<1>10. Is(it)
  BY <1>9
<1> HIDE DEF it
<1>11. AppendNewSteps(it, m, q, keep)
  BY <1>10 DEF Is, AppendNewSteps, N
<1> QED BY <1>1, <1>11 DEF N

-----------------------------------------------------------------------------
(* Operations follow one another.                                            *)
LEMMA BecomesItself ==
    ASSUME NEW m, NEW s, Sound(m, s)
    PROVE  Becomes(m, s, m, s)
<1>1. Len(m.heap) \in Nat
  BY HeapOf DEF Sound
<1> QED BY <1>1 DEF Becomes, Keeps

LEMMA BecomesInTurn ==
    ASSUME NEW m, NEW s, Sound(m, s), NEW n, NEW t, Becomes(m, s, n, t),
           NEW p, NEW u, Becomes(n, t, p, u)
    PROVE  Becomes(m, s, p, u)
<1>1. Len(m.heap) \in Nat /\ Len(n.heap) \in Nat /\ Len(p.heap) \in Nat
  BY HeapOf DEF Sound, Becomes
<1>2. Keeps(m, s, n, t) /\ Keeps(n, t, p, u)
  BY DEF Becomes
<1>3. Len(m.heap) <= Len(p.heap) /\ \A a \in 1..Len(m.heap) : a \in 1..Len(n.heap)
  BY <1>1, <1>2 DEF Keeps
<1>4. ASSUME NEW a \in 1..Len(m.heap) PROVE p.heap[a].mbr = m.heap[a].mbr
  BY <1>2, <1>3 DEF Keeps
<1>5. ASSUME NEW a \in 1..Len(m.heap), \A i \in 1..Len(s) : s[i] # a
      PROVE  p.heap[a] = m.heap[a]
  <2>1. ASSUME NEW i \in 1..Len(t), t[i] = a PROVE FALSE
    <3>1. ~(t[i] > Len(m.heap))
      BY <1>1, <2>1
    <3> QED BY <1>2, <1>5, <2>1, <3>1 DEF Keeps
  <2>2. n.heap[a] = m.heap[a]
    BY <1>2, <1>5 DEF Keeps
  <2>3. p.heap[a] = n.heap[a]
    BY <1>2, <1>3, <2>1 DEF Keeps
  <2> QED BY <2>2, <2>3
<1>6. ASSUME NEW i \in 1..Len(u)
      PROVE  u[i] > Len(m.heap) \/ \E j \in 1..Len(s) : u[i] = s[j]
  <2>1. u[i] \in Int
    <3>1. u[i] \in 1..Len(p.heap)
      BY StrungOf DEF Becomes, Sound
    <3> QED BY <1>1, <3>1
  <2>2. CASE u[i] > Len(n.heap)
    BY <1>1, <1>2, <2>1, <2>2 DEF Keeps
  <2>3. CASE \E j \in 1..Len(t) : u[i] = t[j]
    BY <1>2, <2>3 DEF Keeps
  <2> QED BY <1>2, <2>2, <2>3 DEF Keeps
<1>7. Keeps(m, s, p, u)
  BY <1>3, <1>4, <1>5, <1>6 DEF Keeps
<1> QED BY <1>7 DEF Becomes

(* The members a list holds.                                                 *)
LEMMA MembersAre ==
    ASSUME NEW hp, Heap(hp), NEW hdr, NEW s, Strung(hp, hdr, s)
    PROVE  /\ MembersOf(hp, hdr) = Held(hp, s)
           /\ Held(hp, s) \in Seq(Members) /\ Len(Held(hp, s)) = Len(s)
<1>1. Iterate(hp, hdr) = s
  BY IterateIs DEF Strung
<1>2. s \in Seq(1..Len(hp)) /\ DOMAIN s = 1..Len(s)
  BY StrungOf
<1>3. MembersOf(hp, hdr) = [i \in DOMAIN s |-> hp[s[i]].mbr]
  BY <1>1 DEF MembersOf
<1>4. /\ Len(s) \in Nat
      /\ \A i \in 1..Len(s) : s[i] \in 1..Len(hp) /\ hp[s[i]].mbr \in Members
  BY StrungOf, HeapOf
<1>5. Held(hp, s) \in [1..Len(s) -> Members]
  BY <1>4 DEF Held
<1>6. Held(hp, s) \in Seq(Members) /\ Len(Held(hp, s)) = Len(s)
  BY <1>4, <1>5
<1> QED BY <1>2, <1>3, <1>6 DEF Held

(* add_unique_to_list adds what is not there.                                *)
LEMMA AddedUniqueBecomes ==
    ASSUME NEW m, NEW s, Sound(m, s), NEW x \in Members
    PROVE  \E t : /\ Becomes(m, s, AddedUnique(m, x), t)
                  /\ Held(AddedUnique(m, x).heap, t) = Q!AppendNew(Held(m.heap, s), x)
<1>1. MembersOf(m.heap, m.hdr) = Held(m.heap, s)
  BY MembersAre DEF Sound
<1>2. CASE Contains(Held(m.heap, s), x)
  <2>1. AddedUnique(m, x) = m /\ Q!AppendNew(Held(m.heap, s), x) = Held(m.heap, s)
    BY <1>1, <1>2 DEF AddedUnique, Q!AppendNew, Contains, Q!Contains
  <2> QED BY <2>1, BecomesItself
<1>3. CASE ~Contains(Held(m.heap, s), x)
  <2>1. /\ AddedUnique(m, x) = Added(m, x)
        /\ Q!AppendNew(Held(m.heap, s), x) = Append(Held(m.heap, s), x)
    BY <1>1, <1>3 DEF AddedUnique, Q!AppendNew, Contains, Q!Contains
  <2> QED BY <2>1, AddedBecomes
<1> QED BY <1>2, <1>3

(* copy_list adds the wanted members of the other list in turn.              *)
LEMMA CopiedBecomes ==
    ASSUME NEW m \in HeapAndHeader, NEW s, Sound(m, s), NEW q \in Seq(Members), NEW keep
    PROVE  \E t : /\ Becomes(m, s, Copied(m, q, keep), t)
                  /\ Held(Copied(m, q, keep).heap, t) = Q!AppendAll(Held(m.heap, s), q, keep)
<1> DEFINE N == Len(q)
<1>1. N \in Nat /\ \A n \in 1..N : q[n] \in Members
  OBVIOUS
<1>2. Held(m.heap, s) \in Seq(Members)
  BY MembersAre DEF Sound
<1>3. PICK f : Copied(m, q, keep) = f[N] /\ CopySteps(f, m, q, keep)
  BY CopyStepsExist
<1>4. PICK g : /\ Q!AppendAll(Held(m.heap, s), q, keep) = g[N]
               /\ AppendSteps(g, Held(m.heap, s), q, keep)
  BY <1>2, AppendStepsExist
<1> DEFINE Same(n, t) == Becomes(m, s, f[n], t) /\ Held(f[n].heap, t) = g[n]
           S == {n \in 0..N : \E t : Same(n, t)}
<1>5. 0 \in S
  <2>1. 0 \in 0..N
    BY <1>1
  <2>2. f[0] = m /\ g[0] = Held(m.heap, s)
    BY <1>3, <1>4, <2>1 DEF CopySteps, AppendSteps
  <2>3. Same(0, s)
    BY <2>2, BecomesItself
  <2> QED BY <2>1, <2>3
<1>6. ASSUME NEW k \in 0..N-1, k \in S PROVE k + 1 \in S
  <2>1. PICK t : Same(k, t)
    BY <1>6
  <2> DEFINE n == k + 1
  <2>2. n \in 0..N /\ n \in 1..N /\ n # 0 /\ n - 1 = k
    BY <1>1
  <2>3. q[n] \in Members /\ Sound(f[k], t)
    BY <1>1, <2>1, <2>2 DEF Becomes
  <2>4. /\ f[n] = IF q[n] \in keep THEN Added(f[k], q[n]) ELSE f[k]
        /\ g[n] = IF q[n] \in keep THEN Append(g[k], q[n]) ELSE g[k]
    <3> HIDE DEF n
    <3> QED BY <1>3, <1>4, <2>2 DEF CopySteps, AppendSteps
  <2> HIDE DEF n
  <2>5. CASE q[n] \in keep
    <3>1. PICK u : /\ Becomes(f[k], t, Added(f[k], q[n]), u)
                   /\ Held(Added(f[k], q[n]).heap, u) = Append(Held(f[k].heap, t), q[n])
      BY <2>3, AddedBecomes
    <3>2. Becomes(m, s, Added(f[k], q[n]), u)
      BY <2>1, <3>1, BecomesInTurn
    <3>3. Same(n, u)
      BY <2>1, <2>4, <2>5, <3>1, <3>2
    <3> QED BY <2>2, <3>3 DEF n
  <2>6. CASE q[n] \notin keep
    <3>1. Same(n, t)
      BY <2>1, <2>4, <2>6
    <3> QED BY <2>2, <3>1 DEF n
  <2> QED BY <2>5, <2>6
<1> HIDE DEF S
<1>7. N \in S
  <2>1. \A k \in 0..N-1 : k \in S => k + 1 \in S
    BY <1>6
  <2>2. \A n \in 0..N : n \in S
    BY <1>1, <1>5, <2>1, Induction
  <2> QED BY <1>1, <2>2
<1> QED
  BY <1>3, <1>4, <1>7 DEF S

(* move_list_unique adds those that are not there yet.                       *)
LEMMA CopiedUniqueBecomes ==
    ASSUME NEW m \in HeapAndHeader, NEW s, Sound(m, s), NEW q \in Seq(Members), NEW keep
    PROVE  \E t : /\ Becomes(m, s, CopiedUnique(m, q, keep), t)
                  /\ Held(CopiedUnique(m, q, keep).heap, t) = Q!AppendAllNew(Held(m.heap, s), q, keep)
<1> DEFINE N == Len(q)
<1>1. N \in Nat /\ \A n \in 1..N : q[n] \in Members
  OBVIOUS
<1>2. Held(m.heap, s) \in Seq(Members)
  BY MembersAre DEF Sound
<1>3. PICK f : CopiedUnique(m, q, keep) = f[N] /\ UniqueCopySteps(f, m, q, keep)
  BY UniqueCopyStepsExist
<1>4. PICK g : /\ Q!AppendAllNew(Held(m.heap, s), q, keep) = g[N]
               /\ AppendNewSteps(g, Held(m.heap, s), q, keep)
  BY <1>2, AppendNewStepsExist
<1> DEFINE Same(n, t) == Becomes(m, s, f[n], t) /\ Held(f[n].heap, t) = g[n]
           S == {n \in 0..N : \E t : Same(n, t)}
<1>5. 0 \in S
  <2>1. 0 \in 0..N
    BY <1>1
  <2>2. f[0] = m /\ g[0] = Held(m.heap, s)
    BY <1>3, <1>4, <2>1 DEF UniqueCopySteps, AppendNewSteps
  <2>3. Same(0, s)
    BY <2>2, BecomesItself
  <2> QED BY <2>1, <2>3
<1>6. ASSUME NEW k \in 0..N-1, k \in S PROVE k + 1 \in S
  <2>1. PICK t : Same(k, t)
    BY <1>6
  <2> DEFINE n == k + 1
  <2>2. n \in 0..N /\ n \in 1..N /\ n # 0 /\ n - 1 = k
    BY <1>1
  <2>3. q[n] \in Members /\ Sound(f[k], t)
    BY <1>1, <2>1, <2>2 DEF Becomes
  <2>4. /\ f[n] = IF q[n] \in keep THEN AddedUnique(f[k], q[n]) ELSE f[k]
        /\ g[n] = IF q[n] \in keep THEN Q!AppendNew(g[k], q[n]) ELSE g[k]
    <3> HIDE DEF n
    <3> QED BY <1>3, <1>4, <2>2 DEF UniqueCopySteps, AppendNewSteps
  <2> HIDE DEF n
  <2>5. CASE q[n] \in keep
    <3>1. PICK u : /\ Becomes(f[k], t, AddedUnique(f[k], q[n]), u)
                   /\ Held(AddedUnique(f[k], q[n]).heap, u) = Q!AppendNew(Held(f[k].heap, t), q[n])
      BY <2>3, AddedUniqueBecomes
    <3>2. Becomes(m, s, AddedUnique(f[k], q[n]), u)
      BY <2>1, <3>1, BecomesInTurn
    <3>3. Same(n, u)
      BY <2>1, <2>4, <2>5, <3>1, <3>2
    <3> QED BY <2>2, <3>3 DEF n
  <2>6. CASE q[n] \notin keep
    <3>1. Same(n, t)
      BY <2>1, <2>4, <2>6
    <3> QED BY <2>2, <3>1 DEF n
  <2> QED BY <2>5, <2>6
<1> HIDE DEF S
<1>7. N \in S
  <2>1. \A k \in 0..N-1 : k \in S => k + 1 \in S
    BY <1>6
  <2>2. \A n \in 0..N : n \in S
    BY <1>1, <1>5, <2>1, Induction
  <2> QED BY <1>1, <2>2
<1> QED
  BY <1>3, <1>4, <1>7 DEF S

-----------------------------------------------------------------------------
(* The inductive invariant: along the links of each list lie the elements of *)
(* a sequence that no other list and no freed element shares.                *)
ApartFrom(s, t) == \A i \in 1..Len(s), j \in 1..Len(t) : s[i] # t[j]

IInv ==
    /\ Heap(heap) /\ Len(heap) <= MaxElements
    /\ list \in [Lists -> Header]
    /\ freed \subseteq 1..Len(heap)
    /\ \A l \in Lists :
          /\ Strung(heap, list[l], Forward(l))
          /\ \A i \in 1..Len(Forward(l)) : Forward(l)[i] \notin freed
    /\ \A l, k \in Lists : l # k => ApartFrom(Forward(l), Forward(k))

(* What the invariant says of one list.                                      *)
LEMMA IInvOf ==
    ASSUME IInv, NEW l \in Lists
    PROVE  /\ Sound(In(l), Forward(l)) /\ In(l) \in HeapAndHeader
           /\ In(l).heap = heap /\ In(l).hdr = list[l]
           /\ Integral(l) <=> Aligned(heap, Forward(l))
           /\ MembersOf(heap, list[l]) = Held(heap, Forward(l))
           /\ Held(heap, Forward(l)) \in Seq(Members)
           /\ Len(Held(heap, Forward(l))) = Len(Forward(l))
<1>1. In(l).heap = heap /\ In(l).hdr = list[l]
  BY DEF In
<1>2. Heap(heap) /\ list[l] \in Header /\ Strung(heap, list[l], Forward(l))
  BY DEF IInv
<1>3. Sound(In(l), Forward(l))
  BY <1>1, <1>2 DEF Sound
<1>4. In(l) \in HeapAndHeader
  BY <1>2 DEF In, HeapAndHeader, Heap
<1>5. Integral(l) <=> Aligned(heap, Forward(l))
  BY <1>2, IntegralIsAligned DEF Integral, Backward
<1>6. /\ MembersOf(heap, list[l]) = Held(heap, Forward(l))
      /\ Held(heap, Forward(l)) \in Seq(Members)
      /\ Len(Held(heap, Forward(l))) = Len(Forward(l))
  BY <1>2, MembersAre
<1> QED BY <1>1, <1>3, <1>4, <1>5, <1>6

(* An empty list, and the initial ones.                                      *)
LEMMA EmptyIsStrung ==
    ASSUME NEW hp, Heap(hp)
    PROVE  Strung(hp, Empty, <<>>) /\ Aligned(hp, <<>>) /\ Empty \in Header
  BY DEF Strung, Chained, Distinct, Aligned, Empty, Null, Header

LEMMA InitIsSound == Init => IInv
<1> SUFFICES ASSUME Init PROVE IInv
  OBVIOUS
<1>1. heap = <<>> /\ freed = {} /\ \A l \in Lists : list[l] = Empty
  BY DEF Init
<1>2. Heap(heap) /\ Len(heap) = 0
  BY <1>1 DEF Heap
<1>3. ASSUME NEW l \in Lists PROVE Strung(heap, list[l], <<>>) /\ Forward(l) = <<>>
  <2>1. Strung(heap, list[l], <<>>)
    BY <1>1, <1>2, EmptyIsStrung
  <2> QED BY <1>2, <2>1, IterateIs DEF Forward, Strung
<1>4. list \in [Lists -> Header]
  BY EmptyIsStrung, <1>2 DEF Init
<1>5. Len(heap) <= MaxElements
  BY <1>2, MembersAssumption
<1> QED BY <1>1, <1>2, <1>3, <1>4, <1>5 DEF IInv, ApartFrom

(* A list whose elements are untouched is what it was.                       *)
LEMMA Untouched ==
    ASSUME NEW hp, Heap(hp), NEW hdr, NEW s, Strung(hp, hdr, s),
           NEW new, Heap(new), Len(hp) <= Len(new),
           \A i \in 1..Len(s) : new[s[i]] = hp[s[i]]
    PROVE  /\ Strung(new, hdr, s) /\ Held(new, s) = Held(hp, s)
           /\ Aligned(hp, s) => Aligned(new, s)
<1>1. s \in Seq(1..Len(hp)) /\ Len(s) \in Nat /\ \A i \in 1..Len(s) : s[i] \in 1..Len(hp)
  BY StrungOf
<1>2. s \in Seq(1..Len(new))
  <2>1. Len(hp) \in Nat /\ Len(new) \in Nat
    BY HeapOf
  <2>2. \A i \in 1..Len(s) : s[i] \in 1..Len(new)
    BY <1>1, <2>1
  <2>3. s = [i \in 1..Len(s) |-> s[i]]
    BY <1>1
  <2>4. s \in [1..Len(s) -> 1..Len(new)]
    BY <2>2, <2>3
  <2> QED BY <1>1, <2>4
<1>3. Strung(new, hdr, s)
  BY <1>2 DEF Strung, Chained
<1>4. Held(new, s) = Held(hp, s)
  BY DEF Held
<1>5. Aligned(hp, s) => Aligned(new, s)
  BY DEF Aligned
<1> QED BY <1>3, <1>4, <1>5

(* What a step does to a list, to its neighbours and to their readability.   *)
Stores(l, c) ==
    /\ IInv'
    /\ Contents' = [Contents EXCEPT ![l] = c]
    /\ \A k \in Lists : Integral(k) => Integral(k)'

(* An operation on one list.                                                 *)
LEMMA StoreStep ==
    ASSUME IInv, NEW l \in Lists, NEW n, NEW t,
           Becomes(In(l), Forward(l), n, t), Store(l, n)
    PROVE  Stores(l, Held(n.heap, t))
<1>1. /\ heap' = n.heap /\ list' = [list EXCEPT ![l] = n.hdr] /\ freed' = freed
      /\ Len(n.heap) <= MaxElements
  BY DEF Store
<1>2. /\ Heap(heap) /\ list \in [Lists -> Header]
      /\ In(l).heap = heap /\ In(l).hdr = list[l]
  BY IInvOf DEF IInv
<1>3. Sound(n, t) /\ Keeps(In(l), Forward(l), n, t)
  BY DEF Becomes
<1>4. Heap(n.heap) /\ n.hdr \in Header /\ Strung(n.heap, n.hdr, t)
  BY <1>3 DEF Sound
<1>5. /\ Len(heap) <= Len(n.heap)
      /\ \A a \in 1..Len(heap) :
            (\A i \in 1..Len(Forward(l)) : Forward(l)[i] # a) => n.heap[a] = heap[a]
      /\ \A i \in 1..Len(t) : \/ t[i] > Len(heap)
                              \/ \E j \in 1..Len(Forward(l)) : t[i] = Forward(l)[j]
  BY <1>2, <1>3 DEF Keeps
<1>6. /\ list' \in [Lists -> Header] /\ list'[l] = n.hdr
      /\ \A k \in Lists \ {l} : list'[k] = list[k]
  BY <1>1, <1>2, <1>4
<1>7. Forward(l)' = t
  <2>1. Iterate(n.heap, n.hdr) = t
    BY <1>4, IterateIs DEF Strung
  <2> QED BY <1>1, <1>6, <2>1 DEF Forward
<1>8. ASSUME NEW k \in Lists \ {l}
      PROVE  /\ Strung(n.heap, list[k], Forward(k)) /\ Forward(k)' = Forward(k)
             /\ Held(n.heap, Forward(k)) = Held(heap, Forward(k))
             /\ Aligned(heap, Forward(k)) => Aligned(n.heap, Forward(k))
  <2>1. Strung(heap, list[k], Forward(k)) /\ ApartFrom(Forward(l), Forward(k))
    BY DEF IInv
  <2>2. \A i \in 1..Len(Forward(k)) : Forward(k)[i] \in 1..Len(heap)
    BY <2>1, StrungOf
  <2>3. \A i \in 1..Len(Forward(k)) : n.heap[Forward(k)[i]] = heap[Forward(k)[i]]
    BY <1>5, <2>1, <2>2 DEF ApartFrom
  <2>4. /\ Strung(n.heap, list[k], Forward(k))
        /\ Held(n.heap, Forward(k)) = Held(heap, Forward(k))
        /\ Aligned(heap, Forward(k)) => Aligned(n.heap, Forward(k))
    BY <1>2, <1>4, <1>5, <2>1, <2>3, Untouched
  <2>5. Iterate(n.heap, list[k]) = Forward(k)
    BY <1>4, <2>4, IterateIs DEF Strung
  <2> QED BY <1>1, <1>6, <2>4, <2>5 DEF Forward
<1>9. /\ Len(heap) \in Nat /\ Len(n.heap) \in Nat
      /\ \A k \in Lists : \A i \in 1..Len(Forward(k)) : Forward(k)[i] \in 1..Len(heap)
  <2>1. \A k \in Lists : Strung(heap, list[k], Forward(k))
    BY DEF IInv
  <2> QED BY <1>2, <1>4, <2>1, HeapOf, StrungOf
<1>10. IInv'
  <2>1. freed \subseteq 1..Len(heap) /\ freed \subseteq 1..Len(n.heap)
    BY <1>5, <1>9 DEF IInv
  <2>2. \A i \in 1..Len(t) : t[i] \notin freed
    <3> TAKE i \in 1..Len(t)
    <3>1. CASE t[i] > Len(heap)
      <4>1. ~(t[i] \in 1..Len(heap))
        BY <1>9, <3>1
      <4> QED BY <2>1, <4>1
    <3>2. CASE \E j \in 1..Len(Forward(l)) : t[i] = Forward(l)[j]
      BY <3>2 DEF IInv
    <3> QED BY <1>5, <3>1, <3>2
  <2>3. ASSUME NEW k \in Lists \ {l} PROVE ApartFrom(t, Forward(k)) /\ ApartFrom(Forward(k), t)
    <3>1. ASSUME NEW i \in 1..Len(t), NEW j \in 1..Len(Forward(k)) PROVE t[i] # Forward(k)[j]
      <4>1. CASE t[i] > Len(heap)
        BY <1>9, <4>1
      <4>2. CASE \E h \in 1..Len(Forward(l)) : t[i] = Forward(l)[h]
        BY <4>2 DEF IInv, ApartFrom
      <4> QED BY <1>5, <4>1, <4>2
    <3> QED BY <3>1 DEF ApartFrom
  <2>4. \A k \in Lists : /\ Strung(heap', list'[k], Forward(k)')
                         /\ \A i \in 1..Len(Forward(k)') : (Forward(k)')[i] \notin freed'
    <3> TAKE k \in Lists
    <3>1. CASE k = l
      BY <1>1, <1>4, <1>6, <1>7, <2>2, <3>1
    <3>2. CASE k # l
      <4>1. \A i \in 1..Len(Forward(k)) : Forward(k)[i] \notin freed
        BY DEF IInv
      <4> QED BY <1>1, <1>6, <1>8, <3>2, <4>1
    <3> QED BY <3>1, <3>2
  <2>5. \A j, k \in Lists : j # k => ApartFrom(Forward(j)', Forward(k)')
    <3> SUFFICES ASSUME NEW j \in Lists, NEW k \in Lists, j # k
                 PROVE  ApartFrom(Forward(j)', Forward(k)')
      OBVIOUS
    <3>1. ApartFrom(Forward(j), Forward(k))
      BY DEF IInv
    <3> QED BY <1>7, <1>8, <2>3, <3>1
  <2> QED BY <1>1, <1>4, <1>6, <2>1, <2>4, <2>5 DEF IInv
<1>11. \A k \in Lists : MembersOf(heap', list'[k]) =
                          IF k = l THEN Held(n.heap, t) ELSE Held(heap, Forward(k))
  <2> TAKE k \in Lists
  <2>1. Heap(heap') /\ Strung(heap', list'[k], Forward(k)')
    BY <1>10 DEF IInv
  <2>2. MembersOf(heap', list'[k]) = Held(heap', Forward(k)')
    BY <2>1, MembersAre
  <2> QED BY <1>1, <1>7, <1>8, <2>2
<1>12. Contents' = [Contents EXCEPT ![l] = Held(n.heap, t)]
  BY <1>11, IInvOf DEF Contents
<1>13. ASSUME NEW k \in Lists, Integral(k) PROVE Integral(k)'
  <2>1. Integral(k)' <=> Aligned(heap', Forward(k)')
    <3>1. Heap(heap') /\ Strung(heap', list'[k], Forward(k)')
      BY <1>10 DEF IInv
    <3> QED BY <3>1, IntegralIsAligned DEF Integral, Backward
  <2>2. Aligned(heap, Forward(k))
    BY <1>13, IInvOf
  <2>3. CASE k = l
    BY <1>1, <1>2, <1>7, <2>1, <2>2, <2>3 DEF Becomes
  <2>4. CASE k # l
    BY <1>1, <1>8, <2>1, <2>2, <2>4
  <2> QED BY <2>3, <2>4
<1> QED BY <1>10, <1>12, <1>13 DEF Stores

-----------------------------------------------------------------------------
(* Each operation does to a list what ListSeq says of the sequence.          *)
LEMMA AddStep ==
    ASSUME IInv, NEW l \in Lists, NEW x \in Members, AddToList(l, x)
    PROVE  Stores(l, Append(Contents[l], x))
<1> DEFINE n == Added(In(l), x)
           s == Forward(l)
           t == Append(s, Len(In(l).heap) + 1)
<1>1. Becomes(In(l), s, n, t) /\ Held(n.heap, t) = Append(Held(In(l).heap, s), x)
  BY IInvOf, AddedBecomes
<1>2. Contents[l] = Held(In(l).heap, s)
  BY IInvOf DEF Contents
<1>3. Store(l, n)
  BY DEF AddToList
<1> HIDE DEF n, s, t
<1>4. Stores(l, Held(n.heap, t))
  BY <1>1, <1>3, StoreStep DEF s
<1> QED BY <1>1, <1>2, <1>4

LEMMA AddUniqueStep ==
    ASSUME IInv, NEW l \in Lists, NEW x \in Members, AddUniqueToList(l, x)
    PROVE  Stores(l, Q!AppendNew(Contents[l], x))
<1> DEFINE n == AddedUnique(In(l), x)
           s == Forward(l)
<1>1. PICK t : /\ Becomes(In(l), s, n, t)
               /\ Held(n.heap, t) = Q!AppendNew(Held(In(l).heap, s), x)
  BY IInvOf, AddedUniqueBecomes
<1>2. Contents[l] = Held(In(l).heap, s)
  BY IInvOf DEF Contents
<1>3. Store(l, n)
  BY DEF AddUniqueToList
<1> HIDE DEF n, s
<1>4. Stores(l, Held(n.heap, t))
  BY <1>1, <1>3, StoreStep DEF s
<1> QED BY <1>1, <1>2, <1>4

LEMMA CopyStep ==
    ASSUME IInv, NEW l \in Lists, NEW src \in Lists, NEW keep, CopyList(l, src, keep)
    PROVE  Stores(l, Q!AppendAll(Contents[l], Contents[src], keep))
<1> DEFINE q == MembersOf(heap, list[src])
           n == Copied(In(l), q, keep)
           s == Forward(l)
<1>1. q \in Seq(Members) /\ Contents[src] = q
  BY IInvOf DEF Contents
<1>2. Store(l, n)
  BY DEF CopyList
<1> HIDE DEF q
<1>3. PICK t : /\ Becomes(In(l), s, n, t)
               /\ Held(n.heap, t) = Q!AppendAll(Held(In(l).heap, s), q, keep)
  BY <1>1, IInvOf, CopiedBecomes
<1>4. Contents[l] = Held(In(l).heap, s)
  BY IInvOf DEF Contents
<1> HIDE DEF n, s
<1>5. Stores(l, Held(n.heap, t))
  BY <1>2, <1>3, StoreStep DEF s
<1> QED BY <1>1, <1>3, <1>4, <1>5

LEMMA CopyUniqueStep ==
    ASSUME IInv, NEW l \in Lists, NEW src \in Lists, NEW keep, CopyListUnique(l, src, keep)
    PROVE  Stores(l, Q!AppendAllNew(Contents[l], Contents[src], keep))
<1> DEFINE q == MembersOf(heap, list[src])
           n == CopiedUnique(In(l), q, keep)
           s == Forward(l)
<1>1. q \in Seq(Members) /\ Contents[src] = q
  BY IInvOf DEF Contents
<1>2. Store(l, n)
  BY DEF CopyListUnique
<1> HIDE DEF q
<1>3. PICK t : /\ Becomes(In(l), s, n, t)
               /\ Held(n.heap, t) = Q!AppendAllNew(Held(In(l).heap, s), q, keep)
  BY <1>1, IInvOf, CopiedUniqueBecomes
<1>4. Contents[l] = Held(In(l).heap, s)
  BY IInvOf DEF Contents
<1> HIDE DEF n, s
<1>5. Stores(l, Held(n.heap, t))
  BY <1>2, <1>3, StoreStep DEF s
<1> QED BY <1>1, <1>3, <1>4, <1>5

(* The first position of a wanted member, or 0.                              *)
Lower(s, x) == SelectInSeq(s, LAMBDA y : x < y)
Where(s, x) == SelectInSeq(s, LAMBDA y : y = x)

(* Where add_to_list_ordered and remove_from_list find their place.          *)
LEMMA FirstIs ==
    ASSUME NEW S, NEW s \in Seq(S), NEW x
    PROVE  /\ Lower(s, x) = 0 \/ Lower(s, x) \in 1..Len(s)
           /\ Where(s, x) = 0 \/ (Where(s, x) \in 1..Len(s) /\ s[Where(s, x)] = x)
           /\ Q!Insert(s, x) = IF Lower(s, x) = 0 THEN Append(s, x)
                               ELSE InsertAt(s, Lower(s, x), x)
           /\ Where(s, x) # 0 => Q!RemoveFirst(s, x) = RemoveAt(s, Where(s, x))
<1> DEFINE I == {i \in 1..Len(s) : x < s[i]}
           J == {i \in 1..Len(s) : s[i] = x}
<1>1. Len(s) \in Nat /\ I \subseteq 1..Len(s) /\ J \subseteq 1..Len(s)
  OBVIOUS
<1>2. Lower(s, x) = IF I # {} THEN Min(I) ELSE 0
  BY DEF Lower, SelectInSeq
<1>3. Where(s, x) = IF J # {} THEN Min(J) ELSE 0
  BY DEF Where, SelectInSeq
<1>4. I # {} => Min(I) \in I
  BY <1>1, MinIs
<1>5. J # {} => Min(J) \in J
  BY <1>1, MinIs
<1>6. Lower(s, x) = 0 \/ Lower(s, x) \in 1..Len(s)
  BY <1>2, <1>4
<1>7. Where(s, x) = 0 \/ (Where(s, x) \in 1..Len(s) /\ s[Where(s, x)] = x)
  BY <1>3, <1>5
<1>8. Q!Insert(s, x) = IF Lower(s, x) = 0 THEN Append(s, x) ELSE InsertAt(s, Lower(s, x), x)
  BY DEF Q!Insert, Q!SelectInSeq, Q!Min, Q!InsertAt, Lower, SelectInSeq, Min, InsertAt
<1>9. Where(s, x) # 0 => Q!RemoveFirst(s, x) = RemoveAt(s, Where(s, x))
  <2> HAVE Where(s, x) # 0
  <2>1. \E i \in 1..Len(s) : s[i] = x
    BY <1>7
  <2>2. Q!RemoveFirst(s, x) = Q!RemoveAt(s, Q!SelectInSeq(s, LAMBDA v : v = x))
    BY <2>1 DEF Q!RemoveFirst
  <2> QED BY <2>2 DEF Q!SelectInSeq, Q!Min, Q!RemoveAt, Where, SelectInSeq, Min, RemoveAt
<1> QED BY <1>6, <1>7, <1>8, <1>9

(* Ordered insertion and removal, with the search.                           *)
LEMMA AddOrderedStep ==
    ASSUME IInv, NEW l \in Lists, NEW x \in Members, AddToListOrdered(l, x)
    PROVE  Stores(l, Q!Insert(Contents[l], x))
<1> DEFINE q == MembersOf(heap, list[l])
           s == Forward(l)
           i == Lower(q, x)
<1>1. /\ q = Held(heap, s) /\ q \in Seq(Members) /\ Len(q) = Len(s) /\ Contents[l] = q
      /\ Sound(In(l), s) /\ In(l).heap = heap
  BY IInvOf DEF Contents
<1>2. Aligned(In(l).heap, s)
  BY IInvOf DEF AddToListOrdered
<1>3. Store(l, IF i = 0 THEN Added(In(l), x) ELSE InsertedBefore(In(l), s[i], x))
  BY DEF AddToListOrdered, Lower
<1> HIDE DEF q, i
<1>4. CASE i = 0
  <2> DEFINE n == Added(In(l), x)
             t == Append(s, Len(In(l).heap) + 1)
  <2>1. Becomes(In(l), s, n, t) /\ Held(n.heap, t) = Append(Held(In(l).heap, s), x)
    BY <1>1, AddedBecomes
  <2>2. Store(l, n)
    BY <1>3, <1>4
  <2> HIDE DEF n, t
  <2>3. Stores(l, Held(n.heap, t))
    BY <2>1, <2>2, StoreStep
  <2>4. Q!Insert(q, x) = Append(q, x)
    BY <1>1, <1>4, FirstIs DEF i
  <2> QED BY <1>1, <2>1, <2>3, <2>4
<1>5. CASE i # 0
  <2> DEFINE n == InsertedBefore(In(l), s[i], x)
             t == InsertAt(s, i, Len(In(l).heap) + 1)
  <2>1. i \in 1..Len(s)
    BY <1>1, <1>5, FirstIs DEF i
  <2>2. Becomes(In(l), s, n, t) /\ Held(n.heap, t) = InsertAt(Held(In(l).heap, s), i, x)
    BY <1>1, <1>2, <2>1, InsertedBecomes
  <2>3. Store(l, n)
    BY <1>3, <1>5
  <2> HIDE DEF n, t
  <2>4. Stores(l, Held(n.heap, t))
    BY <2>2, <2>3, StoreStep
  <2>5. Q!Insert(q, x) = InsertAt(q, i, x)
    BY <1>1, <1>5, FirstIs DEF i
  <2> QED BY <1>1, <2>2, <2>4, <2>5
<1> QED BY <1>4, <1>5

LEMMA RemoveStep ==
    ASSUME IInv, NEW l \in Lists, NEW x \in Members, RemoveFromList(l, x)
    PROVE  Stores(l, Q!RemoveFirst(Contents[l], x))
<1> DEFINE q == MembersOf(heap, list[l])
           s == Forward(l)
           i == Where(q, x)
           n == Unlinked(In(l), s[i])
           t == RemoveAt(s, i)
<1>1. /\ q = Held(heap, s) /\ q \in Seq(Members) /\ Len(q) = Len(s) /\ Contents[l] = q
      /\ Sound(In(l), s) /\ In(l).heap = heap
  BY IInvOf DEF Contents
<1>2. Aligned(In(l).heap, s)
  BY IInvOf DEF RemoveFromList
<1>3. i # 0 /\ Store(l, n)
  BY DEF RemoveFromList, Where
<1> HIDE DEF q, i
<1>4. i \in 1..Len(s) /\ Q!RemoveFirst(q, x) = RemoveAt(q, i)
  BY <1>1, <1>3, FirstIs DEF i
<1>5. Becomes(In(l), s, n, t) /\ Held(n.heap, t) = RemoveAt(Held(In(l).heap, s), i)
  BY <1>1, <1>2, <1>4, UnlinkedBecomes
<1> HIDE DEF n, t
<1>6. Stores(l, Held(n.heap, t))
  BY <1>3, <1>5, StoreStep
<1> QED BY <1>1, <1>4, <1>5, <1>6

(* free_list leaves an empty list, and its elements to nobody.               *)
LEMMA FreeStep ==
    ASSUME IInv, NEW l \in Lists, FreeList(l)
    PROVE  Stores(l, <<>>)
<1>1. /\ heap' = heap /\ list' = [list EXCEPT ![l] = Empty]
      /\ freed' = freed \cup ToSet(Forward(l))
  BY DEF FreeList
<1>2. /\ Heap(heap) /\ Len(heap) <= MaxElements /\ list \in [Lists -> Header]
      /\ \A k \in Lists : Strung(heap, list[k], Forward(k))
  BY DEF IInv
<1>3. /\ list' \in [Lists -> Header] /\ list'[l] = Empty
      /\ \A k \in Lists \ {l} : list'[k] = list[k]
  BY <1>1, <1>2, EmptyIsStrung
<1>4. Strung(heap, Empty, <<>>) /\ Aligned(heap, <<>>) /\ Forward(l)' = <<>>
  <2>1. Strung(heap, Empty, <<>>) /\ Aligned(heap, <<>>)
    BY <1>2, EmptyIsStrung
  <2>2. Iterate(heap, Empty) = <<>>
    BY <1>2, <2>1, IterateIs DEF Strung
  <2> QED BY <1>1, <1>3, <2>1, <2>2 DEF Forward
<1>5. \A k \in Lists \ {l} : Forward(k)' = Forward(k)
  BY <1>1, <1>3 DEF Forward
<1>6. IInv'
  <2>1. freed' \subseteq 1..Len(heap)
    <3>1. \A i \in DOMAIN Forward(l) : Forward(l)[i] \in 1..Len(heap)
      BY <1>2, StrungOf
    <3> QED BY <1>1, <3>1 DEF IInv, ToSet
  <2>2. \A k \in Lists : /\ Strung(heap', list'[k], Forward(k)')
                         /\ \A i \in 1..Len(Forward(k)') : (Forward(k)')[i] \notin freed'
    <3> TAKE k \in Lists
    <3>1. CASE k = l
      BY <1>1, <1>3, <1>4, <3>1
    <3>2. CASE k # l
      <4>1. DOMAIN Forward(l) = 1..Len(Forward(l))
        BY <1>2, StrungOf
      <4>2. \A i \in 1..Len(Forward(k)) : Forward(k)[i] \notin ToSet(Forward(l))
        BY <3>2, <4>1 DEF IInv, ApartFrom, ToSet
      <4>3. \A i \in 1..Len(Forward(k)) : Forward(k)[i] \notin freed
        BY DEF IInv
      <4> QED BY <1>1, <1>2, <1>3, <1>5, <3>2, <4>2, <4>3
    <3> QED BY <3>1, <3>2
  <2>3. \A j, k \in Lists : j # k => ApartFrom(Forward(j)', Forward(k)')
    BY <1>4, <1>5 DEF IInv, ApartFrom
  <2> QED BY <1>1, <1>2, <1>3, <2>1, <2>2, <2>3 DEF IInv
<1>7. Contents' = [Contents EXCEPT ![l] = <<>>]
  <2>1. MembersOf(heap, Empty) = <<>>
    <3>1. MembersOf(heap, Empty) = Held(heap, <<>>)
      BY <1>2, <1>4, MembersAre
    <3> QED BY <3>1 DEF Held
  <2> QED BY <1>1, <1>3, <2>1 DEF Contents
<1>8. ASSUME NEW k \in Lists, Integral(k) PROVE Integral(k)'
  <2>1. CASE k = l
    <3>1. ReverseIterate(heap, Empty) = Reverse(<<>>)
      BY <1>2, <1>4, IntegralIsAligned
    <3> QED BY <1>1, <1>3, <1>4, <2>1, <3>1 DEF Integral, Backward
  <2>2. CASE k # l
    BY <1>1, <1>3, <1>5, <1>8, <2>2 DEF Integral, Backward
  <2> QED BY <2>1, <2>2
<1> QED BY <1>6, <1>7, <1>8 DEF Stores

-----------------------------------------------------------------------------
(* One list joined to another.                                               *)
LEMMA ShiftedIs ==
    ASSUME NEW hp \in Seq(Elem), NEW t, NEW k \in Nat
    PROVE  /\ Shifted(hp, t, k) \in Seq(Elem) /\ Len(Shifted(hp, t, k)) = Len(hp)
           /\ \A a \in 1..Len(hp) :
                 /\ Shifted(hp, t, k)[a].next = hp[a].next
                 /\ Shifted(hp, t, k)[a].prev = hp[a].prev
                 /\ Shifted(hp, t, k)[a].mbr = hp[a].mbr
                 /\ Contains(t, a) => Shifted(hp, t, k)[a].ordinal = hp[a].ordinal + k
                 /\ ~Contains(t, a) => Shifted(hp, t, k)[a] = hp[a]
<1> DEFINE h == Shifted(hp, t, k)
<1>1. /\ Len(hp) \in Nat
      /\ \A a \in 1..Len(hp) : hp[a] \in Elem /\ hp[a].ordinal + k \in Nat
  <2>1. \A a \in 1..Len(hp) : hp[a] \in Elem
    OBVIOUS
  <2>2. \A a \in 1..Len(hp) : hp[a].ordinal \in Nat
    BY <2>1 DEF Elem
  <2>3. \A n \in Nat : n + k \in Nat
    OBVIOUS
  <2>4. Len(hp) \in Nat
    OBVIOUS
  <2>5. \A a \in 1..Len(hp) : hp[a].ordinal + k \in Nat
    BY <2>2, <2>3
  <2> QED BY <2>1, <2>4, <2>5
<1>2. h = [a \in 1..Len(hp) |->
              IF Contains(t, a) THEN Numbering(hp, a, hp[a].ordinal + k) ELSE hp[a]]
  BY DEF Shifted
<1> HIDE DEF h
<1>3. ASSUME NEW a \in 1..Len(hp)
      PROVE  /\ h[a] \in Elem
             /\ h[a].next = hp[a].next /\ h[a].prev = hp[a].prev /\ h[a].mbr = hp[a].mbr
             /\ Contains(t, a) => h[a].ordinal = hp[a].ordinal + k
             /\ ~Contains(t, a) => h[a] = hp[a]
  <2>1. CASE Contains(t, a)
    <3>1. h[a] = Numbering(hp, a, hp[a].ordinal + k)
      BY <1>2, <2>1
    <3>2. hp[a].ordinal + k \in Nat
      BY <1>1
    <3> QED BY <2>1, <3>1, <3>2, NumberingIs
  <2>2. CASE ~Contains(t, a)
    BY <1>1, <1>2, <2>2
  <2> QED BY <2>1, <2>2
<1>4. h \in [1..Len(hp) -> Elem]
  BY <1>2, <1>3
<1>5. h \in Seq(Elem) /\ Len(h) = Len(hp)
  BY <1>1, <1>4
<1> QED BY <1>3, <1>5 DEF h

(* The heap and the record of move_list, s being joined by t.                *)
Joining(h, hd, hp, s, t) ==
    /\ h \in Seq(Elem) /\ Len(h) = Len(hp)
    /\ \A a \in 1..Len(hp) :
          /\ h[a].next = IF Len(s) # 0 /\ a = s[Len(s)] THEN t[1] ELSE hp[a].next
          /\ h[a].prev = hp[a].prev
          /\ h[a].mbr = hp[a].mbr
          /\ h[a].ordinal = hp[a].ordinal + (IF \E j \in 1..Len(t) : t[j] = a THEN Len(s) ELSE 0)
          /\ \/ h[a] = hp[a]
             \/ \E i \in 1..Len(s) : s[i] = a
             \/ \E j \in 1..Len(t) : t[j] = a
    /\ hd.count = Len(s) + Len(t)
    /\ hd.head = IF Len(s) = 0 THEN t[1] ELSE s[1]
    /\ hd.tail = t[Len(t)]

(* What move_list writes.                                                    *)
LEMMA JoinedIs ==
    ASSUME IInv, NEW l \in Lists, NEW src \in Lists \ {l}, Len(Forward(src)) # 0
    PROVE  Joining(JoinedHeap(l, src), Both(l, src, list[src].tail), heap,
                   Forward(l), Forward(src))
<1> DEFINE s == Forward(l)
           t == Forward(src)
           K == Len(s)
           h == JoinedHeap(l, src)
           hd == Both(l, src, list[src].tail)
<1>1. Strung(heap, list[l], s) /\ Strung(heap, list[src], t) /\ Heap(heap) /\ ApartFrom(s, t)
  BY DEF IInv
<1>2. /\ heap \in Seq(Elem) /\ K \in Nat
      /\ \A i \in 1..K : s[i] \in 1..Len(heap)
      /\ \A i \in 1..Len(t) : t[i] \in 1..Len(heap)
      /\ \A a \in 1..Len(heap) : heap[a].ordinal \in Nat
      /\ Len(t) \in Nat
  BY <1>1, HeapOf, StrungOf
<1>3. /\ list[l].count = K /\ list[src].count = Len(t)
      /\ list[l].head = IF K = 0 THEN Null ELSE s[1]
      /\ list[l].tail = IF K = 0 THEN Null ELSE s[K]
      /\ list[src].head = t[1] /\ list[src].tail = t[Len(t)]
  BY <1>1 DEF Strung, Chained
<1>4. list[l].tail = Null <=> K = 0
  <2>1. K # 0 => K \in 1..K
    BY <1>2
  <2>2. K # 0 => s[K] # Null
    BY <1>2, <2>1 DEF Null
  <2> QED BY <1>3, <2>2
<1>5. /\ hd.count = K + Len(t) /\ hd.tail = t[Len(t)]
      /\ hd.head = IF K = 0 THEN t[1] ELSE s[1]
  BY <1>3, <1>4 DEF Both
<1>6. t[1] \in Nat
  <2>1. 1 \in 1..Len(t)
    BY <1>2
  <2>2. t[1] \in 1..Len(heap)
    BY <1>2, <2>1
  <2> QED BY <2>2
<1> HIDE DEF hd
<1>7. CASE K = 0
  <2>1. h = heap
    BY <1>4, <1>7 DEF JoinedHeap, Linked
  <2> HIDE DEF h
  <2>2. \A a \in 1..Len(heap) : heap[a].ordinal = heap[a].ordinal + 0
    BY <1>2
  <2> QED BY <1>2, <1>5, <1>7, <2>1, <2>2 DEF Joining, h, hd
<1>8. CASE K # 0
  <2> DEFINE g == Shifted(heap, t, K)
  <2>1. h = Linking(g, s[K], t[1])
    BY <1>3, <1>4, <1>8 DEF JoinedHeap, Linked
  <2>2. /\ g \in Seq(Elem) /\ Len(g) = Len(heap)
        /\ \A a \in 1..Len(heap) :
              /\ g[a].next = heap[a].next
              /\ g[a].prev = heap[a].prev
              /\ g[a].mbr = heap[a].mbr
              /\ Contains(t, a) => g[a].ordinal = heap[a].ordinal + K
              /\ ~Contains(t, a) => g[a] = heap[a]
    BY <1>2, ShiftedIs
  <2> HIDE DEF g
  <2>3. /\ h \in Seq(Elem) /\ Len(h) = Len(heap)
        /\ \A a \in 1..Len(heap) :
              /\ h[a].next = IF a = s[K] THEN t[1] ELSE g[a].next
              /\ h[a].mbr = g[a].mbr
              /\ h[a].prev = g[a].prev
              /\ h[a].ordinal = g[a].ordinal
              /\ a # s[K] => h[a] = g[a]
    BY <1>6, <2>1, <2>2, LinkingIs
  <2> HIDE DEF h
  <2>4. K \in 1..K
    BY <1>2, <1>8
  <2>5. ASSUME NEW a \in 1..Len(heap)
        PROVE  h[a].ordinal = heap[a].ordinal + (IF \E j \in 1..Len(t) : t[j] = a THEN K ELSE 0)
    <3>1. CASE Contains(t, a)
      BY <2>2, <2>3, <3>1 DEF Contains
    <3>2. CASE ~Contains(t, a)
      <4>1. h[a].ordinal = heap[a].ordinal /\ heap[a].ordinal \in Nat
        BY <1>2, <2>2, <2>3, <3>2
      <4> QED BY <3>2, <4>1 DEF Contains
    <3> QED BY <3>1, <3>2
  <2>6. ASSUME NEW a \in 1..Len(heap)
        PROVE  \/ h[a] = heap[a]
               \/ \E i \in 1..K : s[i] = a
               \/ \E j \in 1..Len(t) : t[j] = a
    <3>1. CASE Contains(t, a)
      BY <3>1 DEF Contains
    <3>2. CASE ~Contains(t, a)
      BY <2>2, <2>3, <2>4, <3>2
    <3> QED BY <3>1, <3>2
  <2>7. ASSUME NEW a \in 1..Len(heap)
        PROVE  /\ h[a].next = IF K # 0 /\ a = s[K] THEN t[1] ELSE heap[a].next
               /\ h[a].prev = heap[a].prev /\ h[a].mbr = heap[a].mbr
    BY <1>8, <2>2, <2>3
  <2> QED BY <1>5, <2>3, <2>5, <2>6, <2>7 DEF Joining, h, hd
<1> QED BY <1>7, <1>8

(* Its places: those of s, then those of t.                                  *)
LEMMA ConcatIs ==
    ASSUME NEW S, NEW s \in Seq(S), NEW t \in Seq(S)
    PROVE  /\ s \o t \in Seq(S) /\ Len(s \o t) = Len(s) + Len(t)
           /\ \A i \in 1..Len(s) : (s \o t)[i] = s[i]
           /\ \A i \in 1..Len(t) : (s \o t)[Len(s) + i] = t[i]
           /\ \A i \in 1..Len(s \o t) :
                 \/ i \in 1..Len(s)
                 \/ \E j \in 1..Len(t) : i = Len(s) + j
<1> DEFINE u == s \o t
<1>1. /\ u \in Seq(S) /\ Len(u) = Len(s) + Len(t)
      /\ \A i \in 1..Len(s) + Len(t) : u[i] = IF i <= Len(s) THEN s[i] ELSE t[i - Len(s)]
  BY ConcatProperties
<1>2. Len(s) \in Nat /\ Len(t) \in Nat
  OBVIOUS
<1> HIDE DEF u
<1>3. \A i \in 1..Len(s) : u[i] = s[i]
  BY <1>1, <1>2
<1>4. ASSUME NEW i \in 1..Len(t) PROVE u[Len(s) + i] = t[i]
  <2>1. /\ Len(s) + i \in 1..Len(s) + Len(t) /\ ~(Len(s) + i <= Len(s))
        /\ (Len(s) + i) - Len(s) = i
    BY <1>2
  <2> QED BY <1>1, <2>1
<1>5. ASSUME NEW i \in 1..Len(u), i \notin 1..Len(s)
      PROVE  \E j \in 1..Len(t) : i = Len(s) + j
  <2>1. i - Len(s) \in 1..Len(t) /\ i = Len(s) + (i - Len(s))
    BY <1>1, <1>2, <1>5
  <2> QED BY <2>1
<1> QED BY <1>1, <1>3, <1>4, <1>5 DEF u

(* The joined list is strung, its ordinals go on counting.                   *)
LEMMA JoinedStrung ==
    ASSUME NEW hp, Heap(hp), NEW hs, NEW ht, NEW s, NEW t,
           Strung(hp, hs, s), Strung(hp, ht, t), ApartFrom(s, t), Len(t) # 0,
           NEW h, NEW hd, Joining(h, hd, hp, s, t)
    PROVE  /\ Heap(h) /\ Strung(h, hd, s \o t)
           /\ Held(h, s \o t) = Held(hp, s) \o Held(hp, t)
<1> DEFINE K == Len(s)
           M == Len(t)
           u == s \o t
<1>1. /\ s \in Seq(1..Len(hp)) /\ t \in Seq(1..Len(hp)) /\ K \in Nat /\ M \in Nat
      /\ \A i \in 1..K : s[i] \in 1..Len(hp)
      /\ \A i \in 1..M : t[i] \in 1..Len(hp)
      /\ \A i, j \in 1..K : s[i] = s[j] => i = j
      /\ \A i, j \in 1..M : t[i] = t[j] => i = j
      /\ Len(hp) \in Nat
      /\ \A a \in 1..Len(hp) : /\ hp[a].ordinal \in Nat /\ hp[a].mbr \in Members
                               /\ hp[a].next \in 0..Len(hp) /\ hp[a].prev \in 0..Len(hp)
  BY StrungOf, HeapOf
<1>2. /\ h \in Seq(Elem) /\ Len(h) = Len(hp)
      /\ \A a \in 1..Len(hp) :
            /\ h[a].next = IF K # 0 /\ a = s[K] THEN t[1] ELSE hp[a].next
            /\ h[a].prev = hp[a].prev
            /\ h[a].mbr = hp[a].mbr
            /\ h[a].ordinal = hp[a].ordinal + (IF \E j \in 1..M : t[j] = a THEN K ELSE 0)
      /\ hd.count = K + M
      /\ hd.head = IF K = 0 THEN t[1] ELSE s[1]
      /\ hd.tail = t[M]
  BY DEF Joining
<1>3. /\ \A i \in 1..K : /\ hp[s[i]].next = After(s, i)
                         /\ hp[s[i]].prev \in {Null, Before(s, i)}
                         /\ hp[s[i]].ordinal = i - 1
      /\ \A i \in 1..M : /\ hp[t[i]].next = After(t, i)
                         /\ hp[t[i]].prev \in {Null, Before(t, i)}
                         /\ hp[t[i]].ordinal = i - 1
  BY DEF Strung, Chained
<1>4. \A i \in 1..K, j \in 1..M : s[i] # t[j]
  BY DEF ApartFrom
<1>5. /\ u \in Seq(1..Len(hp)) /\ Len(u) = K + M
      /\ \A i \in 1..K : u[i] = s[i]
      /\ \A i \in 1..M : u[K + i] = t[i]
      /\ \A i \in 1..Len(u) : i \in 1..K \/ \E j \in 1..M : i = K + j
  <2> DEFINE A == 1..Len(hp)
  <2>1. s \in Seq(A) /\ t \in Seq(A)
    BY <1>1
  <2> HIDE DEF A
  <2>2. /\ u \in Seq(A) /\ Len(u) = K + M
        /\ \A i \in 1..K : u[i] = s[i]
        /\ \A i \in 1..M : u[K + i] = t[i]
        /\ \A i \in 1..Len(u) : i \in 1..K \/ \E j \in 1..M : i = K + j
    BY <2>1, ConcatIs
  <2> HIDE DEF u
  <2> QED BY <2>2 DEF A
<1> HIDE DEF u, K, M
<1>6. /\ 1 \in 1..M /\ M \in 1..M /\ Len(u) # 0 /\ Len(u) = K + M
      /\ K # 0 => 1 \in 1..K /\ K \in 1..K
      /\ K = 0 => K + 1 = 1
  BY <1>1, <1>5 DEF M
<1>7. Heap(h)
  <2>1. t[1] \in 0..Len(hp)
    BY <1>1, <1>6
  <2>2. \A a \in 1..Len(hp) : h[a].next \in 0..Len(hp) /\ h[a].prev \in 0..Len(hp)
    BY <1>1, <1>2, <2>1
  <2> QED BY <1>2, <2>2 DEF Heap
<1>8. Distinct(u)
  <2> SUFFICES ASSUME NEW i \in 1..Len(u), NEW j \in 1..Len(u), u[i] = u[j] PROVE i = j
    BY DEF Distinct
  <2>1. CASE i \in 1..K /\ j \in 1..K
    BY <1>1, <1>5, <2>1
  <2>2. ASSUME NEW p \in 1..M, i = K + p, j \in 1..K PROVE i = j
    BY <1>4, <1>5, <2>2
  <2>3. ASSUME NEW p \in 1..M, j = K + p, i \in 1..K PROVE i = j
    BY <1>4, <1>5, <2>3
  <2>4. ASSUME NEW p \in 1..M, NEW q \in 1..M, i = K + p, j = K + q PROVE i = j
    <3>1. t[p] = t[q]
      BY <1>5, <2>4
    <3> QED BY <1>1, <2>4, <3>1
  <2> QED BY <1>5, <2>1, <2>2, <2>3, <2>4
<1>9. hd.count = Len(u) /\ hd.head = u[1] /\ hd.tail = u[Len(u)]
  <2>1. u[Len(u)] = t[M]
    BY <1>5, <1>6
  <2>2. CASE K = 0
    <3>1. u[K + 1] = t[1]
      BY <1>5, <1>6
    <3> QED BY <1>2, <1>6, <2>1, <2>2, <3>1
  <2>3. CASE K # 0
    BY <1>2, <1>5, <1>6, <2>1, <2>3
  <2> QED BY <2>2, <2>3
<1>10. ASSUME NEW i \in 1..K
       PROVE  /\ h[u[i]].next = After(u, i)
              /\ h[u[i]].prev \in {Null, Before(u, i)}
              /\ h[u[i]].ordinal = i - 1
              /\ h[u[i]].mbr = hp[s[i]].mbr
  <2>1. u[i] = s[i] /\ s[i] \in 1..Len(hp) /\ i \in 1..Len(u) /\ i # Len(u)
    BY <1>1, <1>5, <1>6
  <2>2. h[u[i]].next = After(u, i)
    <3>1. CASE i = K
      <4>1. K # 0 /\ u[i + 1] = t[1]
        BY <1>1, <1>5, <1>6, <3>1
      <4> QED BY <1>2, <2>1, <3>1, <4>1 DEF After
    <3>2. CASE i # K
      <4>1. i + 1 \in 1..K /\ s[i] # s[K] /\ u[i + 1] = s[i + 1]
        <5>1. i + 1 \in 1..K /\ K \in 1..K
          BY <1>1, <3>2
        <5>2. s[i] # s[K]
          BY <1>1, <3>2, <5>1
        <5> QED BY <1>5, <5>1, <5>2
      <4>2. After(s, i) = s[i + 1] /\ After(u, i) = u[i + 1]
        BY <2>1, <3>2 DEF After, K
      <4> QED BY <1>2, <1>3, <2>1, <4>1, <4>2
    <3> QED BY <3>1, <3>2
  <2>3. Before(u, i) = Before(s, i)
    <3>1. i # 1 => i - 1 \in 1..K
      BY <1>1
    <3> QED BY <1>5, <3>1 DEF Before
  <2>4. ~\E j \in 1..M : t[j] = s[i]
    BY <1>4
  <2>5. h[u[i]].ordinal = i - 1
    <3>1. hp[s[i]].ordinal = i - 1 /\ (i - 1) + 0 = i - 1
      BY <1>1, <1>3
    <3>2. h[s[i]].ordinal = hp[s[i]].ordinal + 0
      BY <1>2, <2>1, <2>4
    <3> QED BY <2>1, <3>1, <3>2
  <2>6. h[u[i]].prev = hp[s[i]].prev /\ h[u[i]].mbr = hp[s[i]].mbr
    BY <1>2, <2>1
  <2> QED BY <1>3, <2>2, <2>3, <2>5, <2>6
<1>11. ASSUME NEW j \in 1..M, NEW i, i = K + j
       PROVE  /\ h[u[i]].next = After(u, i)
              /\ h[u[i]].prev \in {Null, Before(u, i)}
              /\ h[u[i]].ordinal = i - 1
              /\ h[u[i]].mbr = hp[t[j]].mbr
  <2>1. u[i] = t[j] /\ t[j] \in 1..Len(hp) /\ (i = Len(u) <=> j = M)
    <3>1. u[i] = t[j]
      BY <1>5, <1>11
    <3>2. t[j] \in 1..Len(hp)
      BY <1>1
    <3>3. K \in Nat /\ M \in Nat /\ j \in Nat /\ Len(u) = K + M
      BY <1>1, <1>6
    <3>4. i = Len(u) <=> j = M
      BY <1>11, <3>3
    <3> QED BY <3>1, <3>2, <3>4
  <2>2. h[u[i]].next = hp[t[j]].next
    <3>1. ~(K # 0 /\ t[j] = s[K])
      BY <1>4, <1>6
    <3> QED BY <1>2, <2>1, <3>1
  <2>3. After(t, j) = After(u, i)
    <3>1. j # M => j + 1 \in 1..M /\ i + 1 = K + (j + 1)
      BY <1>1, <1>11
    <3>2. j # M => u[i + 1] = t[j + 1]
      BY <1>5, <3>1
    <3> QED BY <2>1, <3>2 DEF After, M
  <2>4. Before(t, j) \in {Null, Before(u, i)}
    <3>1. j # 1 => j - 1 \in 1..M /\ i - 1 = K + (j - 1) /\ i # 1
      BY <1>1, <1>11
    <3>2. j # 1 => u[i - 1] = t[j - 1]
      BY <1>5, <3>1
    <3> QED BY <3>1, <3>2 DEF Before
  <2>5. h[u[i]].ordinal = i - 1
    <3>1. \E p \in 1..M : t[p] = t[j]
      OBVIOUS
    <3>2. h[t[j]].ordinal = hp[t[j]].ordinal + K
      BY <1>2, <2>1, <3>1
    <3>3. hp[t[j]].ordinal = j - 1
      BY <1>3
    <3>4. (j - 1) + K = i - 1
      BY <1>1, <1>11
    <3> QED BY <2>1, <3>2, <3>3, <3>4
  <2> QED BY <1>2, <1>3, <2>1, <2>2, <2>3, <2>4, <2>5
<1>12. Strung(h, hd, u)
  <2>1. \A i \in 1..Len(u) : /\ h[u[i]].next = After(u, i)
                             /\ h[u[i]].prev \in {Null, Before(u, i)}
                             /\ h[u[i]].ordinal = i - 1
    <3> TAKE i \in 1..Len(u)
    <3>1. CASE i \in 1..K
      BY <1>10, <3>1
    <3>2. CASE \E j \in 1..M : i = K + j
      BY <1>11, <3>2
    <3> QED BY <1>5, <3>1, <3>2
  <2>2. u \in Seq(1..Len(h))
    BY <1>2, <1>5
  <2> QED BY <1>6, <1>8, <1>9, <2>1, <2>2 DEF Strung, Chained
<1>13. Held(h, u) = Held(hp, s) \o Held(hp, t)
  <2> DEFINE p == Held(hp, s)
             q == Held(hp, t)
             r == Held(h, u)
  <2>1. /\ p \in Seq(Members) /\ Len(p) = K /\ \A i \in 1..K : p[i] = hp[s[i]].mbr
        /\ q \in Seq(Members) /\ Len(q) = M /\ \A i \in 1..M : q[i] = hp[t[i]].mbr
        /\ r \in Seq(Members) /\ Len(r) = Len(u) /\ \A i \in 1..Len(u) : r[i] = h[u[i]].mbr
    BY <1>7, <1>12, MembersAre DEF Held, K, M
  <2> HIDE DEF p, q, r
  <2>2. /\ p \o q \in Seq(Members) /\ Len(p \o q) = K + M
        /\ \A i \in 1..K : (p \o q)[i] = p[i]
        /\ \A i \in 1..M : (p \o q)[K + i] = q[i]
    <3>1. p \in Seq(Members) /\ q \in Seq(Members)
      BY <2>1
    <3>2. /\ p \o q \in Seq(Members) /\ Len(p \o q) = Len(p) + Len(q)
          /\ \A i \in 1..Len(p) : (p \o q)[i] = p[i]
          /\ \A i \in 1..Len(q) : (p \o q)[Len(p) + i] = q[i]
      BY <3>1, ConcatIs
    <3>3. Len(p) = K /\ Len(q) = M
      BY <2>1
    <3> QED BY <3>2, <3>3
  <2>3. ASSUME NEW i \in 1..Len(u) PROVE r[i] = (p \o q)[i]
    <3>1. CASE i \in 1..K
      BY <1>10, <2>1, <2>2, <3>1
    <3>2. ASSUME NEW j \in 1..M, i = K + j PROVE r[i] = (p \o q)[i]
      <4>1. r[i] = h[u[i]].mbr /\ h[u[i]].mbr = hp[t[j]].mbr
        BY <1>11, <2>1, <3>2
      <4>2. (p \o q)[i] = q[j] /\ q[j] = hp[t[j]].mbr
        BY <2>1, <2>2, <3>2
      <4> QED BY <4>1, <4>2
    <3> QED BY <1>5, <3>1, <3>2
  <2> DEFINE v == p \o q
  <2>4. v \in Seq(Members) /\ Len(v) = Len(r) /\ \A i \in 1..Len(r) : r[i] = v[i]
    BY <1>5, <2>1, <2>2, <2>3
  <2> HIDE DEF v
  <2>5. r = v
    BY <2>1, <2>4, SeqEqual
  <2> QED BY <2>5 DEF p, q, r, v
<1> QED BY <1>7, <1>12, <1>13 DEF u

(* move_list: the one step that may spoil reading backwards.                 *)
LEMMA MoveStep ==
    ASSUME IInv, NEW l \in Lists, NEW src \in Lists \ {l}, MoveList(l, src)
    PROVE  /\ IInv'
           /\ Contents' = [Contents EXCEPT ![l] = @ \o Contents[src], ![src] = <<>>]
           /\ \A k \in Lists :
                 Integral(k) => \/ Integral(k)'
                                \/ /\ k = l /\ Forward(src) # <<>> /\ list'[src] = Empty
                                   /\ Forward(l) # <<>> \/ ~Integral(src)
                                   /\ Forward(l)' = Forward(l) \o Forward(src)
<1> DEFINE s == Forward(l)
           t == Forward(src)
           h == JoinedHeap(l, src)
           hd == Both(l, src, list[src].tail)
           u == s \o t
<1>1. /\ Heap(heap) /\ Len(heap) <= MaxElements /\ list \in [Lists -> Header]
      /\ Strung(heap, list[l], s) /\ Strung(heap, list[src], t) /\ ApartFrom(s, t)
      /\ freed \subseteq 1..Len(heap)
  BY DEF IInv
<1>2. /\ heap' = h /\ freed' = freed /\ list' = [list EXCEPT ![l] = hd, ![src] = Empty]
      /\ list[src].head # Null
  BY DEF MoveList, Joined
<1>3. Len(t) # 0
  BY <1>1, <1>2 DEF Strung, Chained
<1>4. Joining(h, hd, heap, s, t)
  BY <1>3, JoinedIs
<1>5. hd \in Header
  <2>1. /\ list[l].count \in Nat /\ list[src].count \in Nat
        /\ list[l].head \in Nat /\ list[src].head \in Nat /\ list[src].tail \in Nat
    BY <1>1 DEF Header
  <2>2. list[l].count + list[src].count \in Nat
    BY <2>1
  <2> QED BY <2>1, <2>2 DEF Both, Header
<1>6. /\ \A i \in 1..Len(s) : s[i] \in 1..Len(heap)
      /\ \A i \in 1..Len(t) : t[i] \in 1..Len(heap)
      /\ s \in Seq(1..Len(heap)) /\ t \in Seq(1..Len(heap))
  BY <1>1, StrungOf
<1> HIDE DEF h, hd, s, t
<1>7. Heap(h) /\ Strung(h, hd, u) /\ Held(h, u) = Held(heap, s) \o Held(heap, t)
  BY <1>1, <1>3, <1>4, JoinedStrung
<1>8. /\ Len(h) = Len(heap)
      /\ \A a \in 1..Len(heap) : \/ h[a] = heap[a]
                                 \/ \E i \in 1..Len(s) : s[i] = a
                                 \/ \E j \in 1..Len(t) : t[j] = a
  BY <1>4 DEF Joining
<1>9. /\ list' \in [Lists -> Header] /\ list'[l] = hd /\ list'[src] = Empty
      /\ \A k \in Lists \ {l, src} : list'[k] = list[k]
  BY <1>1, <1>2, <1>5, EmptyIsStrung
<1>10. \A i \in 1..Len(u) : \/ \E j \in 1..Len(s) : u[i] = s[j]
                            \/ \E j \in 1..Len(t) : u[i] = t[j]
  <2> DEFINE A == 1..Len(heap)
  <2>1. s \in Seq(A) /\ t \in Seq(A)
    BY <1>6
  <2> HIDE DEF A
  <2>2. /\ \A i \in 1..Len(s) : u[i] = s[i]
        /\ \A i \in 1..Len(t) : u[Len(s) + i] = t[i]
        /\ \A i \in 1..Len(u) : i \in 1..Len(s) \/ \E j \in 1..Len(t) : i = Len(s) + j
    BY <2>1, ConcatIs
  <2> HIDE DEF u
  <2> TAKE i \in 1..Len(u)
  <2>3. CASE i \in 1..Len(s)
    BY <2>2, <2>3
  <2>4. ASSUME NEW j \in 1..Len(t), i = Len(s) + j PROVE u[i] = t[j]
    BY <2>2, <2>4
  <2>5. CASE \E j \in 1..Len(t) : i = Len(s) + j
    <3>1. PICK j \in 1..Len(t) : i = Len(s) + j
      BY <2>5
    <3>2. u[i] = t[j]
      BY <2>4, <3>1
    <3> QED BY <3>1, <3>2
  <2>6. i \in 1..Len(s) \/ \E j \in 1..Len(t) : i = Len(s) + j
    BY <2>2
  <2> QED BY <2>3, <2>5, <2>6
<1> HIDE DEF u
<1>11. Forward(l)' = u
  <2>1. Iterate(h, hd) = u
    BY <1>7, IterateIs DEF Strung
  <2> QED BY <1>2, <1>9, <2>1 DEF Forward
<1>12. /\ Strung(h, Empty, <<>>) /\ Aligned(h, <<>>) /\ Forward(src)' = <<>>
  <2>1. Strung(h, Empty, <<>>) /\ Aligned(h, <<>>)
    BY <1>7, EmptyIsStrung
  <2>2. Iterate(h, Empty) = <<>>
    BY <1>7, <2>1, IterateIs DEF Strung
  <2> QED BY <1>2, <1>9, <2>1, <2>2 DEF Forward
<1>13. ASSUME NEW k \in Lists \ {l, src}
       PROVE  /\ Strung(h, list[k], Forward(k)) /\ Forward(k)' = Forward(k)
              /\ Held(h, Forward(k)) = Held(heap, Forward(k))
              /\ Aligned(heap, Forward(k)) => Aligned(h, Forward(k))
              /\ ApartFrom(Forward(k), s) /\ ApartFrom(Forward(k), t)
              /\ ApartFrom(s, Forward(k)) /\ ApartFrom(t, Forward(k))
  <2>1. /\ Strung(heap, list[k], Forward(k))
        /\ ApartFrom(Forward(k), s) /\ ApartFrom(Forward(k), t)
        /\ ApartFrom(s, Forward(k)) /\ ApartFrom(t, Forward(k))
    BY DEF IInv, s, t
  <2>2. \A i \in 1..Len(Forward(k)) : Forward(k)[i] \in 1..Len(heap)
    BY <2>1, StrungOf
  <2>3. \A i \in 1..Len(Forward(k)) : h[Forward(k)[i]] = heap[Forward(k)[i]]
    <3> TAKE i \in 1..Len(Forward(k))
    <3>1. /\ ~\E j \in 1..Len(s) : s[j] = Forward(k)[i]
          /\ ~\E j \in 1..Len(t) : t[j] = Forward(k)[i]
      BY <2>1 DEF ApartFrom
    <3> QED BY <1>8, <2>2, <3>1
  <2>4. Len(heap) <= Len(h)
    BY <1>1, <1>8, HeapOf
  <2>5. /\ Strung(h, list[k], Forward(k))
        /\ Held(h, Forward(k)) = Held(heap, Forward(k))
        /\ Aligned(heap, Forward(k)) => Aligned(h, Forward(k))
    BY <1>1, <1>7, <2>1, <2>3, <2>4, Untouched
  <2>6. Iterate(h, list[k]) = Forward(k)
    BY <1>7, <2>5, IterateIs DEF Strung
  <2> QED BY <1>2, <1>9, <2>1, <2>5, <2>6 DEF Forward
<1>14. IInv'
  <2>1. freed' \subseteq 1..Len(heap') /\ Len(heap') <= MaxElements
    BY <1>1, <1>2, <1>8
  <2>2. ASSUME NEW k \in Lists
        PROVE  /\ Strung(heap', list'[k], Forward(k)')
               /\ \A i \in 1..Len(Forward(k)') : (Forward(k)')[i] \notin freed'
    <3>1. CASE k = l
      <4>1. /\ \A i \in 1..Len(s) : s[i] \notin freed
            /\ \A i \in 1..Len(t) : t[i] \notin freed
        BY DEF IInv, s, t
      <4>2. \A i \in 1..Len(u) : u[i] \notin freed
        BY <1>10, <4>1
      <4> QED BY <1>2, <1>7, <1>9, <1>11, <3>1, <4>2
    <3>2. CASE k = src
      BY <1>2, <1>9, <1>12, <3>2
    <3>3. CASE k \notin {l, src}
      <4>1. \A i \in 1..Len(Forward(k)) : Forward(k)[i] \notin freed
        BY DEF IInv
      <4> QED BY <1>2, <1>9, <1>13, <3>3, <4>1
    <3> QED BY <3>1, <3>2, <3>3
  <2>3. ASSUME NEW k \in Lists \ {l, src}
        PROVE  ApartFrom(u, Forward(k)) /\ ApartFrom(Forward(k), u)
    <3>1. ASSUME NEW i \in 1..Len(u), NEW j \in 1..Len(Forward(k)) PROVE u[i] # Forward(k)[j]
      <4>1. /\ \A m \in 1..Len(s) : s[m] # Forward(k)[j]
            /\ \A m \in 1..Len(t) : t[m] # Forward(k)[j]
        BY <1>13 DEF ApartFrom
      <4> QED BY <1>10, <4>1
    <3> QED BY <3>1 DEF ApartFrom
  <2>4. ASSUME NEW j \in Lists, NEW k \in Lists, j # k
        PROVE  ApartFrom(Forward(j)', Forward(k)')
    <3>1. CASE j = src \/ k = src
      BY <1>12, <3>1 DEF ApartFrom
    <3>2. CASE j = l /\ k # src
      BY <1>11, <1>13, <2>3, <2>4, <3>2
    <3>3. CASE k = l /\ j # src
      BY <1>11, <1>13, <2>3, <2>4, <3>3
    <3>4. CASE j \notin {l, src} /\ k \notin {l, src}
      <4>1. ApartFrom(Forward(j), Forward(k))
        BY <2>4 DEF IInv
      <4> QED BY <1>13, <3>4, <4>1
    <3> QED BY <3>1, <3>2, <3>3, <3>4
  <2> QED BY <1>2, <1>7, <1>9, <2>1, <2>2, <2>4 DEF IInv
<1>15. Contents' = [Contents EXCEPT ![l] = @ \o Contents[src], ![src] = <<>>]
  <2>1. Contents[l] = Held(heap, s) /\ Contents[src] = Held(heap, t)
    BY IInvOf DEF Contents, s, t
  <2>2. \A k \in Lists : MembersOf(heap', list'[k]) = Held(heap', Forward(k)')
    <3> TAKE k \in Lists
    <3>1. Heap(heap') /\ Strung(heap', list'[k], Forward(k)')
      BY <1>14 DEF IInv
    <3> QED BY <3>1, MembersAre
  <2>3. MembersOf(heap', list'[l]) = Contents[l] \o Contents[src]
    BY <1>2, <1>7, <1>11, <2>1, <2>2
  <2>4. MembersOf(heap', list'[src]) = <<>>
    <3>1. MembersOf(heap', list'[src]) = Held(heap', <<>>)
      BY <1>12, <2>2
    <3> QED BY <3>1 DEF Held
  <2>5. \A k \in Lists \ {l, src} : MembersOf(heap', list'[k]) = Contents[k]
    <3> TAKE k \in Lists \ {l, src}
    <3>1. Contents[k] = Held(heap, Forward(k))
      BY IInvOf DEF Contents
    <3> QED BY <1>2, <1>13, <2>2, <3>1
  <2>6. /\ Contents = [k \in Lists |-> Contents[k]]
        /\ Contents' = [k \in Lists |-> MembersOf(heap', list'[k])]
    BY DEF Contents
  <2> QED BY <2>3, <2>4, <2>5, <2>6
<1>16. ASSUME NEW k \in Lists PROVE Integral(k)' <=> Aligned(heap', Forward(k)')
  <2>1. Heap(heap') /\ Strung(heap', list'[k], Forward(k)')
    BY <1>14 DEF IInv
  <2> QED BY <2>1, IntegralIsAligned DEF Integral, Backward
<1>17. ASSUME NEW k \in Lists, Integral(k)
       PROVE  \/ Integral(k)'
              \/ /\ k = l /\ t # <<>> /\ list'[src] = Empty
                 /\ s # <<>> \/ ~Integral(src)
                 /\ Forward(l)' = s \o t
  <2>1. Aligned(heap, Forward(k))
    BY <1>17, IInvOf
  <2>2. CASE k = src
    BY <1>2, <1>12, <1>16, <2>2
  <2>3. CASE k \notin {l, src}
    BY <1>2, <1>13, <1>16, <2>1, <2>3
  <2>4. CASE k = l /\ s = <<>> /\ Integral(src)
    <3>1. Len(s) = 0 /\ u = t
      BY <1>6, <2>4, ConcatEmptySeq DEF u
    <3>2. Aligned(heap, t)
      BY <2>4, IInvOf DEF t
    <3>3. \A i \in 1..Len(t) : h[t[i]].prev = heap[t[i]].prev
      BY <1>4, <1>6 DEF Joining
    <3>4. Aligned(h, t)
      BY <3>2, <3>3 DEF Aligned
    <3> QED BY <1>2, <1>11, <1>16, <2>4, <3>1, <3>4
  <2>5. CASE k = l /\ (s # <<>> \/ ~Integral(src))
    BY <1>3, <1>9, <1>11, <2>5 DEF u
  <2> QED BY <2>2, <2>3, <2>4, <2>5
<1> QED BY <1>14, <1>15, <1>17 DEF s, t

-----------------------------------------------------------------------------
(* What a step may do to reading backwards; then, every step's part.         *)
Readable ==
    \A l \in Lists :
        Integral(l) => \/ Integral(l)'
                       \/ \E k \in Lists \ {l} :
                             /\ Forward(k) # <<>> /\ list'[k] = Empty
                             /\ Forward(l) # <<>> \/ ~Integral(k)
                             /\ Forward(l)' = Forward(l) \o Forward(k)

LEMMA StoresIsReadable ==
    ASSUME NEW l, NEW c, Stores(l, c)
    PROVE  IInv' /\ Readable
  BY DEF Stores, Readable

(* Every step keeps the invariant and is a step of ListSeq.                  *)
LEMMA NextKeeps ==
    ASSUME IInv, Next
    PROVE  IInv' /\ Readable /\ Q!Next
<1> PICK l \in Lists :
       \/ \E x \in Members : \/ AddToList(l, x) \/ AddUniqueToList(l, x)
                             \/ AddToListOrdered(l, x) \/ RemoveFromList(l, x)
       \/ FreeList(l)
       \/ \E src \in Lists \ {l} :
             \/ MoveList(l, src)
             \/ \E keep \in SUBSET Members : \/ CopyList(l, src, keep)
                                             \/ CopyListUnique(l, src, keep)
  BY DEF Next
<1>1. ASSUME NEW x \in Members, AddToList(l, x)
      PROVE  IInv' /\ Readable /\ Q!Next
  <2>1. Stores(l, Append(Contents[l], x))
    BY <1>1, AddStep
  <2> QED BY <2>1, StoresIsReadable DEF Stores, Q!Next, Q!Set
<1>2. ASSUME NEW x \in Members, AddUniqueToList(l, x)
      PROVE  IInv' /\ Readable /\ Q!Next
  <2>1. Stores(l, Q!AppendNew(Contents[l], x))
    BY <1>2, AddUniqueStep
  <2> QED BY <2>1, StoresIsReadable DEF Stores, Q!Next, Q!Set
<1>3. ASSUME NEW x \in Members, AddToListOrdered(l, x)
      PROVE  IInv' /\ Readable /\ Q!Next
  <2>1. Stores(l, Q!Insert(Contents[l], x))
    BY <1>3, AddOrderedStep
  <2> QED BY <2>1, StoresIsReadable DEF Stores, Q!Next, Q!Set
<1>4. ASSUME NEW x \in Members, RemoveFromList(l, x)
      PROVE  IInv' /\ Readable /\ Q!Next
  <2>1. Stores(l, Q!RemoveFirst(Contents[l], x))
    BY <1>4, RemoveStep
  <2> QED BY <2>1, StoresIsReadable DEF Stores, Q!Next, Q!Set
<1>5. ASSUME FreeList(l)
      PROVE  IInv' /\ Readable /\ Q!Next
  <2>1. Stores(l, <<>>)
    BY <1>5, FreeStep
  <2> QED BY <2>1, StoresIsReadable DEF Stores, Q!Next, Q!Set
<1>6. ASSUME NEW src \in Lists \ {l}, NEW keep \in SUBSET Members, CopyList(l, src, keep)
      PROVE  IInv' /\ Readable /\ Q!Next
  <2>1. Stores(l, Q!AppendAll(Contents[l], Contents[src], keep))
    BY <1>6, CopyStep
  <2> QED BY <2>1, StoresIsReadable DEF Stores, Q!Next, Q!Set
<1>7. ASSUME NEW src \in Lists \ {l}, NEW keep \in SUBSET Members, CopyListUnique(l, src, keep)
      PROVE  IInv' /\ Readable /\ Q!Next
  <2>1. Stores(l, Q!AppendAllNew(Contents[l], Contents[src], keep))
    BY <1>7, CopyUniqueStep
  <2> QED BY <2>1, StoresIsReadable DEF Stores, Q!Next, Q!Set
<1>8. ASSUME NEW src \in Lists \ {l}, MoveList(l, src)
      PROVE  IInv' /\ Readable /\ Q!Next
  <2>1. Contents' = [Contents EXCEPT ![l] = @ \o Contents[src], ![src] = <<>>]
    BY <1>8, MoveStep
  <2>2. Q!Next
    BY <2>1 DEF Q!Next
  <2> QED BY <1>8, <2>2, MoveStep DEF Readable
<1> QED
  BY <1>1, <1>2, <1>3, <1>4, <1>5, <1>6, <1>7, <1>8

(* A step that changes nothing.                                              *)
LEMMA Unchanged ==
    ASSUME UNCHANGED vars
    PROVE  /\ IInv => IInv'
           /\ Contents' = Contents
           /\ \A l \in Lists : Integral(l) => Integral(l)'
  BY DEF vars, IInv, Contents, Integral, Forward, Backward

(* Strings of elements that no two lists share, in every state: each holds   *)
(* the elements of its list, in order, with their ordinals.                  *)
THEOREM ListsAreStrung == Spec => []IInv
<1>1. Init => IInv
  BY InitIsSound
<1>2. IInv /\ [Next]_vars => IInv'
  <2> SUFFICES ASSUME IInv, [Next]_vars PROVE IInv'
    OBVIOUS
  <2>1. CASE Next
    BY <2>1, NextKeeps
  <2>2. CASE UNCHANGED vars
    BY <2>2, Unchanged
  <2> QED BY <2>1, <2>2
<1> QED BY <1>1, <1>2, PTL DEF Spec

(* The records stay within what was allocated, in every state.               *)
THEOREM TypeCorrect == Spec => []TypeOK
<1>1. IInv => TypeOK
  <2> SUFFICES ASSUME IInv PROVE TypeOK
    OBVIOUS
  <2>1. Heap(heap) /\ Len(heap) <= MaxElements /\ freed \subseteq 1..Len(heap)
    BY DEF IInv
  <2>2. heap \in Seq([mbr : Members, next : Nat, prev : Nat, ordinal : Nat]) /\ Len(heap) \in Nat
    BY <2>1, HeapOf DEF Elem
  <2>3. freed \subseteq DOMAIN heap
    BY <2>1, <2>2
  <2>4. ASSUME NEW l \in Lists
        PROVE  list[l] \in [count : 0..MaxElements, head : 0..Len(heap), tail : 0..Len(heap)]
    <3>1. list[l] \in Header /\ Strung(heap, list[l], Forward(l))
      BY DEF IInv
    <3>2. /\ Forward(l) \in Seq(1..Len(heap)) /\ Len(Forward(l)) \in Nat
          /\ \A i \in 1..Len(Forward(l)) : Forward(l)[i] \in 1..Len(heap)
      BY <3>1, StrungOf
    <3>3. Distinct(Forward(l)) /\ list[l].count = Len(Forward(l))
      BY <3>1 DEF Strung, Chained
    <3>4. Len(Forward(l)) <= Len(heap)
      BY <2>2, <3>2, <3>3, NoLongerThanHeap
    <3>5. list[l].count \in 0..MaxElements
      BY <2>1, <2>2, <3>2, <3>3, <3>4, MembersAssumption
    <3>6. list[l].head \in 0..Len(heap) /\ list[l].tail \in 0..Len(heap)
      <4>1. CASE Len(Forward(l)) = 0
        BY <2>2, <3>1, <4>1 DEF Strung, Chained, Null
      <4>2. CASE Len(Forward(l)) # 0
        <5>1. 1 \in 1..Len(Forward(l)) /\ Len(Forward(l)) \in 1..Len(Forward(l))
          BY <3>2, <4>2
        <5>2. /\ Forward(l)[1] \in 1..Len(heap)
              /\ Forward(l)[Len(Forward(l))] \in 1..Len(heap)
          BY <3>2, <5>1
        <5>3. /\ list[l].head = Forward(l)[1]
              /\ list[l].tail = Forward(l)[Len(Forward(l))]
          BY <3>1, <4>2 DEF Strung, Chained
        <5>4. \A a \in 1..Len(heap) : a \in 0..Len(heap)
          BY <2>2
        <5> QED BY <5>2, <5>3, <5>4
      <4> QED BY <4>1, <4>2
    <3> QED BY <3>1, <3>5, <3>6 DEF Header
  <2>5. list \in [Lists -> [count : 0..MaxElements, head : 0..Len(heap), tail : 0..Len(heap)]]
    BY <2>4 DEF IInv
  <2> QED BY <2>2, <2>3, <2>5 DEF TypeOK
<1> QED BY <1>1, ListsAreStrung, PTL

(* count, tail and the ordinals agree with the links in every state.         *)
THEOREM PositionsAreRight == Spec => []PositionsAgree
<1>1. IInv => PositionsAgree
  <2> SUFFICES ASSUME IInv, NEW l \in Lists
               PROVE  /\ list[l].count = Len(Forward(l))
                      /\ list[l].tail = IF Forward(l) = <<>> THEN Null ELSE Last(Forward(l))
                      /\ \A i \in DOMAIN Forward(l) : heap[Forward(l)[i]].ordinal = i - 1
    BY DEF PositionsAgree
  <2>1. Strung(heap, list[l], Forward(l))
    BY DEF IInv
  <2>2. Forward(l) \in Seq(1..Len(heap))
    BY <2>1, StrungOf
  <2>3. DOMAIN Forward(l) = 1..Len(Forward(l)) /\ (Forward(l) = <<>> <=> Len(Forward(l)) = 0)
    BY <2>2
  <2> QED BY <2>1, <2>3 DEF Strung, Chained, Last
<1> QED BY <1>1, ListsAreStrung, PTL

(* In every state, an element lies on one list at most, and on none when it  *)
(* was freed.                                                                *)
THEOREM OneOwner == Spec => []ElementsHaveOneOwner
<1>1. IInv => ElementsHaveOneOwner
  <2> SUFFICES ASSUME IInv PROVE ElementsHaveOneOwner
    OBVIOUS
  <2>1. ASSUME NEW l \in Lists PROVE DOMAIN Forward(l) = 1..Len(Forward(l))
    <3>1. Strung(heap, list[l], Forward(l))
      BY DEF IInv
    <3>2. Forward(l) \in Seq(1..Len(heap))
      BY <3>1, StrungOf
    <3> QED BY <3>2
  <2>2. ASSUME NEW l \in Lists PROVE ToSet(Forward(l)) \cap freed = {}
    <3>1. \A i \in 1..Len(Forward(l)) : Forward(l)[i] \notin freed
      BY DEF IInv
    <3> QED BY <2>1, <3>1 DEF ToSet
  <2>3. ASSUME NEW l \in Lists, NEW k \in Lists \ {l}
        PROVE  ToSet(Forward(l)) \cap ToSet(Forward(k)) = {}
    <3>1. ApartFrom(Forward(l), Forward(k))
      BY DEF IInv
    <3>2. DOMAIN Forward(l) = 1..Len(Forward(l)) /\ DOMAIN Forward(k) = 1..Len(Forward(k))
      BY <2>1
    <3> QED BY <3>1, <3>2 DEF ApartFrom, ToSet
  <2> QED BY <2>2, <2>3 DEF ElementsHaveOneOwner
<1> QED BY <1>1, ListsAreStrung, PTL

(* Every step that can spoil reading backwards joins another list, and joins *)
(* it to elements or was spoiled itself.                                     *)
THEOREM JoiningAloneUnlinks == Spec => OnlyJoiningUnlinks
<1>1. IInv /\ [Next]_vars => [Readable]_vars
  BY NextKeeps
<1>2. Spec => [][Readable]_vars
  BY <1>1, ListsAreStrung, PTL DEF Spec
<1> QED BY <1>2, PTL DEF OnlyJoiningUnlinks, Readable

(* From head to tail every list is, in every behaviour, the sequence that    *)
(* list.h promises: each operation does to it what ListSeq says.             *)
THEOREM ListsAreSequences == Spec => ImplementsSequences
<1>1. Init => Q!Init
  <2> SUFFICES ASSUME Init PROVE Q!Init
    OBVIOUS
  <2>1. IInv
    BY InitIsSound
  <2>2. ASSUME NEW l \in Lists PROVE MembersOf(heap, list[l]) = <<>>
    <3>1. list[l] = Empty /\ Heap(heap)
      BY <2>1 DEF Init, IInv
    <3>2. MembersOf(heap, Empty) = Held(heap, <<>>)
      BY <3>1, EmptyIsStrung, MembersAre
    <3> QED BY <3>1, <3>2 DEF Held
  <2> QED BY <2>2 DEF Q!Init, Contents
<1>2. IInv /\ [Next]_vars => [Q!Next]_Contents
  <2> SUFFICES ASSUME IInv, [Next]_vars PROVE Q!Next \/ UNCHANGED Contents
    OBVIOUS
  <2>1. CASE Next
    BY <2>1, NextKeeps
  <2>2. CASE UNCHANGED vars
    BY <2>2, Unchanged
  <2> QED BY <2>1, <2>2
<1> QED
  BY <1>1, <1>2, ListsAreStrung, PTL DEF Spec, ImplementsSequences, Q!Spec
=============================================================================
