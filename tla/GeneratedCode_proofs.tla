-------------------------- MODULE GeneratedCode_proofs --------------------------
(***************************************************************************)
(* What is made from the populated action array is true of it, for every   *)
(* description, whatever its states, events, declarations and matrices:    *)
(* the code of the four C back ends, the notes on event sequences, the     *)
(* names the generated tables call, the figures of the statistics, the     *)
(* Python class, and the documents.                                        *)
(***************************************************************************)
EXTENDS GeneratedCode, EventSequences, TableNames, Statistics, Documents, PyTransitions,
        ActionArray_proofs, WellFoundedInduction

(* Induction: what holds for some number holds for a least one.              *)
LEMMA LeastNat ==
    ASSUME NEW S \in SUBSET Nat, S # {}
    PROVE  \E n \in S : \A m \in S : n <= m
<1>1. IsWellFoundedOn(OpToRel(<, Nat), Nat)
  BY NatLessThanWellFounded
<1>2. \E n \in S : \A m \in S : ~(m < n)
  <2>1. PICK n \in S : \A m \in S : ~(<<m, n>> \in OpToRel(<, Nat))
    BY <1>1, WFMin
  <2> QED BY <2>1 DEF OpToRel
<1> QED
  BY <1>2

-----------------------------------------------------------------------------
(* The consolidated list.                                                    *)

(* g follows compose_consolidated_list through the first n declarations.     *)
Follows(g, n) == g[0] = <<>> /\ \A k \in 1..n : g[k] = Compose(g[k - 1], k)

LEMMA FollowersExist == \A n \in Nat : \E g : Follows(g, n)
<1> DEFINE S == {n \in Nat : ~\E g : Follows(g, n)}
<1> SUFFICES ASSUME S # {} PROVE FALSE
  OBVIOUS
<1>1. PICK n \in S : \A m \in S : n <= m
  BY LeastNat
<1>2. n # 0
  <2>1. Follows([k \in {0} |-> <<>>], 0)
    BY DEF Follows
  <2> QED BY <2>1
<1>3. n - 1 \in Nat /\ n - 1 \notin S
  BY <1>1, <1>2
<1>4. PICK g : Follows(g, n - 1)
  BY <1>3
<1> DEFINE h == [k \in 0..n |-> IF k = n THEN Compose(g[n - 1], n) ELSE g[k]]
<1>5. Follows(h, n)
  <2>1. h[0] = <<>>
    BY <1>2, <1>4 DEF Follows
  <2>2. ASSUME NEW k \in 1..n PROVE h[k] = Compose(h[k - 1], k)
    <3>1. k - 1 \in 0..n /\ k - 1 # n /\ k \in 0..n
      OBVIOUS
    <3>2. h[k - 1] = g[k - 1]
      BY <3>1
    <3>3. CASE k = n
      BY <3>1, <3>2, <3>3
    <3>4. CASE k # n
      <4>1. k \in 1..(n - 1)
        BY <3>4
      <4> QED BY <1>4, <3>1, <3>2, <3>4, <4>1 DEF Follows
    <3> QED BY <3>3, <3>4
  <2> HIDE DEF h
  <2> QED BY <2>1, <2>2 DEF Follows
<1> QED
  BY <1>5

LEMMA FollowersAgree ==
    ASSUME NEW g, NEW h, NEW n \in Nat, NEW m \in Nat, Follows(g, n), Follows(h, m)
    PROVE  \A k \in Nat : k <= n /\ k <= m => g[k] = h[k]
<1> DEFINE S == {k \in Nat : k <= n /\ k <= m /\ g[k] # h[k]}
<1> SUFFICES ASSUME S # {} PROVE FALSE
  OBVIOUS
<1>1. PICK k \in S : \A j \in S : k <= j
  BY LeastNat
<1>2. k # 0
  BY DEF Follows
<1>3. k - 1 \in Nat /\ k - 1 \notin S /\ k \in 1..n /\ k \in 1..m
  BY <1>1, <1>2
<1>4. g[k - 1] = h[k - 1]
  BY <1>3
<1> QED
  BY <1>3, <1>4 DEF Follows

LEMMA Composed == composed[0] = <<>> /\ \A n \in Nat : composed[n + 1] = Compose(composed[n], n + 1)
<1> DEFINE G(n) == CHOOSE g : Follows(g, n)
           f == [n \in Nat |-> G(n)[n]]
<1>1. \A n \in Nat : Follows(G(n), n)
  BY FollowersExist
<1> HIDE DEF G
<1>2. f[0] = <<>>
  BY <1>1 DEF Follows
<1>3. ASSUME NEW n \in Nat, n # 0 PROVE f[n] = Compose(f[n - 1], n)
  <2>1. n - 1 \in Nat /\ n \in 1..n /\ n - 1 <= n
    BY <1>3
  <2>2. G(n)[n] = Compose(G(n)[n - 1], n)
    BY <1>1, <2>1 DEF Follows
  <2>3. G(n)[n - 1] = G(n - 1)[n - 1]
    BY <1>1, <2>1, FollowersAgree
  <2> QED BY <2>1, <2>2, <2>3
<1>4. f = [n \in Nat |-> IF n = 0 THEN <<>> ELSE Compose(f[n - 1], n)]
  BY <1>2, <1>3
<1> HIDE DEF f
<1>5. composed = [n \in Nat |-> IF n = 0 THEN <<>> ELSE Compose(composed[n - 1], n)]
  BY <1>4 DEF composed
<1> QED
  BY <1>5


(* A record of the list: a declaration, and those whose matrices it has.     *)
ActionRecord == [pai : Nat, matrices : Seq(Nat)]

LEMMA WithMatrixFields ==
    ASSUME NEW r \in ActionRecord, NEW i \in Nat
    PROVE  /\ WithMatrix(r, i) \in ActionRecord
           /\ WithMatrix(r, i).pai = r.pai /\ WithMatrix(r, i).matrices = Append(r.matrices, i)
<1>1. r.pai \in Nat /\ Append(r.matrices, i) \in Seq(Nat)
  BY DEF ActionRecord
<1>2. WithMatrix(r, i).pai = r.pai /\ WithMatrix(r, i).matrices = Append(r.matrices, i)
  BY Zenon DEF WithMatrix, ActionRecord
<1>3. WithMatrix(r, i) \in ActionRecord
  BY <1>1, Zenon DEF WithMatrix, ActionRecord
<1> QED
  BY <1>2, <1>3

(* Record k of the list has the matrix of declaration i, at place m.         *)
HasMatrix(list, k, m, i) ==
    k \in DOMAIN list /\ m \in DOMAIN list[k].matrices /\ list[k].matrices[m] = i

(* Every one of the first n declarations is in one place, in a record of a   *)
(* declaration with its action, transition and events.                       *)
Consolidated(list, n) ==
    /\ list \in Seq(ActionRecord)
    /\ \A k \in DOMAIN list : list[k].pai \in 1..n
    /\ \A k, m, i : HasMatrix(list, k, m, i) => i \in 1..n /\ MayConsolidate(list[k].pai, i)
    /\ \A i \in 1..n : \E k, m : HasMatrix(list, k, m, i)
    /\ \A k, j, m, l, i : HasMatrix(list, k, m, i) /\ HasMatrix(list, j, l, i) => k = j /\ m = l

LEMMA ComposeConsolidates ==
    ASSUME NEW n \in Nat, NEW list, Consolidated(list, n)
    PROVE  Consolidated(Compose(list, n + 1), n + 1)
<1> DEFINE i == n + 1
           joins == {k \in DOMAIN list : MayConsolidate(list[k].pai, i)}
           new == Compose(list, i)
<1>1. /\ list \in Seq(ActionRecord) /\ Len(list) \in Nat /\ DOMAIN list = 1..Len(list)
      /\ \A k \in DOMAIN list : list[k] \in ActionRecord
      /\ i \in Nat /\ i \in 1..i /\ 1..n \subseteq 1..i /\ i \notin 1..n
      /\ \A j \in 1..i : j \in 1..n \/ j = i
  BY DEF Consolidated
<1>2. MayConsolidate(i, i)
  BY DEF MayConsolidate, SameEvents
<1> HIDE DEF i
<1>3. CASE joins = {}
  <2> DEFINE r == [pai |-> i, matrices |-> <<i>>]
             N == Len(list) + 1
  <2>1. new = Append(list, r)
    BY <1>3 DEF Compose
  <2>2. /\ r \in ActionRecord /\ r.pai = i /\ DOMAIN r.matrices = {1} /\ r.matrices[1] = i
    <3>1. <<i>> \in Seq(Nat) /\ DOMAIN <<i>> = {1} /\ <<i>>[1] = i
      BY <1>1
    <3>2. r.pai = i /\ r.matrices = <<i>>
      OBVIOUS
    <3>3. r \in ActionRecord
      BY <1>1, <3>1, Zenon DEF ActionRecord
    <3>4. DOMAIN r.matrices = {1} /\ r.matrices[1] = i
      BY <3>1, <3>2
    <3> QED BY <3>2, <3>3, <3>4
  <2> HIDE DEF r
  <2>3. /\ new \in Seq(ActionRecord) /\ DOMAIN new = 1..N
        /\ new[N] = r /\ \A k \in 1..Len(list) : new[k] = list[k]
    BY <1>1, <2>1, <2>2
  <2>4. /\ N \notin 1..Len(list) /\ \A k \in 1..N : k \in 1..Len(list) \/ k = N
        /\ N \in 1..N /\ \A k \in 1..Len(list) : k \in 1..N
    BY <1>1
  <2> HIDE DEF new, N
  <2>5. \A k, m, j : HasMatrix(new, k, m, j) <=>
                         HasMatrix(list, k, m, j) \/ (k = N /\ m = 1 /\ j = i)
    <3> SUFFICES ASSUME NEW k, NEW m, NEW j
        PROVE  HasMatrix(new, k, m, j) <=>
                   HasMatrix(list, k, m, j) \/ (k = N /\ m = 1 /\ j = i)
      OBVIOUS
    <3>1. CASE k \in 1..Len(list)
      BY <1>1, <2>3, <2>4, <3>1 DEF HasMatrix
    <3>2. CASE k = N
      <4>1. k \in DOMAIN new /\ new[k] = r /\ k \notin DOMAIN list
        BY <1>1, <2>3, <2>4, <3>2
      <4>2. HasMatrix(new, k, m, j) <=> m \in {1} /\ r.matrices[m] = j
        BY <2>2, <4>1 DEF HasMatrix
      <4> QED BY <2>2, <3>2, <4>1, <4>2 DEF HasMatrix
    <3>3. CASE k \notin 1..N
      BY <1>1, <2>3, <2>4, <3>3 DEF HasMatrix
    <3> QED BY <2>4, <3>1, <3>2, <3>3
  <2>6. \A k \in DOMAIN new : new[k].pai \in 1..i
    BY <1>1, <2>2, <2>3, <2>4 DEF Consolidated
  <2>7. \A k, m, j : HasMatrix(new, k, m, j) => j \in 1..i /\ MayConsolidate(new[k].pai, j)
    <3> SUFFICES ASSUME NEW k, NEW m, NEW j, HasMatrix(new, k, m, j)
        PROVE  j \in 1..i /\ MayConsolidate(new[k].pai, j)
      OBVIOUS
    <3>1. CASE HasMatrix(list, k, m, j)
      <4>1. new[k] = list[k]
        BY <1>1, <2>3, <3>1 DEF HasMatrix
      <4> QED BY <1>1, <3>1, <4>1 DEF Consolidated
    <3>2. CASE k = N /\ m = 1 /\ j = i
      BY <1>1, <1>2, <2>2, <2>3, <3>2
    <3> QED BY <2>5, <3>1, <3>2
  <2>8. \A j \in 1..i : \E k, m : HasMatrix(new, k, m, j)
    BY <1>1, <2>5 DEF Consolidated
  <2>9. \A k, q, m, l, j : HasMatrix(new, k, m, j) /\ HasMatrix(new, q, l, j) => k = q /\ m = l
    <3>1. \A k, m : ~HasMatrix(list, k, m, i)
      BY <1>1 DEF Consolidated
    <3> QED BY <2>5, <3>1 DEF Consolidated
  <2> QED BY <2>3, <2>6, <2>7, <2>8, <2>9 DEF Consolidated, new, i
<1>4. CASE joins # {}
  <2> DEFINE f == CHOOSE k \in joins : \A j \in joins : k <= j
             r == WithMatrix(list[f], i)
             M == Len(list[f].matrices) + 1
  <2>1. f \in joins
    <3>1. joins \in SUBSET Nat
      BY <1>1
    <3> QED BY <1>4, <3>1, LeastNat
  <2>2. new = [list EXCEPT ![f] = r]
    BY <1>4 DEF Compose
  <2> HIDE DEF f
  <2>3. f \in DOMAIN list /\ MayConsolidate(list[f].pai, i) /\ list[f] \in ActionRecord
    BY <1>1, <2>1
  <2>4. r \in ActionRecord /\ r.pai = list[f].pai /\ r.matrices = Append(list[f].matrices, i)
    BY <1>1, <2>3, WithMatrixFields
  <2>5. /\ M \in Nat \ {0} /\ DOMAIN list[f].matrices = 1..(M - 1) /\ DOMAIN r.matrices = 1..M
        /\ r.matrices[M] = i /\ \A m \in 1..(M - 1) : r.matrices[m] = list[f].matrices[m]
    <3>1. list[f].matrices \in Seq(Nat)
      BY <2>3 DEF ActionRecord
    <3> QED BY <1>1, <2>4, <3>1
  <2>6. M \notin 1..(M - 1) /\ \A m \in 1..M : m \in 1..(M - 1) \/ m = M
    BY <2>5
  <2> HIDE DEF r, M
  <2>7. /\ new \in Seq(ActionRecord) /\ DOMAIN new = DOMAIN list
        /\ new[f] = r /\ \A k \in DOMAIN list : k # f => new[k] = list[k]
    BY <1>1, <2>2, <2>3, <2>4
  <2> HIDE DEF new
  <2>8. \A k, m, j : HasMatrix(new, k, m, j) <=>
                         HasMatrix(list, k, m, j) \/ (k = f /\ m = M /\ j = i)
    <3> SUFFICES ASSUME NEW k, NEW m, NEW j
        PROVE  HasMatrix(new, k, m, j) <=>
                   HasMatrix(list, k, m, j) \/ (k = f /\ m = M /\ j = i)
      OBVIOUS
    <3>1. CASE k = f
      <4>1. HasMatrix(new, k, m, j) <=> m \in 1..M /\ r.matrices[m] = j
        BY <2>3, <2>5, <2>7, <3>1 DEF HasMatrix
      <4>2. HasMatrix(list, k, m, j) <=> m \in 1..(M - 1) /\ list[f].matrices[m] = j
        BY <2>3, <2>5, <3>1 DEF HasMatrix
      <4>3. CASE m \in 1..(M - 1)
        <5>1. m \in 1..M /\ m # M /\ r.matrices[m] = list[f].matrices[m]
          BY <2>5, <2>6, <4>3
        <5> QED BY <4>1, <4>2, <4>3, <5>1
      <4>4. CASE m = M
        <5>1. m \in 1..M /\ m \notin 1..(M - 1)
          BY <2>5, <2>6, <4>4
        <5> QED BY <2>5, <3>1, <4>1, <4>2, <4>4, <5>1
      <4>5. CASE m \notin 1..M
        <5>1. m \notin 1..(M - 1) /\ m # M
          BY <2>5, <4>5
        <5> QED BY <4>1, <4>2, <4>5, <5>1
      <4> QED BY <2>6, <4>3, <4>4, <4>5
    <3>2. CASE k # f
      BY <2>7, <3>2 DEF HasMatrix
    <3> QED BY <3>1, <3>2
  <2>9. \A k \in DOMAIN new : new[k].pai = list[k].pai
    BY <2>4, <2>7
  <2>10. \A k \in DOMAIN new : new[k].pai \in 1..i
    BY <1>1, <2>7, <2>9 DEF Consolidated
  <2>11. \A k, m, j : HasMatrix(new, k, m, j) => j \in 1..i /\ MayConsolidate(new[k].pai, j)
    <3> SUFFICES ASSUME NEW k, NEW m, NEW j, HasMatrix(new, k, m, j)
        PROVE  j \in 1..i /\ MayConsolidate(new[k].pai, j)
      OBVIOUS
    <3>1. new[k].pai = list[k].pai
      BY <2>9 DEF HasMatrix
    <3>2. CASE HasMatrix(list, k, m, j)
      BY <1>1, <3>1, <3>2 DEF Consolidated
    <3>3. CASE k = f /\ m = M /\ j = i
      BY <1>1, <2>3, <3>1, <3>3
    <3> QED BY <2>8, <3>2, <3>3
  <2>12. \A j \in 1..i : \E k, m : HasMatrix(new, k, m, j)
    BY <1>1, <2>8 DEF Consolidated
  <2>13. \A k, q, m, l, j : HasMatrix(new, k, m, j) /\ HasMatrix(new, q, l, j) => k = q /\ m = l
    <3>1. \A k, m : ~HasMatrix(list, k, m, i)
      BY <1>1 DEF Consolidated
    <3> QED BY <2>8, <3>1 DEF Consolidated
  <2> QED BY <2>7, <2>10, <2>11, <2>12, <2>13 DEF Consolidated, new, i
<1> QED
  BY <1>3, <1>4

LEMMA ListIsConsolidated == \A n \in Nat : Consolidated(composed[n], n)
<1> DEFINE S == {n \in Nat : ~Consolidated(composed[n], n)}
<1> SUFFICES ASSUME S # {} PROVE FALSE
  OBVIOUS
<1>1. PICK n \in S : \A m \in S : n <= m
  BY LeastNat
<1>2. Consolidated(<<>>, 0)
  <2>1. \A k, m, i : ~HasMatrix(<<>>, k, m, i)
    BY DEF HasMatrix
  <2> QED BY <2>1 DEF Consolidated
<1>3. n # 0
  BY <1>2, Composed
<1>4. n - 1 \in Nat /\ n - 1 \notin S /\ (n - 1) + 1 = n
  BY <1>1, <1>3
<1>5. composed[n] = Compose(composed[n - 1], n)
  BY <1>4, Composed
<1>6. Consolidated(Compose(composed[n - 1], (n - 1) + 1), (n - 1) + 1)
  BY <1>4, ComposeConsolidates
<1> QED
  BY <1>4, <1>5, <1>6

-----------------------------------------------------------------------------
(* The groups of cases.                                                      *)

LEMMA ArrayAtTheEnd ==
    ASSUME IInv, Populated, NEW x \in Events, NEW s \in States
    PROVE  /\ Len(decls) \in Nat /\ DOMAIN decls = 1..Len(decls)
           /\ array[x][s] # NULL => array[x][s] \in DOMAIN decls
           /\ \A i \in DOMAIN decls : Covers(i, x, s) <=> array[x][s] = i
<1>1. Len(decls) \in Nat /\ DOMAIN decls = 1..Len(decls)
  BY ListFacts DEF IInv
<1>2. array[x][s] # NULL => array[x][s] \in DOMAIN decls
  BY DEF IInv, ArrayInv, HeldInv
<1> QED
  BY <1>1, <1>2, ArrayFollows DEF ArrayHoldsTheMatrices

LEMMA GroupOfCell ==
    ASSUME IInv, Populated, NEW x \in Events, NEW s \in States
    PROVE  /\ array[x][s] = NULL => Groups(x, s) = {}
           /\ array[x][s] # NULL =>
                 /\ \E k : Groups(x, s) = {k}
                 /\ GroupBody(x, s) \in DOMAIN decls
                 /\ MayConsolidate(GroupBody(x, s), array[x][s])
<1> DEFINE n == Len(decls)
           list == consolidate_action_info_list
           i == array[x][s]
<1>1. n \in Nat /\ DOMAIN decls = 1..n
  BY ArrayAtTheEnd
<1>2. Consolidated(list, n)
  BY <1>1, ListIsConsolidated DEF consolidate_action_info_list
<1>3. \A k : k \in Groups(x, s) <=> \E m : HasMatrix(list, k, m, i) /\ i \in 1..n
  <2> SUFFICES ASSUME NEW k
      PROVE  k \in Groups(x, s) <=> \E m : HasMatrix(list, k, m, i) /\ i \in 1..n
    OBVIOUS
  <2>1. k \in Groups(x, s) <=>
            k \in DOMAIN list /\ \E m \in DOMAIN list[k].matrices : <<x, s, m>> \in Labels(list[k])
    BY DEF Groups
  <2>2. ASSUME NEW m, k \in DOMAIN list, m \in DOMAIN list[k].matrices
        PROVE  <<x, s, m>> \in Labels(list[k]) <=> list[k].matrices[m] = i /\ i \in 1..n
    <3>1. <<x, s, m>> \in Labels(list[k]) <=> Covers(list[k].matrices[m], x, s)
      BY <2>2 DEF Labels, Covers
    <3>2. list[k].matrices[m] \in 1..n
      BY <1>2, <2>2 DEF Consolidated, HasMatrix
    <3> QED BY <1>1, <3>1, <3>2, ArrayAtTheEnd
  <2> HIDE DEF list, n, i
  <2> QED BY <2>1, <2>2 DEF HasMatrix
<1>4. ASSUME i = NULL PROVE Groups(x, s) = {}
  BY <1>3, <1>4 DEF NULL
<1>5. ASSUME i # NULL
      PROVE  /\ \E k : Groups(x, s) = {k}
             /\ GroupBody(x, s) \in DOMAIN decls
             /\ MayConsolidate(GroupBody(x, s), i)
  <2>1. i \in 1..n
    BY <1>1, <1>5, ArrayAtTheEnd
  <2> HIDE DEF i, n, list
  <2>2. PICK k, m : HasMatrix(list, k, m, i)
    BY <1>2, <2>1 DEF Consolidated
  <2>3. Groups(x, s) = {k}
    <3>1. \A j, l : HasMatrix(list, j, l, i) => j = k
      BY <1>2, <2>2 DEF Consolidated
    <3> QED BY <1>3, <2>1, <2>2, <3>1
  <2>4. GroupBody(x, s) = list[k].pai
    BY <2>3 DEF GroupBody, list
  <2>5. k \in DOMAIN list /\ list[k].pai \in 1..n /\ MayConsolidate(list[k].pai, i)
    BY <1>2, <2>2 DEF Consolidated, HasMatrix
  <2> QED BY <1>1, <2>3, <2>4, <2>5 DEF n
<1> QED
  BY <1>4, <1>5

(* Every cell an action array fills gets the code of one group, and that     *)
(* group's action and transition are the cell's, for every description the   *)
(* generator accepts: consolidation loses no matrix and prints none twice.   *)
THEOREM GroupsAreTheCells == Spec => []CasesPartitionTheArray
<1>1. ASSUME IInv, Populated, NEW x \in Events, NEW s \in States
      PROVE  /\ Cardinality(Groups(x, s)) = IF array[x][s] = NULL THEN 0 ELSE 1
             /\ array[x][s] # NULL =>
                    /\ decls[GroupBody(x, s)].action = decls[array[x][s]].action
                    /\ decls[GroupBody(x, s)].to = decls[array[x][s]].to
  <2>1. CASE array[x][s] = NULL
    BY <1>1, <2>1, GroupOfCell, FS_EmptySet
  <2>2. CASE array[x][s] # NULL
    <3>1. PICK k : Groups(x, s) = {k}
      BY <1>1, <2>2, GroupOfCell
    <3>2. Cardinality(Groups(x, s)) = 1
      BY <3>1, FS_Singleton
    <3> QED BY <1>1, <2>2, <3>2, GroupOfCell DEF MayConsolidate
  <2> QED BY <2>1, <2>2
<1>2. IInv => CasesPartitionTheArray
  BY <1>1 DEF CasesPartitionTheArray
<1> QED
  BY <1>2, Inductive, PTL
-----------------------------------------------------------------------------
(* The pieces of code a cell is printed with, on variables written out.      *)
Vars(calls, state, s, out) == [calls |-> calls, state |-> state, s |-> s, out |-> out]

Called(k, f, a) == Append(k, <<f, a>>)

LEMMA VarsFields ==
    ASSUME NEW k, NEW st, NEW t, NEW o
    PROVE  /\ Vars(k, st, t, o).calls = k /\ Vars(k, st, t, o).state = st
           /\ Vars(k, st, t, o).s = t /\ Vars(k, st, t, o).out = o
  BY DEF Vars

LEMMA Pieces ==
    /\ \A k, st, t, o, f, a : Call(Vars(k, st, t, o), f, a) = Vars(Called(k, f, a), st, t, o)
    /\ \A k, st, t, o, u : Yield(Vars(k, st, t, o), u) = Vars(k, st, t, u)
    /\ \A k, st, t, o, u : Aim(Vars(k, st, t, o), u) = Vars(k, st, u, o)
    /\ \A k, st, t, o, u : Arrive(Vars(k, st, t, o), u) = Vars(k, u, t, o)
<1> DEFINE Of(l, n, m, w) == [calls : {l}, state : {n}, s : {m}, out : {w}]
<1>1. /\ \A k, st, t, o : Vars(k, st, t, o) \in Of(k, st, t, o)
      /\ \A k, st, t, o : \A v \in Of(k, st, t, o) : v = Vars(k, st, t, o)
  BY DEF Vars
<1>2. ASSUME NEW k, NEW st, NEW t, NEW o, NEW f, NEW a
      PROVE  Call(Vars(k, st, t, o), f, a) = Vars(Called(k, f, a), st, t, o)
  <2>1. \A v \in Of(k, st, t, o) : Call(v, f, a) \in Of(Called(k, f, a), st, t, o)
    BY Zenon DEF Call, Called
  <2> HIDE DEF Of
  <2> QED BY <1>1, <2>1
<1>3. ASSUME NEW k, NEW st, NEW t, NEW o, NEW u
      PROVE  Yield(Vars(k, st, t, o), u) = Vars(k, st, t, u)
  <2>1. \A v \in Of(k, st, t, o) : Yield(v, u) \in Of(k, st, t, u)
    BY Zenon DEF Yield
  <2> HIDE DEF Of
  <2> QED BY <1>1, <2>1
<1>4. ASSUME NEW k, NEW st, NEW t, NEW o, NEW u
      PROVE  Aim(Vars(k, st, t, o), u) = Vars(k, st, u, o)
  <2>1. \A v \in Of(k, st, t, o) : Aim(v, u) \in Of(k, st, u, o)
    BY Zenon DEF Aim
  <2> HIDE DEF Of
  <2> QED BY <1>1, <2>1
<1>5. ASSUME NEW k, NEW st, NEW t, NEW o, NEW u
      PROVE  Arrive(Vars(k, st, t, o), u) = Vars(k, u, t, o)
  <2>1. \A v \in Of(k, st, t, o) : Arrive(v, u) \in Of(k, u, t, o)
    BY Zenon DEF Arrive
  <2> HIDE DEF Of
  <2> QED BY <1>1, <2>1
<1> HIDE DEF Of
<1> QED
  BY <1>2, <1>3, <1>4, <1>5

LEMMA CaseFacts ==
    ASSUME NEW c \in Cases
    PROVE  /\ c.kind \in Kinds /\ c.fns \in BOOLEAN /\ c.x \in Events
           /\ c.s \in States \ ViaMachine /\ c.answer \in Answers(c.kind) /\ c.target \in States
           /\ Facing(c, c.x) = c
<1>1. PICK k \in Kinds : c \in [kind : {k}, fns : BOOLEAN, x : Events, s : States \ ViaMachine,
                                answer : Answers(k), target : States]
  BY DEF Cases
<1>2. /\ c.kind = k /\ c.fns \in BOOLEAN /\ c.x \in Events
      /\ c.s \in States \ ViaMachine /\ c.answer \in Answers(k) /\ c.target \in States
  BY <1>1
<1>3. Facing(c, c.x) = c
  BY <1>1, Zenon DEF Facing
<1> QED
  BY <1>2, <1>3

(* A case's state, event and answer, and the cell of the array.              *)
From(c) == c.s
On(c) == c.x
Answer(c) == c.answer
Cell(c) == array[c.x][c.s]

(* The calls made for a cell of declaration i: the action's, then the        *)
(* transition function's, told of event a, then those for the move to t; the *)
(* call of the function of empty cells; and the next state.                  *)
Acted(i) == IF HasAction(i) THEN Called(<<>>, "action", decls[i].action) ELSE <<>>

Told(c, i, a, k) == IF NamesState(i) THEN k ELSE Called(k, "next", Heard(c, a))

Moved(c, k, t) ==
    IF c.fns /\ t # From(c)
    THEN Called(Called(Called(k, "machineTransition", t), "exit", From(c)), "entry", t)
    ELSE k

EmptyCall == Called(<<>>, "empty", "")

NextOf(c, i) == IF NamesState(i) THEN CHOOSE t \in decls[i].to : TRUE ELSE c.target

LEMMA ActPiece ==
    ASSUME NEW c, NEW i, NEW st, NEW t, NEW o, HasAction(i)
    PROVE  Act(c, i, Vars(<<>>, st, t, o)) = Vars(Acted(i), st, t, Answer(c))
  BY Pieces DEF Act, Acted, Answer

LEMMA EmptyPiece ==
    ASSUME NEW st, NEW t, NEW o
    PROVE  CallEmpty(Vars(<<>>, st, t, o)) = Vars(EmptyCall, st, t, o)
<1>1. \A k, f, a : Call(Vars(k, st, t, o), f, a) = Vars(Called(k, f, a), st, t, o)
  BY Pieces
<1> QED
  BY <1>1, Zenon DEF CallEmpty, EmptyCall

LEMMA NextPiece ==
    ASSUME NEW c, NEW i, NEW a, NEW k, NEW st, NEW t, NEW o
    PROVE  ChooseNextFor(c, i, a, Vars(k, st, t, o)) = Vars(Told(c, i, a, k), st, NextOf(c, i), o)
<1>1. CASE NamesState(i)
  BY <1>1, Pieces DEF ChooseNextFor, Told, NextOf
<1>2. CASE ~NamesState(i)
  <2>1. ChooseNextFor(c, i, a, Vars(k, st, t, o)) =
            Aim(Call(Vars(k, st, t, o), "next", Heard(c, a)), c.target)
    BY <1>2 DEF ChooseNextFor
  <2>2. Call(Vars(k, st, t, o), "next", Heard(c, a)) = Vars(Called(k, "next", Heard(c, a)), st, t, o)
    BY Pieces
  <2>3. Aim(Vars(Called(k, "next", Heard(c, a)), st, t, o), c.target) =
            Vars(Called(k, "next", Heard(c, a)), st, c.target, o)
    BY Pieces
  <2>4. Told(c, i, a, k) = Called(k, "next", Heard(c, a)) /\ NextOf(c, i) = c.target
    BY <1>2 DEF Told, NextOf
  <2> QED BY <2>1, <2>2, <2>3, <2>4
<1> QED
  BY <1>1, <1>2

LEMMA ReturnPiece ==
    ASSUME NEW k, NEW l, NEW st, NEW t, NEW u, NEW o, NEW w
    PROVE  ReturnNext(Vars(k, st, t, o), Vars(l, st, u, w)) = Vars(l, st, t, u)
  BY Pieces, VarsFields DEF ReturnNext

LEMMA EnterPiece ==
    ASSUME NEW c \in Cases, NEW k, NEW t, NEW o
    PROVE  EnterState(c, Vars(k, From(c), t, o)) = Vars(Moved(c, k, t), t, t, o)
<1> DEFINE st == From(c)
<1> HIDE DEF st
<1>1. CASE t = st
  <2>1. RunTransitionFns(Vars(k, st, t, o)) = Vars(k, st, t, o)
    BY <1>1, VarsFields DEF RunTransitionFns
  <2> QED BY <1>1, <2>1, Pieces, VarsFields DEF EnterState, Moved, st
<1>2. CASE t # st
  <2>1. RunTransitionFns(Vars(k, st, t, o)) =
            Vars(Called(Called(Called(k, "machineTransition", t), "exit", st), "entry", t), st, t, o)
    BY <1>2, Pieces, VarsFields DEF RunTransitionFns
  <2>2. c.fns \in BOOLEAN
    BY CaseFacts
  <2> QED BY <1>2, <2>1, <2>2, Pieces, VarsFields DEF EnterState, Moved, st
<1> QED
  BY <1>1, <1>2 DEF st

LEMMA ReturnedPiece ==
    ASSUME NEW c \in Cases, NEW k, NEW t, NEW o, o # noTransition
    PROVE  EnterReturned(c, Vars(k, From(c), t, o)) = Vars(Moved(c, k, o), o, o, o)
  BY EnterPiece, Pieces, VarsFields DEF EnterReturned

LEMMA NothingReturned ==
    ASSUME NEW c, NEW k, NEW st, NEW t
    PROVE  EnterReturned(c, Vars(k, st, t, noTransition)) = Vars(k, st, t, noTransition)
  BY VarsFields DEF EnterReturned

LEMMA Stays == \A c, k : Moved(c, k, From(c)) = k
  BY DEF Moved

LEMMA Appended ==
    ASSUME NEW E, NEW k \in Seq(E), NEW x \in E, NEW y \in E, NEW z \in E
    PROVE  /\ k \o <<>> = k /\ <<>> \o k = k
           /\ k \o <<x>> = Append(k, x) /\ Append(k, x) \in Seq(E)
           /\ k \o <<x, y, z>> = Append(Append(Append(k, x), y), z)
           /\ <<x>> = Append(<<>>, x)
<1>1. k \o <<>> = k /\ <<>> \o k = k
  OBVIOUS
<1>2. k \o <<x>> = Append(k, x) /\ Append(k, x) \in Seq(E)
  OBVIOUS
<1>3. k \o <<x, y, z>> = Append(Append(Append(k, x), y), z)
  OBVIOUS
<1>4. <<x>> = Append(<<>>, x)
  OBVIOUS
<1> QED
  BY <1>1, <1>2, <1>3, <1>4

(* What the code of a case's cell has called when the next state is known,   *)
(* the next state, and what it yields; where the cell has no transition, the *)
(* state the action returned.                                                *)
Acts(c) == Acted(Cell(c))
Goes(c) == Told(c, Cell(c), On(c), Acts(c))
Goal(c) == NextOf(c, Cell(c))
Result(c) == IF HasAction(Cell(c)) THEN Answer(c) ELSE noEvent
Settled(c) ==
    IF HasAction(Cell(c)) /\ c.kind = "states" /\ Answer(c) # noTransition THEN Answer(c)
    ELSE From(c)

LEMMA DescribedPieces ==
    ASSUME NEW c \in Cases
    PROVE  LET i == Cell(c) IN
           /\ i = NULL => /\ Described(c).calls = EmptyCall
                          /\ Described(c).state = From(c) /\ Described(c).out = noEvent
           /\ i # NULL /\ HasTransition(i) =>
                 /\ Described(c).calls = Moved(c, Goes(c), Goal(c))
                 /\ Described(c).state = Goal(c)
           /\ i # NULL /\ ~HasTransition(i) =>
                 /\ Described(c).calls = Moved(c, Acts(c), Settled(c))
                 /\ Described(c).state = Settled(c)
           /\ i # NULL => Described(c).out = Result(c)
<1> DEFINE i == array[c.x][c.s]
           acts == i # NULL /\ HasAction(i)
           moves == i # NULL /\ HasTransition(i)
           tells == moves /\ ~NamesState(i)
           next == IF moves THEN IF NamesState(i) THEN CHOOSE t \in decls[i].to : TRUE ELSE c.target
                   ELSE IF acts /\ c.kind = "states" /\ c.answer # noTransition THEN c.answer
                   ELSE c.s
           runs == c.fns /\ next # c.s
           empty == i = NULL
           p == <<"action", decls[i].action>>
           q == <<"next", Heard(c, c.x)>>
           m == <<"machineTransition", next>>
           e == <<"exit", c.s>>
           n == <<"entry", next>>
           z == <<"empty", "">>
<1>1. Described(c) = [calls |-> (IF acts THEN <<p>> ELSE <<>>) \o (IF tells THEN <<q>> ELSE <<>>)
                                \o (IF runs THEN <<m, e, n>> ELSE <<>>)
                                \o (IF empty THEN <<z>> ELSE <<>>),
                      state |-> next,
                      out |-> IF acts THEN c.answer ELSE noEvent]
  BY Zenon DEF Described
<1>2. /\ Described(c).calls = (IF acts THEN <<p>> ELSE <<>>) \o (IF tells THEN <<q>> ELSE <<>>)
                              \o (IF runs THEN <<m, e, n>> ELSE <<>>) \o (IF empty THEN <<z>> ELSE <<>>)
      /\ Described(c).state = next
      /\ Described(c).out = IF acts THEN c.answer ELSE noEvent
  <2> HIDE DEF acts, tells, runs, empty, p, q, m, e, n, z, next
  <2> QED BY <1>1
<1>3. acts \in BOOLEAN /\ tells \in BOOLEAN /\ runs \in BOOLEAN /\ empty \in BOOLEAN
  BY Zenon
<1> HIDE DEF p, q, m, e, n, z
<1>4. PICK k : k = IF acts THEN Append(<<>>, p) ELSE <<>>
  BY Zenon
<1>5. PICK l : l = IF tells THEN Append(k, q) ELSE k
  BY Zenon
<1>6. PICK w : w = IF runs THEN Append(Append(Append(l, m), e), n) ELSE l
  <2> HIDE DEF runs
  <2> QED OBVIOUS
<1>7. Described(c).calls = IF empty THEN Append(w, z) ELSE w
  <2> HIDE DEF acts, tells, runs, empty, next
  <2> DEFINE E == {p, q, m, e, n, z}
  <2>1. <<>> \in Seq(E) /\ p \in E /\ q \in E /\ m \in E /\ e \in E /\ n \in E /\ z \in E
    OBVIOUS
  <2> HIDE DEF E
  <2>2. k \in Seq(E) /\ (IF acts THEN <<p>> ELSE <<>>) = k
    <3>1. CASE acts
      BY <1>4, <2>1, <3>1, Appended
    <3>2. CASE ~acts
      BY <1>4, <2>1, <3>2
    <3> QED BY <3>1, <3>2
  <2>3. l \in Seq(E) /\ k \o (IF tells THEN <<q>> ELSE <<>>) = l
    <3>1. CASE tells
      BY <1>5, <2>1, <2>2, <3>1, Appended
    <3>2. CASE ~tells
      BY <1>5, <2>1, <2>2, <3>2, Appended
    <3> QED BY <3>1, <3>2
  <2>4. w \in Seq(E) /\ l \o (IF runs THEN <<m, e, n>> ELSE <<>>) = w
    <3>1. CASE runs
      BY <1>6, <2>1, <2>3, <3>1, Appended
    <3>2. CASE ~runs
      BY <1>6, <2>1, <2>3, <3>2, Appended
    <3> QED BY <3>1, <3>2
  <2>5. w \o (IF empty THEN <<z>> ELSE <<>>) = IF empty THEN Append(w, z) ELSE w
    <3>1. CASE empty
      BY <2>1, <2>4, <3>1, Appended
    <3>2. CASE ~empty
      BY <2>1, <2>4, <3>2, Appended
    <3> QED BY <3>1, <3>2
  <2> QED BY <1>2, <2>2, <2>3, <2>4, <2>5
<1>8. i # NULL => k = Acts(c)
  BY <1>4, Zenon DEF Acts, Acted, Called, Cell, p
<1>9. i # NULL /\ HasTransition(i) => l = Goes(c) /\ next = Goal(c)
  BY <1>5, <1>8, Zenon DEF Goes, Goal, Told, Called, NextOf, Cell, On, q
<1>10. i # NULL /\ ~HasTransition(i) => l = Acts(c) /\ next = Settled(c)
  BY <1>5, <1>8, Zenon DEF Settled, Cell, From, Answer
<1>11. w = Moved(c, l, next)
  BY <1>6, Zenon DEF Moved, Called, From, m, e, n
<1>12. i = NULL => w = <<>> /\ next = From(c)
  BY <1>4, <1>5, <1>6, Zenon DEF From
<1>13. i # NULL => Described(c).out = Result(c)
  BY <1>2, Zenon DEF Result, Cell, Answer
<1>14. i = Cell(c)
  BY DEF Cell
<1>15. i = NULL => Described(c).out = noEvent
  BY <1>2, Zenon
<1>16. Described(c).state = next
  BY <1>2
<1>17. Append(<<>>, z) = EmptyCall
  BY Zenon DEF EmptyCall, Called, z
<1> HIDE DEF next, i
<1> QED
  BY <1>7, <1>8, <1>9, <1>10, <1>11, <1>12, <1>13, <1>14, <1>15, <1>16, <1>17

(* Code that makes the described calls and ends in the described state.      *)
LEMMA EmptyAgrees ==
    ASSUME NEW c \in Cases, NEW t, NEW o, Cell(c) = NULL, c.kind = "events" => o = noEvent
    PROVE  Agrees(Vars(EmptyCall, From(c), t, o), c)
  BY DescribedPieces, VarsFields DEF Agrees

LEMMA MoveAgrees ==
    ASSUME NEW c \in Cases, NEW t, NEW o, Cell(c) # NULL, HasTransition(Cell(c)),
           c.kind = "events" => o = Result(c)
    PROVE  Agrees(Vars(Moved(c, Goes(c), Goal(c)), Goal(c), t, o), c)
  BY DescribedPieces, VarsFields DEF Agrees

LEMMA StayAgrees ==
    ASSUME NEW c \in Cases, NEW t, NEW o, Cell(c) # NULL, ~HasTransition(Cell(c)),
           c.kind = "events" => o = Result(c)
    PROVE  Agrees(Vars(Moved(c, Acts(c), Settled(c)), Settled(c), t, o), c)
  BY DescribedPieces, VarsFields DEF Agrees

(* What the user's functions may return, and what declarations may ask for.  *)
LEMMA CellFacts ==
    ASSUME IInv, Populated, NEW c \in Cases
    PROVE  /\ c.kind \in {"events", "void", "states"}
           /\ On(c) \in Events /\ From(c) \in States /\ From(c) \notin ViaMachine
           /\ From(c) # noTransition /\ On(c) # noEvent
           /\ c.kind = "events" => Answer(c) \in Events \cup {noEvent}
           /\ c.kind = "void" => Answer(c) = noEvent
           /\ c.kind = "states" => Answer(c) \in States \cup {noTransition}
           /\ Cell(c) # NULL => /\ Cell(c) \in DOMAIN decls
                                /\ HasAction(Cell(c)) \/ HasTransition(Cell(c))
                                /\ HasTransition(Cell(c)) => Goal(c) \in States /\ Goal(c) # noTransition
<1>1. c.kind \in {"events", "void", "states"} /\ Answer(c) \in Answers(c.kind)
  BY CaseFacts DEF Kinds, Answer
<1>2. On(c) \in Events /\ From(c) \in States /\ From(c) \notin ViaMachine
  BY CaseFacts DEF On, From
<1>3. From(c) # noTransition /\ On(c) # noEvent
  BY <1>2, EnumeratorAssumption
<1>4. Cell(c) # NULL => Cell(c) \in DOMAIN decls
  BY <1>2, ArrayAtTheEnd DEF Cell, On, From
<1>5. ASSUME NEW i \in DOMAIN decls
      PROVE  /\ HasAction(i) \/ HasTransition(i)
             /\ HasTransition(i) => NextOf(c, i) \in States
  <2>1. decls[i] \in Declarations
    BY <1>5, ListFacts DEF IInv
  <2>2. TransitionMatrix(decls[i]) /\ decls[i].to \subseteq States
    BY <2>1, DeclarationAssumption
  <2> QED BY <2>2, CaseFacts DEF TransitionMatrix, HasAction, HasTransition, NextOf
<1>6. ASSUME Cell(c) # NULL
      PROVE  /\ HasAction(Cell(c)) \/ HasTransition(Cell(c))
             /\ HasTransition(Cell(c)) => Goal(c) \in States /\ Goal(c) # noTransition
  BY <1>4, <1>5, <1>6, EnumeratorAssumption DEF Goal
<1>7. /\ c.kind = "events" => Answer(c) \in Events \cup {noEvent}
      /\ c.kind = "void" => Answer(c) = noEvent
      /\ c.kind = "states" => Answer(c) \in States \cup {noTransition}
  BY <1>1 DEF Answers
<1> QED
  BY <1>1, <1>2, <1>3, <1>4, <1>6, <1>7

(* The code starts in the state of the case, with its event.                 *)
LEMMA BeginPiece == \A c : Begin(c) = Vars(<<>>, From(c), From(c), On(c))
  BY DEF Begin, Vars, From, On

LEMMA CellPiece == \A c, k, t, o : array[c.x][Vars(k, From(c), t, o).state] = Cell(c)
  BY VarsFields DEF Cell, From

(* What machines whose actions return states do with what is returned.       *)
LEMMA ReturnedAgrees ==
    ASSUME IInv, Populated, NEW c \in Cases, ~Refused(c), c.kind = "states", NEW t, NEW o
    PROVE  /\ Cell(c) = NULL /\ o \in {noTransition, From(c)} =>
                  Agrees(EnterReturned(c, Vars(EmptyCall, From(c), t, o)), c)
           /\ Cell(c) # NULL /\ HasAction(Cell(c)) =>
                  Agrees(EnterReturned(c, Vars(Acts(c), From(c), t, Answer(c))), c)
           /\ Cell(c) # NULL /\ ~HasAction(Cell(c)) =>
                  Agrees(EnterReturned(c, Vars(Goes(c), From(c), t, Goal(c))), c)
<1>1. ASSUME Cell(c) = NULL, o \in {noTransition, From(c)}
      PROVE  Agrees(EnterReturned(c, Vars(EmptyCall, From(c), t, o)), c)
  <2>1. CASE o = noTransition
    BY <1>1, <2>1, NothingReturned, EmptyAgrees
  <2>2. CASE o = From(c)
    <3>1. From(c) # noTransition
      BY CellFacts
    <3>2. EnterReturned(c, Vars(EmptyCall, From(c), t, From(c))) =
              Vars(EmptyCall, From(c), From(c), From(c))
      BY <3>1, ReturnedPiece, Stays
    <3> QED BY <1>1, <2>2, <3>2, EmptyAgrees
  <2> QED BY <1>1, <2>1, <2>2
<1>2. ASSUME Cell(c) # NULL, HasAction(Cell(c))
      PROVE  Agrees(EnterReturned(c, Vars(Acts(c), From(c), t, Answer(c))), c)
  <2>1. ~HasTransition(Cell(c))
    BY <1>2 DEF Refused, Cell
  <2>2. CASE Answer(c) = noTransition
    <3>1. Settled(c) = From(c)
      BY <2>2 DEF Settled
    <3> QED BY <1>2, <2>1, <2>2, <3>1, NothingReturned, Stays, StayAgrees
  <2>3. CASE Answer(c) # noTransition
    <3>1. Settled(c) = Answer(c)
      BY <1>2, <2>3 DEF Settled
    <3> QED BY <1>2, <2>1, <2>3, <3>1, ReturnedPiece, StayAgrees
  <2> QED BY <2>2, <2>3
<1>3. ASSUME Cell(c) # NULL, ~HasAction(Cell(c))
      PROVE  Agrees(EnterReturned(c, Vars(Goes(c), From(c), t, Goal(c))), c)
  <2>1. HasTransition(Cell(c)) /\ Goal(c) # noTransition
    BY <1>3, CellFacts
  <2> QED BY <1>3, <2>1, ReturnedPiece, MoveAgrees
<1> QED
  BY <1>1, <1>2, <1>3

(* What the others do when the next state is known.                          *)
LEMMA EnteredAgrees ==
    ASSUME NEW c \in Cases, c.kind # "states", NEW t, NEW o
    PROVE  /\ Cell(c) = NULL /\ (c.kind = "events" => o = noEvent) =>
                  /\ Agrees(EnterState(c, Vars(EmptyCall, From(c), From(c), o)), c)
                  /\ Agrees(Vars(EmptyCall, From(c), t, o), c)
           /\ Cell(c) # NULL /\ HasTransition(Cell(c)) /\ (c.kind = "events" => o = Result(c)) =>
                  Agrees(EnterState(c, Vars(Goes(c), From(c), Goal(c), o)), c)
           /\ Cell(c) # NULL /\ ~HasTransition(Cell(c)) /\ (c.kind = "events" => o = Result(c)) =>
                  /\ Agrees(EnterState(c, Vars(Acts(c), From(c), From(c), o)), c)
                  /\ Agrees(Vars(Acts(c), From(c), t, o), c)
<1>1. ASSUME Cell(c) = NULL, c.kind = "events" => o = noEvent
      PROVE  /\ Agrees(EnterState(c, Vars(EmptyCall, From(c), From(c), o)), c)
             /\ Agrees(Vars(EmptyCall, From(c), t, o), c)
  BY <1>1, EnterPiece, Stays, EmptyAgrees
<1>2. ASSUME Cell(c) # NULL, HasTransition(Cell(c)), c.kind = "events" => o = Result(c)
      PROVE  Agrees(EnterState(c, Vars(Goes(c), From(c), Goal(c), o)), c)
  BY <1>2, EnterPiece, MoveAgrees
<1>3. ASSUME Cell(c) # NULL, ~HasTransition(Cell(c)), c.kind = "events" => o = Result(c)
      PROVE  /\ Agrees(EnterState(c, Vars(Acts(c), From(c), From(c), o)), c)
             /\ Agrees(Vars(Acts(c), From(c), t, o), c)
  <2>1. Settled(c) = From(c)
    BY DEF Settled
  <2> QED BY <1>3, <2>1, EnterPiece, Stays, StayAgrees
<1> QED
  BY <1>1, <1>2, <1>3

-----------------------------------------------------------------------------
(* The table generator.                                                      *)
LEMMA CellActionPiece ==
    ASSUME NEW c \in Cases, NEW t, NEW o
    PROVE  RunCellAction(c, Vars(<<>>, From(c), t, o)) =
               IF Cell(c) = NULL THEN Vars(EmptyCall, From(c), t, Nothing(c))
               ELSE Vars(Acts(c), From(c), t, IF HasAction(Cell(c)) THEN Answer(c) ELSE Nothing(c))
<1> DEFINE b == Vars(<<>>, From(c), t, o)
<1>1. RunCellAction(c, b) = IF Cell(c) = NULL THEN Yield(CallEmpty(b), Nothing(c))
                            ELSE IF HasAction(Cell(c)) THEN Act(c, Cell(c), b) ELSE Yield(b, Nothing(c))
  BY CellPiece DEF RunCellAction
<1>2. CASE Cell(c) = NULL
  BY <1>1, <1>2, EmptyPiece, Pieces
<1>3. CASE Cell(c) # NULL /\ HasAction(Cell(c))
  BY <1>1, <1>3, ActPiece DEF Acts
<1>4. CASE Cell(c) # NULL /\ ~HasAction(Cell(c))
  BY <1>1, <1>4, Pieces DEF Acts, Acted
<1> QED
  BY <1>2, <1>3, <1>4

LEMMA TableAgrees ==
    ASSUME IInv, Populated, NEW c \in Cases, ~Refused(c)
    PROVE  Agrees(TableRun(c), c)
<1> DEFINE b == Vars(<<>>, From(c), From(c), On(c))
<1>1. Begin(c) = b
  BY BeginPiece
<1>2. CASE c.kind = "states"
  <2>1. TableRun(c) = EnterReturned(c, RunStateCell(c, b)) /\ Nothing(c) = noTransition
    BY <1>1, <1>2 DEF TableRun, Nothing
  <2>2. RunStateCell(c, b) = IF Cell(c) = NULL \/ HasAction(Cell(c)) THEN RunCellAction(c, b)
                             ELSE ReturnNext(b, ChooseNext(c, Cell(c), b))
    BY CellPiece DEF RunStateCell
  <2>3. CASE Cell(c) = NULL
    BY <1>2, <2>1, <2>2, <2>3, CellActionPiece, ReturnedAgrees
  <2>4. CASE Cell(c) # NULL /\ HasAction(Cell(c))
    BY <1>2, <2>1, <2>2, <2>4, CellActionPiece, ReturnedAgrees
  <2>5. CASE Cell(c) # NULL /\ ~HasAction(Cell(c))
    <3>1. ChooseNext(c, Cell(c), b) = Vars(Goes(c), From(c), Goal(c), On(c))
      BY <2>5, NextPiece DEF ChooseNext, Goes, Goal, Acts, Acted, On
    <3> QED BY <1>2, <2>1, <2>2, <2>5, <3>1, ReturnPiece, ReturnedAgrees
  <2> QED BY <2>3, <2>4, <2>5
<1>3. CASE c.kind # "states"
  <2> DEFINE w == Vars(Acts(c), From(c), From(c), Result(c))
  <2>1. TableRun(c) = EnterState(c, EvaluateTransition(c, RunCellAction(c, b))) /\ Nothing(c) = noEvent
    BY <1>1, <1>3 DEF TableRun, Nothing
  <2>2. \A k, o : EvaluateTransition(c, Vars(k, From(c), From(c), o)) =
                      IF Cell(c) # NULL /\ HasTransition(Cell(c))
                      THEN ChooseNext(c, Cell(c), Vars(k, From(c), From(c), o))
                      ELSE Vars(k, From(c), From(c), o)
    BY CellPiece DEF EvaluateTransition
  <2>3. CASE Cell(c) = NULL
    BY <1>3, <2>1, <2>2, <2>3, CellActionPiece, EnteredAgrees
  <2>4. CASE Cell(c) # NULL
    <3>1. RunCellAction(c, b) = w
      BY <2>1, <2>4, CellActionPiece DEF Result
    <3>2. ChooseNext(c, Cell(c), w) = Vars(Goes(c), From(c), Goal(c), Result(c))
      BY NextPiece DEF ChooseNext, Goes, Goal, On
    <3> QED BY <1>3, <2>1, <2>2, <2>4, <3>1, <3>2, EnteredAgrees
  <2> QED BY <2>3, <2>4
<1> QED
  BY <1>2, <1>3

-----------------------------------------------------------------------------
(* The single switch generator: a group's declaration stands for its cells'. *)
LEMMA AlikePieces ==
    ASSUME NEW i, NEW j, decls[i].action = decls[j].action, decls[i].to = decls[j].to
    PROVE  /\ HasAction(i) <=> HasAction(j)
           /\ HasTransition(i) <=> HasTransition(j)
           /\ NamesState(i) <=> NamesState(j)
           /\ Acted(i) = Acted(j)
           /\ \A c, a, k : Told(c, i, a, k) = Told(c, j, a, k)
           /\ \A c : NextOf(c, i) = NextOf(c, j)
<1>1. /\ HasAction(i) <=> HasAction(j)
      /\ HasTransition(i) <=> HasTransition(j)
      /\ NamesState(i) <=> NamesState(j)
  BY DEF HasAction, HasTransition, NamesState
<1> QED
  BY <1>1 DEF Acted, Told, NextOf

LEMMA SingleSwitchAgrees ==
    ASSUME IInv, Populated, NEW c \in Cases, ~Refused(c), ~TransitionFnIsMisled(c)
    PROVE  Agrees(SingleSwitchRun(c), c)
<1> DEFINE b == Vars(<<>>, From(c), From(c), On(c))
           g == GroupBody(On(c), From(c))
           CaseOf(i) == CASE c.kind = "events" -> ConsolidatedCaseEvents(c, i, b)
                          [] c.kind = "void" -> ConsolidatedCaseVoid(c, i, b)
                          [] c.kind = "states" -> ConsolidatedCaseStates(c, i, b)
<1>1. SingleSwitchRun(c) = SetNewState(c, IF Groups(On(c), From(c)) = {} THEN HandleEmptyCell(c, b)
                                          ELSE CaseOf(g))
  <2>1. Begin(c) = b
    BY BeginPiece
  <2> HIDE DEF b
  <2> QED BY <2>1 DEF SingleSwitchRun, On, From
<1>2. CASE Cell(c) = NULL
  <2>1. Groups(On(c), From(c)) = {}
    BY <1>2, CellFacts, GroupOfCell DEF Cell, On, From
  <2>2. HandleEmptyCell(c, b) =
            Vars(EmptyCall, From(c), From(c), IF c.kind = "events" THEN noEvent ELSE On(c))
    BY EmptyPiece, Pieces DEF HandleEmptyCell
  <2> HIDE DEF CaseOf
  <2>3. CASE c.kind = "states"
    BY <1>1, <1>2, <2>1, <2>2, <2>3, Pieces, VarsFields, ReturnedAgrees DEF SetNewState
  <2>4. CASE c.kind # "states"
    BY <1>1, <1>2, <2>1, <2>2, <2>4, EnteredAgrees DEF SetNewState
  <2> QED BY <2>3, <2>4
<1>3. CASE Cell(c) # NULL
  <2>1. Groups(On(c), From(c)) # {} /\ MayConsolidate(g, Cell(c))
    BY <1>3, CellFacts, GroupOfCell DEF Cell, On, From
  <2> HIDE DEF g
  <2>2. /\ HasAction(g) <=> HasAction(Cell(c))
        /\ HasTransition(g) <=> HasTransition(Cell(c))
        /\ NamesState(g) <=> NamesState(Cell(c))
        /\ Acted(g) = Acts(c) /\ NextOf(c, g) = Goal(c)
        /\ \A a, k : Told(c, g, a, k) = Told(c, Cell(c), a, k)
    <3>1. decls[g].action = decls[Cell(c)].action /\ decls[g].to = decls[Cell(c)].to
      BY <2>1 DEF MayConsolidate
    <3> HIDE DEF Acts, Goal
    <3>2. /\ HasAction(g) <=> HasAction(Cell(c))
          /\ HasTransition(g) <=> HasTransition(Cell(c))
          /\ NamesState(g) <=> NamesState(Cell(c))
          /\ Acted(g) = Acted(Cell(c)) /\ NextOf(c, g) = NextOf(c, Cell(c))
          /\ \A a, k : Told(c, g, a, k) = Told(c, Cell(c), a, k)
      <4> HIDE DEF CaseOf, b
      <4> QED BY <3>1, AlikePieces
    <3> QED BY <3>2 DEF Acts, Goal
  <2>3. HasAction(g) => Act(c, g, b) = Vars(Acts(c), From(c), From(c), Answer(c))
    BY <2>2, ActPiece
  <2>4. ~HasAction(g) => Acts(c) = <<>>
    BY <2>2 DEF Acts, Acted
  <2>5. \A o : ChooseNext(c, g, Vars(Acts(c), From(c), From(c), o)) = Vars(Goes(c), From(c), Goal(c), o)
    BY <2>2, NextPiece DEF ChooseNext, Goes, On
  <2>6. SingleSwitchRun(c) = SetNewState(c, CaseOf(g))
    BY <1>1, <2>1
  <2>7. CASE c.kind = "events"
    <3> DEFINE w == Vars(Acts(c), From(c), From(c), Result(c))
    <3>1. CaseOf(g) = IF HasTransition(Cell(c)) THEN ChooseNextFor(c, g, Result(c), w) ELSE w
      <4> w.out = Result(c)
        BY VarsFields
      <4>1. CASE HasAction(g)
        BY <2>2, <2>3, <2>7, <4>1 DEF ConsolidatedCaseEvents, Result
      <4>2. CASE ~HasAction(g)
        BY <2>2, <2>4, <2>7, <4>2, Pieces DEF ConsolidatedCaseEvents, Result
      <4> QED BY <4>1, <4>2
    <3>2. CASE HasTransition(Cell(c))
      <4>1. ChooseNextFor(c, g, Result(c), w) =
                Vars(Told(c, Cell(c), Result(c), Acts(c)), From(c), Goal(c), Result(c))
        BY <2>2, NextPiece
      <4>2. NamesState(Cell(c)) \/ Result(c) = On(c)
        BY <1>3, <2>7, <3>2 DEF TransitionFnIsMisled, Result, Answer, Cell, On
      <4>3. Told(c, Cell(c), Result(c), Acts(c)) = Goes(c)
        BY <4>2 DEF Told, Goes
      <4>4. CaseOf(g) = Vars(Goes(c), From(c), Goal(c), Result(c))
        BY <3>1, <3>2, <4>1, <4>3
      <4> HIDE DEF CaseOf
      <4> QED BY <1>3, <2>6, <2>7, <3>2, <4>4, EnteredAgrees DEF SetNewState
    <3>3. CASE ~HasTransition(Cell(c))
      <4> HIDE DEF CaseOf
      <4> QED BY <1>3, <2>6, <2>7, <3>1, <3>3, EnteredAgrees DEF SetNewState
    <3> QED BY <3>2, <3>3
  <2>8. CASE c.kind = "void"
    <3>1. PICK o : CaseOf(g) = IF HasTransition(Cell(c)) THEN Vars(Goes(c), From(c), Goal(c), o)
                               ELSE Vars(Acts(c), From(c), From(c), o)
      <4>1. CASE HasAction(g)
        BY <2>2, <2>3, <2>5, <2>8, <4>1 DEF ConsolidatedCaseVoid
      <4>2. CASE ~HasAction(g)
        BY <2>2, <2>4, <2>5, <2>8, <4>2 DEF ConsolidatedCaseVoid
      <4> QED BY <4>1, <4>2
    <3> HIDE DEF CaseOf
    <3> QED BY <1>3, <2>6, <2>8, <3>1, EnteredAgrees DEF SetNewState
  <2>9. CASE c.kind = "states"
    <3>1. CASE HasAction(g)
      <4>1. ~HasTransition(g)
        BY <1>3, <2>2, <2>9, <3>1 DEF Refused, Cell
      <4>2. CaseOf(g) = Vars(Acts(c), From(c), Answer(c), Answer(c))
        BY <2>3, <2>9, <3>1, <4>1, Pieces DEF ConsolidatedCaseStates, Answer
      <4>3. SingleSwitchRun(c) = EnterReturned(c, Vars(Acts(c), From(c), Answer(c), Answer(c)))
        BY <2>6, <2>9, <4>2, Pieces, VarsFields DEF SetNewState
      <4> QED BY <1>3, <2>2, <2>9, <3>1, <4>3, ReturnedAgrees
    <3>2. CASE ~HasAction(g)
      <4>1. HasTransition(g)
        BY <1>3, <2>2, <3>2, CellFacts
      <4>2. CaseOf(g) = Vars(Goes(c), From(c), Goal(c), On(c))
        BY <2>4, <2>5, <2>9, <3>2, <4>1 DEF ConsolidatedCaseStates
      <4>3. SingleSwitchRun(c) = EnterReturned(c, Vars(Goes(c), From(c), Goal(c), Goal(c)))
        BY <2>6, <2>9, <4>2, Pieces, VarsFields DEF SetNewState
      <4> QED BY <1>3, <2>2, <2>9, <3>2, <4>3, ReturnedAgrees
    <3> QED BY <3>1, <3>2
  <2> QED BY <2>7, <2>8, <2>9, CellFacts
<1> QED
  BY <1>2, <1>3

-----------------------------------------------------------------------------
(* Lists in the order in which their members were met.                       *)

(* x goes before y: by a, then by p.                                         *)
Ahead(a, p, x, y) == a[x] < a[y] \/ (a[x] = a[y] /\ p[x] < p[y])

Keys(T, a, p) ==
    /\ a \in [T -> Nat] /\ p \in [T -> Nat]
    /\ \A x, y \in T : a[x] = a[y] /\ p[x] = p[y] => x = y

Sorted(q, a, p) == \A k, l \in DOMAIN q : k < l => Ahead(a, p, q[k], q[l])

LEMMA AheadFacts ==
    ASSUME NEW T, NEW a, NEW p, Keys(T, a, p)
    PROVE  /\ \A x, y \in T : x # y => Ahead(a, p, x, y) \/ Ahead(a, p, y, x)
           /\ \A x, y, z \in T : Ahead(a, p, x, y) /\ Ahead(a, p, y, z) => Ahead(a, p, x, z)
<1>1. ASSUME NEW x \in T, NEW y \in T, x # y
      PROVE  Ahead(a, p, x, y) \/ Ahead(a, p, y, x)
  <2>1. a[x] \in Nat /\ a[y] \in Nat /\ p[x] \in Nat /\ p[y] \in Nat
    BY DEF Keys
  <2>2. a[x] # a[y] \/ p[x] # p[y]
    BY <1>1 DEF Keys
  <2> QED BY <2>1, <2>2 DEF Ahead
<1>2. ASSUME NEW x \in T, NEW y \in T, NEW z \in T, Ahead(a, p, x, y), Ahead(a, p, y, z)
      PROVE  Ahead(a, p, x, z)
  <2>1. /\ a[x] \in Nat /\ a[y] \in Nat /\ a[z] \in Nat
        /\ p[x] \in Nat /\ p[y] \in Nat /\ p[z] \in Nat
    BY DEF Keys
  <2> QED BY <1>2, <2>1 DEF Ahead
<1> QED
  BY <1>1, <1>2

LEMMA LastOne ==
    ASSUME NEW T, NEW a, NEW p, Keys(T, a, p)
    PROVE  \A n \in Nat : \A S \in SUBSET T :
               IsFiniteSet(S) /\ Cardinality(S) = n /\ S # {} =>
                   \E m \in S : \A x \in S : x # m => Ahead(a, p, x, m)
<1> DEFINE Has(S) == \E m \in S : \A x \in S : x # m => Ahead(a, p, x, m)
           Bad == {n \in Nat : \E S \in SUBSET T :
                       IsFiniteSet(S) /\ Cardinality(S) = n /\ S # {} /\ ~Has(S)}
<1> SUFFICES ASSUME Bad # {} PROVE FALSE
  OBVIOUS
<1>1. PICK n \in Bad : \A m \in Bad : n <= m
  BY LeastNat
<1>2. PICK S \in SUBSET T : IsFiniteSet(S) /\ Cardinality(S) = n /\ S # {} /\ ~Has(S)
  BY <1>1
<1>3. PICK y \in S : TRUE
  BY <1>2
<1> DEFINE R == S \ {y}
<1>4. R \in SUBSET T /\ IsFiniteSet(R) /\ Cardinality(R) = n - 1 /\ n - 1 \in Nat
  <2>1. R \in SUBSET T /\ IsFiniteSet(R) /\ Cardinality(R) = n - 1
    BY <1>2, <1>3, FS_RemoveElement
  <2>2. Cardinality(R) \in Nat
    BY <2>1, FS_CardinalityType
  <2> QED BY <2>1, <2>2
<1>5. R # {}
  <2> SUFFICES ASSUME R = {} PROVE FALSE
    OBVIOUS
  <2>1. \A x \in S : x = y
    OBVIOUS
  <2> QED BY <1>2, <1>3, <2>1
<1>6. Has(R)
  <2>1. n - 1 \notin Bad
    BY <1>1, <1>4
  <2> HIDE DEF Has
  <2> QED BY <1>4, <1>5, <2>1
<1>7. PICK m \in R : \A x \in R : x # m => Ahead(a, p, x, m)
  BY <1>6
<1>8. m \in T /\ y \in T /\ m # y /\ m \in S /\ S \subseteq T /\ \A x \in S : x \in R \/ x = y
  BY <1>2, <1>3, <1>7
<1> HIDE DEF R
<1>9. CASE Ahead(a, p, y, m)
  BY <1>2, <1>7, <1>8, <1>9
<1>10. CASE Ahead(a, p, m, y)
  <2>1. \A x \in S : x # y => Ahead(a, p, x, y)
    <3> SUFFICES ASSUME NEW x \in S, x # y PROVE Ahead(a, p, x, y)
      OBVIOUS
    <3>1. x \in T /\ (x = m \/ Ahead(a, p, x, m))
      BY <1>7, <1>8
    <3> QED BY <1>8, <1>10, <3>1, AheadFacts
  <2> QED BY <1>2, <1>3, <2>1
<1> QED
  BY <1>8, <1>9, <1>10, AheadFacts

LEMMA SortedListExists ==
    ASSUME NEW T, NEW a, NEW p, Keys(T, a, p)
    PROVE  \A n \in Nat : \A S \in SUBSET T :
               IsFiniteSet(S) /\ Cardinality(S) = n => \E q \in SetToSeqs(S) : Sorted(q, a, p)
<1> DEFINE Has(S) == \E q \in SetToSeqs(S) : Sorted(q, a, p)
           Bad == {n \in Nat : \E S \in SUBSET T :
                       IsFiniteSet(S) /\ Cardinality(S) = n /\ ~Has(S)}
<1> SUFFICES ASSUME Bad # {} PROVE FALSE
  OBVIOUS
<1>1. PICK n \in Bad : \A m \in Bad : n <= m
  BY LeastNat
<1>2. PICK S \in SUBSET T : IsFiniteSet(S) /\ Cardinality(S) = n /\ ~Has(S)
  BY <1>1
<1>3. S # {}
  <2> SUFFICES ASSUME S = {} PROVE FALSE
    OBVIOUS
  <2>1. n = 0
    BY <1>2, FS_EmptySet
  <2> DEFINE f == [k \in {} |-> 0]
  <2>2. f \in SetToSeqs(S) /\ Sorted(f, a, p)
    BY <1>2, <2>1 DEF SetToSeqs, Sorted
  <2> QED BY <1>2, <2>2
<1>4. PICK m \in S : \A x \in S : x # m => Ahead(a, p, x, m)
  BY <1>2, <1>3, LastOne
<1> DEFINE R == S \ {m}
<1>5. R \in SUBSET T /\ IsFiniteSet(R) /\ Cardinality(R) = n - 1 /\ n - 1 \in Nat /\ n \in Nat
  <2>1. R \in SUBSET T /\ IsFiniteSet(R) /\ Cardinality(R) = n - 1
    BY <1>2, <1>4, FS_RemoveElement
  <2>2. Cardinality(R) \in Nat
    BY <2>1, FS_CardinalityType
  <2> QED BY <2>1, <2>2
<1>6. Has(R)
  <2>1. n - 1 \notin Bad
    BY <1>1, <1>5
  <2> HIDE DEF Has
  <2> QED BY <1>5, <2>1
<1>7. PICK q \in SetToSeqs(R) : Sorted(q, a, p)
  BY <1>6
<1>8. /\ q \in [1..(n - 1) -> R] /\ DOMAIN q = 1..(n - 1)
      /\ \A k, l \in 1..(n - 1) : k # l => q[k] # q[l]
  BY <1>5, <1>7 DEF SetToSeqs
<1> DEFINE r == [k \in 1..n |-> IF k = n THEN m ELSE q[k]]
<1>9. /\ DOMAIN r = 1..n /\ n \in 1..n /\ r[n] = m
      /\ \A k \in 1..n : k # n => k \in 1..(n - 1) /\ k < n /\ r[k] = q[k]
      /\ \A k \in 1..(n - 1) : q[k] \in S /\ q[k] # m
  BY <1>3, <1>5, <1>8
<1>10. r \in [1..n -> S]
  BY <1>4, <1>9
<1> HIDE DEF r
<1>11. ASSUME NEW k \in 1..n, NEW l \in 1..n, k # l PROVE r[k] # r[l]
  BY <1>8, <1>9, <1>11
<1>12. ASSUME NEW k \in 1..n, NEW l \in 1..n, k < l PROVE Ahead(a, p, r[k], r[l])
  <2>1. k # n /\ k \in Nat /\ l \in Nat
    BY <1>12
  <2>2. CASE l = n
    BY <1>4, <1>9, <2>1, <2>2
  <2>3. CASE l # n
    BY <1>7, <1>8, <1>9, <1>12, <2>1, <2>3 DEF Sorted
  <2> QED BY <2>2, <2>3
<1>13. r \in SetToSeqs(S) /\ Sorted(r, a, p)
  BY <1>2, <1>9, <1>10, <1>11, <1>12 DEF SetToSeqs, Sorted
<1> QED
  BY <1>2, <1>13

(* Every member has one place in a list of all of them.                      *)
LEMMA Places ==
    ASSUME NEW S, IsFiniteSet(S), NEW q \in SetToSeqs(S)
    PROVE  /\ Len(q) \in Nat /\ DOMAIN q = 1..Len(q)
           /\ \A k \in 1..Len(q) : q[k] \in S
           /\ \A x \in S : Place(q, x) \in 1..Len(q) /\ q[Place(q, x)] = x
<1> DEFINE n == Cardinality(S)
<1>1. n \in Nat /\ q \in [1..n -> S] /\ \A k, l \in 1..n : k # l => q[k] # q[l]
  BY FS_CardinalityType DEF SetToSeqs
<1>2. Len(q) = n /\ DOMAIN q = 1..n
  BY <1>1
<1>3. q \in Surjection(1..n, S)
  <2>1. q \in Injection(1..n, S)
    BY <1>1 DEF Injection, IsInjective
  <2>2. IsFiniteSet(1..n) /\ Cardinality(1..n) = n
    <3>1. 1 \in Int /\ n \in Int
      BY <1>1
    <3> QED BY <1>1, <3>1, FS_Interval
  <2> QED BY <2>1, <2>2, FS_Injection
<1>4. \A x \in S : \E k \in 1..n : q[k] = x
  BY <1>3 DEF Surjection
<1>5. \A x \in S : Place(q, x) \in 1..n /\ q[Place(q, x)] = x
  BY <1>2, <1>4 DEF Place
<1> QED
  BY <1>1, <1>2, <1>5

(* The matrix of a cell's declaration names the cell's event and state.      *)
LEMMA CellIsNamed ==
    ASSUME IInv, Populated, NEW x \in Events, NEW s \in States, NEW i, i = array[x][s], i # NULL
    PROVE  LET e == MatrixEvents(decls[i])
               t == MatrixStates(decls[i])
           IN  /\ i \in Nat /\ i \in DOMAIN decls
               /\ Place(e, x) \in Nat /\ e[Place(e, x)] = x
               /\ Place(t, s) \in Nat /\ t[Place(t, s)] = s
<1> DEFINE e == MatrixEvents(decls[i])
           t == MatrixStates(decls[i])
<1>1. i \in DOMAIN decls /\ i \in Nat /\ Covers(i, x, s)
  BY ArrayAtTheEnd
<1>2. e \in Seq(Events) /\ t \in Seq(States)
  BY <1>1, ListFacts, MatrixFacts DEF IInv
<1>3. x \in ToSet(e) /\ s \in ToSet(t)
  BY <1>1 DEF Covers
<1> HIDE DEF e, t
<1>4. Place(e, x) \in DOMAIN e /\ e[Place(e, x)] = x
  BY <1>3 DEF ToSet, Place
<1>5. Place(t, s) \in DOMAIN t /\ t[Place(t, s)] = s
  BY <1>3 DEF ToSet, Place
<1>6. DOMAIN e \subseteq Nat /\ DOMAIN t \subseteq Nat
  BY <1>2
<1> QED
  BY <1>1, <1>4, <1>5, <1>6 DEF e, t

LEMMA EventsAreListed ==
    ASSUME IInv, Populated, NEW s \in States
    PROVE  IsFiniteSet(handled[s]) /\ EventsHandled(s) \in SetToSeqs(handled[s])
<1> DEFINE T == handled[s]
           P(x) == Place(MatrixEvents(decls[array[x][s]]), x)
           a == [x \in T |-> array[x][s]]
           p == [x \in T |-> P(x)]
<1>1. T \subseteq Events /\ \A x \in T : array[x][s] # NULL
  BY DEF IInv, HandledInv
<1>2. IsFiniteSet(T)
  BY <1>1, MachineAssumption, FS_Subset
<1>3. \A x \in T : array[x][s] \in Nat /\ P(x) \in Nat
                   /\ MatrixEvents(decls[array[x][s]])[P(x)] = x
  BY <1>1, CellIsNamed
<1>4. Keys(T, a, p)
  <2> HIDE DEF P
  <2>1. \A x, y \in T : array[x][s] = array[y][s] /\ P(x) = P(y) => x = y
    BY <1>3
  <2> QED BY <1>3, <2>1 DEF Keys
<1>5. PICK q \in SetToSeqs(T) : Sorted(q, a, p)
  <2> HIDE DEF T, a, p
  <2> QED BY <1>2, <1>4, SortedListExists, FS_CardinalityType
<1>6. ASSUME NEW k \in DOMAIN q, NEW l \in DOMAIN q, k < l PROVE EventMetBefore(s, q[k], q[l])
  <2>1. q[k] \in T /\ q[l] \in T
    BY <1>2, Places
  <2>2. Ahead(a, p, q[k], q[l])
    BY <1>5, <1>6 DEF Sorted
  <2> QED BY <2>1, <2>2 DEF Ahead, EventMetBefore
<1> HIDE DEF T
<1> QED
  BY <1>2, <1>6 DEF EventsHandled, T

LEMMA StatesAreListed ==
    ASSUME IInv, Populated, NEW x \in Events
    PROVE  IsFiniteSet(handling[x]) /\ HandlingStates(x) \in SetToSeqs(handling[x])
<1> DEFINE T == handling[x]
           P(s) == Place(MatrixStates(decls[array[x][s]]), s)
           a == [s \in T |-> array[x][s]]
           p == [s \in T |-> P(s)]
<1>1. T \subseteq States /\ \A s \in T : array[x][s] # NULL
  BY DEF IInv, HandledInv
<1>2. IsFiniteSet(T)
  BY <1>1, MachineAssumption, FS_Subset
<1>3. \A s \in T : array[x][s] \in Nat /\ P(s) \in Nat
                   /\ MatrixStates(decls[array[x][s]])[P(s)] = s
  BY <1>1, CellIsNamed
<1>4. Keys(T, a, p)
  <2> HIDE DEF P
  <2>1. \A s, t \in T : array[x][s] = array[x][t] /\ P(s) = P(t) => s = t
    BY <1>3
  <2> QED BY <1>3, <2>1 DEF Keys
<1>5. PICK q \in SetToSeqs(T) : Sorted(q, a, p)
  <2> HIDE DEF T, a, p
  <2> QED BY <1>2, <1>4, SortedListExists, FS_CardinalityType
<1>6. ASSUME NEW k \in DOMAIN q, NEW l \in DOMAIN q, k < l PROVE StateMetBefore(x, q[k], q[l])
  <2>1. q[k] \in T /\ q[l] \in T
    BY <1>2, Places
  <2>2. Ahead(a, p, q[k], q[l])
    BY <1>5, <1>6 DEF Sorted
  <2> QED BY <2>1, <2>2 DEF Ahead, StateMetBefore
<1> HIDE DEF T
<1> QED
  BY <1>2, <1>6 DEF HandlingStates, T

LEMMA LeastIs ==
    ASSUME NEW S \in SUBSET Nat, NEW d \in S, \A j \in S : d <= j
    PROVE  (CHOOSE k \in S : \A j \in S : k <= j) = d
<1> DEFINE m == CHOOSE k \in S : \A j \in S : k <= j
<1>1. m \in S /\ \A j \in S : m <= j
  BY Zenon
<1> HIDE DEF m
<1>2. m = d
  BY <1>1
<1> QED
  BY <1>2 DEF m

(* Falling through stops at the last label of a run of one declaration.      *)
LEMMA FallsThrough ==
    ASSUME NEW v, NEW N \in Nat, NEW n \in 1..N
    PROVE  \E e \in n..N : /\ e = N \/ v[e] # v[e + 1]
                           /\ \A k \in n..N : k = N \/ v[k] # v[k + 1] => e <= k
                           /\ \A k \in n..e : v[k] = v[n]
<1> DEFINE ends == {k \in n..N : k = N \/ v[k] # v[k + 1]}
<1>1. ends \in SUBSET Nat /\ N \in ends
  OBVIOUS
<1>2. PICK e \in ends : \A k \in ends : e <= k
  BY <1>1, LeastNat
<1>3. \A k \in n..e : v[k] = v[n]
  <2> DEFINE Bad == {k \in n..e : v[k] # v[n]}
  <2> SUFFICES ASSUME Bad # {} PROVE FALSE
    OBVIOUS
  <2>1. Bad \in SUBSET Nat
    OBVIOUS
  <2>2. PICK k \in Bad : \A j \in Bad : k <= j
    BY <2>1, LeastNat
  <2>3. k # n /\ k \in n..e /\ v[k] # v[n]
    BY <2>2
  <2>4. k - 1 \in n..e /\ k - 1 \in n..N /\ k - 1 # N /\ ~(k <= k - 1) /\ ~(e <= k - 1)
        /\ (k - 1) + 1 = k
    BY <1>2, <2>3
  <2>5. v[k - 1] = v[n]
    BY <2>2, <2>4
  <2>6. v[k - 1] = v[k]
    BY <1>2, <2>4
  <2> QED BY <2>3, <2>5, <2>6
<1> QED
  BY <1>2, <1>3

LEMMA SelectedIsCell ==
    ASSUME IInv, Populated, NEW x \in Events, NEW s \in States, array[x][s] # NULL
    PROVE  Selected(x, s) = array[x][s]
<1> DEFINE q == HandlingStates(x)
           n == Place(q, s)
           N == Len(q)
           v == [k \in DOMAIN q |-> array[x][q[k]]]
           ends == {k \in n..Len(v) : k = Len(v) \/ v[k] # v[k + 1]}
           e == CHOOSE k \in ends : \A j \in ends : k <= j
<1>1. s \in handling[x]
  BY DEF IInv, HandledInv
<1>2. N \in Nat /\ DOMAIN q = 1..N /\ n \in 1..N /\ q[n] = s
  BY <1>1, StatesAreListed, Places
<1>3. DOMAIN v = 1..N /\ v[n] = array[x][s] /\ Len(v) = N
  <2> HIDE DEF q, n
  <2> QED BY <1>2
<1>4. Selected(x, s) = v[e]
  BY Zenon DEF Selected, BodyReachedFrom
<1> HIDE DEF q, n, v, N
<1>5. PICK d \in n..N : /\ d = N \/ v[d] # v[d + 1]
                        /\ \A k \in n..N : k = N \/ v[k] # v[k + 1] => d <= k
                        /\ \A k \in n..d : v[k] = v[n]
  BY <1>2, FallsThrough
<1>6. d \in ends /\ \A k \in ends : d <= k
  BY <1>3, <1>5
<1>7. ends \in SUBSET Nat /\ d \in n..d
  BY <1>2, <1>3
<1> HIDE DEF ends
<1>8. e = d
  BY <1>6, <1>7, LeastIs
<1> HIDE DEF e
<1> QED
  BY <1>3, <1>4, <1>5, <1>7, <1>8

(* What is known of events that are marked, besides IInv: an event with a    *)
(* cell has been come to.                                                    *)
ComeToInv == \A x \in Events, s \in States : array[x][s] # NULL => single[x] # NULL

LEMMA EventsAreComeTo == Spec => [](IInv /\ ComeToInv)
<1>1. Init => ComeToInv
  BY DEF Init, ComeToInv
<1>2. ASSUME IInv, ComeToInv, [Next]_vars PROVE ComeToInv'
  <2>1. CASE AddCell
    <3> DEFINE h == Head(events)
               t == Head(states)
    <3>1. /\ array' = [array EXCEPT ![h][t] = pai] /\ single' = single
          /\ at = "states" /\ single[h] # NULL
      BY <1>2, <2>1 DEF AddCell, Record, IInv, CountInv
    <3>2. array \in [Events -> [States -> Index \cup {NULL}]]
      BY <1>2 DEF IInv, ArrayInv
    <3> HIDE DEF h
    <3> QED BY <1>2, <3>1, <3>2 DEF ComeToInv
  <2>2. CASE StartEvent
    <3> DEFINE h == Head(events)
    <3>1. single' = [single EXCEPT ![h] = IF @ = NULL THEN pai ELSE @] /\ array' = array
      BY <2>2 DEF StartEvent
    <3>2. single \in [Events -> Index \cup {NULL}] /\ pai \in Nat \ {0}
      BY <1>2, ListFacts DEF IInv, CountInv
    <3> HIDE DEF h
    <3> QED BY <1>2, <3>1, <3>2 DEF ComeToInv, NULL
  <2>3. CASE UNCHANGED <<array, single>>
    BY <1>2, <2>3 DEF ComeToInv
  <2> QED
    BY <1>2, <2>1, <2>2, <2>3 DEF Next, ProcessActionInfo, RefuseCell, EndEvent, EndActionInfo,
       vars, records
<1> QED
  BY <1>1, <1>2, Inductive, PTL DEF Spec

(* An event marked as handled by one declaration is handled by it in every   *)
(* state, and so are the other events of that declaration.                   *)
LEMMA MarkedEvents ==
    ASSUME IInv, ComeToInv, Populated, NEW x \in Events, inAll[x], NEW s \in States, s \notin ViaMachine
    PROVE  array[x][s] # NULL /\ single[x] = array[x][s]
<1>1. PICK i \in Index : \A t \in States : array[x][t] = i
  BY DEF IInv, MarkedInv, OneDeclaration
<1>2. i # NULL /\ array[x][s] = i /\ single[x] # NULL
  BY <1>1 DEF ComeToInv, Index, NULL
<1> DEFINE j == single[x]
<1>3. j \in DOMAIN decls /\ x \in ToSet(EventsOf(j))
  BY <1>2 DEF IInv, CountInv
<1> HIDE DEF j
<1>4. PICK t : t \in States /\ t \in ToSet(MatrixStates(decls[j]))
  <2>1. StatesOf(j) \in Seq(States) /\ Len(StatesOf(j)) > 0
    BY <1>3, ListFacts, MatrixFacts DEF IInv, StatesOf
  <2>2. 1 \in DOMAIN StatesOf(j) /\ StatesOf(j)[1] \in States
    BY <2>1
  <2> QED BY <2>2 DEF ToSet, StatesOf
<1>5. Covers(j, x, t)
  BY <1>3, <1>4 DEF Covers, EventsOf
<1>6. array[x][t] = j
  BY <1>3, <1>4, <1>5, ArrayAtTheEnd
<1> QED
  BY <1>1, <1>2, <1>4, <1>6 DEF j

LEMMA MarkedTogether ==
    ASSUME IInv, RowInv, Populated, NEW x \in Events, NEW y \in Events, NEW s \in States,
           array[x][s] = array[y][s], inAll[y]
    PROVE  inAll[x]
<1>1. PICK i \in Index : \A t \in States : array[y][t] = i
  BY DEF IInv, MarkedInv, OneDeclaration
<1>2. i # NULL /\ i \in DOMAIN decls /\ Covers(i, x, s)
  BY <1>1, ArrayAtTheEnd DEF Index, NULL
<1>3. ASSUME NEW t \in States PROVE array[x][t] = i
  <2>1. Covers(i, y, t)
    BY <1>1, <1>2, ArrayAtTheEnd
  <2>2. Covers(i, x, t)
    BY <1>2, <2>1 DEF Covers
  <2> QED BY <1>2, <2>2, ArrayAtTheEnd
<1>4. OneDeclaration(x)
  BY <1>3 DEF OneDeclaration
<1> QED
  BY <1>4 DEF RowInv, Populated, Failed

LEMMA ReachedIsCell ==
    ASSUME IInv, RowInv, Populated, NEW x \in Events, NEW s \in States, HasLabel(x, s)
    PROVE  CaseReached(x, s) = array[x][s]
<1> DEFINE q == EventsHandled(s)
           n == Place(q, x)
           N == Len(q)
           v == [k \in 1..N |-> array[q[k]][s]]
           bodies == {k \in n..N : HasLabel(q[k], s) /\ (k = N \/ array[q[k]][s] # array[q[k + 1]][s])}
           e == CHOOSE k \in bodies : \A j \in bodies : k <= j
<1>1. x \in handled[s] /\ ~inAll[x] /\ handled[s] \subseteq Events
  BY DEF HasLabel, IInv, HandledInv
<1>2. N \in Nat /\ n \in 1..N /\ q[n] = x /\ \A k \in 1..N : q[k] \in handled[s]
  BY <1>1, EventsAreListed, Places
<1>3. CaseReached(x, s) = array[q[e]][s]
  BY Zenon DEF CaseReached
<1> HIDE DEF q, n, N
<1>4. PICK d \in n..N : /\ d = N \/ v[d] # v[d + 1]
                        /\ \A k \in n..N : k = N \/ v[k] # v[k + 1] => d <= k
                        /\ \A k \in n..d : v[k] = v[n]
  <2> HIDE DEF v
  <2> QED BY <1>2, FallsThrough
<1>5. \A k \in n..N : /\ k \in 1..N /\ v[k] = array[q[k]][s]
                      /\ k # N => k + 1 \in 1..N /\ v[k + 1] = array[q[k + 1]][s]
  BY <1>2
<1> HIDE DEF v
<1>6. d \in 1..N /\ d \in n..d /\ n \in n..N /\ d \in Nat
  BY <1>2
<1>7. array[q[d]][s] = array[x][s]
  BY <1>2, <1>4, <1>5, <1>6
<1>8. HasLabel(q[d], s)
  <2>1. q[d] \in handled[s] /\ q[d] \in Events
    BY <1>1, <1>2, <1>6
  <2> QED BY <1>1, <1>7, <2>1, MarkedTogether DEF HasLabel
<1>9. d \in bodies /\ bodies \in SUBSET Nat /\ \A k \in bodies : d <= k
  BY <1>2, <1>4, <1>5, <1>6, <1>8
<1> HIDE DEF bodies
<1>10. e = d
  BY <1>9, LeastIs
<1> HIDE DEF e
<1> QED
  BY <1>3, <1>7, <1>10

-----------------------------------------------------------------------------
(* What the code has called after the action, whatever it yielded before.    *)
LEMMA ActsPieces ==
    ASSUME NEW c, NEW t, NEW o
    PROVE  /\ HasAction(Cell(c)) =>
                  Act(c, Cell(c), Vars(<<>>, From(c), t, o)) = Vars(Acts(c), From(c), t, Answer(c))
           /\ ~HasAction(Cell(c)) => Acts(c) = <<>>
           /\ ChooseNext(c, Cell(c), Vars(Acts(c), From(c), t, o)) = Vars(Goes(c), From(c), Goal(c), o)
<1>1. HasAction(Cell(c)) =>
          Act(c, Cell(c), Vars(<<>>, From(c), t, o)) = Vars(Acts(c), From(c), t, Answer(c))
  BY ActPiece DEF Acts
<1>2. ~HasAction(Cell(c)) => Acts(c) = <<>>
  BY DEF Acts, Acted
<1>3. ChooseNext(c, Cell(c), Vars(Acts(c), From(c), t, o)) = Vars(Goes(c), From(c), Goal(c), o)
  BY NextPiece DEF ChooseNext, Goes, Goal, On
<1> QED
  BY <1>1, <1>2, <1>3

(* A cell's state is one that handles its event; and the marked events.      *)
LEMMA CellHandled ==
    ASSUME IInv, ComeToInv, Populated, NEW c \in Cases
    PROVE  /\ From(c) \in handling[On(c)] <=> Cell(c) # NULL
           /\ On(c) \in handled[From(c)] <=> Cell(c) # NULL
           /\ inAll[On(c)] => Cell(c) # NULL /\ single[On(c)] = Cell(c)
           /\ Cell(c) # NULL => Selected(On(c), From(c)) = Cell(c)
<1>1. On(c) \in Events /\ From(c) \in States /\ From(c) \notin ViaMachine
  BY CellFacts
<1>2. Cell(c) = array[On(c)][From(c)]
  BY DEF Cell, On, From
<1>3. /\ From(c) \in handling[On(c)] <=> array[On(c)][From(c)] # NULL
      /\ On(c) \in handled[From(c)] <=> array[On(c)][From(c)] # NULL
  BY <1>1 DEF IInv, HandledInv
<1>4. inAll[On(c)] => array[On(c)][From(c)] # NULL /\ single[On(c)] = array[On(c)][From(c)]
  BY <1>1, MarkedEvents
<1>5. array[On(c)][From(c)] # NULL => Selected(On(c), From(c)) = array[On(c)][From(c)]
  BY <1>1, SelectedIsCell
<1> QED
  BY <1>2, <1>3, <1>4, <1>5

(* The event table generator.                                                *)
LEMMA EventTableAgrees ==
    ASSUME IInv, ComeToInv, Populated, NEW c \in Cases, ~Refused(c),
           ~StateIsLost(c), ~EmptyCellFnDiffers(c)
    PROVE  Agrees(EventTableRun(c), c)
<1> DEFINE b == Vars(<<>>, From(c), From(c), On(c))
           i == Cell(c)
<1>1. Begin(c) = b
  BY BeginPiece
<1>2. EventTableRun(c) = IF c.kind = "states" THEN EnterReturned(c, Handler(c, b)) ELSE Handler(c, b)
  <2> HIDE DEF b
  <2> QED BY <1>1 DEF EventTableRun
<1>3. /\ i # NULL => HasAction(i) \/ HasTransition(i)
      /\ c.kind = "states" /\ i # NULL => ~HasAction(i) \/ ~HasTransition(i)
  BY CellFacts DEF Refused, Cell
<1>4. CASE inAll[On(c)]
  <2>1. i # NULL /\ single[On(c)] = i
    BY <1>4, CellHandled
  <2>2. CASE ~HasTransition(i)
    <3>1. HasAction(i)
      BY <1>3, <2>1, <2>2
    <3>2. Handler(c, b) = Vars(Acts(c), From(c), From(c), Answer(c))
      BY <1>4, <2>1, <2>2, <3>1, ActsPieces DEF Handler, IsItsAction, On
    <3>3. Result(c) = Answer(c)
      BY <3>1 DEF Result
    <3> QED BY <1>2, <2>1, <2>2, <3>1, <3>2, <3>3, ReturnedAgrees, EnteredAgrees
  <2>3. CASE HasTransition(i)
    <3>1. Handler(c, b) = SingleBody(c, i, b)
      BY <1>4, <2>1, <2>3 DEF Handler, IsItsAction, On
    <3>2. CASE c.kind = "events"
      <4>1. Handler(c, b) = EnterState(c, Vars(Goes(c), From(c), Goal(c), Result(c)))
        BY <2>3, <3>1, <3>2, ActsPieces, Pieces DEF SingleBody, SingleBodyEvents, Finish, Result
      <4> QED BY <1>2, <2>1, <2>3, <3>2, <4>1, EnteredAgrees
    <3>3. CASE c.kind = "void"
      <4>1. PICK o : Handler(c, b) = EnterState(c, Vars(Goes(c), From(c), Goal(c), o))
        <5>1. CASE HasAction(i)
          BY <2>3, <3>1, <3>3, <5>1, ActsPieces DEF SingleBody, SingleBodyVoid, Finish
        <5>2. CASE ~HasAction(i)
          BY <2>3, <3>1, <3>3, <5>2, ActsPieces DEF SingleBody, SingleBodyVoid, Finish
        <5> QED BY <5>1, <5>2
      <4> QED BY <1>2, <2>1, <2>3, <3>3, <4>1, EnteredAgrees
    <3>4. CASE c.kind = "states"
      <4>1. ~HasAction(i)
        BY <1>3, <2>1, <2>3, <3>4
      <4>2. Handler(c, b) = Vars(Goes(c), From(c), From(c), Goal(c))
        BY <2>3, <3>1, <3>4, <4>1, ActsPieces, Pieces, ReturnPiece DEF SingleBody, SingleBodyStates
      <4> QED BY <1>2, <2>1, <3>4, <4>1, <4>2, ReturnedAgrees
    <3> QED BY <3>2, <3>3, <3>4, CellFacts
  <2> QED BY <2>2, <2>3
<1>5. CASE ~inAll[On(c)]
  <2>1. Handler(c, b) = MultipleBody(c, b)
    BY <1>5 DEF Handler, IsItsAction, On
  <2>2. /\ From(c) \in handling[On(c)] <=> i # NULL
        /\ i # NULL => Selected(On(c), From(c)) = i
        /\ b.state = From(c)
    BY CellHandled, VarsFields
  <2>3. CASE c.kind = "events"
    <3> DEFINE w == Vars(<<>>, From(c), From(c), noEvent)
    <3>1. Yield(b, noEvent) = w /\ w.state = From(c)
      BY Pieces, VarsFields
    <3>2. CASE i = NULL
      <4>1. Handler(c, b) = CallEmpty(w) \/ Handler(c, b) = EnterState(c, CallEmpty(w))
        <5> HIDE DEF b, w
        <5> QED BY <2>1, <2>2, <2>3, <3>1, <3>2 DEF MultipleBody, MultipleBodyEvents, Finish, On
      <4> QED BY <1>2, <2>3, <3>2, <4>1, EmptyPiece, EnteredAgrees
    <3>3. CASE i # NULL
      <4>1. Handler(c, b) = EnterState(c, SelectedCaseEvents(c, i, w))
        <5> HIDE DEF b, w
        <5> QED BY <2>1, <2>2, <2>3, <3>1, <3>3 DEF MultipleBody, MultipleBodyEvents, Finish, On
      <4>2. SelectedCaseEvents(c, i, w) = IF HasTransition(i) THEN Vars(Goes(c), From(c), Goal(c), Result(c))
                                          ELSE Vars(Acts(c), From(c), From(c), Result(c))
        BY <1>3, <3>3, ActsPieces DEF SelectedCaseEvents, Result
      <4> QED BY <1>2, <2>3, <3>3, <4>1, <4>2, EnteredAgrees
    <3> QED BY <3>2, <3>3
  <2>4. CASE c.kind = "void"
    <3>1. i # NULL /\ HasAction(i)
      BY <1>5, <2>4 DEF EmptyCellFnDiffers, On, Cell
    <3>2. Handler(c, b) = EnterState(c, SelectedCaseVoid(c, i, b))
      <4> HIDE DEF b
      <4> QED BY <2>1, <2>2, <2>4, <3>1 DEF MultipleBody, MultipleBodyVoid, Finish, On
    <3>3. SelectedCaseVoid(c, i, b) = IF HasTransition(i) THEN Vars(Goes(c), From(c), Goal(c), Answer(c))
                                      ELSE Vars(Acts(c), From(c), From(c), Answer(c))
      BY <3>1, ActsPieces DEF SelectedCaseVoid
    <3> QED BY <1>2, <2>4, <3>1, <3>2, <3>3, EnteredAgrees
  <2>5. CASE c.kind = "states"
    <3> DEFINE w == Vars(<<>>, From(c), From(c), Uninitialized)
    <3>1. Yield(b, Uninitialized) = w
      BY Pieces
    <3>2. CASE i = NULL
      <4>1. handling[On(c)] = {}
        BY <2>2, <2>5, <3>2 DEF StateIsLost, On, From
      <4>2. Handler(c, b) = Yield(CallEmpty(b), From(c))
        <5> HIDE DEF b
        <5> QED BY <2>1, <2>2, <2>5, <4>1 DEF MultipleBody, MultipleBodyStates, On
      <4>3. Handler(c, b) = Vars(EmptyCall, From(c), From(c), From(c))
        BY <4>2, EmptyPiece, Pieces
      <4> QED BY <1>2, <2>5, <3>2, <4>3, ReturnedAgrees
    <3>3. CASE i # NULL
      <4>1. Handler(c, b) = SelectedCaseStates(c, i, w)
        <5> HIDE DEF b, w
        <5> QED BY <2>1, <2>2, <2>5, <3>1, <3>3 DEF MultipleBody, MultipleBodyStates, On
      <4>2. CASE HasAction(i)
        <5>1. SelectedCaseStates(c, i, w) = Vars(Acts(c), From(c), From(c), Answer(c))
          BY <1>3, <2>5, <3>3, <4>2, ActsPieces DEF SelectedCaseStates
        <5> QED BY <1>2, <2>5, <3>3, <4>1, <4>2, <5>1, ReturnedAgrees
      <4>3. CASE ~HasAction(i)
        <5>1. SelectedCaseStates(c, i, w) = Vars(Goes(c), From(c), From(c), Goal(c))
          BY <1>3, <3>3, <4>3, ActsPieces, ReturnPiece DEF SelectedCaseStates
        <5> QED BY <1>2, <2>5, <3>3, <4>1, <4>3, <5>1, ReturnedAgrees
      <4> QED BY <4>2, <4>3
    <3> QED BY <3>2, <3>3
  <2> QED BY <2>3, <2>4, <2>5, CellFacts
<1> QED
  BY <1>4, <1>5

-----------------------------------------------------------------------------
(* The switch generator.                                                     *)
LEMMA LabelOfCell ==
    ASSUME IInv, RowInv, ComeToInv, Populated, NEW c \in Cases, ~inAll[On(c)]
    PROVE  /\ HasLabel(On(c), From(c)) <=> Cell(c) # NULL
           /\ Cell(c) # NULL => CaseReached(On(c), From(c)) = Cell(c)
<1>1. HasLabel(On(c), From(c)) <=> Cell(c) # NULL
  BY CellHandled DEF HasLabel
<1>2. On(c) \in Events /\ From(c) \in States /\ Cell(c) = array[On(c)][From(c)]
  BY CellFacts DEF Cell, On, From
<1> QED
  BY <1>1, <1>2, ReachedIsCell

(* The machine's transition, exit and entry functions, called one by one.    *)
LEMMA ToldOneByOne ==
    ASSUME NEW c \in Cases, NEW k, NEW t, NEW o, c.fns, o # From(c)
    PROVE  LET v == Vars(k, From(c), t, o)
           IN  Arrive(Call(Call(Call(v, "machineTransition", o), "exit", From(c)), "entry", o), o) =
                   Vars(Moved(c, k, o), o, t, o)
<1> DEFINE m == Called(k, "machineTransition", o)
           e == Called(m, "exit", From(c))
           n == Called(e, "entry", o)
<1>1. Moved(c, k, o) = n
  BY DEF Moved
<1> HIDE DEF m, e, n
<1>2. Call(Vars(k, From(c), t, o), "machineTransition", o) = Vars(m, From(c), t, o)
  BY Pieces DEF m
<1>3. Call(Vars(m, From(c), t, o), "exit", From(c)) = Vars(e, From(c), t, o)
  BY Pieces DEF e
<1>4. Call(Vars(e, From(c), t, o), "entry", o) = Vars(n, From(c), t, o)
  BY Pieces DEF n
<1>5. Arrive(Vars(n, From(c), t, o), o) = Vars(n, o, t, o)
  BY Pieces
<1> QED
  BY <1>1, <1>2, <1>3, <1>4, <1>5

LEMMA SwitchAgrees ==
    ASSUME IInv, RowInv, ComeToInv, Populated, NEW c \in Cases, ~Refused(c),
           ~HandlesTwo(c), ~LeavesInPlace(c), ~StoresNoTransition(c)
    PROVE  Agrees(SwitchRun(c), c)
<1> DEFINE b == Vars(<<>>, From(c), From(c), On(c))
           i == Cell(c)
<1>1. Begin(c) = b /\ b.state = From(c) /\ b.out = On(c)
  BY BeginPiece, VarsFields
<1>2. /\ i # NULL => HasAction(i) \/ HasTransition(i)
      /\ c.kind = "states" /\ i # NULL => ~HasAction(i) \/ ~HasTransition(i)
      /\ i # NULL /\ HasTransition(i) => Goal(c) # noTransition
      /\ On(c) # noEvent
  BY CellFacts DEF Refused, Cell
<1>3. inAll[On(c)] => i # NULL /\ single[On(c)] = i
  BY CellHandled
<1>4. ~inAll[On(c)] => /\ HasLabel(On(c), From(c)) <=> i # NULL
                       /\ i # NULL => CaseReached(On(c), From(c)) = i
  BY LabelOfCell
<1>5. c.x = On(c) /\ c.s = From(c) /\ Facing(c, On(c)) = c
  BY CaseFacts DEF On, From
<1>6. ASSUME c.kind # "states", i # NULL
      PROVE  \E o : /\ AllStatesCaseEvents(c, i, b) =
                           IF HasTransition(i) THEN Vars(Goes(c), From(c), Goal(c), o)
                           ELSE Vars(Acts(c), From(c), From(c), o)
                    /\ c.kind = "events" => o = Result(c)
  <2>1. CASE HasAction(i)
    BY <2>1, ActsPieces DEF AllStatesCaseEvents, Result
  <2>2. CASE ~HasAction(i) /\ c.kind = "events"
    BY <2>2, ActsPieces, Pieces DEF AllStatesCaseEvents, Result
  <2>3. CASE ~HasAction(i) /\ c.kind # "events"
    BY <2>3, ActsPieces DEF AllStatesCaseEvents, Result
  <2> QED BY <2>1, <2>2, <2>3
<1>7. CASE c.kind = "events"
  <2>1. SwitchRun(c) = InnardsEvents(c, b)
    <3> HIDE DEF b
    <3> QED BY <1>1, <1>7 DEF SwitchRun
  <2>2. CASE inAll[On(c)]
    <3>1. PICK r : r = AllStatesHandler(c, b)
      OBVIOUS
    <3>2. r = EnterState(c, AllStatesCaseEvents(c, i, b))
      <4> HIDE DEF b
      <4> QED BY <1>3, <1>5, <1>7, <2>2, <3>1 DEF AllStatesHandler
    <3>3. Result(c) = noEvent
      BY <1>5, <1>7, <2>2 DEF HandlesTwo, Result, Answer
    <3>4. r.out = noEvent /\ Agrees(r, c)
      <4>1. CASE HasTransition(i)
        <5>1. r = EnterState(c, Vars(Goes(c), From(c), Goal(c), noEvent))
          BY <1>3, <1>6, <1>7, <2>2, <3>2, <3>3, <4>1
        <5>2. r.out = noEvent
          BY <5>1, EnterPiece, VarsFields
        <5> QED BY <1>3, <1>7, <2>2, <3>3, <4>1, <5>1, <5>2, EnteredAgrees
      <4>2. CASE ~HasTransition(i)
        <5>1. r = EnterState(c, Vars(Acts(c), From(c), From(c), noEvent))
          BY <1>3, <1>6, <1>7, <2>2, <3>2, <3>3, <4>2
        <5>2. r.out = noEvent
          BY <5>1, EnterPiece, VarsFields
        <5> QED BY <1>3, <1>7, <2>2, <3>3, <4>2, <5>1, <5>2, EnteredAgrees
      <4> QED BY <4>1, <4>2
    <3>5. SwitchRun(c) = r
      <4> HIDE DEF b
      <4> QED BY <1>5, <2>1, <2>2, <3>1, <3>4 DEF InnardsEvents
    <3> QED BY <3>4, <3>5
  <2>3. CASE ~inAll[On(c)]
    <3> DEFINE w == Vars(<<>>, From(c), From(c), noEvent)
    <3>1. Aim(b, From(c)) = b /\ Yield(b, noEvent) = w /\ Yield(w, noEvent) = w
      BY Pieces
    <3>2. SwitchRun(c) = StateFnEvents(c, b)
      <4> HIDE DEF b
      <4> QED BY <1>1, <1>2, <1>5, <2>1, <2>3, <3>1 DEF InnardsEvents
    <3>3. SwitchRun(c) = IF i # NULL THEN EnterState(c, StateCaseEvents(c, i, w)) ELSE CallEmpty(w)
      <4> HIDE DEF b, w
      <4> QED BY <1>1, <1>4, <1>5, <2>3, <3>1, <3>2 DEF StateFnEvents
    <3>4. CASE i = NULL
      BY <1>7, <3>3, <3>4, EmptyPiece, EnteredAgrees
    <3>5. CASE i # NULL
      <4>1. StateCaseEvents(c, i, w) = IF HasTransition(i) THEN Vars(Goes(c), From(c), Goal(c), Result(c))
                                       ELSE Vars(Acts(c), From(c), From(c), Result(c))
        BY <3>1, ActsPieces DEF StateCaseEvents, Result
      <4> QED BY <1>7, <3>3, <3>5, <4>1, EnteredAgrees
    <3> QED BY <3>4, <3>5
  <2> QED BY <2>2, <2>3
<1>8. CASE c.kind = "void"
  <2>1. SwitchRun(c) = InnardsVoid(c, b)
    <3> HIDE DEF b
    <3> QED BY <1>1, <1>8 DEF SwitchRun
  <2>2. CASE inAll[On(c)]
    <3>1. SwitchRun(c) = EnterState(c, AllStatesCaseEvents(c, i, b))
      <4> HIDE DEF b
      <4> QED BY <1>3, <1>5, <1>8, <2>1, <2>2 DEF InnardsVoid, AllStatesHandler
    <3> QED BY <1>3, <1>6, <1>8, <2>2, <3>1, EnteredAgrees
  <2>3. CASE ~inAll[On(c)]
    <3>1. SwitchRun(c) = IF i # NULL THEN EnterState(c, StateCaseVoid(c, i, b)) ELSE CallEmpty(b)
      <4> HIDE DEF b
      <4> QED BY <1>1, <1>4, <1>5, <2>1, <2>3 DEF InnardsVoid, StateFnVoid
    <3>2. CASE i = NULL
      BY <1>8, <3>1, <3>2, EmptyPiece, EnteredAgrees
    <3>3. CASE i # NULL
      <4>1. PICK o : StateCaseVoid(c, i, b) = IF HasTransition(i) THEN Vars(Goes(c), From(c), Goal(c), o)
                                              ELSE Vars(Acts(c), From(c), From(c), o)
        <5>1. CASE HasAction(i)
          BY <5>1, ActsPieces DEF StateCaseVoid
        <5>2. CASE ~HasAction(i)
          BY <5>2, ActsPieces DEF StateCaseVoid
        <5> QED BY <5>1, <5>2
      <4> QED BY <1>8, <3>1, <3>3, <4>1, EnteredAgrees
    <3> QED BY <3>2, <3>3
  <2> QED BY <2>2, <2>3
<1>9. CASE c.kind = "states"
  <2>1. SwitchRun(c) = InnardsStates(c, b)
    <3> HIDE DEF b
    <3> QED BY <1>1, <1>9 DEF SwitchRun
  <2>2. CASE inAll[On(c)]
    <3>1. PICK r : r = AllStatesCaseStates(c, i, b)
      OBVIOUS
    <3>2. SwitchRun(c) = IF c.fns /\ r.s = noTransition THEN r ELSE EnterState(c, r)
      <4> HIDE DEF b
      <4> QED BY <1>3, <1>5, <1>9, <2>1, <2>2, <3>1 DEF InnardsStates, AllStatesHandler
    <3>3. CASE HasAction(i)
      <4>1. ~HasTransition(i)
        BY <1>2, <1>3, <1>9, <2>2, <3>3
      <4>2. r = Vars(Acts(c), From(c), Answer(c), Answer(c)) /\ r.s = Answer(c)
        BY <3>1, <3>3, <4>1, ActsPieces, Pieces, VarsFields DEF AllStatesCaseStates
      <4>3. CASE Answer(c) = noTransition
        <5>1. c.fns
          BY <1>3, <1>5, <1>9, <2>2, <4>1, <4>3 DEF StoresNoTransition, Answer
        <5>2. SwitchRun(c) = r /\ Settled(c) = From(c)
          BY <3>2, <4>2, <4>3, <5>1 DEF Settled
        <5> QED BY <1>3, <1>9, <2>2, <4>1, <4>2, <5>2, Stays, StayAgrees
      <4>4. CASE Answer(c) # noTransition
        <5>1. SwitchRun(c) = EnterState(c, r) /\ Settled(c) = Answer(c)
          BY <1>9, <3>2, <3>3, <4>2, <4>4 DEF Settled
        <5>2. SwitchRun(c) = Vars(Moved(c, Acts(c), Answer(c)), Answer(c), Answer(c), Answer(c))
          BY <4>2, <5>1, EnterPiece
        <5> QED BY <1>3, <1>9, <2>2, <4>1, <5>1, <5>2, StayAgrees
      <4> QED BY <4>3, <4>4
    <3>4. CASE ~HasAction(i)
      <4>1. HasTransition(i) /\ Goal(c) # noTransition
        BY <1>2, <1>3, <2>2, <3>4
      <4>2. r = Vars(Goes(c), From(c), Goal(c), On(c)) /\ r.s = Goal(c)
        BY <3>1, <3>4, <4>1, ActsPieces, VarsFields DEF AllStatesCaseStates
      <4>3. SwitchRun(c) = Vars(Moved(c, Goes(c), Goal(c)), Goal(c), Goal(c), On(c))
        BY <3>2, <4>1, <4>2, EnterPiece
      <4> QED BY <1>3, <1>9, <2>2, <4>1, <4>3, MoveAgrees
    <3> QED BY <3>3, <3>4
  <2>3. CASE ~inAll[On(c)]
    <3> DEFINE w == Vars(<<>>, From(c), From(c), noTransition)
    <3>1. Yield(b, noTransition) = w
      BY Pieces
    <3>2. PICK q : q = IF i # NULL THEN StateCaseStates(c, i, w) ELSE CallEmpty(w)
      OBVIOUS
    <3>3. StateFnStates(c, b) =
              IF c.fns /\ q.out # noTransition
              THEN Call(Call(q, "machineTransition", q.out), "exit", From(c)) ELSE q
      <4> HIDE DEF b, w
      <4> QED BY <1>1, <1>4, <1>5, <2>3, <3>1, <3>2 DEF StateFnStates
    <3>4. CASE q.out = noTransition
      <4>1. SwitchRun(c) = q
        <5> HIDE DEF b, w
        <5> QED BY <1>5, <2>1, <2>3, <3>3, <3>4 DEF InnardsStates
      <4>2. CASE i = NULL
        BY <1>9, <3>2, <4>1, <4>2, EmptyPiece, EmptyAgrees
      <4>3. CASE i # NULL /\ HasAction(i)
        <5>1. q = Vars(Acts(c), From(c), From(c), Answer(c))
          BY <3>2, <4>3, ActsPieces DEF StateCaseStates
        <5>2. Answer(c) = noTransition
          BY <3>4, <5>1, VarsFields
        <5>3. Settled(c) = From(c) /\ ~HasTransition(i)
          BY <1>2, <1>9, <4>3, <5>2 DEF Settled
        <5> QED BY <1>9, <4>1, <4>3, <5>1, <5>3, Stays, StayAgrees
      <4>4. CASE i # NULL /\ ~HasAction(i)
        <5>1. q = Vars(Goes(c), From(c), From(c), Goal(c))
          BY <3>2, <4>4, ActsPieces, ReturnPiece DEF StateCaseStates
        <5> QED BY <1>2, <3>4, <4>4, <5>1, VarsFields
      <4> QED BY <4>2, <4>3, <4>4
    <3>5. CASE q.out # noTransition
      <4>1. PICK k, o : q = Vars(k, From(c), From(c), o) /\ q.out = o /\ i # NULL
                        /\ (HasAction(i) => k = Acts(c) /\ o = Answer(c))
                        /\ (~HasAction(i) => k = Goes(c) /\ o = Goal(c))
        <5>1. i # NULL
          <6> SUFFICES ASSUME i = NULL PROVE FALSE
            OBVIOUS
          <6>1. q = Vars(EmptyCall, From(c), From(c), noTransition)
            BY <3>2, EmptyPiece
          <6> QED BY <3>5, <6>1, VarsFields
        <5>2. CASE HasAction(i)
          <6>1. q = Vars(Acts(c), From(c), From(c), Answer(c))
            BY <3>2, <5>1, <5>2, ActsPieces DEF StateCaseStates
          <6> QED BY <5>1, <5>2, <6>1, VarsFields
        <5>3. CASE ~HasAction(i)
          <6>1. q = Vars(Goes(c), From(c), From(c), Goal(c))
            BY <3>2, <5>1, <5>3, ActsPieces, ReturnPiece DEF StateCaseStates
          <6> QED BY <5>1, <5>3, <6>1, VarsFields
        <5> QED BY <5>2, <5>3
      <4>2. SwitchRun(c).calls = Moved(c, k, o) /\ SwitchRun(c).state = o
        <5>1. CASE c.fns
          <6> DEFINE l == Called(Called(k, "machineTransition", o), "exit", From(c))
          <6>1. StateFnStates(c, b) = Call(Call(q, "machineTransition", o), "exit", From(c))
            BY <3>3, <3>5, <4>1, <5>1
          <6>2. StateFnStates(c, b) = Vars(l, From(c), From(c), o)
            BY <4>1, <6>1, Pieces
          <6>3. StateFnStates(c, b).out = o
            BY <6>2, VarsFields
          <6>4. o # From(c)
            BY <1>1, <1>4, <1>5, <1>9, <2>3, <4>1, <5>1, <6>3 DEF LeavesInPlace
          <6> HIDE DEF b
          <6>5. SwitchRun(c) = Arrive(Call(StateFnStates(c, b), "entry", o), o)
            BY <1>5, <2>1, <2>3, <3>5, <4>1, <5>1, <6>3 DEF InnardsStates
          <6>6. SwitchRun(c) = Vars(Moved(c, k, o), o, From(c), o)
            BY <4>1, <5>1, <6>1, <6>4, <6>5, ToldOneByOne
          <6> QED BY <6>6, VarsFields
        <5>2. CASE ~c.fns
          <6>1. StateFnStates(c, b) = q
            BY <3>3, <5>2
          <6> HIDE DEF b
          <6>2. SwitchRun(c) = Arrive(q, o)
            BY <1>5, <2>1, <2>3, <3>5, <4>1, <5>2, <6>1 DEF InnardsStates
          <6>3. SwitchRun(c) = Vars(k, o, From(c), o) /\ Moved(c, k, o) = k
            BY <4>1, <5>2, <6>2, Pieces DEF Moved
          <6> QED BY <6>3, VarsFields
        <5> QED BY <5>1, <5>2
      <4>3. CASE HasAction(i)
        <5>1. Settled(c) = o /\ ~HasTransition(i)
          BY <1>2, <1>9, <3>5, <4>1, <4>3 DEF Settled
        <5>2. Described(c).calls = Moved(c, k, o) /\ Described(c).state = o
          BY <4>1, <4>3, <5>1, DescribedPieces
        <5> QED BY <1>9, <4>2, <5>2 DEF Agrees
      <4>4. CASE ~HasAction(i)
        <5>1. Described(c).calls = Moved(c, k, o) /\ Described(c).state = o
          BY <1>2, <4>1, <4>4, DescribedPieces
        <5> QED BY <1>9, <4>2, <5>1 DEF Agrees
      <4> QED BY <4>3, <4>4
    <3> QED BY <3>4, <3>5
  <2> QED BY <2>2, <2>3
<1> QED
  BY <1>7, <1>8, <1>9, CellFacts

-----------------------------------------------------------------------------
(* The four C generators do what the action array asks for, in every state,  *)
(* for every event and whatever the user's functions return, for every       *)
(* description they accept, outside the cases in which each differs.         *)
THEOREM GeneratorsObeyTheArray == Spec => []CodeObeysTheArray
<1>1. CASE States = ViaMachine
  <2>1. Cases = {}
    BY <1>1, CaseFacts
  <2>2. CodeObeysTheArray
    BY <2>1 DEF CodeObeysTheArray
  <2> QED BY <2>2, PTL
<1>2. CASE States # ViaMachine
  <2>1. IInv /\ RowInv /\ ComeToInv => CodeObeysTheArray
    BY TableAgrees, SingleSwitchAgrees, EventTableAgrees, SwitchAgrees DEF CodeObeysTheArray
  <2>2. Spec => [](IInv /\ RowInv)
    BY <1>2, RowsAreMarked
  <2> QED BY <2>1, <2>2, EventsAreComeTo, PTL
<1> QED
  BY <1>1, <1>2

-----------------------------------------------------------------------------
(* The traces of event sequences.                                            *)

(* Where an event leads is what the cell says: nowhere else if it is empty,  *)
(* or has no transition, and else to a state of the transition.              *)
LEMMA DescribedState ==
    ASSUME NEW c, c.kind = "events"
    PROVE  Described(c).state =
               IF TransitionAt(c.x, c.s) = {} THEN c.s
               ELSE IF IsState(TransitionAt(c.x, c.s)) THEN CHOOSE u \in TransitionAt(c.x, c.s) : TRUE
               ELSE c.target
<1> DEFINE i == array[c.x][c.s]
           acts == i # NULL /\ HasAction(i)
           moves == i # NULL /\ HasTransition(i)
           next == IF moves THEN IF NamesState(i) THEN CHOOSE t \in decls[i].to : TRUE ELSE c.target
                   ELSE IF acts /\ c.kind = "states" /\ c.answer # noTransition THEN c.answer
                   ELSE c.s
           calls == (IF acts THEN << <<"action", decls[i].action>> >> ELSE <<>>) \o
                    (IF moves /\ ~NamesState(i) THEN << <<"next", Heard(c, c.x)>> >> ELSE <<>>) \o
                    (IF c.fns /\ next # c.s
                     THEN << <<"machineTransition", next>>, <<"exit", c.s>>, <<"entry", next>> >>
                     ELSE <<>>) \o
                    (IF i = NULL THEN << <<"empty", "">> >> ELSE <<>>)
           out == IF acts THEN c.answer ELSE noEvent
<1>1. Described(c) = [calls |-> calls, state |-> next, out |-> out]
  BY Zenon DEF Described
<1>2. Described(c).state = next
  <2> HIDE DEF calls, next, out
  <2> QED BY <1>1
<1>3. next = IF moves THEN IF NamesState(i) THEN CHOOSE t \in decls[i].to : TRUE ELSE c.target ELSE c.s
  <2> HIDE DEF i, acts, moves
  <2> QED OBVIOUS
<1>4. TransitionAt(c.x, c.s) = {} <=> ~moves
  BY DEF TransitionAt, HasTransition
<1>5. moves => /\ TransitionAt(c.x, c.s) = decls[i].to
               /\ NamesState(i) <=> IsState(TransitionAt(c.x, c.s))
  BY DEF TransitionAt, NamesState, IsState
<1> HIDE DEF moves, i, next
<1> QED
  BY <1>2, <1>3, <1>4, <1>5

LEMMA WhereItMayBe ==
    ASSUME IInv, NEW x \in Events, NEW s \in States
    PROVE  /\ TransitionAt(x, s) \subseteq States
           /\ MayBeIn(x, s) = IF TransitionAt(x, s) = {} THEN {s} ELSE TransitionAt(x, s)
           /\ TransitionAt(x, s) # {} => FirstReturn(TransitionAt(x, s)) \in TransitionAt(x, s)
           /\ IsState(TransitionAt(x, s)) => TransitionAt(x, s) # {}
           /\ Cardinality(TransitionAt(x, s)) > 1 <=> TransitionAt(x, s) # {} /\ ~IsState(TransitionAt(x, s))
<1> DEFINE to == TransitionAt(x, s)
<1>1. to \subseteq States
  <2>1. array[x][s] # NULL => array[x][s] \in DOMAIN decls
    BY DEF IInv, ArrayInv, HeldInv
  <2>2. array[x][s] # NULL => decls[array[x][s]] \in Declarations
    BY <2>1, ListFacts DEF IInv
  <2> QED BY <2>2, DeclarationAssumption DEF TransitionAt
<1>2. IsFiniteSet(to)
  BY <1>1, MachineAssumption, FS_Subset
<1>3. /\ Cardinality(to) \in Nat
      /\ Cardinality(to) = 0 <=> to = {}
      /\ IsState(to) <=> \E u : to = {u}
  BY <1>2, FS_CardinalityType, FS_EmptySet, FS_Singleton DEF IsState
<1>4. MayBeIn(x, s) = IF to = {} THEN {s} ELSE to
  <2> DEFINE D(t) == Described([kind |-> "events", fns |-> FALSE, x |-> x, s |-> s,
                                answer |-> noEvent, target |-> t]).state
  <2>1. \A t : D(t) = IF to = {} THEN s ELSE IF IsState(to) THEN CHOOSE u \in to : TRUE ELSE t
    <3>1. ASSUME NEW c, c.kind = "events", c.x = x, c.s = s
          PROVE  Described(c).state = IF to = {} THEN s
                     ELSE IF IsState(to) THEN CHOOSE u \in to : TRUE ELSE c.target
      BY <3>1, DescribedState
    <3> HIDE DEF to
    <3> QED BY <3>1
  <2>2. MayBeIn(x, s) = {D(t) : t \in IF to = {} THEN {s} ELSE to}
    BY DEF MayBeIn
  <2> HIDE DEF D, to
  <2>3. CASE to = {}
    BY <2>1, <2>2, <2>3
  <2>4. CASE to # {} /\ IsState(to)
    BY <1>3, <2>1, <2>2, <2>4
  <2>5. CASE to # {} /\ ~IsState(to)
    BY <2>1, <2>2, <2>5
  <2> QED BY <2>3, <2>4, <2>5
<1>5. to # {} => FirstReturn(to) \in to
  <2> SUFFICES ASSUME to # {} PROVE FirstReturn(to) \in to
    OBVIOUS
  <2>1. SetToSeq(to) \in Seq(to) /\ Len(SetToSeq(to)) = Cardinality(to)
    BY <1>2, SequenceOfSet
  <2>2. SetToSeq(to) # <<>>
    BY <1>3, <2>1
  <2>3. \A q \in Seq(to) : q # <<>> => Head(q) \in to
    OBVIOUS
  <2> QED BY <2>1, <2>2, <2>3 DEF FirstReturn
<1>6. /\ IsState(to) => to # {}
      /\ Cardinality(to) > 1 <=> to # {} /\ ~IsState(to)
  BY <1>3 DEF IsState
<1> HIDE DEF to
<1> QED
  BY <1>1, <1>3, <1>4, <1>5, <1>6 DEF to

(* The notes of a line.                                                      *)
LEMMA NotesOfALine ==
    ASSUME IInv, NEW s \in States, NEW node \in SequenceNodes,
           NEW l, l = SequenceLine(Tracker(s), node)
    PROVE  /\ l.note \in Plausible <=>
                  l.to \in MayBeIn(l.event, s) /\ l.note # "no_fsm_transition"
           /\ l.note = "no_fsm_transition" => MayBeIn(l.event, s) = {s}
<1> DEFINE x == node.event
           to == TransitionAt(x, s)
           next == IF node.new # "" THEN node.new ELSE IF to = {} THEN s ELSE FirstReturn(to)
           note == IF node.new # "" THEN NoteOnGiven(to, node.new) ELSE NoteOnOpen(to)
<1>1. x \in Events /\ Tracker(s).curr_state = s
  BY SequenceAssumption DEF Tracker
<1>2. l.event = x /\ l.to = next /\ l.note = note
  <2>1. determine_next_state(Tracker(s), node).curr_state = next
    BY <1>1 DEF determine_next_state
  <2>2. determine_next_state(Tracker(s), node).note = note
    BY <1>1 DEF determine_next_state
  <2> HIDE DEF next, note
  <2> QED BY <2>1, <2>2 DEF SequenceLine
<1>3. /\ MayBeIn(x, s) = IF to = {} THEN {s} ELSE to
      /\ to # {} => FirstReturn(to) \in to
      /\ IsState(to) => to # {}
      /\ Cardinality(to) > 1 <=> to # {} /\ ~IsState(to)
  BY <1>1, WhereItMayBe
<1>4. CASE node.new = ""
  <2>1. next \in MayBeIn(x, s) /\ note \in {"none", "first_return"}
    <3> HIDE DEF to
    <3> QED BY <1>3, <1>4 DEF NoteOnOpen
  <2> HIDE DEF next, note, x
  <2> QED BY <1>2, <2>1 DEF Plausible
<1>5. CASE node.new # "" /\ to = {}
  <2>1. note = "no_fsm_transition"
    <3> HIDE DEF to
    <3>1. ~IsState(to)
      BY <1>3, <1>5
    <3> QED BY <1>5, <3>1 DEF NoteOnGiven
  <2> HIDE DEF next, note, x, to
  <2> QED BY <1>2, <1>3, <1>5, <2>1 DEF Plausible
<1>6. CASE node.new # "" /\ to # {}
  <2>1. next \in to <=> note \in {"none", "fn_match"}
    <3> HIDE DEF to
    <3> QED BY <1>3, <1>6 DEF NoteOnGiven
  <2>2. note \in {"none", "state_mismatch", "fn_match", "fn_mismatch"}
    <3> HIDE DEF to
    <3> QED BY <1>3, <1>6 DEF NoteOnGiven
  <2> HIDE DEF next, note, x, to
  <2> QED BY <1>2, <1>3, <1>6, <2>1, <2>2 DEF Plausible
<1> QED
  BY <1>4, <1>5, <1>6

(* f follows the tracker through the first n of the nodes q.                 *)
TracksFrom(f, r, q, n) == f[0] = r /\ \A k \in 1..n : f[k] = determine_next_state(f[k - 1], q[k])

LEMMA TracksExist ==
    ASSUME NEW r, NEW q
    PROVE  \A n \in Nat : \E f : TracksFrom(f, r, q, n)
<1> DEFINE S == {n \in Nat : ~\E f : TracksFrom(f, r, q, n)}
<1> SUFFICES ASSUME S # {} PROVE FALSE
  OBVIOUS
<1>1. PICK n \in S : \A m \in S : n <= m
  BY LeastNat
<1>2. n # 0
  <2>1. TracksFrom([k \in {0} |-> r], r, q, 0)
    BY DEF TracksFrom
  <2> QED BY <2>1
<1>3. n - 1 \in Nat /\ n - 1 \notin S
  BY <1>1, <1>2
<1>4. PICK f : TracksFrom(f, r, q, n - 1)
  BY <1>3
<1> DEFINE h == [k \in 0..n |-> IF k = n THEN determine_next_state(f[n - 1], q[n]) ELSE f[k]]
<1>5. TracksFrom(h, r, q, n)
  <2>1. h[0] = r
    BY <1>2, <1>4 DEF TracksFrom
  <2>2. ASSUME NEW k \in 1..n PROVE h[k] = determine_next_state(h[k - 1], q[k])
    <3>1. k - 1 \in 0..n /\ k - 1 # n /\ k \in 0..n
      OBVIOUS
    <3>2. h[k - 1] = f[k - 1]
      BY <3>1
    <3>3. CASE k = n
      BY <3>1, <3>2, <3>3
    <3>4. CASE k # n
      <4>1. k \in 1..(n - 1)
        BY <3>4
      <4> QED BY <1>4, <3>1, <3>2, <3>4, <4>1 DEF TracksFrom
    <3> QED BY <3>3, <3>4
  <2> HIDE DEF h
  <2> QED BY <2>1, <2>2 DEF TracksFrom
<1> QED
  BY <1>5

(* The trackers of a sequence.                                               *)
LEMMA TrackersFollow ==
    ASSUME NEW seq \in EventSequences
    PROVE  /\ Len(seq.nodes) \in Nat \ {0} /\ DOMAIN seq.nodes = 1..Len(seq.nodes)
           /\ Trackers(seq)[0] = Tracker(seq.initial_state)
           /\ \A k \in 1..Len(seq.nodes) :
                 Trackers(seq)[k] = determine_next_state(Trackers(seq)[k - 1], seq.nodes[k])
<1> DEFINE n == Len(seq.nodes)
           r == Tracker(seq.initial_state)
           q == seq.nodes
<1>1. n \in Nat \ {0} /\ DOMAIN q = 1..n
  <2>1. PICK j \in 1..MaxNodes : q \in [1..j -> SequenceNodes]
    BY DEF EventSequences
  <2>2. j \in Nat \ {0}
    <3>1. MaxNodes \in Nat
      BY SequenceAssumption
    <3> QED BY <3>1
  <2>3. Len(q) = j
    BY <2>1, <2>2
  <2> QED BY <2>1, <2>2, <2>3
<1>2. PICK f : TracksFrom(f, r, q, n)
  BY <1>1, TracksExist
<1> DEFINE g == [k \in 0..n |-> f[k]]
           Next1(h) == [k \in 0..n |-> IF k = 0 THEN r ELSE determine_next_state(h[k - 1], q[k])]
<1>3. g = Next1(g)
  <2> HIDE DEF n, r, q
  <2>1. ASSUME NEW k \in 0..n PROVE g[k] = IF k = 0 THEN r ELSE determine_next_state(g[k - 1], q[k])
    <3>1. CASE k = 0
      BY <1>2, <3>1 DEF TracksFrom
    <3>2. CASE k # 0
      <4>1. k \in 1..n /\ k - 1 \in 0..n
        BY <1>1, <3>2
      <4> QED BY <1>2, <3>2, <4>1 DEF TracksFrom
    <3> QED BY <3>1, <3>2
  <2> QED BY <2>1
<1>4. Trackers(seq) = CHOOSE h : h = Next1(h)
  BY Zenon DEF Trackers
<1>5. Trackers(seq) = Next1(Trackers(seq))
  <2> HIDE DEF Next1, g
  <2> QED BY <1>3, <1>4
<1>6. \A k \in 0..n : Trackers(seq)[k] =
          IF k = 0 THEN r ELSE determine_next_state(Trackers(seq)[k - 1], q[k])
  <2> HIDE DEF n, r, q
  <2> QED BY <1>5
<1>7. 0 \in 0..n /\ \A k \in 1..n : k \in 0..n /\ k # 0
  BY <1>1
<1> HIDE DEF n, r, q
<1>8. Trackers(seq)[0] = r /\ \A k \in 1..n : Trackers(seq)[k] = determine_next_state(Trackers(seq)[k - 1], q[k])
  BY <1>6, <1>7
<1> QED
  BY <1>1, <1>8 DEF n, r, q

(* A tracker has visited the state it is in, and those before.               *)
LEMMA VisitedGrows ==
    ASSUME NEW t, NEW node
    PROVE  determine_next_state(t, node).visited =
               t.visited \cup {determine_next_state(t, node).curr_state}
<1> DEFINE to == TransitionAt(node.event, t.curr_state)
           next == IF node.new # "" THEN node.new ELSE IF to = {} THEN t.curr_state ELSE FirstReturn(to)
           note == IF node.new # "" THEN NoteOnGiven(to, node.new) ELSE NoteOnOpen(to)
<1>1. determine_next_state(t, node) = [curr_state |-> next, visited |-> t.visited \cup {next}, note |-> note]
  BY Zenon DEF determine_next_state
<1> HIDE DEF next, note
<1> QED
  BY <1>1

LEMMA VisitedStates ==
    ASSUME NEW seq \in EventSequences, NEW T, T = Trackers(seq)
    PROVE  \A k \in 0..Len(seq.nodes) :
               T[k].visited = {seq.initial_state} \cup {T[j].curr_state : j \in 1..k}
<1> DEFINE n == Len(seq.nodes)
           Was(k) == {seq.initial_state} \cup {T[j].curr_state : j \in 1..k}
           S == {k \in 0..n : T[k].visited # Was(k)}
<1>1. /\ n \in Nat
      /\ T[0] = Tracker(seq.initial_state)
      /\ \A k \in 1..n : T[k] = determine_next_state(T[k - 1], seq.nodes[k])
  BY TrackersFollow
<1> HIDE DEF n
<1> SUFFICES ASSUME S # {} PROVE FALSE
  BY DEF n
<1>2. PICK k \in S : \A j \in S : k <= j
  <2>1. S \subseteq Nat
    BY <1>1
  <2> QED BY <2>1, LeastNat
<1>3. k # 0
  <2>1. T[0].visited = {seq.initial_state}
    BY <1>1 DEF Tracker
  <2>2. Was(0) = {seq.initial_state}
    OBVIOUS
  <2> QED BY <2>1, <2>2
<1>4. k \in 1..n /\ k - 1 \in 0..n /\ k - 1 \notin S /\ k \in Nat
  BY <1>1, <1>2, <1>3
<1>5. T[k - 1].visited = Was(k - 1)
  BY <1>4
<1>6. T[k].visited = T[k - 1].visited \cup {T[k].curr_state}
  BY <1>1, <1>4, VisitedGrows
<1>7. Was(k) = Was(k - 1) \cup {T[k].curr_state}
  <2>1. 1..k = (1..(k - 1)) \cup {k}
    BY <1>4
  <2> QED BY <2>1
<1> QED
  BY <1>2, <1>5, <1>6, <1>7

(* The lines printed for a sequence.                                         *)
LEMMA LinesFollow ==
    ASSUME NEW seq \in EventSequences
    PROVE  LET lines == Trace(seq).lines
           IN  /\ \A k \in DOMAIN lines :
                      lines[k].from = IF k = 1 THEN seq.initial_state ELSE lines[k - 1].to
               /\ Hidden(seq) = {s \in States : /\ s # seq.initial_state
                                                /\ \A k \in DOMAIN lines : s # lines[k].to}
               /\ FinalStateWarning(seq) => Last(lines).to # seq.final_state
<1> DEFINE n == Len(seq.nodes)
           T == Trackers(seq)
           lines == Trace(seq).lines
<1>1. /\ n \in Nat \ {0} /\ DOMAIN seq.nodes = 1..n
      /\ T[0] = Tracker(seq.initial_state)
      /\ \A k \in 1..n : T[k] = determine_next_state(T[k - 1], seq.nodes[k])
  BY TrackersFollow
<1>2. /\ Trace(seq).tracker = T[n]
      /\ lines = [k \in 1..n |-> SequenceLine(T[k - 1], seq.nodes[k])]
  BY <1>1 DEF Trace
<1>3. \A t, node : /\ SequenceLine(t, node).from = t.curr_state
                   /\ SequenceLine(t, node).to = determine_next_state(t, node).curr_state
  BY DEF SequenceLine
<1>4. T[0].curr_state = seq.initial_state
  BY <1>1 DEF Tracker
<1>5. \A k \in 0..n : T[k].visited = {seq.initial_state} \cup {T[j].curr_state : j \in 1..k}
  BY VisitedStates
<1>6. n \in 0..n /\ n \in 1..n
  BY <1>1
<1> HIDE DEF n, T, lines
<1>7. \A k \in 1..n : lines[k].from = T[k - 1].curr_state /\ lines[k].to = T[k].curr_state
  BY <1>1, <1>2, <1>3
<1>8. DOMAIN lines = 1..n /\ Len(lines) = n
  BY <1>1, <1>2
<1>9. ASSUME NEW k \in 1..n
      PROVE  lines[k].from = IF k = 1 THEN seq.initial_state ELSE lines[k - 1].to
  <2>1. CASE k = 1
    BY <1>4, <1>7, <2>1
  <2>2. CASE k # 1
    <3>1. k - 1 \in 1..n
      BY <1>1, <2>2
    <3> QED BY <1>7, <2>2, <3>1
  <2> QED BY <2>1, <2>2
<1>10. Hidden(seq) = {s \in States : s # seq.initial_state /\ \A k \in 1..n : s # lines[k].to}
  <2>1. Hidden(seq) = States \ T[n].visited
    BY <1>2 DEF Hidden
  <2>2. T[n].visited = {seq.initial_state} \cup {T[j].curr_state : j \in 1..n}
    BY <1>5, <1>6
  <2> QED BY <1>7, <2>1, <2>2
<1>11. FinalStateWarning(seq) => Last(lines).to # seq.final_state
  <2>1. Last(lines) = lines[n]
    BY <1>8 DEF Last
  <2> QED BY <1>2, <1>6, <1>7, <2>1 DEF FinalStateWarning
<1> QED
  BY <1>8, <1>9, <1>10, <1>11 DEF lines

(* The notes and warnings printed with an event sequence are true of the     *)
(* machine described, whatever the sequence and however long it is, and the  *)
(* states its diagram shows are those passed through.                        *)
THEOREM NotesOnSequences == Spec => []SequenceNotesAreTrue
<1>1. IInv => SequenceNotesAreTrue
  <2> SUFFICES ASSUME IInv PROVE SequenceNotesAreTrue
    OBVIOUS
  <2>1. ASSUME NEW s \in States, NEW node \in SequenceNodes,
               NEW l \in {SequenceLine(Tracker(s), node), RstSequenceLine(Tracker(s), node),
                          SequenceArc(Tracker(s), node)}
        PROVE  /\ l.note \in Plausible <=>
                      l.to \in MayBeIn(l.event, s) /\ l.note # "no_fsm_transition"
               /\ l.note = "no_fsm_transition" => MayBeIn(l.event, s) = {s}
    <3>1. l = SequenceLine(Tracker(s), node)
      BY DEF RstSequenceLine, SequenceArc
    <3> QED BY <3>1, NotesOfALine
  <2> QED BY <2>1, LinesFollow, Zenon DEF SequenceNotesAreTrue
<1> QED
  BY <1>1, Inductive, PTL

-----------------------------------------------------------------------------
(* Recursion: there is a function with its equation's values if the value at *)
(* d depends on the values at members of lower rank only. "B" maps a         *)
(* function to the values its equation gives.                                *)
Causal(B, D, V, rank) ==
    \A f, g \in [D -> V], d \in D :
        (\A k \in D : rank[k] < rank[d] => f[k] = g[k]) => B[f][d] = B[g][d]

WellDefined(B, D, V, rank, R) ==
    /\ V # {} /\ B \in [[D -> V] -> [D -> V]]
    /\ rank \in [D -> Nat] /\ R \in Nat /\ \A d \in D : rank[d] <= R
    /\ Causal(B, D, V, rank)

LEMMA FixedPoint ==
    ASSUME NEW D, NEW V, NEW rank, NEW R, NEW B, WellDefined(B, D, V, rank, R)
    PROVE  \E f \in [D -> V] : B[f] = f
<1>0. /\ V # {} /\ B \in [[D -> V] -> [D -> V]]
      /\ rank \in [D -> Nat] /\ R \in Nat /\ \A d \in D : rank[d] <= R
      /\ Causal(B, D, V, rank)
  BY DEF WellDefined
<1> DEFINE Upto(n, f) == f \in [D -> V] /\ \A d \in D : rank[d] < n => B[f][d] = f[d]
           S == {n \in Nat : ~\E f : Upto(n, f)}
<1>1. S = {}
  <2> SUFFICES ASSUME S # {} PROVE FALSE
    OBVIOUS
  <2>1. PICK n \in S : \A m \in S : n <= m
    BY LeastNat
  <2>2. n # 0
    <3>1. PICK v \in V : TRUE
      BY <1>0
    <3>2. Upto(0, [d \in D |-> v])
      BY <1>0
    <3> QED BY <3>2
  <2>3. n - 1 \in Nat /\ n - 1 \notin S
    BY <2>1, <2>2
  <2>4. PICK f : Upto(n - 1, f)
    BY <2>3
  <2>5. B[f] \in [D -> V]
    BY <1>0, <2>4
  <2>6. ASSUME NEW d \in D, rank[d] < n PROVE B[B[f]][d] = B[f][d]
    <3>1. \A k \in D : rank[k] < rank[d] => B[f][k] = f[k]
      BY <1>0, <2>3, <2>4, <2>6
    <3> QED BY <1>0, <2>4, <2>5, <3>1 DEF Causal
  <2>7. Upto(n, B[f])
    BY <2>5, <2>6
  <2> QED BY <2>7
<1>2. PICK f : Upto(R + 1, f)
  <2> HIDE DEF Upto
  <2>1. R + 1 \in Nat
    BY <1>0
  <2> QED BY <1>1, <2>1
<1>3. B[f] \in [D -> V]
  BY <1>0, <1>2
<1>4. \A d \in D : B[f][d] = f[d]
  <2>1. \A d \in D : rank[d] < R + 1
    BY <1>0
  <2> QED BY <1>2, <2>1
<1>5. B[f] = f
  BY <1>2, <1>3, <1>4
<1> QED
  BY <1>2, <1>5

-----------------------------------------------------------------------------
(* The lists of names.                                                       *)

(* A list of the set's members, each once.                                   *)
Lists(q, S) == /\ q \in Seq(S) /\ ToSet(q) = S
               /\ \A k, l \in DOMAIN q : q[k] = q[l] => k = l

LEMMA UniqueAdded ==
    ASSUME NEW q, NEW S, NEW w, Lists(q, S)
    PROVE  Lists(AddUnique(q, w), S \cup {w})
<1>1. /\ q \in Seq(S) /\ ToSet(q) = S /\ DOMAIN q = 1..Len(q) /\ Len(q) \in Nat
      /\ \A k, l \in DOMAIN q : q[k] = q[l] => k = l
      /\ \A v : v \in S <=> \E k \in 1..Len(q) : q[k] = v
  BY DEF Lists, ToSet
<1>2. CASE w \in S
  BY <1>1, <1>2 DEF AddUnique, Lists
<1>3. CASE w \notin S
  <2> DEFINE r == Append(q, w)
  <2>1. AddUnique(q, w) = r
    BY <1>1, <1>3 DEF AddUnique
  <2>2. /\ r \in Seq(S \cup {w}) /\ DOMAIN r = 1..(Len(q) + 1) /\ r[Len(q) + 1] = w
        /\ \A k \in 1..Len(q) : r[k] = q[k]
    BY <1>1
  <2> HIDE DEF r
  <2>3. ToSet(r) = S \cup {w}
    <3>1. ASSUME NEW v \in S \cup {w} PROVE \E k \in DOMAIN r : r[k] = v
      <4>1. CASE v = w
        BY <1>1, <2>2, <4>1
      <4>2. CASE v \in S
        <5>1. PICK k \in 1..Len(q) : q[k] = v
          BY <1>1, <4>2
        <5>2. k \in DOMAIN r
          BY <1>1, <2>2
        <5> QED BY <2>2, <5>1, <5>2
      <4> QED BY <4>1, <4>2
    <3>2. \A k \in DOMAIN r : r[k] \in S \cup {w}
      BY <2>2
    <3> QED BY <3>1, <3>2 DEF ToSet
  <2>4. ASSUME NEW k \in DOMAIN r, NEW l \in DOMAIN r, r[k] = r[l] PROVE k = l
    <3>1. \A j \in DOMAIN r : j \in 1..Len(q) \/ j = Len(q) + 1
      BY <1>1, <2>2
    <3>2. \A j \in 1..Len(q) : r[j] # w
      BY <1>1, <1>3, <2>2
    <3> QED BY <1>1, <2>2, <2>4, <3>1, <3>2
  <2> QED BY <2>1, <2>2, <2>3, <2>4 DEF Lists
<1> QED
  BY <1>2, <1>3

(* What is wanted of the first k names.                                      *)
Among(names, wanted, k) == {names[j] : j \in 1..k} \cap wanted

LEMMA AmongOneMore ==
    ASSUME NEW names, NEW wanted, NEW k \in Nat, k # 0
    PROVE  Among(names, wanted, k) = IF names[k] \in wanted THEN Among(names, wanted, k - 1) \cup {names[k]}
                                     ELSE Among(names, wanted, k - 1)
<1>1. 1..k = (1..(k - 1)) \cup {k}
  OBVIOUS
<1>2. {names[j] : j \in 1..k} = {names[j] : j \in 1..(k - 1)} \cup {names[k]}
  BY <1>1
<1> QED
  BY <1>2 DEF Among

LEMMA UniqueSteps ==
    ASSUME NEW names, Len(names) \in Nat, NEW wanted
    PROVE  \E u : /\ Unique(names, wanted) = u[Len(names)] /\ u[0] = <<>>
                  /\ \A k \in 1..Len(names) :
                        u[k] = IF names[k] \in wanted THEN AddUnique(u[k - 1], names[k]) ELSE u[k - 1]
<1> DEFINE n == Len(names)
           D == 0..n
           V == Seq(wanted)
           At1(f, k) == IF k = 0 THEN <<>>
                        ELSE IF names[k] \in wanted THEN AddUnique(f[k - 1], names[k]) ELSE f[k - 1]
           B == [f \in [D -> V] |-> [k \in D |-> At1(f, k)]]
           rank == [k \in D |-> k]
<1>1. n \in Nat
  OBVIOUS
<1> HIDE DEF n
<1>2. \A k \in D : k # 0 => k - 1 \in D
  BY <1>1
<1>3. ASSUME NEW f \in [D -> V], NEW k \in D PROVE At1(f, k) \in V
  <2>1. k # 0 => f[k - 1] \in V
    BY <1>2, <1>3
  <2>2. \A q \in V, w \in wanted : AddUnique(q, w) \in V
    BY DEF AddUnique
  <2>3. <<>> \in V
    OBVIOUS
  <2> HIDE DEF V
  <2> QED BY <2>1, <2>2, <2>3
<1>4. WellDefined(B, D, V, rank, n)
  <2>1. V # {} /\ rank \in [D -> Nat] /\ \A d \in D : rank[d] <= n
    <3>1. <<>> \in V
      OBVIOUS
    <3>2. rank \in [D -> Nat] /\ \A d \in D : rank[d] <= n
      BY <1>1
    <3> QED BY <3>1, <3>2
  <2>2. B \in [[D -> V] -> [D -> V]]
    BY <1>3
  <2>3. Causal(B, D, V, rank)
    <3>1. ASSUME NEW f \in [D -> V], NEW g \in [D -> V], NEW d \in D,
                 \A k \in D : rank[k] < rank[d] => f[k] = g[k]
          PROVE  B[f][d] = B[g][d]
      <4>1. d # 0 => f[d - 1] = g[d - 1]
        BY <1>1, <1>2, <3>1
      <4> QED BY <4>1
    <3> QED BY <3>1 DEF Causal
  <2> QED BY <1>1, <2>1, <2>2, <2>3 DEF WellDefined
<1>5. PICK f \in [D -> V] : B[f] = f
  <2> HIDE DEF B, D, V, rank
  <2> QED BY <1>4, FixedPoint
<1>6. f = [k \in D |-> At1(f, k)]
  BY <1>5
<1> DEFINE u == CHOOSE g : g = [k \in D |-> At1(g, k)]
<1>7. Unique(names, wanted) = u[n]
  BY Zenon DEF Unique, n
<1>8. u = [k \in D |-> At1(u, k)]
  <2> HIDE DEF At1, D
  <2> QED BY <1>6
<1> HIDE DEF u
<1>9. \A k \in D : u[k] = At1(u, k)
  <2> HIDE DEF At1, D
  <2> QED BY <1>8
<1>10. 0 \in D /\ \A k \in 1..n : k \in D /\ k # 0
  BY <1>1
<1>11. u[0] = <<>> /\ \A k \in 1..n : u[k] = IF names[k] \in wanted THEN AddUnique(u[k - 1], names[k]) ELSE u[k - 1]
  <2> HIDE DEF D
  <2> QED BY <1>9, <1>10
<1> QED
  BY <1>7, <1>11 DEF n

(* The names wanted, each once.                                              *)
LEMMA UniqueIs ==
    ASSUME NEW names, Len(names) \in Nat, NEW wanted
    PROVE  Lists(Unique(names, wanted), Among(names, wanted, Len(names)))
<1> DEFINE n == Len(names)
<1>1. PICK u : /\ Unique(names, wanted) = u[n] /\ u[0] = <<>>
               /\ \A k \in 1..n :
                     u[k] = IF names[k] \in wanted THEN AddUnique(u[k - 1], names[k]) ELSE u[k - 1]
  BY UniqueSteps
<1> DEFINE S == {k \in 0..n : ~Lists(u[k], Among(names, wanted, k))}
<1>2. n \in Nat
  OBVIOUS
<1> HIDE DEF n
<1>3. S = {}
  <2> SUFFICES ASSUME S # {} PROVE FALSE
    OBVIOUS
  <2>1. PICK k \in S : \A j \in S : k <= j
    <3>1. S \subseteq Nat
      BY <1>2
    <3> QED BY <3>1, LeastNat
  <2>2. k # 0
    <3>1. Among(names, wanted, 0) = {}
      BY DEF Among
    <3>2. Lists(<<>>, {})
      BY DEF Lists, ToSet
    <3> QED BY <1>1, <3>1, <3>2
  <2>3. k \in Nat /\ k \in 1..n /\ k - 1 \in 0..n /\ k - 1 \notin S
    BY <1>2, <2>1, <2>2
  <2>4. Lists(u[k - 1], Among(names, wanted, k - 1))
    BY <2>3
  <2>5. u[k] = IF names[k] \in wanted THEN AddUnique(u[k - 1], names[k]) ELSE u[k - 1]
    BY <1>1, <2>3
  <2>6. Lists(AddUnique(u[k - 1], names[k]), Among(names, wanted, k - 1) \cup {names[k]})
    BY <2>4, UniqueAdded
  <2>7. Among(names, wanted, k) = IF names[k] \in wanted THEN Among(names, wanted, k - 1) \cup {names[k]}
                                  ELSE Among(names, wanted, k - 1)
    BY <2>2, <2>3, AmongOneMore
  <2>8. Lists(u[k], Among(names, wanted, k))
    BY <2>4, <2>5, <2>6, <2>7
  <2> QED BY <2>1, <2>8
<1>4. n \in 0..n
  BY <1>2
<1> QED
  BY <1>1, <1>3, <1>4 DEF n

(* The lists the parser keeps.                                               *)
LEMMA ParserLists ==
    ASSUME IInv
    PROVE  /\ Lists(NamedActions, {decls[i].action : i \in DOMAIN decls} \ {""})
           /\ Lists(transition_list, {decls[i].to : i \in {j \in DOMAIN decls : NamesState(j)}})
           /\ Lists(transition_fn_list, {decls[i].to : i \in {j \in DOMAIN decls : HasTransition(j) /\ ~NamesState(j)}})
<1> DEFINE n == Len(decls)
           acts == [i \in DOMAIN decls |-> decls[i].action]
           tos == [i \in DOMAIN decls |-> decls[i].to]
<1>1. /\ n \in Nat /\ DOMAIN decls = 1..n
      /\ \A i \in 1..n : decls[i] \in Declarations
  BY ListFacts DEF IInv
<1>2. \A i \in 1..n : decls[i].action \in Actions /\ decls[i].to \subseteq States
  BY <1>1, DeclarationAssumption DEF Actions
<1> HIDE DEF n
<1>3. Len(acts) = n /\ Len(tos) = n
  BY <1>1
<1>4. \A i \in 1..n : acts[i] = decls[i].action /\ tos[i] = decls[i].to
  BY <1>1
<1> HIDE DEF acts, tos
<1>5. Lists(action_list, {decls[i].action : i \in 1..n})
  <2>1. Lists(Unique(acts, Actions), Among(acts, Actions, n))
    BY <1>1, <1>3, UniqueIs
  <2>2. Among(acts, Actions, n) = {decls[i].action : i \in 1..n}
    BY <1>2, <1>4 DEF Among
  <2> QED BY <2>1, <2>2 DEF action_list, acts
<1>6. Lists(NamedActions, {decls[i].action : i \in 1..n} \ {""})
  <2> DEFINE q == action_list
             w == Actions \ {""}
  <2>1. Len(q) \in Nat /\ DOMAIN q = 1..Len(q) /\ ToSet(q) = {decls[i].action : i \in 1..n}
    BY <1>5 DEF Lists
  <2> HIDE DEF q, w
  <2>2. Lists(Unique(q, w), Among(q, w, Len(q)))
    BY <2>1, UniqueIs
  <2>3. Among(q, w, Len(q)) = ToSet(q) \cap w
    BY <2>1 DEF Among, ToSet
  <2>4. ToSet(q) \cap w = {decls[i].action : i \in 1..n} \ {""}
    BY <1>2, <2>1 DEF w
  <2> QED BY <2>2, <2>3, <2>4 DEF NamedActions, q, w
<1>7. ASSUME NEW sizes
      PROVE  Lists(Targets(sizes), {decls[i].to : i \in {j \in 1..n : Cardinality(decls[j].to) \in sizes}})
  <2> DEFINE w == {to \in SUBSET States : Cardinality(to) \in sizes}
  <2>1. Targets(sizes) = Unique(tos, w)
    BY Zenon DEF Targets, tos
  <2>2. \A i \in 1..n : tos[i] \in w <=> Cardinality(decls[i].to) \in sizes
    BY <1>2, <1>4
  <2> HIDE DEF w
  <2>3. Lists(Unique(tos, w), Among(tos, w, n))
    BY <1>1, <1>3, UniqueIs
  <2>4. Among(tos, w, n) = {decls[i].to : i \in {j \in 1..n : Cardinality(decls[j].to) \in sizes}}
    BY <1>4, <2>2 DEF Among
  <2> QED BY <2>1, <2>3, <2>4
<1>8. \A i \in 1..n : /\ Cardinality(decls[i].to) \in {1} <=> NamesState(i)
                      /\ Cardinality(decls[i].to) \in 2..Cardinality(States) <=> HasTransition(i) /\ ~NamesState(i)
  <2> SUFFICES ASSUME NEW i \in 1..n
               PROVE  /\ Cardinality(decls[i].to) \in {1} <=> NamesState(i)
                      /\ Cardinality(decls[i].to) \in 2..Cardinality(States) <=> HasTransition(i) /\ ~NamesState(i)
    OBVIOUS
  <2> DEFINE to == decls[i].to
  <2>1. to \subseteq States
    BY <1>2
  <2>2. IsFiniteSet(States) /\ Cardinality(States) \in Nat
    BY MachineAssumption, FS_CardinalityType
  <2> HIDE DEF to
  <2>3. IsFiniteSet(to) /\ Cardinality(to) <= Cardinality(States)
    BY <2>1, <2>2, FS_Subset
  <2>4. /\ Cardinality(to) \in Nat
        /\ Cardinality(to) = 0 <=> to = {}
    BY <2>3, FS_CardinalityType, FS_EmptySet
  <2>5. Cardinality(to) \in 2..Cardinality(States) <=> to # {} /\ Cardinality(to) # 1
    BY <2>2, <2>3, <2>4
  <2> QED BY <2>5 DEF NamesState, HasTransition, to
<1>9. Lists(transition_list, {decls[i].to : i \in {j \in 1..n : NamesState(j)}})
  <2>1. {j \in 1..n : Cardinality(decls[j].to) \in {1}} = {j \in 1..n : NamesState(j)}
    BY <1>8
  <2>2. Lists(Targets({1}), {decls[i].to : i \in {j \in 1..n : Cardinality(decls[j].to) \in {1}}})
    BY <1>7
  <2> QED BY <2>1, <2>2 DEF transition_list
<1>10. Lists(transition_fn_list, {decls[i].to : i \in {j \in 1..n : HasTransition(j) /\ ~NamesState(j)}})
  <2>1. {j \in 1..n : Cardinality(decls[j].to) \in 2..Cardinality(States)}
            = {j \in 1..n : HasTransition(j) /\ ~NamesState(j)}
    BY <1>8
  <2>2. Lists(Targets(2..Cardinality(States)),
              {decls[i].to : i \in {j \in 1..n : Cardinality(decls[j].to) \in 2..Cardinality(States)}})
    BY <1>7
  <2> QED BY <2>1, <2>2 DEF transition_fn_list
<1> QED
  BY <1>1, <1>6, <1>9, <1>10

-----------------------------------------------------------------------------
(* Lists put one after another.                                              *)

LEMMA ListedTogether ==
    ASSUME NEW p, NEW q, NEW S, NEW T, Lists(p, S), Lists(q, T), S \cap T = {}
    PROVE  Lists(p \o q, S \cup T)
<1> DEFINE r == p \o q
           m == Len(p)
           n == Len(q)
<1>1. /\ p \in Seq(S) /\ DOMAIN p = 1..m /\ m \in Nat
      /\ \A v : v \in S <=> \E k \in 1..m : p[k] = v
      /\ \A k, l \in 1..m : p[k] = p[l] => k = l
  BY DEF Lists, ToSet
<1>2. /\ q \in Seq(T) /\ DOMAIN q = 1..n /\ n \in Nat
      /\ \A v : v \in T <=> \E k \in 1..n : q[k] = v
      /\ \A k, l \in 1..n : q[k] = q[l] => k = l
  BY DEF Lists, ToSet
<1>3. /\ r \in Seq(S \cup T) /\ DOMAIN r = 1..(m + n)
      /\ \A k \in 1..(m + n) : r[k] = IF k <= m THEN p[k] ELSE q[k - m]
  <2>1. p \in Seq(S \cup T) /\ q \in Seq(S \cup T)
    BY <1>1, <1>2
  <2> QED BY <1>1, <1>2, <2>1
<1> HIDE DEF r, m, n
<1>4. \A k \in 1..(m + n) : k \in 1..m \/ (~(k <= m) /\ k - m \in 1..n)
  BY <1>1, <1>2
<1>5. \A k \in 1..m : k \in 1..(m + n) /\ k <= m
  BY <1>1, <1>2
<1>6. \A k \in 1..n : k + m \in 1..(m + n) /\ ~(k + m <= m) /\ (k + m) - m = k
  BY <1>1, <1>2
<1>7. ToSet(r) = S \cup T
  <2>1. \A k \in 1..(m + n) : r[k] \in S \cup T
    <3> DEFINE W == S \cup T
    <3>1. r \in Seq(W)
      BY <1>3
    <3> HIDE DEF W
    <3>2. \A k \in DOMAIN r : r[k] \in W
      BY <3>1
    <3> QED BY <1>3, <3>2 DEF W
  <2>2. ASSUME NEW v \in S PROVE \E k \in 1..(m + n) : r[k] = v
    BY <1>1, <1>3, <1>5
  <2>3. ASSUME NEW v \in T PROVE \E k \in 1..(m + n) : r[k] = v
    <3>1. PICK k \in 1..n : q[k] = v
      BY <1>2
    <3>2. r[k + m] = q[k]
      BY <1>3, <1>6
    <3> QED BY <1>6, <3>1, <3>2
  <2> QED BY <1>3, <2>1, <2>2, <2>3 DEF ToSet
<1>8. ASSUME NEW k \in 1..(m + n), NEW l \in 1..(m + n), r[k] = r[l] PROVE k = l
  <2>1. CASE k \in 1..m /\ l \in 1..m
    BY <1>1, <1>3, <1>5, <1>8, <2>1
  <2>2. CASE ~(k <= m) /\ k - m \in 1..n /\ ~(l <= m) /\ l - m \in 1..n
    <3>1. k - m = l - m
      BY <1>2, <1>3, <1>8, <2>2
    <3> QED BY <1>1, <3>1
  <2>3. CASE k \in 1..m /\ ~(l <= m) /\ l - m \in 1..n
    BY <1>1, <1>2, <1>3, <1>5, <1>8, <2>3
  <2>4. CASE l \in 1..m /\ ~(k <= m) /\ k - m \in 1..n
    BY <1>1, <1>2, <1>3, <1>5, <1>8, <2>4
  <2> QED BY <1>4, <2>1, <2>2, <2>3, <2>4
<1> QED
  BY <1>3, <1>7, <1>8 DEF Lists, r

LEMMA OneListed == \A v : Lists(<<v>>, {v})
  BY DEF Lists, ToSet

LEMMA NoneListed == Lists(<<>>, {})
  BY DEF Lists, ToSet

LEMMA FnsListed ==
    ASSUME NEW q, NEW S, Lists(q, S)
    PROVE  Lists(Fns(q), {Fn(to) : to \in S}) /\ Lists(TransitionsTo(q), {TransitionTo(to) : to \in S})
<1>1. /\ q \in Seq(S) /\ DOMAIN q = 1..Len(q) /\ Len(q) \in Nat
      /\ \A v : v \in S <=> \E k \in 1..Len(q) : q[k] = v
      /\ \A k, l \in 1..Len(q) : q[k] = q[l] => k = l
  BY DEF Lists, ToSet
<1>2. \A u, v : (Fn(u) = Fn(v) => u = v) /\ (TransitionTo(u) = TransitionTo(v) => u = v)
  BY DEF Fn, TransitionTo
<1> DEFINE P == {Fn(to) : to \in S}
           R == {TransitionTo(to) : to \in S}
<1>3. Lists(Fns(q), P)
  <2>1. DOMAIN Fns(q) = 1..Len(q) /\ \A k \in 1..Len(q) : Fns(q)[k] = Fn(q[k])
    BY <1>1 DEF Fns
  <2>2. Fns(q) \in Seq(P)
    BY <1>1 DEF Fns
  <2>3. ToSet(Fns(q)) = P
    BY <1>1, <2>1 DEF ToSet
  <2>4. \A k, l \in 1..Len(q) : Fns(q)[k] = Fns(q)[l] => k = l
    BY <1>1, <1>2, <2>1
  <2> HIDE DEF P
  <2> QED BY <2>1, <2>2, <2>3, <2>4 DEF Lists
<1>4. Lists(TransitionsTo(q), R)
  <2>1. DOMAIN TransitionsTo(q) = 1..Len(q) /\ \A k \in 1..Len(q) : TransitionsTo(q)[k] = TransitionTo(q[k])
    BY <1>1 DEF TransitionsTo
  <2>2. TransitionsTo(q) \in Seq(R)
    BY <1>1 DEF TransitionsTo
  <2>3. ToSet(TransitionsTo(q)) = R
    BY <1>1, <2>1 DEF ToSet
  <2>4. \A k, l \in 1..Len(q) : TransitionsTo(q)[k] = TransitionsTo(q)[l] => k = l
    <3>1. \A u, v : TransitionTo(u) = TransitionTo(v) => u = v
      BY <1>2
    <3>2. ASSUME NEW k \in 1..Len(q), NEW l \in 1..Len(q), TransitionsTo(q)[k] = TransitionsTo(q)[l]
          PROVE  q[k] = q[l]
      BY <2>1, <3>1, <3>2
    <3> QED BY <1>1, <3>2
  <2> HIDE DEF R
  <2> QED BY <2>1, <2>2, <2>3, <2>4 DEF Lists
<1> QED
  BY <1>3, <1>4

(* The set's members in a row.                                               *)
LEMMA AllListed ==
    ASSUME NEW S, IsFiniteSet(S)
    PROVE  Lists(SetToSeq(S), S)
<1> DEFINE q == SetToSeq(S)
           n == Cardinality(S)
<1>1. n \in Nat /\ ExistsBijection(1..n, S)
  BY FS_CardinalityType
<1>2. \E f \in [1..n -> S] : IsInjective(f)
  BY <1>1 DEF ExistsBijection, Bijection, Injection
<1>3. q \in [1..n -> S] /\ IsInjective(q)
  BY <1>2 DEF SetToSeq
<1>4. q \in Injection(1..n, S)
  BY <1>3 DEF Injection, IsInjective
<1>5. Cardinality(1..n) = n
  BY <1>1, FS_Interval
<1>6. q \in Surjection(1..n, S)
  <2> HIDE DEF q
  <2> QED BY <1>4, <1>5, FS_Injection
<1> HIDE DEF q, n
<1>7. q \in Seq(S) /\ DOMAIN q = 1..n
  BY <1>1, <1>3
<1>8. ToSet(q) = S
  BY <1>3, <1>6 DEF Surjection, ToSet
<1> QED
  BY <1>3, <1>7, <1>8 DEF Lists, IsInjective, q

(* Members of lists put one after another.                                   *)
LEMMA JoinedMembers ==
    ASSUME NEW S, NEW p \in Seq(S), NEW q \in Seq(S)
    PROVE  p \o q \in Seq(S) /\ ToSet(p \o q) = ToSet(p) \cup ToSet(q)
<1> DEFINE r == p \o q
           m == Len(p)
           n == Len(q)
<1>1. /\ DOMAIN p = 1..m /\ m \in Nat /\ DOMAIN q = 1..n /\ n \in Nat
      /\ r \in Seq(S) /\ DOMAIN r = 1..(m + n)
  OBVIOUS
<1>2. \A k \in 1..(m + n) : r[k] = IF k <= m THEN p[k] ELSE q[k - m]
  OBVIOUS
<1> HIDE DEF r, m, n
<1>3. \A k \in 1..(m + n) : k \in 1..m \/ (~(k <= m) /\ k - m \in 1..n)
  BY <1>1
<1>4. \A k \in 1..m : k \in 1..(m + n) /\ k <= m
  BY <1>1
<1>5. \A k \in 1..n : k + m \in 1..(m + n) /\ ~(k + m <= m) /\ (k + m) - m = k
  BY <1>1
<1>6. ASSUME NEW k \in 1..(m + n) PROVE (\E j \in 1..m : r[k] = p[j]) \/ (\E j \in 1..n : r[k] = q[j])
  BY <1>2, <1>3
<1>7. ASSUME NEW j \in 1..m PROVE \E k \in 1..(m + n) : r[k] = p[j]
  BY <1>2, <1>4
<1>8. ASSUME NEW j \in 1..n PROVE \E k \in 1..(m + n) : r[k] = q[j]
  BY <1>2, <1>5
<1>9. ToSet(r) = ToSet(p) \cup ToSet(q)
  <2>1. ToSet(r) = {r[k] : k \in 1..(m + n)}
    BY <1>1 DEF ToSet
  <2>2. ToSet(p) = {p[k] : k \in 1..m} /\ ToSet(q) = {q[k] : k \in 1..n}
    BY <1>1 DEF ToSet
  <2> QED BY <1>6, <1>7, <1>8, <2>1, <2>2
<1> QED
  BY <1>1, <1>9 DEF r

LEMMA OneMember == \A v : <<v>> \in Seq({v}) /\ ToSet(<<v>>) = {v}
  BY DEF ToSet

(* The names of functions.                                                   *)
LEMMA NamesDiffer ==
    /\ \A u, v : TransitionTo(u) # Fn(v)
    /\ \A u : /\ TransitionTo(u) # noTransitionFn /\ TransitionTo(u) # noTransitionName
              /\ Fn(u) # noTransitionFn /\ Fn(u) # noTransitionName
  BY DEF TransitionTo, Fn, noTransitionFn, noTransitionName

LEMMA JoinedThree ==
    ASSUME NEW S, NEW p \in Seq(S), NEW q \in Seq(S), NEW r \in Seq(S)
    PROVE  /\ (p \o q) \o r \in Seq(S)
           /\ ToSet((p \o q) \o r) = ToSet(p) \cup ToSet(q) \cup ToSet(r)
<1>1. p \o q \in Seq(S) /\ ToSet(p \o q) = ToSet(p) \cup ToSet(q)
  BY JoinedMembers
<1> DEFINE w == p \o q
<1>2. w \o r \in Seq(S) /\ ToSet(w \o r) = ToSet(w) \cup ToSet(r)
  <2>1. w \in Seq(S)
    BY <1>1
  <2> HIDE DEF w
  <2> QED BY <2>1, JoinedMembers
<1> QED
  BY <1>1, <1>2

(* What stands in an array at the place an enumeration has for a name.       *)
LEMMA PlacesInArrays ==
    ASSUME NEW S, NEW p \in Seq(S), NEW a, a \notin S, NEW b, NEW v \in ToSet(p) \cup {a}
    PROVE  At(p \o <<a>>, p \o <<b>>, v) = IF v = a THEN b ELSE v
<1> DEFINE e == p \o <<a>>
           f == p \o <<b>>
           n == Len(p)
<1>1. /\ n \in Nat /\ DOMAIN p = 1..n /\ \A k \in 1..n : p[k] \in S
      /\ DOMAIN e = 1..(n + 1) /\ e[n + 1] = a /\ \A k \in 1..n : e[k] = p[k]
      /\ f[n + 1] = b /\ \A k \in 1..n : f[k] = p[k]
  OBVIOUS
<1>2. v = a \/ \E k \in 1..n : p[k] = v
  BY <1>1 DEF ToSet
<1> DEFINE k == CHOOSE j \in DOMAIN e : e[j] = v
<1>3. At(e, f, v) = f[k]
  BY Zenon DEF At
<1> HIDE DEF e, f, n
<1>4. \A j \in 1..(n + 1) : j \in 1..n \/ j = n + 1
  BY <1>1
<1>5. \A j \in 1..n : j \in 1..(n + 1)
  BY <1>1
<1>6. n + 1 \in 1..(n + 1)
  BY <1>1
<1>7. k \in DOMAIN e /\ e[k] = v
  <2>1. \E j \in DOMAIN e : e[j] = v
    BY <1>1, <1>2, <1>5, <1>6
  <2> QED BY <2>1
<1> HIDE DEF k
<1>8. f[k] = IF v = a THEN b ELSE v
  <2>1. CASE k \in 1..n
    BY <1>1, <1>7, <2>1
  <2>2. CASE k = n + 1
    BY <1>1, <1>7, <2>2
  <2> QED BY <1>1, <1>4, <1>7, <2>1, <2>2
<1> QED
  BY <1>3, <1>8 DEF e, f

-----------------------------------------------------------------------------
(* The actions.                                                              *)

LEMMA ActionsAreDefined ==
    ASSUME IInv, Populated, NEW o \in [emptyCellFn : BOOLEAN], NEW x \in Events, NEW s \in States
    PROVE  ActionNamesAreDefined(o, array[x][s])
<1> DEFINE i == array[x][s]
           E == empty_cell_fn(o)
           N == {decls[j].action : j \in DOMAIN decls} \ {""}
           W == N \cup {"emptyCellFn", "noAction"}
           action == CellAction(o, i)
<1>1. NamedActions \in Seq(N) /\ ToSet(NamedActions) = N
  BY ParserLists DEF Lists
<1>2. E = IF o.emptyCellFn THEN <<"emptyCellFn">> ELSE <<>>
  BY DEF empty_cell_fn
<1>3. i # NULL => i \in DOMAIN decls
  BY DEF IInv, ArrayInv, HeldInv
<1>4. /\ NamedActions \in Seq(W) /\ E \in Seq(W) /\ <<"noAction">> \in Seq(W)
  <2>1. NamedActions \in Seq(W)
    <3> HIDE DEF N
    <3> QED BY <1>1, SeqMonotonic
  <2>2. E \in Seq(W)
    <3>1. <<"emptyCellFn">> \in Seq(W) /\ <<>> \in Seq(W)
      OBVIOUS
    <3> HIDE DEF E, W
    <3> QED BY <1>2, <3>1
  <2>3. <<"noAction">> \in Seq(W)
    OBVIOUS
  <2> QED BY <2>1, <2>2, <2>3
<1>5. ToSet(<<"noAction">>) = {"noAction"} /\ ToSet(E) = IF o.emptyCellFn THEN {"emptyCellFn"} ELSE {}
  BY <1>2 DEF ToSet
<1>6. action \in N \cup {"noAction"} \cup ToSet(E)
  <2>1. CASE i = NULL
    <3>1. action = Head(E \o <<"noAction">>)
      BY <2>1, Zenon DEF CellAction
    <3>2. Head(<<>> \o <<"noAction">>) = "noAction" /\ Head(<<"emptyCellFn">> \o <<"noAction">>) = "emptyCellFn"
      OBVIOUS
    <3>3. CASE o.emptyCellFn
      BY <1>2, <1>5, <3>1, <3>2, <3>3
    <3>4. CASE ~o.emptyCellFn
      BY <1>2, <3>1, <3>2, <3>4
    <3> QED BY <3>3, <3>4
  <2>2. CASE i # NULL /\ HasAction(i)
    <3>1. action = decls[i].action
      BY <2>2 DEF CellAction
    <3> QED BY <1>3, <2>2, <3>1 DEF HasAction
  <2>3. CASE i # NULL /\ ~HasAction(i)
    BY <2>3 DEF CellAction
  <2> QED BY <2>1, <2>2, <2>3
<1> HIDE DEF action, i, E, N, W
<1>7. ToSet(DeclaredActions(o)) = N \cup ToSet(E) \cup {"noAction"}
  <2>1. ToSet((NamedActions \o E) \o <<"noAction">>) = ToSet(NamedActions) \cup ToSet(E) \cup ToSet(<<"noAction">>)
    <3> DEFINE r == <<"noAction">>
    <3>1. r \in Seq(W)
      BY <1>4
    <3> HIDE DEF r
    <3>2. ToSet((NamedActions \o E) \o r) = ToSet(NamedActions) \cup ToSet(E) \cup ToSet(r)
      BY <1>4, <3>1, JoinedThree
    <3> QED BY <3>2 DEF r
  <2> QED BY <1>1, <1>5, <2>1 DEF DeclaredActions, E
<1>8. ToSet(DefinedActions) = N \cup {"noAction"}
  <2>1. ToSet(NamedActions \o <<"noAction">>) = ToSet(NamedActions) \cup ToSet(<<"noAction">>)
    <3> DEFINE r == <<"noAction">>
    <3>1. r \in Seq(W)
      BY <1>4
    <3> HIDE DEF r
    <3>2. ToSet(NamedActions \o r) = ToSet(NamedActions) \cup ToSet(r)
      BY <1>4, <3>1, JoinedMembers
    <3> QED BY <3>2 DEF r
  <2> QED BY <1>1, <1>5, <2>1 DEF DefinedActions
<1>9. At(ActionFnEnum(o), action_fns(o), action) = action
  <2> DEFINE d == DeclaredActions(o)
  <2>1. ActionFnEnum(o) = d /\ action_fns(o) = d
    BY DEF ActionFnEnum, action_fns, DeclaredActions
  <2>2. \E k \in DOMAIN d : d[k] = action
    BY <1>6, <1>7 DEF ToSet
  <2> HIDE DEF d
  <2>3. d[CHOOSE k \in DOMAIN d : d[k] = action] = action
    BY <2>2
  <2> QED BY <2>1, <2>3 DEF At
<1> QED
  BY <1>6, <1>7, <1>8, <1>9 DEF ActionNamesAreDefined, action, E, i

-----------------------------------------------------------------------------
(* The transitions' functions.                                               *)
StateTargets == {decls[i].to : i \in {j \in DOMAIN decls : NamesState(j)}}
FnTargets == {decls[i].to : i \in {j \in DOMAIN decls : HasTransition(j) /\ ~NamesState(j)}}
ToStateFns == {TransitionTo(to) : to \in StateTargets}
UserFns == {Fn(to) : to \in FnTargets}

LEMMA FnLists ==
    ASSUME IInv
    PROVE  /\ Lists(TransitionsTo(transition_list), ToStateFns)
           /\ Lists(Fns(transition_fn_list), UserFns)
           /\ transition_fn_list = <<>> => UserFns = {} /\ Fns(transition_fn_list) = <<>>
           /\ noTransitionFn \notin ToStateFns \cup UserFns /\ noTransitionName \notin ToStateFns \cup UserFns
           /\ ToStateFns \cap UserFns = {}
<1>1. Lists(transition_list, StateTargets) /\ Lists(transition_fn_list, FnTargets)
  BY ParserLists DEF StateTargets, FnTargets
<1>2. Lists(TransitionsTo(transition_list), ToStateFns) /\ Lists(Fns(transition_fn_list), UserFns)
  BY <1>1, FnsListed DEF ToStateFns, UserFns
<1>3. ASSUME transition_fn_list = <<>> PROVE UserFns = {} /\ Fns(transition_fn_list) = <<>>
  <2>1. FnTargets = {}
    BY <1>1, <1>3 DEF Lists, ToSet
  <2>2. Fns(<<>>) = <<>>
    BY DEF Fns
  <2> QED BY <1>3, <2>1, <2>2 DEF UserFns
<1>4. /\ noTransitionFn \notin ToStateFns \cup UserFns /\ noTransitionName \notin ToStateFns \cup UserFns
      /\ ToStateFns \cap UserFns = {}
  BY NamesDiffer, Zenon DEF ToStateFns, UserFns
<1> QED
  BY <1>2, <1>3, <1>4

(* The function of a cell, if it has a transition.                           *)
LEMMA CellFnIs ==
    ASSUME IInv, NEW x \in Events, NEW s \in States, NEW empty
    PROVE  LET i == array[x][s] IN
           /\ i = NULL \/ ~HasTransition(i) => CellFn(i, empty) = empty
           /\ i # NULL /\ HasTransition(i) =>
                 /\ i \in DOMAIN decls
                 /\ NamesState(i) => CellFn(i, empty) = TransitionTo(decls[i].to) /\ CellFn(i, empty) \in ToStateFns
                 /\ ~NamesState(i) => CellFn(i, empty) = Fn(decls[i].to) /\ CellFn(i, empty) \in UserFns
<1> DEFINE i == array[x][s]
<1>1. i # NULL => i \in DOMAIN decls
  BY DEF IInv, ArrayInv, HeldInv
<1> HIDE DEF i
<1>2. i = NULL \/ ~HasTransition(i) => CellFn(i, empty) = empty
  BY DEF CellFn
<1>3. i # NULL /\ HasTransition(i) /\ NamesState(i) =>
          CellFn(i, empty) = TransitionTo(decls[i].to) /\ CellFn(i, empty) \in ToStateFns
  <2>1. i # NULL /\ HasTransition(i) /\ NamesState(i) => CellFn(i, empty) = TransitionTo(decls[i].to)
    BY DEF CellFn
  <2>2. i # NULL /\ NamesState(i) => decls[i].to \in StateTargets
    BY <1>1 DEF StateTargets
  <2> QED BY <2>1, <2>2 DEF ToStateFns
<1>4. i # NULL /\ HasTransition(i) /\ ~NamesState(i) =>
          CellFn(i, empty) = Fn(decls[i].to) /\ CellFn(i, empty) \in UserFns
  <2>1. i # NULL /\ HasTransition(i) /\ ~NamesState(i) => CellFn(i, empty) = Fn(decls[i].to)
    BY DEF CellFn
  <2>2. i # NULL /\ HasTransition(i) /\ ~NamesState(i) => decls[i].to \in FnTargets
    BY <1>1 DEF FnTargets
  <2> QED BY <2>1, <2>2 DEF UserFns
<1> QED
  BY <1>1, <1>2, <1>3, <1>4 DEF i

LEMMA DeclaredFns ==
    ASSUME IInv, transition_fn_list # <<>>
    PROVE  ToSet(DeclaredTransitionFns) = UserFns \cup ToStateFns \cup {noTransitionFn}
<1> DEFINE W == UserFns \cup ToStateFns \cup {noTransitionFn}
           p == Fns(transition_fn_list)
           q == TransitionsTo(transition_list)
           r == <<noTransitionFn>>
<1>1. p \in Seq(W) /\ q \in Seq(W) /\ ToSet(p) = UserFns /\ ToSet(q) = ToStateFns
  BY FnLists, SeqMonotonic DEF Lists
<1>2. r \in Seq(W) /\ ToSet(r) = {noTransitionFn}
  BY DEF ToSet
<1>3. DeclaredTransitionFns = (p \o q) \o r
  BY Zenon DEF DeclaredTransitionFns
<1> HIDE DEF p, q, r
<1>4. ToSet((p \o q) \o r) = ToSet(p) \cup ToSet(q) \cup ToSet(r)
  BY <1>1, <1>2, JoinedThree
<1> QED
  BY <1>1, <1>2, <1>3, <1>4

(* The functions defined, if the states' functions are those in q.           *)
DefinedWith(q) == (IF transition_fn_list = <<>> THEN <<>> ELSE q \o <<noTransitionFn>>) \o Fns(transition_fn_list)

LEMMA DefinedFns ==
    ASSUME IInv, NEW q \in Seq(ToStateFns)
    PROVE  /\ transition_fn_list # <<>> =>
                  ToSet(DefinedWith(q)) = ToSet(q) \cup {noTransitionFn} \cup UserFns
           /\ (transition_fn_list # <<>> => IsInjective(q)) => IsInjective(DefinedWith(q))
<1> DEFINE W == UserFns \cup ToStateFns \cup {noTransitionFn}
           p == Fns(transition_fn_list)
           r == <<noTransitionFn>>
<1>1. Lists(p, UserFns) /\ noTransitionFn \notin ToStateFns \cup UserFns /\ ToStateFns \cap UserFns = {}
  BY FnLists
<1>2. q \in Seq(W) /\ p \in Seq(W) /\ ToSet(p) = UserFns
  BY <1>1, SeqMonotonic DEF Lists
<1>3. r \in Seq(W) /\ ToSet(r) = {noTransitionFn} /\ Lists(r, {noTransitionFn})
  BY OneListed DEF ToSet
<1>4. DefinedWith(q) = IF transition_fn_list = <<>> THEN <<>> \o p ELSE (q \o r) \o p
  BY DEF DefinedWith
<1>5. \A v \in Seq(W) : <<>> \o v = v
  OBVIOUS
<1>6. ToSet(q) \subseteq ToStateFns
  BY DEF ToSet
<1>7. ASSUME NEW v, NEW S, Lists(v, S) PROVE IsInjective(v)
  BY <1>7 DEF Lists, IsInjective
<1>8. ASSUME IsInjective(q) PROVE Lists(q, ToSet(q))
  <2>1. q \in Seq(ToSet(q))
    <3>1. Len(q) \in Nat /\ q \in [1..Len(q) -> ToStateFns] /\ DOMAIN q = 1..Len(q)
      OBVIOUS
    <3>2. q \in [1..Len(q) -> ToSet(q)]
      BY <3>1 DEF ToSet
    <3> QED BY <3>1, <3>2
  <2> QED BY <1>8, <2>1 DEF Lists, IsInjective
<1> HIDE DEF W, p, r
<1>9. ASSUME transition_fn_list # <<>>
      PROVE  ToSet(DefinedWith(q)) = ToSet(q) \cup {noTransitionFn} \cup UserFns
  <2>1. ToSet((q \o r) \o p) = ToSet(q) \cup ToSet(r) \cup ToSet(p)
    BY <1>2, <1>3, JoinedThree
  <2> QED BY <1>2, <1>3, <1>4, <1>9, <2>1
<1>10. ASSUME transition_fn_list = <<>> PROVE IsInjective(DefinedWith(q))
  BY <1>1, <1>2, <1>4, <1>5, <1>7, <1>10
<1>11. ASSUME transition_fn_list # <<>>, IsInjective(q) PROVE IsInjective(DefinedWith(q))
  <2>1. ToSet(q) \cap {noTransitionFn} = {}
    BY <1>1, <1>6
  <2>2. Lists(q \o r, ToSet(q) \cup {noTransitionFn})
    BY <1>3, <1>8, <1>11, <2>1, ListedTogether
  <2>3. (ToSet(q) \cup {noTransitionFn}) \cap UserFns = {}
    BY <1>1, <1>6
  <2>4. Lists((q \o r) \o p, (ToSet(q) \cup {noTransitionFn}) \cup UserFns)
    BY <1>1, <2>2, <2>3, ListedTogether
  <2> QED BY <1>4, <1>7, <1>11, <2>4
<1> QED
  BY <1>9, <1>10, <1>11

(* The states' functions that go through the array cell by cell.             *)
TransitionCells ==
    {c \in Events \X States : LET i == array[c[1]][c[2]] IN i # NULL /\ ~HasAction(i) /\ NamesState(i)}
CellTarget(c) == decls[array[c[1]][c[2]]].to

LEMMA StateFnsByCell ==
    ASSUME IInv
    PROVE  /\ StateTransitions("states") \in Seq(ToStateFns)
           /\ ToSet(StateTransitions("states")) = {TransitionTo(CellTarget(c)) : c \in TransitionCells}
<1> DEFINE order == SetToSeq(TransitionCells)
           tos == [k \in DOMAIN order |-> CellTarget(order[k])]
           fns == TransitionsTo(tos)
           n == Len(order)
<1>1. IsFiniteSet(TransitionCells)
  <2>1. IsFiniteSet(Events \X States)
    BY MachineAssumption, FS_Product
  <2>2. TransitionCells \subseteq Events \X States
    BY DEF TransitionCells
  <2> QED BY <2>1, <2>2, FS_Subset
<1>2. /\ n \in Nat /\ DOMAIN order = 1..n
      /\ \A c : c \in TransitionCells <=> \E k \in 1..n : order[k] = c
  <2>1. Lists(order, TransitionCells)
    BY <1>1, AllListed
  <2> QED BY <2>1 DEF Lists, ToSet
<1>3. StateTransitions("states") = fns
  BY Zenon DEF StateTransitions, TransitionCells, CellTarget
<1>4. \A c \in TransitionCells : TransitionTo(CellTarget(c)) \in ToStateFns
  <2> SUFFICES ASSUME NEW c \in TransitionCells PROVE TransitionTo(CellTarget(c)) \in ToStateFns
    OBVIOUS
  <2> DEFINE i == array[c[1]][c[2]]
  <2>1. c[1] \in Events /\ c[2] \in States /\ i # NULL /\ NamesState(i)
    BY DEF TransitionCells
  <2>2. i \in DOMAIN decls
    BY <2>1 DEF IInv, ArrayInv, HeldInv
  <2> HIDE DEF i
  <2>3. decls[i].to \in StateTargets
    BY <2>1, <2>2 DEF StateTargets
  <2> QED BY <2>3 DEF ToStateFns, CellTarget, i
<1> HIDE DEF order, n
<1>5. DOMAIN tos = 1..n /\ Len(tos) = n /\ \A k \in 1..n : tos[k] = CellTarget(order[k])
  BY <1>2
<1> HIDE DEF tos
<1>6. fns = [k \in 1..n |-> TransitionTo(CellTarget(order[k]))]
  BY <1>5 DEF TransitionsTo
<1> HIDE DEF fns
<1>7. fns \in Seq(ToStateFns)
  <2>1. \A k \in 1..n : TransitionTo(CellTarget(order[k])) \in ToStateFns
    BY <1>2, <1>4
  <2> QED BY <1>2, <1>6, <2>1
<1>8. ToSet(fns) = {TransitionTo(CellTarget(c)) : c \in TransitionCells}
  BY <1>2, <1>6 DEF ToSet
<1> QED
  BY <1>3, <1>7, <1>8

(* The functions of a plain table and of a compacted one.                    *)
LEMMA TransitionsAreDefined ==
    ASSUME IInv, NEW x \in Events, NEW s \in States, transition_fn_list # <<>>
    PROVE  TransitionNamesAreDefined(array[x][s])
<1> DEFINE i == array[x][s]
           fn == CellFn(i, noTransitionFn)
           name == CellFn(i, noTransitionName)
           S == UserFns \cup ToStateFns
           p == Fns(transition_fn_list) \o TransitionsTo(transition_list)
<1>1. ToSet(DeclaredTransitionFns) = S \cup {noTransitionFn}
  BY DeclaredFns
<1>2. ToSet(DefinedTransitionFns("events")) = S \cup {noTransitionFn}
  <2> DEFINE q == TransitionsTo(transition_list)
  <2>1. q \in Seq(ToStateFns) /\ ToSet(q) = ToStateFns
    BY FnLists DEF Lists
  <2>2. DefinedTransitionFns("events") = DefinedWith(q)
    BY DEF DefinedTransitionFns, DefinedWith, StateTransitions
  <2> HIDE DEF q
  <2>3. ToSet(DefinedWith(q)) = ToSet(q) \cup {noTransitionFn} \cup UserFns
    BY <2>1, DefinedFns
  <2> QED BY <2>1, <2>2, <2>3
<1>3. (fn = noTransitionFn /\ name = noTransitionName) \/ (fn = name /\ fn \in S)
  BY CellFnIs
<1>4. p \in Seq(S) /\ ToSet(p) = S
  <2>1. Fns(transition_fn_list) \in Seq(S) /\ TransitionsTo(transition_list) \in Seq(S)
    BY FnLists, SeqMonotonic DEF Lists
  <2>2. ToSet(Fns(transition_fn_list)) = UserFns /\ ToSet(TransitionsTo(transition_list)) = ToStateFns
    BY FnLists DEF Lists
  <2> HIDE DEF S
  <2>3. p \in Seq(S) /\ ToSet(p) = UserFns \cup ToStateFns
    BY <2>1, <2>2, JoinedMembers
  <2> QED BY <2>3 DEF S
<1>5. noTransitionName \notin S
  BY FnLists
<1>6. TransitionFnEnum = p \o <<noTransitionName>> /\ transition_fns = p \o <<noTransitionFn>>
  BY Zenon DEF TransitionFnEnum, transition_fns
<1> HIDE DEF p, S, fn, name, i
<1>7. name \in S \cup {noTransitionName}
  BY <1>3
<1>8. At(TransitionFnEnum, transition_fns, name) = IF name = noTransitionName THEN noTransitionFn ELSE name
  BY <1>4, <1>5, <1>6, <1>7, PlacesInArrays
<1>9. At(TransitionFnEnum, transition_fns, name) = fn
  BY <1>3, <1>5, <1>8
<1> QED
  BY <1>1, <1>2, <1>3, <1>9 DEF TransitionNamesAreDefined, fn, name, i

(* The functions a machine whose actions return states names.                *)
LEMMA StatesAreDefined ==
    ASSUME IInv, Populated, NEW o \in [emptyCellFn : BOOLEAN], NEW x \in Events, NEW s \in States,
           ~StateFnsMiscounted
    PROVE  StateNamesAreDefined(o, array[x][s])
<1> DEFINE i == array[x][s]
           f == CellStateAction(o, i)
           q == StateTransitions("states")
<1>1. CASE i = NULL \/ HasAction(i)
  <2>1. f = <<"action", CellAction(o, i)>>
    BY <1>1 DEF CellStateAction
  <2>2. CellAction(o, i) \in ToSet(DeclaredActions(o))
    BY ActionsAreDefined DEF ActionNamesAreDefined
  <2> HIDE DEF i
  <2>3. f[1] = "action" /\ f[2] = CellAction(o, i)
    BY <2>1
  <2> HIDE DEF f
  <2> QED BY <2>2, <2>3 DEF StateNamesAreDefined, f, i
<1>2. CASE i # NULL /\ ~HasAction(i)
  <2> DEFINE fn == CellFn(i, noTransitionName)
  <2>1. f = <<"transition", fn>>
    BY <1>2 DEF CellStateAction
  <2>2. i \in DOMAIN decls
    BY <1>2 DEF IInv, ArrayInv, HeldInv
  <2>3. HasTransition(i)
    <3>1. decls[i] \in Declarations
      BY <2>2, ListFacts DEF IInv
    <3> QED BY <1>2, <3>1, DeclarationAssumption DEF TransitionMatrix, HasAction, HasTransition
  <2>4. /\ NamesState(i) => fn = TransitionTo(decls[i].to) /\ fn \in ToStateFns
        /\ ~NamesState(i) => fn \in UserFns
    BY <1>2, <2>3, CellFnIs
  <2>5. /\ q \in Seq(ToStateFns)
        /\ ToSet(q) = {TransitionTo(CellTarget(c)) : c \in TransitionCells}
    BY StateFnsByCell
  <2>6. NamesState(i) => fn \in ToSet(q)
    <3> SUFFICES ASSUME NamesState(i) PROVE fn \in ToSet(q)
      OBVIOUS
    <3> DEFINE c == <<x, s>>
    <3>1. c \in TransitionCells
      BY <1>2 DEF TransitionCells
    <3>2. CellTarget(c) = decls[i].to
      BY DEF CellTarget
    <3> HIDE DEF i, c, fn, q
    <3> QED BY <2>4, <2>5, <3>1, <3>2
  <2>7. transition_fn_list # <<>>
    <3>1. CASE NamesState(i)
      <4>1. q # <<>>
        BY <2>6, <3>1 DEF ToSet
      <4> QED BY <4>1 DEF StateFnsMiscounted
    <3>2. CASE ~NamesState(i)
      BY <2>4, <3>2, FnLists
    <3> QED BY <3>1, <3>2
  <2>8. DefinedTransitionFns("states") = DefinedWith(q)
    BY Zenon DEF DefinedTransitionFns, DefinedWith
  <2> HIDE DEF i, fn, q
  <2>9. ToSet(DefinedWith(q)) = ToSet(q) \cup {noTransitionFn} \cup UserFns
    BY <2>5, <2>7, DefinedFns
  <2>10. fn \in ToSet(DeclaredTransitionFns) \cap ToSet(DefinedTransitionFns("states"))
    BY <2>4, <2>6, <2>7, <2>8, <2>9, DeclaredFns
  <2>11. f[1] = "transition" /\ f[2] = fn
    BY <2>1
  <2> HIDE DEF f
  <2> QED BY <2>10, <2>11 DEF StateNamesAreDefined, f, i
<1> QED
  BY <1>1, <1>2

(* Every function that the table of a table-driven machine names is          *)
(* declared and, but for the user's function of empty cells, defined, none   *)
(* is defined twice, and a compacted table leads to the same functions as a  *)
(* plain one; for every machine none of whose actions has the name of the    *)
(* function the code generator adds itself.                                  *)
THEOREM TableNamesMatch ==
    ASSUME "noAction" \notin Actions
    PROVE  Spec => []TableNamesAreDefined
<1>1. ASSUME IInv, Populated PROVE IsInjective(DefinedActions)
  <2> DEFINE N == {decls[j].action : j \in DOMAIN decls} \ {""}
  <2>1. Lists(NamedActions, N)
    BY <1>1, ParserLists
  <2>2. N \subseteq Actions
    <3>1. \A j \in DOMAIN decls : decls[j] \in Declarations
      BY <1>1, ListFacts DEF IInv
    <3> QED BY <3>1 DEF Actions
  <2>3. N \cap {"noAction"} = {}
    BY <2>2
  <2> HIDE DEF N
  <2>4. Lists(NamedActions \o <<"noAction">>, N \cup {"noAction"})
    <3> DEFINE r == <<"noAction">>
    <3>1. Lists(r, {"noAction"})
      BY OneListed
    <3> HIDE DEF r
    <3>2. Lists(NamedActions \o r, N \cup {"noAction"})
      BY <2>1, <2>3, <3>1, ListedTogether
    <3> QED BY <3>2 DEF r
  <2> QED BY <2>4 DEF Lists, IsInjective, DefinedActions
<1>2. ASSUME IInv PROVE IsInjective(DefinedTransitionFns("events"))
  <2> DEFINE q == TransitionsTo(transition_list)
  <2>1. q \in Seq(ToStateFns) /\ IsInjective(q)
    BY <1>2, FnLists DEF Lists, IsInjective
  <2>2. DefinedTransitionFns("events") = DefinedWith(q)
    BY DEF DefinedTransitionFns, DefinedWith, StateTransitions
  <2> HIDE DEF q
  <2> QED BY <1>2, <2>1, <2>2, DefinedFns
<1>3. ASSUME IInv, ~StateFnsMiscounted PROVE IsInjective(DefinedTransitionFns("states"))
  <2> DEFINE q == StateTransitions("states")
  <2>1. q \in Seq(ToStateFns)
    BY <1>3, StateFnsByCell
  <2>2. IsInjective(q)
    <3>1. IsInjective(<<>>)
      BY DEF IsInjective
    <3>2. q = <<>> \/ IsInjective(q)
      BY <1>3, Zenon DEF StateFnsMiscounted
    <3> QED BY <3>1, <3>2
  <2>3. DefinedTransitionFns("states") = DefinedWith(q)
    BY Zenon DEF DefinedTransitionFns, DefinedWith
  <2> HIDE DEF q
  <2> QED BY <1>3, <2>1, <2>2, <2>3, DefinedFns
<1>4. IInv => TableNamesAreDefined
  BY <1>1, <1>2, <1>3, ActionsAreDefined, TransitionsAreDefined, StatesAreDefined, Zenon
     DEF TableNamesAreDefined
<1> QED
  BY <1>4, Inductive, PTL

-----------------------------------------------------------------------------
(* Sums.                                                                     *)

Picked(T) == CHOOSE y \in T : TRUE

(* The sum of f over the members of S.                                       *)
Total(f, S) ==
    LET total[T \in SUBSET S] == IF T = {} THEN 0 ELSE total[T \ {Picked(T)}] + f[Picked(T)]
    IN  total[S]

(* Induction over a set's subsets.                                           *)
LEMMA SubsetsOneByOne ==
    ASSUME NEW S, IsFiniteSet(S), NEW P, P[{}],
           \A T \in SUBSET S : T # {} /\ P[T \ {Picked(T)}] => P[T]
    PROVE  P[S]
<1> DEFINE C == {Cardinality(T) : T \in {U \in SUBSET S : ~P[U]}}
<1>1. \A T \in SUBSET S : IsFiniteSet(T) /\ Cardinality(T) \in Nat
  BY FS_Subset, FS_CardinalityType
<1> SUFFICES ASSUME ~P[S] PROVE FALSE
  OBVIOUS
<1>2. C # {} /\ C \subseteq Nat
  BY <1>1
<1>3. PICK n \in C : \A k \in C : n <= k
  BY <1>2, LeastNat
<1>4. PICK T \in SUBSET S : ~P[T] /\ Cardinality(T) = n
  BY <1>3
<1>5. T # {}
  BY <1>4
<1> DEFINE x == Picked(T)
<1>6. x \in T
  BY <1>5 DEF Picked
<1>7. Cardinality(T \ {x}) = Cardinality(T) - 1
  <2> HIDE DEF x
  <2> QED BY <1>1, <1>6, FS_RemoveElement
<1>8. T \ {x} \in SUBSET S /\ ~P[T \ {x}]
  BY <1>4, <1>5
<1>9. Cardinality(T \ {x}) \in C
  BY <1>8
<1>10. n \in Nat /\ n - 1 \in C
  BY <1>2, <1>4, <1>7, <1>9
<1> HIDE DEF C
<1> QED
  BY <1>3, <1>10

(* t has the sums over the subsets of S, member after member.                *)
Sums(t, f, S) ==
    /\ t \in [SUBSET S -> Nat] /\ t[{}] = 0
    /\ \A T \in SUBSET S : T # {} => t[T] = t[T \ {Picked(T)}] + f[Picked(T)]

LEMMA TotalSteps ==
    ASSUME NEW S, IsFiniteSet(S), NEW f \in [S -> Nat]
    PROVE  \E t : Total(f, S) = t[S] /\ Sums(t, f, S)
<1> DEFINE D == SUBSET S
           At1(t, T) == IF T = {} THEN 0 ELSE t[T \ {Picked(T)}] + f[Picked(T)]
           B == [t \in [D -> Nat] |-> [T \in D |-> At1(t, T)]]
           rank == [T \in D |-> Cardinality(T)]
<1>1. \A T \in D : IsFiniteSet(T) /\ Cardinality(T) \in Nat /\ Cardinality(T) <= Cardinality(S)
  BY FS_Subset, FS_CardinalityType
<1>2. \A T \in D : T # {} => Picked(T) \in T /\ T \ {Picked(T)} \in D
  BY DEF Picked
<1>3. \A T \in D : T # {} => Cardinality(T \ {Picked(T)}) < Cardinality(T)
  <2> SUFFICES ASSUME NEW T \in D, T # {} PROVE Cardinality(T \ {Picked(T)}) < Cardinality(T)
    OBVIOUS
  <2>1. Cardinality(T \ {Picked(T)}) = Cardinality(T) - 1
    BY <1>1, <1>2, FS_RemoveElement
  <2> QED BY <1>1, <2>1
<1>4. ASSUME NEW t \in [D -> Nat], NEW T \in D PROVE At1(t, T) \in Nat
  <2>1. T # {} => f[Picked(T)] \in Nat /\ t[T \ {Picked(T)}] \in Nat
    BY <1>2
  <2> QED BY <2>1
<1>5. WellDefined(B, D, Nat, rank, Cardinality(S))
  <2>1. rank \in [D -> Nat] /\ Cardinality(S) \in Nat /\ \A d \in D : rank[d] <= Cardinality(S)
    BY <1>1, FS_CardinalityType
  <2>2. B \in [[D -> Nat] -> [D -> Nat]]
    BY <1>4
  <2>3. Causal(B, D, Nat, rank)
    <3>1. ASSUME NEW t \in [D -> Nat], NEW u \in [D -> Nat], NEW T \in D,
                 \A U \in D : rank[U] < rank[T] => t[U] = u[U]
          PROVE  B[t][T] = B[u][T]
      <4>1. T # {} => t[T \ {Picked(T)}] = u[T \ {Picked(T)}]
        BY <1>2, <1>3, <3>1
      <4>2. B[t][T] = At1(t, T) /\ B[u][T] = At1(u, T)
        OBVIOUS
      <4>3. At1(t, T) = At1(u, T)
        BY <4>1
      <4> QED BY <4>2, <4>3
    <3> QED BY <3>1 DEF Causal
  <2> HIDE DEF B, D, rank
  <2> QED BY <2>1, <2>2, <2>3 DEF WellDefined
<1>6. PICK g \in [D -> Nat] : B[g] = g
  <2> HIDE DEF B, D, rank
  <2> QED BY <1>5, FixedPoint
<1>7. g = [T \in D |-> At1(g, T)]
  BY <1>6
<1> DEFINE t == CHOOSE u : u = [T \in D |-> At1(u, T)]
<1>8. Total(f, S) = t[S]
  BY Zenon DEF Total
<1>9. t = [T \in D |-> At1(t, T)]
  <2> HIDE DEF At1, D
  <2> QED BY <1>7
<1> HIDE DEF t
<1>10. \A T \in D : t[T] = At1(t, T)
  <2> HIDE DEF At1, D
  <2> QED BY <1>9
<1>11. t[{}] = 0 /\ \A T \in D : T # {} => t[T] = t[T \ {Picked(T)}] + f[Picked(T)]
  BY <1>10
<1>12. t \in [D -> Nat]
  <2> DEFINE P == [T \in D |-> t[T] \in Nat]
  <2>1. P[{}]
    <3>1. {} \in D /\ P[{}] = (t[{}] \in Nat)
      OBVIOUS
    <3>2. t[{}] \in Nat
      <4> HIDE DEF D
      <4> QED BY <1>11
    <3> HIDE DEF P, D
    <3> QED BY <3>1, <3>2
  <2>2. ASSUME NEW T \in D, T # {}, P[T \ {Picked(T)}] PROVE P[T]
    <3>1. f[Picked(T)] \in Nat /\ t[T \ {Picked(T)}] \in Nat
      BY <1>2, <2>2
    <3> QED BY <1>11, <2>2, <3>1
  <2>3. ASSUME NEW U \in D PROVE t[U] \in Nat
    <3>1. IsFiniteSet(U)
      BY <1>1
    <3>2. \A T \in SUBSET U : T # {} /\ P[T \ {Picked(T)}] => P[T]
      BY <2>2
    <3>3. P[U]
      <4> HIDE DEF P
      <4> QED BY <2>1, <3>1, <3>2, SubsetsOneByOne
    <3> QED BY <3>3
  <2>4. t = [T \in D |-> t[T]]
    <3> HIDE DEF At1, D
    <3> QED BY <1>9
  <2> HIDE DEF D
  <2> QED BY <2>3, <2>4
<1> QED
  BY <1>8, <1>11, <1>12 DEF Sums

(* The sum is any measure that grows by f with each member.                  *)
LEMMA TotalIs ==
    ASSUME NEW S, IsFiniteSet(S), NEW f \in [S -> Nat], NEW m, m[{}] = 0,
           \A T \in SUBSET S : \A x \in T : m[T] = m[T \ {x}] + f[x]
    PROVE  Total(f, S) = m[S]
<1>0. PICK t : Total(f, S) = t[S] /\ Sums(t, f, S)
  BY TotalSteps
<1>1. /\ t \in [SUBSET S -> Nat] /\ Total(f, S) = t[S] /\ t[{}] = 0
      /\ \A T \in SUBSET S : T # {} => t[T] = t[T \ {Picked(T)}] + f[Picked(T)]
  BY <1>0 DEF Sums
<1> DEFINE P == [T \in SUBSET S |-> t[T] = m[T]]
<1>2. P[{}]
  BY <1>1
<1>3. ASSUME NEW T \in SUBSET S, T # {}, P[T \ {Picked(T)}] PROVE P[T]
  <2>1. Picked(T) \in T
    BY <1>3 DEF Picked
  <2> QED BY <1>1, <1>3, <2>1
<1>4. P[S]
  <2> HIDE DEF P
  <2> QED BY <1>2, <1>3, SubsetsOneByOne
<1> QED
  BY <1>1, <1>4

(* Division, rounded down.                                                   *)
LEMMA DivisionIs ==
    ASSUME NEW a \in Nat, NEW b \in Nat \ {0}
    PROVE  a \div b \in Nat /\ b * (a \div b) <= a /\ a < b * (a \div b) + b
  BY SMT

LEMMA Products ==
    ASSUME NEW a \in Nat, NEW b \in Nat, NEW c \in Nat
    PROVE  /\ c * a \in Nat /\ c * (a + b) = c * a + c * b
           /\ c * a = a * c /\ c * (a * b) = (c * a) * b
           /\ a <= b => c * a <= c * b
           /\ c * a < c * b => a < b
  BY SMT

(* An average of shares, each rounded down, rounded down once more: not more *)
(* than the share of the whole, and not two less.                            *)
LEMMA RoundedTwice ==
    ASSUME NEW n \in Nat \ {0}, NEW k \in Nat \ {0}, NEW g \in Nat, NEW w \in Nat,
           n * g <= w, w <= n * g + (n - 1) * k
    PROVE  g \div k \in {w \div (n * k) - 1, w \div (n * k)}
<1> DEFINE q == g \div k
           m == n * k
           r == w \div m
<1>1. m \in Nat \ {0}
  BY SMT
<1>2. q \in Nat /\ k * q <= g /\ g < k * q + k
  BY DivisionIs
<1>3. r \in Nat /\ m * r <= w /\ w < m * r + m
  <2> HIDE DEF m
  <2> QED BY <1>1, DivisionIs
<1>4. n * (k * q) = m * q
  BY <1>2, Products
<1>5. m * (r + 1) = m * r + m /\ m * (q + 2) = m * q + 2 * m
  <2> HIDE DEF m, q, r
  <2>1. m \in Nat /\ q \in Nat /\ r \in Nat
    BY <1>1, <1>2, <1>3
  <2> QED BY <2>1, SMT
<1> HIDE DEF q, r
<1>6. q < r + 1
  <2>1. n * (k * q) <= n * g
    <3>1. k * q \in Nat
      BY <1>2, Products
    <3> QED BY <1>2, <3>1, Products
  <2>2. m * q < m * (r + 1)
    <3>1. m * q <= n * g
      BY <1>4, <2>1
    <3> HIDE DEF m
    <3>2. m * q \in Nat /\ m * r \in Nat /\ n * g \in Nat
      BY <1>1, <1>2, <1>3, Products
    <3> QED BY <1>1, <1>3, <1>5, <3>1, <3>2
  <2> HIDE DEF m
  <2>3. r + 1 \in Nat
    BY <1>3
  <2> QED BY <1>1, <1>2, <2>2, <2>3, Products
<1>7. r < q + 2
  <2>1. n * g + n <= m * q + m
    <3>1. k * q \in Nat /\ g + 1 <= k * q + k /\ g + 1 \in Nat /\ k * q + k \in Nat
      BY <1>2, Products
    <3>2. n * (g + 1) <= n * (k * q + k)
      BY <3>1, Products
    <3>3. n * (g + 1) = n * g + n /\ n * (k * q + k) = n * (k * q) + n * k
      BY <3>1, SMT
    <3> QED BY <1>4, <3>2, <3>3
  <2>2. (n - 1) * k = m - k
    BY SMT
  <2> HIDE DEF m
  <2>3. m * q \in Nat /\ m * r \in Nat /\ n * g \in Nat
    BY <1>1, <1>2, <1>3, Products
  <2>4. m * r < m * (q + 2)
    BY <1>1, <1>3, <1>5, <2>1, <2>2, <2>3
  <2>5. q + 2 \in Nat
    BY <1>2
  <2> QED BY <1>1, <1>3, <2>4, <2>5, Products
<1>8. q \in {r - 1, r}
  BY <1>2, <1>3, <1>6, <1>7
<1> QED
  BY <1>8 DEF q, r

LEMMA SharesAdded ==
    ASSUME NEW S, IsFiniteSet(S), NEW n \in Nat \ {0}, NEW h \in [S -> Nat], NEW g \in [S -> Nat],
           \A x \in S : g[x] = (100 * h[x]) \div n
    PROVE  /\ Total(g, S) \in Nat /\ Total(h, S) \in Nat
           /\ n * Total(g, S) <= 100 * Total(h, S)
           /\ 100 * Total(h, S) <= n * Total(g, S) + (n - 1) * Cardinality(S)
<1>1. PICK t : Total(g, S) = t[S] /\ Sums(t, g, S)
  BY TotalSteps
<1>2. PICK u : Total(h, S) = u[S] /\ Sums(u, h, S)
  BY TotalSteps
<1> DEFINE Bounded(T) == n * t[T] <= 100 * u[T] /\ 100 * u[T] <= n * t[T] + (n - 1) * Cardinality(T)
           P == [T \in SUBSET S |-> Bounded(T)]
<1>3. t \in [SUBSET S -> Nat] /\ u \in [SUBSET S -> Nat]
  BY <1>1, <1>2 DEF Sums
<1>4. P[{}]
  <2>1. t[{}] = 0 /\ u[{}] = 0 /\ Cardinality({}) = 0
    BY <1>1, <1>2, FS_EmptySet DEF Sums
  <2>2. Bounded({})
    BY <2>1
  <2> QED BY <2>2
<1>5. ASSUME NEW T \in SUBSET S, T # {}, P[T \ {Picked(T)}] PROVE P[T]
  <2> DEFINE x == Picked(T)
             U == T \ {x}
             c == Cardinality(U)
             a == t[U]
             b == u[U]
             v == g[x]
             w == h[x]
  <2>1. x \in T /\ U \in SUBSET S
    BY <1>5 DEF Picked
  <2>2. a \in Nat /\ b \in Nat /\ v \in Nat /\ w \in Nat
    BY <1>3, <2>1
  <2>3. t[T] = a + v /\ u[T] = b + w
    BY <1>1, <1>2, <1>5 DEF Sums
  <2>4. c \in Nat /\ Cardinality(T) = c + 1
    <3>1. IsFiniteSet(T) /\ IsFiniteSet(U)
      BY <2>1, FS_Subset
    <3>2. Cardinality(T) \in Nat /\ Cardinality(U) \in Nat
      BY <3>1, FS_CardinalityType
    <3>3. Cardinality(U) = Cardinality(T) - 1
      BY <2>1, <3>1, FS_RemoveElement
    <3> QED BY <3>2, <3>3
  <2>5. n * v <= 100 * w /\ 100 * w < n * v + n
    <3>1. v = (100 * w) \div n /\ 100 * w \in Nat
      BY <2>1, <2>2
    <3> HIDE DEF v
    <3> QED BY <3>1, DivisionIs
  <2>6. Bounded(U)
    BY <1>5, <2>1
  <2> HIDE DEF x, U, c, a, b, v, w
  <2>7. n * a <= 100 * b /\ 100 * b <= n * a + (n - 1) * c
    BY <2>6 DEF a, b, c
  <2>8. n * (a + v) <= 100 * (b + w)
    <3>1. n * (a + v) = n * a + n * v /\ n * a \in Nat /\ n * v \in Nat
      BY <2>2, Products
    <3> QED BY <2>2, <2>5, <2>7, <3>1
  <2>9. 100 * (b + w) <= n * (a + v) + (n - 1) * (c + 1)
    <3>1. n * (a + v) = n * a + n * v /\ n * a \in Nat /\ n * v \in Nat
      BY <2>2, Products
    <3>2. n - 1 \in Nat
      OBVIOUS
    <3>3. (n - 1) * (c + 1) = (n - 1) * c + (n - 1) /\ (n - 1) * c \in Nat
      BY <2>4, <3>2, SMT
    <3> QED BY <2>2, <2>5, <2>7, <3>1, <3>3
  <2> QED BY <2>3, <2>4, <2>8, <2>9
<1>6. P[S]
  <2> HIDE DEF P
  <2> QED BY <1>4, <1>5, SubsetsOneByOne
<1>7. Bounded(S) /\ t[S] \in Nat /\ u[S] \in Nat
  BY <1>3, <1>6
<1> QED
  BY <1>1, <1>2, <1>7

LEMMA AverageIs ==
    ASSUME NEW S, IsFiniteSet(S), S # {}, NEW n \in Nat \ {0}, NEW h \in [S -> Nat], NEW g \in [S -> Nat],
           \A x \in S : g[x] = (100 * h[x]) \div n
    PROVE  LET fill == (100 * Total(h, S)) \div (n * Cardinality(S))
           IN  Total(g, S) \div Cardinality(S) \in {fill - 1, fill}
<1> DEFINE k == Cardinality(S)
           w == 100 * Total(h, S)
           t == Total(g, S)
<1>1. k \in Nat \ {0}
  BY FS_CardinalityType, FS_EmptySet
<1>2. /\ t \in Nat /\ w \in Nat
      /\ n * t <= w /\ w <= n * t + (n - 1) * k
  BY SharesAdded
<1> HIDE DEF k, w, t
<1>3. t \div k \in {w \div (n * k) - 1, w \div (n * k)}
  BY <1>1, <1>2, RoundedTwice
<1> QED
  BY <1>3 DEF k, w, t

-----------------------------------------------------------------------------
(* The cells that are filled, counted row by row or column by column.        *)

Part(R, n, T) == {c \in R : c[n] \in T}

Within(R, n, A) == \A c \in R : c[n] \in A

Parts(R, n, A) == [x \in A |-> Cardinality(Part(R, n, {x}))]

LEMMA CountedByParts ==
    ASSUME NEW A, IsFiniteSet(A), NEW R, IsFiniteSet(R), NEW n, Within(R, n, A)
    PROVE  Parts(R, n, A) \in [A -> Nat] /\ Total(Parts(R, n, A), A) = Cardinality(R)
<1> DEFINE h == [x \in A |-> Cardinality(Part(R, n, {x}))]
           m == [T \in SUBSET A |-> Cardinality(Part(R, n, T))]
<1>1. \A T : IsFiniteSet(Part(R, n, T)) /\ Cardinality(Part(R, n, T)) \in Nat
  <2>1. \A T : Part(R, n, T) \subseteq R
    BY DEF Part
  <2> QED BY <2>1, FS_Subset, FS_CardinalityType
<1>2. h \in [A -> Nat]
  BY <1>1
<1>3. m[{}] = 0
  <2>1. Part(R, n, {}) = {}
    BY DEF Part
  <2> QED BY <2>1, FS_EmptySet
<1>4. ASSUME NEW T \in SUBSET A, NEW x \in T PROVE m[T] = m[T \ {x}] + h[x]
  <2> DEFINE p == Part(R, n, T \ {x})
             q == Part(R, n, {x})
  <2>1. Part(R, n, T) = p \cup q /\ p \cap q = {}
    BY DEF Part
  <2>2. IsFiniteSet(p) /\ IsFiniteSet(q) /\ Cardinality(p) \in Nat /\ Cardinality(q) \in Nat
    BY <1>1
  <2>3. m[T] = Cardinality(Part(R, n, T)) /\ m[T \ {x}] = Cardinality(p) /\ h[x] = Cardinality(q)
    OBVIOUS
  <2> HIDE DEF p, q, m
  <2>4. Cardinality(p \cup q) = Cardinality(p) + Cardinality(q) - Cardinality(p \cap q)
    BY <2>2, FS_Union
  <2>5. Cardinality(p \cap q) = 0
    BY <2>1, FS_EmptySet
  <2> QED BY <2>1, <2>2, <2>3, <2>4, <2>5
<1>5. m[A] = Cardinality(R)
  <2>1. Part(R, n, A) = R
    BY DEF Part, Within
  <2> QED BY <2>1
<1>6. Total(h, A) = m[A]
  <2> HIDE DEF m
  <2> QED BY <1>2, <1>3, <1>4, TotalIs
<1> QED
  BY <1>2, <1>5, <1>6 DEF Parts

LEMMA ImagesCount ==
    ASSUME NEW S, IsFiniteSet(S), NEW T, NEW f \in Bijection(S, T)
    PROVE  IsFiniteSet(T) /\ Cardinality(T) = Cardinality(S)
<1>1. f \in Surjection(S, T) /\ f \in Injection(S, T)
  BY DEF Bijection
<1> QED
  BY <1>1, FS_Surjection

(* Of each event, the states that handle it, and of each state, the events.  *)
LEMMA FilledCellsCounted ==
    ASSUME IInv
    PROVE  /\ IsFiniteSet(FilledCells)
           /\ \A x \in Events : /\ handling[x] = {s \in States : <<x, s>> \in FilledCells}
                                /\ NumberOf(handling[x]) \in Nat
                                /\ NumberOf(handling[x]) <= NumberOf(States)
                                /\ NumberOf(handling[x]) = NumberOf(States) => handling[x] = States
           /\ \A s \in States : /\ handled[s] = {x \in Events : <<x, s>> \in FilledCells}
                                /\ NumberOf(handled[s]) \in Nat
                                /\ NumberOf(handled[s]) <= NumberOf(Events)
                                /\ NumberOf(handled[s]) = NumberOf(Events) => handled[s] = Events
           /\ Total([x \in Events |-> NumberOf(handling[x])], Events) = NumberOf(FilledCells)
           /\ Total([s \in States |-> NumberOf(handled[s])], States) = NumberOf(FilledCells)
<1>1. FilledCells \subseteq Events \X States
  BY DEF FilledCells
<1>2. IsFiniteSet(FilledCells)
  BY <1>1, MachineAssumption, FS_Product, FS_Subset
<1>3. FactsMatchTheArray /\ TypeOK
  BY FactsFollow, TypeFollows
<1>4. \A x \in Events : handling[x] = {s \in States : <<x, s>> \in FilledCells}
  BY <1>3 DEF FactsMatchTheArray, HandlersMatchTheArray, TypeOK, FilledCells
<1>5. \A s \in States : handled[s] = {x \in Events : <<x, s>> \in FilledCells}
  <2> SUFFICES ASSUME NEW s \in States PROVE handled[s] = {x \in Events : <<x, s>> \in FilledCells}
    OBVIOUS
  <2>1. handled[s] \subseteq Events
    BY <1>3 DEF TypeOK
  <2>2. \A x \in Events : x \in handled[s] <=> <<x, s>> \in FilledCells
    BY <1>3 DEF FactsMatchTheArray, HandlersMatchTheArray, FilledCells
  <2> HIDE DEF FilledCells
  <2> QED BY <2>1, <2>2
<1>6. ASSUME NEW A, IsFiniteSet(A), NEW B, B \subseteq A
      PROVE  /\ Cardinality(B) \in Nat /\ Cardinality(B) <= Cardinality(A)
             /\ Cardinality(B) = Cardinality(A) => B = A
  BY <1>6, FS_Subset, FS_CardinalityType
<1>7. \A x \in Events : /\ NumberOf(handling[x]) \in Nat
                        /\ NumberOf(handling[x]) <= NumberOf(States)
                        /\ NumberOf(handling[x]) = NumberOf(States) => handling[x] = States
  <2> SUFFICES ASSUME NEW x \in Events
               PROVE  /\ NumberOf(handling[x]) \in Nat
                      /\ NumberOf(handling[x]) <= NumberOf(States)
                      /\ NumberOf(handling[x]) = NumberOf(States) => handling[x] = States
    OBVIOUS
  <2>1. handling[x] \subseteq States
    BY <1>4
  <2> QED BY <1>6, <2>1, MachineAssumption DEF NumberOf
<1>8. \A s \in States : /\ NumberOf(handled[s]) \in Nat
                        /\ NumberOf(handled[s]) <= NumberOf(Events)
                        /\ NumberOf(handled[s]) = NumberOf(Events) => handled[s] = Events
  <2> SUFFICES ASSUME NEW s \in States
               PROVE  /\ NumberOf(handled[s]) \in Nat
                      /\ NumberOf(handled[s]) <= NumberOf(Events)
                      /\ NumberOf(handled[s]) = NumberOf(Events) => handled[s] = Events
    OBVIOUS
  <2>1. handled[s] \subseteq Events
    BY <1>5
  <2> QED BY <1>6, <2>1, MachineAssumption DEF NumberOf
<1>9. Total([x \in Events |-> NumberOf(handling[x])], Events) = NumberOf(FilledCells)
  <2>1. ASSUME NEW x \in Events PROVE Cardinality(Part(FilledCells, 1, {x})) = NumberOf(handling[x])
    <3> DEFINE f == [s \in handling[x] |-> <<x, s>>]
               q == Part(FilledCells, 1, {x})
    <3>1. \A c \in q : \E s \in handling[x] : c = <<x, s>>
      BY <1>1, <1>4, <2>1 DEF Part
    <3>2. f \in [handling[x] -> q]
      BY <1>4, <2>1 DEF Part
    <3>3. f \in Bijection(handling[x], q)
      <4>1. \A u, v \in handling[x] : f[u] = f[v] => u = v
        OBVIOUS
      <4>2. \A c \in q : \E s \in handling[x] : f[s] = c
        BY <3>1
      <4> HIDE DEF f, q
      <4> QED BY <3>2, <4>1, <4>2 DEF Bijection, Injection, Surjection, IsInjective
    <3>4. IsFiniteSet(handling[x])
      BY <1>4, <2>1, MachineAssumption, FS_Subset
    <3> HIDE DEF f
    <3> QED BY <3>3, <3>4, ImagesCount DEF NumberOf
  <2>2. Parts(FilledCells, 1, Events) = [x \in Events |-> NumberOf(handling[x])]
    BY <2>1 DEF Parts
  <2>3. Within(FilledCells, 1, Events)
    BY <1>1 DEF Within
  <2>4. IsFiniteSet(Events)
    BY MachineAssumption
  <2>5. Total(Parts(FilledCells, 1, Events), Events) = Cardinality(FilledCells)
    BY <1>2, <2>3, <2>4, CountedByParts
  <2> QED BY <2>2, <2>5 DEF NumberOf
<1>10. Total([s \in States |-> NumberOf(handled[s])], States) = NumberOf(FilledCells)
  <2>1. ASSUME NEW s \in States PROVE Cardinality(Part(FilledCells, 2, {s})) = NumberOf(handled[s])
    <3> DEFINE f == [x \in handled[s] |-> <<x, s>>]
               q == Part(FilledCells, 2, {s})
    <3>1. \A c \in q : \E x \in handled[s] : c = <<x, s>>
      BY <1>1, <1>5, <2>1 DEF Part
    <3>2. f \in [handled[s] -> q]
      BY <1>5, <2>1 DEF Part
    <3>3. f \in Bijection(handled[s], q)
      <4>1. \A u, v \in handled[s] : f[u] = f[v] => u = v
        OBVIOUS
      <4>2. \A c \in q : \E x \in handled[s] : f[x] = c
        BY <3>1
      <4> HIDE DEF f, q
      <4> QED BY <3>2, <4>1, <4>2 DEF Bijection, Injection, Surjection, IsInjective
    <3>4. IsFiniteSet(handled[s])
      BY <1>5, <2>1, MachineAssumption, FS_Subset
    <3> HIDE DEF f
    <3> QED BY <3>3, <3>4, ImagesCount DEF NumberOf
  <2>2. Parts(FilledCells, 2, States) = [s \in States |-> NumberOf(handled[s])]
    BY <2>1 DEF Parts
  <2>3. Within(FilledCells, 2, States)
    BY <1>1 DEF Within
  <2>4. IsFiniteSet(States)
    BY MachineAssumption
  <2>5. Total(Parts(FilledCells, 2, States), States) = Cardinality(FilledCells)
    BY <1>2, <2>3, <2>4, CountedByParts
  <2> QED BY <2>2, <2>5 DEF NumberOf
<1> QED
  BY <1>2, <1>4, <1>5, <1>7, <1>8, <1>9, <1>10

(* The sums of the figures.                                                  *)
LEMMA FoldsAreTotals ==
    /\ average_state_event_density_pct
           = Total([s \in States |-> event_density_pct(s)], States) \div NumberOf(States)
    /\ average_event_state_density_pct
           = Total([x \in Events |-> state_density_pct(x)], Events) \div NumberOf(Events)
    /\ EventLinesTogether = Total([x \in Events |-> NumberOf(handling[x])], Events)
    /\ StateLinesTogether = Total([s \in States |-> NumberOf(handled[s])], States)
<1>1. average_state_event_density_pct
          = Total([s \in States |-> event_density_pct(s)], States) \div NumberOf(States)
  BY Zenon DEF average_state_event_density_pct, FoldSet, MapThenFoldSet, Total, Picked
<1>2. average_event_state_density_pct
          = Total([x \in Events |-> state_density_pct(x)], Events) \div NumberOf(Events)
  BY Zenon DEF average_event_state_density_pct, FoldSet, MapThenFoldSet, Total, Picked
<1>3. EventLinesTogether = Total([x \in Events |-> NumberOf(handling[x])], Events)
  <2>1. EventLinesTogether = Total([x \in Events |-> EventLine(x).states], Events)
    BY Zenon DEF EventLinesTogether, FoldSet, MapThenFoldSet, Total, Picked
  <2>2. [x \in Events |-> EventLine(x).states] = [x \in Events |-> NumberOf(handling[x])]
    BY DEF EventLine
  <2> QED BY <2>1, <2>2
<1>4. StateLinesTogether = Total([s \in States |-> NumberOf(handled[s])], States)
  <2>1. StateLinesTogether = Total([s \in States |-> StateLine(s).events], States)
    BY Zenon DEF StateLinesTogether, FoldSet, MapThenFoldSet, Total, Picked
  <2>2. [s \in States |-> StateLine(s).events] = [s \in States |-> NumberOf(handled[s])]
    BY DEF StateLine
  <2> QED BY <2>1, <2>2
<1> QED
  BY <1>1, <1>2, <1>3, <1>4

(* A share is whole exactly when nothing is missing.                         *)
LEMMA WholeShare ==
    ASSUME NEW a \in Nat, NEW n \in Nat \ {0}, a <= n
    PROVE  (100 * a) \div n = 100 <=> a = n
  BY SMT

(* Two parts of a set that have no member in common.                         *)
LEMMA ApartCount ==
    ASSUME NEW S, IsFiniteSet(S), NEW P, P \subseteq S, NEW Q, Q \subseteq S, P \cap Q = {}
    PROVE  Cardinality(P) + Cardinality(Q) <= Cardinality(S)
<1>1. /\ IsFiniteSet(P) /\ IsFiniteSet(Q) /\ IsFiniteSet(P \cup Q)
      /\ Cardinality(P \cup Q) <= Cardinality(S)
  BY FS_Subset
<1>2. /\ Cardinality(P \cup Q) = Cardinality(P) + Cardinality(Q) - Cardinality(P \cap Q)
      /\ Cardinality(P) \in Nat /\ Cardinality(Q) \in Nat
  BY <1>1, FS_Union, FS_CardinalityType
<1>3. Cardinality(P \cap Q) = 0
  BY FS_EmptySet
<1> QED
  BY <1>1, <1>2, <1>3

LEMMA LargestIndex ==
    ASSUME NEW n \in Nat, NEW S, S \subseteq 1..n, S # {}
    PROVE  \E i \in S : \A j \in S : j <= i
<1> DEFINE D == {n - i : i \in S}
<1>1. D \subseteq Nat /\ D # {}
  <2>1. \A i \in S : n - i \in Nat
    OBVIOUS
  <2> QED BY <2>1
<1>2. PICK d \in D : \A k \in D : d <= k
  BY <1>1, LeastNat
<1>3. PICK i \in S : d = n - i
  BY <1>2
<1>4. ASSUME NEW j \in S PROVE j <= i
  <2>1. n - j \in D
    OBVIOUS
  <2>2. n - i <= n - j
    BY <1>2, <1>3, <2>1
  <2> QED BY <2>2
<1> QED
  BY <1>4

(* An action's line shows cells that hold a declaration of it.               *)
LEMMA MatrixLineHolds ==
    ASSUME IInv, Populated, NEW a \in {decls[i].action : i \in DOMAIN decls}, NEW c \in MatrixLine(a)
    PROVE  decls[array[c[1]][c[2]]].action = a
<1> DEFINE mine == {i \in DOMAIN decls : decls[i].action = a}
           last == CHOOSE i \in mine : \A j \in mine : j <= i
<1>1. DOMAIN decls = 1..Len(decls) /\ Len(decls) \in Nat
  BY ListFacts DEF IInv
<1>2. last \in mine
  <2>1. mine # {} /\ mine \subseteq 1..Len(decls)
    BY <1>1
  <2> HIDE DEF mine
  <2>2. \E i \in mine : \A j \in mine : j <= i
    BY <1>1, <2>1, LargestIndex
  <2> QED BY <2>2
<1>3. c \in {<<x, s>> : x \in ToSet(MatrixEvents(decls[last])), s \in ToSet(MatrixStates(decls[last]))}
  BY DEF MatrixLine
<1>4. last \in DOMAIN decls /\ decls[last].action = a
  BY <1>2
<1> HIDE DEF last
<1>5. PICK x \in ToSet(MatrixEvents(decls[last])), s \in ToSet(MatrixStates(decls[last])) : c = <<x, s>>
  BY <1>3
<1>6. x \in Events /\ s \in States
  <2>1. decls[last] \in Declarations
    BY <1>4, ListFacts DEF IInv
  <2>2. MatrixEvents(decls[last]) \in Seq(Events) /\ MatrixStates(decls[last]) \in Seq(States)
    BY <2>1, MatrixFacts
  <2> QED BY <2>2 DEF ToSet
<1>7. array[x][s] = last
  BY <1>4, <1>5, <1>6, ArrayFollows DEF ArrayHoldsTheMatrices, Covers
<1> QED
  BY <1>4, <1>5, <1>7

LEMMA FiguresFollow ==
    ASSUME States # {}, Events # {}, IInv
    PROVE  FiguresMatchTheArray
<1> DEFINE e == NumberOf(Events)
           m == NumberOf(States)
           k == NumberOf(FilledCells)
<1>1. e \in Nat \ {0} /\ m \in Nat \ {0} /\ k \in Nat
  BY FilledCellsCounted, MachineAssumption, FS_CardinalityType, FS_EmptySet DEF NumberOf
<1>2. /\ average_state_event_density_pct \in {Filling - 1, Filling}
      /\ average_event_state_density_pct \in {Filling - 1, Filling}
  <2>1. average_state_event_density_pct \in {Filling - 1, Filling}
    <3> DEFINE h == [s \in States |-> NumberOf(handled[s])]
               g == [s \in States |-> event_density_pct(s)]
    <3>1. h \in [States -> Nat]
      BY FilledCellsCounted
    <3>2. \A s \in States : (100 * NumberOf(handled[s])) \div e \in Nat
      <4> SUFFICES ASSUME NEW s \in States PROVE (100 * NumberOf(handled[s])) \div e \in Nat
        OBVIOUS
      <4>1. NumberOf(handled[s]) \in Nat
        BY FilledCellsCounted
      <4>2. 100 * NumberOf(handled[s]) \in Nat
        BY <4>1
      <4> HIDE DEF e
      <4> QED BY <1>1, <4>2, DivisionIs
    <3>3. g \in [States -> Nat]
      BY <3>2 DEF event_density_pct
    <3>4. \A s \in States : g[s] = (100 * h[s]) \div e
      BY DEF event_density_pct
    <3>5. Total(h, States) = k
      BY FilledCellsCounted
    <3>6. average_state_event_density_pct = Total(g, States) \div Cardinality(States)
      BY FoldsAreTotals DEF NumberOf
    <3>7. Filling = (100 * Total(h, States)) \div (e * Cardinality(States))
      BY <3>5 DEF Filling, NumberOf
    <3>8. IsFiniteSet(States)
      BY MachineAssumption
    <3> HIDE DEF h, g, e
    <3> QED BY <1>1, <3>1, <3>3, <3>4, <3>6, <3>7, <3>8, AverageIs
  <2>2. average_event_state_density_pct \in {Filling - 1, Filling}
    <3> DEFINE h == [x \in Events |-> NumberOf(handling[x])]
               g == [x \in Events |-> state_density_pct(x)]
    <3>1. h \in [Events -> Nat]
      BY FilledCellsCounted
    <3>2. \A x \in Events : (100 * NumberOf(handling[x])) \div m \in Nat
      <4> SUFFICES ASSUME NEW x \in Events PROVE (100 * NumberOf(handling[x])) \div m \in Nat
        OBVIOUS
      <4>1. NumberOf(handling[x]) \in Nat
        BY FilledCellsCounted
      <4>2. 100 * NumberOf(handling[x]) \in Nat
        BY <4>1
      <4> HIDE DEF m
      <4> QED BY <1>1, <4>2, DivisionIs
    <3>3. g \in [Events -> Nat]
      BY <3>2 DEF state_density_pct
    <3>4. \A x \in Events : g[x] = (100 * h[x]) \div m
      BY DEF state_density_pct
    <3>5. Total(h, Events) = k
      BY FilledCellsCounted
    <3>6. average_event_state_density_pct = Total(g, Events) \div Cardinality(Events)
      BY FoldsAreTotals DEF NumberOf
    <3>7. Filling = (100 * Total(h, Events)) \div (m * Cardinality(Events))
      <4>1. Filling = (100 * k) \div (e * m)
        BY DEF Filling
      <4>2. e * m = m * e
        <5> HIDE DEF e, m
        <5> QED BY <1>1
      <4> QED BY <3>5, <4>1, <4>2 DEF NumberOf
    <3>8. IsFiniteSet(Events)
      BY MachineAssumption
    <3> HIDE DEF h, g, m
    <3> QED BY <1>1, <3>1, <3>3, <3>4, <3>6, <3>7, <3>8, AverageIs
  <2> QED BY <2>1, <2>2
<1>3. EventLinesTogether = NumberOf(FilledCells) /\ StateLinesTogether = NumberOf(FilledCells)
  BY FoldsAreTotals, FilledCellsCounted
<1>4. \A x \in Events : EventLine(x).use = 100 <=> \A s \in States : <<x, s>> \in FilledCells
  <2> SUFFICES ASSUME NEW x \in Events
               PROVE  EventLine(x).use = 100 <=> \A s \in States : <<x, s>> \in FilledCells
    OBVIOUS
  <2>1. EventLine(x).use = (100 * NumberOf(handling[x])) \div m
    BY DEF EventLine, state_density_pct
  <2>2. NumberOf(handling[x]) \in Nat /\ NumberOf(handling[x]) <= m
    BY FilledCellsCounted
  <2>3. NumberOf(handling[x]) = m <=> \A s \in States : <<x, s>> \in FilledCells
    <3>1. NumberOf(handling[x]) = m => handling[x] = States
      BY FilledCellsCounted
    <3>2. handling[x] = {s \in States : <<x, s>> \in FilledCells}
      BY FilledCellsCounted
    <3>3. (\A s \in States : <<x, s>> \in FilledCells) => handling[x] = States
      BY <3>2
    <3>4. handling[x] = States => \A s \in States : <<x, s>> \in FilledCells
      BY <3>2
    <3> QED BY <3>1, <3>3, <3>4
  <2>4. EventLine(x).use = 100 <=> NumberOf(handling[x]) = m
    <3> HIDE DEF m
    <3> QED BY <1>1, <2>1, <2>2, WholeShare
  <2> QED BY <2>3, <2>4
<1>5. \A s \in States : StateLine(s).use = 100 <=> \A x \in Events : <<x, s>> \in FilledCells
  <2> SUFFICES ASSUME NEW s \in States
               PROVE  StateLine(s).use = 100 <=> \A x \in Events : <<x, s>> \in FilledCells
    OBVIOUS
  <2>1. StateLine(s).use = (100 * NumberOf(handled[s])) \div e
    BY DEF StateLine, event_density_pct
  <2>2. NumberOf(handled[s]) \in Nat /\ NumberOf(handled[s]) <= e
    BY FilledCellsCounted
  <2>3. NumberOf(handled[s]) = e <=> \A x \in Events : <<x, s>> \in FilledCells
    <3>1. NumberOf(handled[s]) = e => handled[s] = Events
      BY FilledCellsCounted
    <3>2. handled[s] = {x \in Events : <<x, s>> \in FilledCells}
      BY FilledCellsCounted
    <3>3. (\A x \in Events : <<x, s>> \in FilledCells) => handled[s] = Events
      BY <3>2
    <3>4. handled[s] = Events => \A x \in Events : <<x, s>> \in FilledCells
      BY <3>2
    <3> QED BY <3>1, <3>3, <3>4
  <2>4. StateLine(s).use = 100 <=> NumberOf(handled[s]) = e
    <3> HIDE DEF e
    <3> QED BY <1>1, <2>1, <2>2, WholeShare
  <2> QED BY <2>3, <2>4
<1>6. \A x \in Events : EventLine(x).pai = "single" => EventLine(x).use = 100
  <2> SUFFICES ASSUME NEW x \in Events, inAll[x] PROVE \A s \in States : <<x, s>> \in FilledCells
    BY <1>4 DEF EventLine
  <2>1. OneDeclaration(x)
    BY DEF IInv, MarkedInv
  <2> QED BY <2>1 DEF OneDeclaration, FilledCells, Index, NULL
<1>7. Summary.sameInAll <=> \E x \in Events : EventLine(x).pai = "single"
  BY DEF Summary, has_single_pai_events, EventLine
<1>8. /\ {x \in Events \ Consumed : handling[x] = {}}
             = {x \in Events \ Consumed : \A s \in States : <<x, s>> \notin FilledCells}
      /\ {s \in States : handled[s] = {}}
             = {s \in States : \A x \in Events : <<x, s>> \notin FilledCells}
  <2>1. ASSUME NEW x \in Events
        PROVE  handling[x] = {} <=> \A s \in States : <<x, s>> \notin FilledCells
    <3>1. handling[x] = {s \in States : <<x, s>> \in FilledCells}
      BY FilledCellsCounted
    <3> QED BY <3>1
  <2>2. ASSUME NEW s \in States
        PROVE  handled[s] = {} <=> \A x \in Events : <<x, s>> \notin FilledCells
    <3>1. handled[s] = {x \in Events : <<x, s>> \in FilledCells}
      BY FilledCellsCounted
    <3> QED BY <3>1
  <2>3. \A x \in Events : handling[x] = {} <=> \A s \in States : <<x, s>> \notin FilledCells
    BY <2>1
  <2>4. \A s \in States : handled[s] = {} <=> \A x \in Events : <<x, s>> \notin FilledCells
    BY <2>2
  <2> QED BY <2>3, <2>4, Zenon
<1>9. Summary.notHandled
          = NumberOf({x \in Events \ Consumed : \A s \in States : <<x, s>> \notin FilledCells})
  BY <1>8 DEF Summary, events_with_zero_handlers
<1>10. Summary.noEvents
           = NumberOf({s \in States : \A x \in Events : <<x, s>> \notin FilledCells})
  BY <1>8 DEF Summary, states_with_zero_events
<1>11. /\ TransitionsAreMirrored
       /\ inbound \in [States -> SUBSET States] /\ outbound \in [States -> SUBSET States]
       /\ array \in [Events -> [States -> Index \cup {NULL}]]
  BY FactsFollow, TypeFollows DEF FactsMatchTheArray, TypeOK
<1>12. Summary.noWayIn = NumberOf({s \in States \ {FirstState} :
              \A c \in FilledCells : c[2] = s \/ s \notin decls[array[c[1]][c[2]]].to})
  <2>1. ASSUME NEW t \in States
        PROVE  inbound[t] = {} <=> \A c \in FilledCells : c[2] = t \/ t \notin decls[array[c[1]][c[2]]].to
    <3>1. inbound[t] = {} <=> \A s \in States : t \notin outbound[s]
      BY <1>11 DEF TransitionsAreMirrored
    <3>2. \A s \in States : t \in outbound[s] <=> t # s /\ \E x \in Events :
              array[x][s] # NULL /\ t \in decls[array[x][s]].to
      BY <1>11 DEF TransitionsAreMirrored
    <3>3. \A c \in FilledCells : c[1] \in Events /\ c[2] \in States /\ array[c[1]][c[2]] # NULL
      BY DEF FilledCells
    <3>4. \A x \in Events, s \in States : array[x][s] # NULL => <<x, s>> \in FilledCells
      BY DEF FilledCells
    <3>5. ASSUME inbound[t] = {}, NEW c \in FilledCells
          PROVE  c[2] = t \/ t \notin decls[array[c[1]][c[2]]].to
      BY <3>1, <3>2, <3>3, <3>5
    <3>6. ASSUME \A c \in FilledCells : c[2] = t \/ t \notin decls[array[c[1]][c[2]]].to,
                 NEW s \in States, t \in outbound[s]
          PROVE  FALSE
      <4>1. PICK x \in Events : t # s /\ array[x][s] # NULL /\ t \in decls[array[x][s]].to
        BY <3>2, <3>6
      <4>2. <<x, s>> \in FilledCells
        BY <3>4, <4>1
      <4> QED BY <3>6, <4>1, <4>2
    <3> QED BY <3>1, <3>5, <3>6
  <2>2. \A t \in States : inbound[t] = {} <=>
            \A c \in FilledCells : c[2] = t \/ t \notin decls[array[c[1]][c[2]]].to
    BY <2>1
  <2>3. {s \in States \ {FirstState} : inbound[s] = {}}
            = {s \in States \ {FirstState} :
                  \A c \in FilledCells : c[2] = s \/ s \notin decls[array[c[1]][c[2]]].to}
    BY <2>2, Zenon
  <2> QED BY <2>3 DEF Summary, states_with_no_way_in
<1>13. Summary.noWayOut = NumberOf({s \in States :
              \A c \in FilledCells : c[2] = s => decls[array[c[1]][c[2]]].to \subseteq {s}})
  <2>1. ASSUME NEW s \in States
        PROVE  outbound[s] = {} <=> \A c \in FilledCells : c[2] = s => decls[array[c[1]][c[2]]].to \subseteq {s}
    <3>2. \A t \in States : t \in outbound[s] <=> t # s /\ \E x \in Events :
              array[x][s] # NULL /\ t \in decls[array[x][s]].to
      BY <1>11 DEF TransitionsAreMirrored
    <3>3. ASSUME NEW x \in Events, array[x][s] # NULL
          PROVE  <<x, s>> \in FilledCells /\ decls[array[x][s]].to \subseteq States
      <4>1. PICK i \in DOMAIN decls : i = array[x][s]
        BY <3>3 DEF IInv, ArrayInv, HeldInv
      <4>2. decls[i] \in Declarations
        BY ListFacts DEF IInv
      <4>3. decls[i].to \subseteq States
        BY <4>2, DeclarationAssumption
      <4> QED BY <3>3, <4>1, <4>3 DEF FilledCells
    <3>4. ASSUME outbound[s] = {}, NEW c \in FilledCells, c[2] = s, NEW t \in decls[array[c[1]][c[2]]].to
          PROVE  t = s
      <4>1. c[1] \in Events /\ array[c[1]][s] # NULL
        BY <3>4 DEF FilledCells
      <4>2. t \in States
        BY <3>3, <3>4, <4>1
      <4> QED BY <3>2, <3>4, <4>1, <4>2
    <3>5. ASSUME \A c \in FilledCells : c[2] = s => decls[array[c[1]][c[2]]].to \subseteq {s},
                 NEW t \in outbound[s]
          PROVE  FALSE
      <4>1. t \in States
        BY <1>11
      <4>2. PICK x \in Events : t # s /\ array[x][s] # NULL /\ t \in decls[array[x][s]].to
        BY <3>2, <3>5, <4>1
      <4>3. <<x, s>> \in FilledCells
        BY <3>3, <4>2
      <4>4. decls[array[x][s]].to \subseteq {s}
        BY <3>5, <4>3
      <4> QED BY <4>2, <4>4
    <3>6. outbound[s] = {} => \A c \in FilledCells : c[2] = s => decls[array[c[1]][c[2]]].to \subseteq {s}
      BY <3>4
    <3>7. (\A c \in FilledCells : c[2] = s => decls[array[c[1]][c[2]]].to \subseteq {s}) => outbound[s] = {}
      BY <3>5
    <3> QED BY <3>6, <3>7
  <2>2. \A s \in States : outbound[s] = {} <=>
            \A c \in FilledCells : c[2] = s => decls[array[c[1]][c[2]]].to \subseteq {s}
    BY <2>1
  <2>3. {s \in States : outbound[s] = {}}
            = {s \in States :
                  \A c \in FilledCells : c[2] = s => decls[array[c[1]][c[2]]].to \subseteq {s}}
    BY <2>2, Zenon
  <2> QED BY <2>3 DEF Summary, states_with_no_way_out
<1>14. Summary.inOneState + Summary.notHandled <= Summary.events
  <2> DEFINE P == {x \in Events : NumberOf(handling[x]) = 1}
             Q == {x \in Events \ Consumed : handling[x] = {}}
  <2>1. P \subseteq Events /\ Q \subseteq Events
    OBVIOUS
  <2>2. P \cap Q = {}
    BY FS_EmptySet DEF NumberOf
  <2>3. Summary.inOneState = Cardinality(P) /\ Summary.notHandled = Cardinality(Q)
        /\ Summary.events = Cardinality(Events)
    BY DEF Summary, events_with_one_handler, events_with_zero_handlers, NumberOf
  <2> HIDE DEF P, Q
  <2> QED BY <2>1, <2>2, <2>3, MachineAssumption, ApartCount
<1>15. Summary.oneEvent + Summary.noEvents <= Summary.states
  <2> DEFINE P == {s \in States : NumberOf(handled[s]) = 1}
             Q == {s \in States : handled[s] = {}}
  <2>1. P \subseteq States /\ Q \subseteq States
    OBVIOUS
  <2>2. P \cap Q = {}
    BY FS_EmptySet DEF NumberOf
  <2>3. Summary.oneEvent = Cardinality(P) /\ Summary.noEvents = Cardinality(Q)
        /\ Summary.states = Cardinality(States)
    BY DEF Summary, states_with_one_event, states_with_zero_events, NumberOf
  <2> HIDE DEF P, Q
  <2> QED BY <2>1, <2>2, <2>3, MachineAssumption, ApartCount
<1>16. ASSUME Populated, NEW a \in {decls[i].action : i \in DOMAIN decls}, NEW c \in MatrixLine(a)
       PROVE  decls[array[c[1]][c[2]]].action = a
  BY <1>16, MatrixLineHolds
<1> QED
  BY <1>2, <1>3, <1>4, <1>5, <1>6, <1>7, <1>9, <1>10, <1>12, <1>13, <1>14, <1>15, <1>16
  DEF FiguresMatchTheArray

(* The figures printed for a machine that has states and events match its    *)
(* array: both averages, however their roundings fall, are its filling or    *)
(* one less; the columns of the event and state lines count the same cells;  *)
(* the counts of what is missing are the empty rows and columns and the      *)
(* states no transition leads to or from.  Without states, or without        *)
(* events, compute_event_and_state_density_pct divides by zero.              *)
THEOREM FiguresAreTrue ==
    ASSUME States # {}, Events # {}
    PROVE  Spec => []FiguresMatchTheArray
  BY Inductive, FiguresFollow, PTL

-----------------------------------------------------------------------------
(* The Python class.                                                         *)

(* Walks: h says what becomes of the result at each step.                    *)
WalkFrom(b, h, n, V) == n \in Nat /\ b \in V /\ h \in [1..n -> [V -> V]]

Walks(f, b, h, n, V) ==
    f \in [0..n -> V] /\ f[0] = b /\ \A k \in 1..n : f[k] = h[k][f[k - 1]]

LEMMA Iterated ==
    ASSUME NEW n, NEW V, NEW b, NEW h, WalkFrom(b, h, n, V)
    PROVE  \E f : Walks(f, b, h, n, V)
<1> DEFINE D == 0..n
           At1(f, k) == IF k = 0 THEN b ELSE h[k][f[k - 1]]
           B == [f \in [D -> V] |-> [k \in D |-> At1(f, k)]]
           rank == [k \in D |-> k]
<1>0. n \in Nat /\ b \in V /\ h \in [1..n -> [V -> V]]
  BY DEF WalkFrom
<1>1. \A k \in D : k # 0 => k - 1 \in D /\ k \in 1..n
  BY <1>0
<1>2. ASSUME NEW f \in [D -> V], NEW k \in D PROVE At1(f, k) \in V
  <2>1. k # 0 => f[k - 1] \in V /\ h[k] \in [V -> V]
    BY <1>0, <1>1, <1>2
  <2> QED BY <1>0, <2>1
<1>3. WellDefined(B, D, V, rank, n)
  <2>1. V # {} /\ rank \in [D -> Nat] /\ \A d \in D : rank[d] <= n
    BY <1>0
  <2>2. B \in [[D -> V] -> [D -> V]]
    BY <1>2
  <2>3. Causal(B, D, V, rank)
    <3>1. ASSUME NEW f \in [D -> V], NEW g \in [D -> V], NEW d \in D,
                 \A k \in D : rank[k] < rank[d] => f[k] = g[k]
          PROVE  B[f][d] = B[g][d]
      <4>1. d # 0 => f[d - 1] = g[d - 1]
        BY <1>1, <3>1
      <4> QED BY <4>1
    <3> QED BY <3>1 DEF Causal
  <2> QED BY <1>0, <2>1, <2>2, <2>3 DEF WellDefined
<1>4. PICK f \in [D -> V] : B[f] = f
  <2> HIDE DEF B, D, rank
  <2> QED BY <1>3, FixedPoint
<1>5. f = [k \in D |-> At1(f, k)]
  BY <1>4
<1>6. f[0] = b /\ \A k \in 1..n : f[k] = h[k][f[k - 1]]
  BY <1>0, <1>5
<1> QED
  BY <1>4, <1>6 DEF Walks

(* One sequence after another: f[k] is what the first k of them make.        *)
Joins(f, seqs, V) ==
    /\ f \in [0..Len(seqs) -> Seq(V)]
    /\ FlattenSeq(seqs) = f[Len(seqs)] /\ f[0] = <<>>
    /\ \A k \in 1..Len(seqs) : f[k] = f[k - 1] \o seqs[k]

LEMMA Flattened ==
    ASSUME NEW V, NEW seqs \in Seq(Seq(V))
    PROVE  \E f : Joins(f, seqs, V)
<1> DEFINE n == Len(seqs)
           W == Seq(V)
           D == 1..n
           step == [k \in D |-> [v \in W |-> v \o seqs[k]]]
           At1(f, k) == IF k = 1 THEN seqs[k] ELSE f[k - 1] \o seqs[k]
           e == <<>>
<1>1. n \in Nat /\ (\A k \in D : seqs[k] \in W) /\ e \in W
  OBVIOUS
<1>2. \A q \in W : e \o q = q
  OBVIOUS
<1>3. step \in [D -> [W -> W]]
  <2>1. ASSUME NEW k \in D, NEW v \in W PROVE v \o seqs[k] \in W
    BY <1>1, ConcatProperties
  <2> HIDE DEF W, D
  <2> QED BY <2>1
<1>4. PICK f : f \in [0..n -> W] /\ f[0] = e /\ \A k \in D : f[k] = f[k - 1] \o seqs[k]
  <2> HIDE DEF n, W, step, e
  <2>1. WalkFrom(e, step, n, W)
    BY <1>1, <1>3 DEF WalkFrom
  <2>2. PICK f : Walks(f, e, step, n, W)
    BY <2>1, Iterated
  <2>3. f \in [0..n -> W] /\ f[0] = e /\ \A k \in D : f[k] = step[k][f[k - 1]]
    BY <2>2 DEF Walks
  <2>4. \A k \in D : k - 1 \in 0..n
    BY <1>1
  <2>5. \A k \in D : f[k] = f[k - 1] \o seqs[k]
    BY <2>3, <2>4 DEF step
  <2> QED BY <2>3, <2>5
<1>5. CASE n = 0
  <2>1. FlattenSeq(seqs) = seqs /\ seqs = e
    BY <1>5 DEF FlattenSeq
  <2> QED BY <1>4, <1>5, <2>1 DEF Joins
<1>6. CASE n # 0
  <2> DEFINE u == [k \in D |-> f[k]]
             t == CHOOSE g : g = [k \in D |-> At1(g, k)]
  <2>1. u = [k \in D |-> At1(u, k)]
    <3>1. ASSUME NEW k \in D PROVE u[k] = At1(u, k)
      <4>1. CASE k = 1
        <5>1. k - 1 = 0 /\ u[k] = f[k]
          BY <4>1
        <5>2. e \o seqs[k] = seqs[k]
          BY <1>1, <1>2
        <5> HIDE DEF u, D, W, n
        <5>3. f[k] = f[k - 1] \o seqs[k]
          BY <1>4
        <5> QED BY <1>4, <4>1, <5>1, <5>2, <5>3
      <4>2. CASE k # 1
        <5>1. k - 1 \in D
          BY <1>1, <4>2
        <5> HIDE DEF D
        <5> QED BY <1>4, <4>2, <5>1
      <4> QED BY <4>1, <4>2
    <3>2. u = [k \in D |-> u[k]]
      OBVIOUS
    <3> HIDE DEF u, At1, D
    <3> QED BY <3>1, <3>2
  <2>2. FlattenSeq(seqs) = t[n]
    BY <1>6 DEF FlattenSeq
  <2>3. t = [k \in D |-> At1(t, k)]
    <3> HIDE DEF At1, D, u
    <3> QED BY <2>1
  <2> HIDE DEF t
  <2>4. \A k \in D : t[k] = At1(t, k)
    <3> HIDE DEF At1, D
    <3> QED BY <2>3
  <2>5. t[n] = f[n]
    <3> DEFINE S == {k \in D : t[k] # f[k]}
    <3>1. n \in D
      BY <1>1, <1>6
    <3> SUFFICES ASSUME S # {} PROVE FALSE
      BY <3>1
    <3>2. S \subseteq Nat
      BY <1>1
    <3>3. PICK k \in S : \A j \in S : k <= j
      BY <3>2, LeastNat
    <3>4. CASE k = 1
      <4>1. k \in D /\ k - 1 = 0
        BY <3>3, <3>4
      <4>2. e \o seqs[k] = seqs[k]
        BY <1>1, <1>2, <3>3
      <4> HIDE DEF D, W, n
      <4>3. t[k] = seqs[k] /\ f[k] = f[k - 1] \o seqs[k]
        BY <1>4, <2>4, <3>4, <4>1
      <4> QED BY <1>4, <3>3, <4>1, <4>2, <4>3
    <3>5. CASE k # 1
      <4>1. k \in D /\ k - 1 \in D /\ k - 1 < k
        BY <1>1, <3>3, <3>5
      <4>3. k - 1 \notin S
        <5> HIDE DEF D, S
        <5>1. k \in Nat /\ k - 1 \in Nat
          BY <1>1, <4>1 DEF D
        <5> QED BY <3>3, <4>1, <5>1
      <4>2. t[k - 1] = f[k - 1] /\ t[k] = t[k - 1] \o seqs[k] /\ f[k] = f[k - 1] \o seqs[k]
        <5>1. k - 1 \notin {j \in D : t[j] # f[j]}
          BY <4>3
        <5> HIDE DEF D, W, n, S
        <5> QED BY <1>4, <2>4, <3>5, <4>1, <5>1
      <4> QED BY <3>3, <4>2
    <3> QED BY <3>4, <3>5
  <2> QED BY <1>4, <2>2, <2>5 DEF Joins
<1> QED
  BY <1>5, <1>6

(* The members of q that are in E are those of b, one after another; q has   *)
(* no member in E.                                                           *)
BlockAt(q, b, E, o) ==
    /\ o + Len(b) <= Len(q)
    /\ \A j \in 1..Len(b) : q[o + j] = b[j]
    /\ \A k \in 1..Len(q) : q[k] \in E => k \in (o + 1)..(o + Len(b))

Block(q, b, E) == \E o \in Nat : BlockAt(q, b, E, o)

Free(q, E) == \A k \in 1..Len(q) : q[k] \notin E

LEMMA BlocksJoin ==
    ASSUME NEW V, NEW p \in Seq(V), NEW q \in Seq(V), NEW b \in Seq(V), NEW E
    PROVE  /\ Free(p, E) /\ Free(q, E) => Free(p \o q, E)
           /\ Block(p, b, E) /\ Free(q, E) => Block(p \o q, b, E)
           /\ Free(p, E) /\ Block(q, b, E) => Block(p \o q, b, E)
<1> DEFINE r == p \o q
           m == Len(p)
           n == Len(q)
           l == Len(b)
<1>1. m \in Nat /\ n \in Nat /\ l \in Nat /\ Len(r) = m + n
  OBVIOUS
<1>2. \A k \in 1..(m + n) : r[k] = IF k <= m THEN p[k] ELSE q[k - m]
  OBVIOUS
<1> HIDE DEF r, m, n, l
<1>3. \A k \in 1..m : k \in 1..(m + n) /\ k <= m
  BY <1>1
<1>4. \A k \in 1..n : m + k \in 1..(m + n) /\ ~(m + k <= m) /\ (m + k) - m = k
  BY <1>1
<1>5. \A k \in 1..(m + n) : k \in 1..m \/ (~(k <= m) /\ k - m \in 1..n)
  BY <1>1
<1>6. (\A k \in 1..m : r[k] = p[k]) /\ \A k \in 1..n : r[m + k] = q[k]
  BY <1>2, <1>3, <1>4
<1>7. ASSUME Free(p, E), Free(q, E) PROVE Free(r, E)
  <2>1. (\A k \in 1..m : p[k] \notin E) /\ \A k \in 1..n : q[k] \notin E
    BY <1>7 DEF Free, m, n
  <2>2. \A k \in 1..(m + n) : r[k] \notin E
    BY <1>2, <1>3, <1>5, <2>1
  <2> QED BY <1>1, <2>2 DEF Free
<1>8. ASSUME Block(p, b, E), Free(q, E) PROVE Block(r, b, E)
  <2>1. PICK o \in Nat : BlockAt(p, b, E, o)
    BY <1>8 DEF Block
  <2>2. /\ o + l <= m /\ \A j \in 1..l : p[o + j] = b[j]
        /\ \A k \in 1..m : p[k] \in E => k \in (o + 1)..(o + l)
    BY <2>1 DEF BlockAt, l, m
  <2>3. \A k \in 1..n : q[k] \notin E
    BY <1>8 DEF Free, n
  <2>4. o + l <= m + n /\ \A j \in 1..l : o + j \in 1..m
    BY <1>1, <2>2
  <2>5. \A j \in 1..l : r[o + j] = b[j]
    BY <1>6, <2>2, <2>4
  <2>6. \A k \in 1..(m + n) : r[k] \in E => k \in (o + 1)..(o + l)
    BY <1>2, <1>3, <1>5, <2>2, <2>3
  <2>7. BlockAt(r, b, E, o)
    BY <1>1, <2>4, <2>5, <2>6 DEF BlockAt, l
  <2> QED BY <2>7 DEF Block
<1>9. ASSUME Free(p, E), Block(q, b, E) PROVE Block(r, b, E)
  <2>1. PICK o \in Nat : BlockAt(q, b, E, o)
    BY <1>9 DEF Block
  <2>2. /\ o + l <= n /\ \A j \in 1..l : q[o + j] = b[j]
        /\ \A k \in 1..n : q[k] \in E => k \in (o + 1)..(o + l)
    BY <2>1 DEF BlockAt, l, n
  <2>3. \A k \in 1..m : p[k] \notin E
    BY <1>9 DEF Free, m
  <2>4. /\ m + o \in Nat /\ (m + o) + l <= m + n
        /\ \A j \in 1..l : o + j \in 1..n /\ m + (o + j) = (m + o) + j
    BY <1>1, <2>2
  <2>5. \A j \in 1..l : r[(m + o) + j] = b[j]
    <3> SUFFICES ASSUME NEW j \in 1..l PROVE r[(m + o) + j] = b[j]
      OBVIOUS
    <3>1. r[m + (o + j)] = q[o + j]
      BY <1>6, <2>4
    <3> QED BY <2>2, <2>4, <3>1
  <2>6. ASSUME NEW k \in 1..(m + n), r[k] \in E PROVE k \in ((m + o) + 1)..((m + o) + l)
    <3>1. ~(k <= m) /\ k - m \in 1..n
      BY <1>2, <1>3, <1>5, <2>3, <2>6
    <3>2. q[k - m] \in E
      BY <1>2, <2>6, <3>1
    <3>3. k - m \in (o + 1)..(o + l)
      BY <2>2, <3>1, <3>2
    <3> QED BY <1>1, <2>1, <3>3
  <2>7. BlockAt(r, b, E, m + o)
    BY <1>1, <2>4, <2>5, <2>6 DEF BlockAt, l
  <2> QED BY <2>4, <2>7 DEF Block
<1> QED
  BY <1>7, <1>8, <1>9 DEF r

(* Only the K-th of the sequences has members in E.                          *)
OneBlock(seqs, K, b, E) ==
    \A k \in 1..Len(seqs) : IF k = K THEN Block(seqs[k], b, E) ELSE Free(seqs[k], E)

LEMMA FlattenedBlock ==
    ASSUME NEW V, NEW seqs \in Seq(Seq(V)), NEW b \in Seq(V), NEW E, NEW K, OneBlock(seqs, K, b, E)
    PROVE  /\ FlattenSeq(seqs) \in Seq(V)
           /\ K \in 1..Len(seqs) => Block(FlattenSeq(seqs), b, E)
           /\ K \notin 1..Len(seqs) => Free(FlattenSeq(seqs), E)
<1> DEFINE n == Len(seqs)
           D == 1..n
           W == Seq(V)
           e == <<>>
<1>1. n \in Nat /\ (\A k \in D : seqs[k] \in W) /\ Len(e) = 0
  OBVIOUS
<1>2. PICK f : Joins(f, seqs, V)
  BY Flattened
<1>3. /\ f \in [0..n -> W] /\ FlattenSeq(seqs) = f[n] /\ f[0] = e
      /\ \A k \in D : f[k] = f[k - 1] \o seqs[k]
  BY <1>2 DEF Joins
<1>4. \A k \in D : IF k = K THEN Block(seqs[k], b, E) ELSE Free(seqs[k], E)
  BY DEF OneBlock
<1>5. Free(e, E)
  BY <1>1 DEF Free
<1> HIDE DEF n, W, e
<1> DEFINE Good(k) == IF K \in 1..k THEN Block(f[k], b, E) ELSE Free(f[k], E)
<1>6. \A k \in 0..n : Good(k)
  <2> DEFINE S == {k \in 0..n : ~Good(k)}
  <2> SUFFICES ASSUME S # {} PROVE FALSE
    OBVIOUS
  <2>1. S \subseteq Nat
    BY <1>1
  <2> HIDE DEF Good
  <2>2. PICK k \in S : \A j \in S : k <= j
    BY <2>1, LeastNat
  <2>3. Good(0)
    BY <1>3, <1>5 DEF Good
  <2>4. k \in D /\ k - 1 \in 0..n /\ k - 1 < k
    BY <1>1, <2>2, <2>3
  <2>5. Good(k - 1)
    <3>1. k \in Nat /\ k - 1 \in Nat
      BY <2>1, <2>4
    <3>2. k - 1 \notin S
      BY <2>2, <2>4, <3>1
    <3> QED BY <2>4, <3>2
  <2>6. f[k - 1] \in W /\ seqs[k] \in W /\ f[k] = f[k - 1] \o seqs[k]
    BY <1>1, <1>3, <2>4
  <2>7. CASE k = K
    <3>1. K \notin 1..(k - 1) /\ K \in 1..k
      BY <1>1, <2>4, <2>7
    <3>2. Free(f[k - 1], E) /\ Block(seqs[k], b, E)
      BY <1>4, <2>4, <2>5, <2>7, <3>1 DEF Good
    <3>3. Block(f[k], b, E)
      BY <2>6, <3>2, BlocksJoin DEF W
    <3> QED BY <2>2, <3>1, <3>3 DEF Good
  <2>8. CASE k # K
    <3>1. K \in 1..(k - 1) <=> K \in 1..k
      BY <1>1, <2>4, <2>8
    <3>2. Free(seqs[k], E)
      BY <1>4, <2>4, <2>8
    <3>3. CASE K \in 1..k
      <4>1. Block(f[k - 1], b, E)
        BY <2>5, <3>1, <3>3 DEF Good
      <4>2. Block(f[k], b, E)
        BY <2>6, <3>2, <4>1, BlocksJoin DEF W
      <4> QED BY <2>2, <3>3, <4>2 DEF Good
    <3>4. CASE K \notin 1..k
      <4>1. Free(f[k - 1], E)
        BY <2>5, <3>1, <3>4 DEF Good
      <4>2. Free(f[k], E)
        BY <2>6, <3>2, <4>1, BlocksJoin DEF W
      <4> QED BY <2>2, <3>4, <4>2 DEF Good
    <3> QED BY <3>3, <3>4
  <2> QED BY <2>7, <2>8
<1>7. n \in 0..n
  BY <1>1
<1>8. FlattenSeq(seqs) \in W /\ Good(n)
  BY <1>3, <1>6, <1>7
<1> QED
  BY <1>3, <1>8 DEF Good, n, W

(* What stands in the result of a walk that picks.                           *)
Picks(f, q, W) ==
    /\ Only(q, W) = f[Len(q)] /\ f[0] = <<>>
    /\ \A k \in 1..Len(q) : f[k] = IF q[k] \in W THEN Append(f[k - 1], q[k]) ELSE f[k - 1]

LEMMA OnlySteps ==
    ASSUME NEW E, NEW q \in Seq(E), NEW W
    PROVE  \E f : Picks(f, q, W)
<1> DEFINE n == Len(q)
           V == Seq(E)
           D == 0..n
           step == [k \in 1..n |-> [v \in V |-> IF q[k] \in W THEN Append(v, q[k]) ELSE v]]
           At1(f, k) == IF k = 0 THEN <<>>
                        ELSE IF q[k] \in W THEN Append(f[k - 1], q[k]) ELSE f[k - 1]
<1>1. n \in Nat /\ \A k \in 1..n : q[k] \in E
  OBVIOUS
<1>2. <<>> \in V
  OBVIOUS
<1>3. step \in [1..n -> [V -> V]]
  <2>1. ASSUME NEW k \in 1..n, NEW v \in V PROVE (IF q[k] \in W THEN Append(v, q[k]) ELSE v) \in V
    BY <1>1
  <2> HIDE DEF V, n
  <2> QED BY <2>1
<1>4. PICK f : f \in [0..n -> V] /\ f[0] = <<>> /\ \A k \in 1..n : f[k] = step[k][f[k - 1]]
  <2> DEFINE b == <<>>
  <2> HIDE DEF n, V, step
  <2>1. WalkFrom(b, step, n, V)
    BY <1>1, <1>2, <1>3 DEF WalkFrom
  <2> HIDE DEF b
  <2>2. \E f : Walks(f, b, step, n, V)
    BY <2>1, Iterated
  <2> QED BY <2>2 DEF Walks, b
<1>5. f = [k \in D |-> At1(f, k)]
  <2>1. ASSUME NEW k \in D PROVE f[k] = At1(f, k)
    <3>1. k # 0 => k \in 1..n /\ k - 1 \in 0..n
      BY <1>1, <2>1
    <3> HIDE DEF V, n
    <3>2. k # 0 => f[k] = step[k][f[k - 1]] /\ f[k - 1] \in V
      BY <1>4, <3>1
    <3> QED BY <1>4, <3>1, <3>2
  <2> HIDE DEF V, n
  <2>2. \A k \in D : f[k] = At1(f, k)
    BY <2>1
  <2> QED BY <1>4, <2>2
<1> DEFINE u == CHOOSE g : g = [k \in D |-> At1(g, k)]
<1>6. Only(q, W) = u[n]
  BY Zenon DEF Only
<1>7. u = [k \in D |-> At1(u, k)]
  <2> HIDE DEF At1, D
  <2> QED BY <1>5
<1> HIDE DEF u
<1>8. \A k \in D : u[k] = At1(u, k)
  <2> HIDE DEF At1, D
  <2> QED BY <1>7
<1>9. 0 \in D /\ \A k \in 1..n : k \in D /\ k # 0
  BY <1>1
<1>10. u[0] = <<>> /\ \A k \in 1..n : u[k] = IF q[k] \in W THEN Append(u[k - 1], q[k]) ELSE u[k - 1]
  <2> HIDE DEF D, n
  <2> QED BY <1>8, <1>9
<1> QED
  BY <1>6, <1>10 DEF n, Picks

LEMMA OnlyAppended ==
    ASSUME NEW E, NEW q \in Seq(E), NEW c \in E, NEW W
    PROVE  Only(Append(q, c), W) = IF c \in W THEN Append(Only(q, W), c) ELSE Only(q, W)
<1> DEFINE n == Len(q)
           r == Append(q, c)
<1>1. n \in Nat /\ r \in Seq(E) /\ Len(r) = n + 1 /\ r[n + 1] = c /\ \A k \in 1..n : r[k] = q[k]
  OBVIOUS
<1>2. PICK f : /\ Only(q, W) = f[n] /\ f[0] = <<>>
               /\ \A k \in 1..n : f[k] = IF q[k] \in W THEN Append(f[k - 1], q[k]) ELSE f[k - 1]
  <2>1. \E f : Picks(f, q, W)
    BY OnlySteps
  <2> QED BY <2>1 DEF Picks
<1>3. PICK g : /\ Only(r, W) = g[n + 1] /\ g[0] = <<>>
               /\ \A k \in 1..(n + 1) : g[k] = IF r[k] \in W THEN Append(g[k - 1], r[k]) ELSE g[k - 1]
  <2>1. \E g : Picks(g, r, W)
    <3> HIDE DEF r
    <3> QED BY <1>1, OnlySteps
  <2>2. PICK g : Picks(g, r, W)
    BY <2>1
  <2> HIDE DEF n, r
  <2> QED BY <1>1, <2>2 DEF Picks
<1> HIDE DEF n, r
<1>4. g[n] = f[n]
  <2> DEFINE S == {k \in 0..n : g[k] # f[k]}
  <2> SUFFICES ASSUME S # {} PROVE FALSE
    BY <1>1
  <2>1. S \subseteq Nat
    BY <1>1
  <2>2. PICK k \in S : \A j \in S : k <= j
    BY <2>1, LeastNat
  <2>3. k # 0
    BY <1>2, <1>3
  <2>4. k \in 1..n /\ k \in 1..(n + 1) /\ k - 1 \in 0..n /\ k - 1 \notin S
    BY <1>1, <2>2, <2>3
  <2>5. g[k - 1] = f[k - 1] /\ r[k] = q[k]
    BY <1>1, <2>4
  <2> QED BY <1>2, <1>3, <2>2, <2>4, <2>5
<1>5. n + 1 \in 1..(n + 1) /\ (n + 1) - 1 = n
  BY <1>1
<1>6. g[n + 1] = IF c \in W THEN Append(g[n], c) ELSE g[n]
  BY <1>1, <1>3, <1>5
<1> QED
  BY <1>2, <1>3, <1>4, <1>6 DEF r

(* The calls the code of a cell and the generated class make.                *)
Callees == {"translator", "action", "next", "machineTransition", "exit", "entry", "empty"}

Args == Events \cup States \cup Actions \cup {""}

CallSet == Callees \X Args

LEMMA OnlyCalled ==
    ASSUME NEW k \in Seq(CallSet), NEW f \in Callees, NEW a \in Args, NEW W
    PROVE  /\ Called(k, f, a) \in Seq(CallSet)
           /\ Only(Called(k, f, a), W) = IF <<f, a>> \in W THEN Called(Only(k, W), f, a) ELSE Only(k, W)
<1> DEFINE c == <<f, a>>
<1>1. c \in CallSet
  BY DEF CallSet
<1>2. Called(k, f, a) = Append(k, c)
  BY DEF Called
<1> HIDE DEF c
<1>3. Append(k, c) \in Seq(CallSet)
  BY <1>1, AppendProperties
<1>4. Only(Append(k, c), W) = IF c \in W THEN Append(Only(k, W), c) ELSE Only(k, W)
  BY <1>1, OnlyAppended
<1>5. Append(Only(k, W), c) = Called(Only(k, W), f, a)
  BY DEF Called, c
<1> QED
  BY <1>2, <1>3, <1>4, <1>5 DEF c

LEMMA OnlyNone == ASSUME NEW W PROVE <<>> \in Seq(CallSet) /\ Only(<<>>, W) = <<>>
<1> DEFINE q == <<>>
<1>1. q \in Seq(CallSet) /\ Len(q) = 0
  OBVIOUS
<1>2. PICK f : Picks(f, q, W)
  <2> HIDE DEF q
  <2> QED BY <1>1, OnlySteps
<1>3. Only(q, W) = <<>>
  BY <1>1, <1>2 DEF Picks
<1> QED
  BY <1>1, <1>3

-----------------------------------------------------------------------------
(* The entries for one event of one matrix.                                  *)

Conditions == {"always", "choose", "when", "otherwise"} \X (States \cup {""})

Entries ==
    [trigger : Events, source : SUBSET States, dest : States \cup {None},
     before : Actions \cup {""}, condition : Conditions]

SourcesOf(m) == ToSet(MatrixStates(decls[m]))

(* Where the first entry that is open in case c leads.                       *)
Leads(c, i) == IF HasTransition(i) THEN NextOf(c, i) ELSE None

(* Entry p is the first of the list q that is open in case c.                *)
FirstOpen(q, p, c) ==
    /\ p \in 1..Len(q) /\ Holds(q[p].condition, c)
    /\ \A j \in 1..Len(q) : Holds(q[j].condition, c) => p <= j

Leading(q, i, c) == \E p : FirstOpen(q, p, c) /\ q[p].dest = Leads(c, i)

(* The list q is for event x in the states of matrix m.                      *)
ListedFor(q, i, m, x) ==
    /\ q \in Seq(Entries)
    /\ \A k \in 1..Len(q) : /\ q[k].trigger = x /\ q[k].source = SourcesOf(m)
                            /\ q[k].before = Before(i)

MayList(i, m) ==
    SourcesOf(m) \subseteq States /\ Before(i) \in Actions \cup {""} /\ decls[i].to \subseteq States

Dests == States \cup {None}

EntryOf(e, i, m, x, t, w) ==
    /\ e \in Entries /\ e.trigger = x /\ e.source = SourcesOf(m) /\ e.dest = t
    /\ e.before = Before(i) /\ e.condition = w

LEMMA EntryFields ==
    ASSUME NEW i, NEW m, NEW x \in Events, NEW t \in Dests, NEW w \in Conditions, MayList(i, m)
    PROVE  EntryOf(Entry(i, m, x, t, Before(i), w), i, m, x, t, w)
  BY DEF Entry, Entries, SourcesOf, MayList, Dests, EntryOf

LEMMA OneEntry ==
    ASSUME NEW i, NEW m, NEW x \in Events, ~IsFn(i), MayList(i, m)
    PROVE  /\ ListedFor(print_trigger(i, m, x), i, m, x)
           /\ \A c \in Cases : Leading(print_trigger(i, m, x), i, c)
<1> DEFINE e == Entry(i, m, x, Dest(i), Before(i), NoCondition)
           q == <<e>>
<1>1. print_trigger(i, m, x) = q
  <2>1. CASE (~uses_prepare_event /\ HasAction(i)) \/ x \in DataEvents
    BY <2>1 DEF print_trigger, print_simple_transition_as_dict
  <2>2. CASE ~((~uses_prepare_event /\ HasAction(i)) \/ x \in DataEvents)
    <3>1. Before(i) = ""
      BY <2>2 DEF Before
    <3> QED BY <2>2, <3>1 DEF print_trigger, print_transition_as_list
  <2> QED BY <2>1, <2>2
<1>2. HasTransition(i) => NamesState(i)
  BY DEF IsFn
<1>3. Dest(i) \in Dests /\ \A c : Dest(i) = Leads(c, i)
  <2>1. CASE HasTransition(i)
    <3> DEFINE target == CHOOSE t \in decls[i].to : TRUE
    <3>1. Dest(i) = target
      BY <2>1 DEF Dest
    <3>2. ASSUME NEW c PROVE Leads(c, i) = target
      BY <1>2, <2>1 DEF Leads, NextOf
    <3>3. target \in decls[i].to
      BY <2>1 DEF HasTransition
    <3> QED BY <3>1, <3>2, <3>3 DEF MayList, Dests
  <2>2. CASE ~HasTransition(i)
    BY <2>2 DEF Dest, Leads, Dests
  <2> QED BY <2>1, <2>2
<1>4. NoCondition \in Conditions /\ \A c : Holds(NoCondition, c)
  BY DEF NoCondition, Conditions, Holds
<1>5. /\ e \in Entries /\ e.trigger = x /\ e.source = SourcesOf(m) /\ e.dest = Dest(i)
      /\ e.before = Before(i) /\ e.condition = NoCondition
  <2>1. EntryOf(e, i, m, x, Dest(i), NoCondition)
    BY <1>3, <1>4, EntryFields
  <2> HIDE DEF e
  <2> QED BY <2>1 DEF EntryOf
<1> HIDE DEF e
<1>6. q \in Seq(Entries) /\ Len(q) = 1 /\ q[1] = e
  <2> DEFINE V == Entries
  <2>1. e \in V
    BY <1>5
  <2> HIDE DEF V
  <2>2. q \in Seq(V) /\ Len(q) = 1 /\ q[1] = e
    BY <2>1
  <2> QED BY <2>2 DEF V
<1> HIDE DEF q
<1>7. \A k \in 1..Len(q) : k = 1
  BY <1>6
<1>8. ListedFor(q, i, m, x)
  BY <1>5, <1>6, <1>7 DEF ListedFor
<1>9. ASSUME NEW c \in Cases PROVE Leading(q, i, c)
  <2>1. 1 \in 1..Len(q) /\ \A j \in 1..Len(q) : 1 <= j
    <3>1. Len(q) = 1
      BY <1>6
    <3> QED BY <3>1
  <2>2. Holds(q[1].condition, c) /\ q[1].dest = Leads(c, i)
    BY <1>3, <1>4, <1>5, <1>6
  <2>3. FirstOpen(q, 1, c)
    BY <2>1, <2>2 DEF FirstOpen
  <2> QED BY <2>2, <2>3 DEF Leading
<1> QED
  BY <1>1, <1>8, <1>9

LEMMA ReturnEntries ==
    ASSUME NEW i, NEW m, NEW x \in Events, IsFn(i), IsFiniteSet(decls[i].to), MayList(i, m)
    PROVE  /\ ListedFor(print_trigger(i, m, x), i, m, x)
           /\ \A c \in Cases : c.target \in decls[i].to => Leading(print_trigger(i, m, x), i, c)
<1> DEFINE r == SetToSeq(decls[i].to)
           n == Len(r)
           w(k) == IF decls[i].to \in Conditional
                   THEN IF k = Len(r) THEN <<"otherwise", r[k]>> ELSE <<"when", r[k]>>
                   ELSE <<"choose", r[k]>>
           q == print_trigger(i, m, x)
<1>1. /\ n \in Nat /\ DOMAIN r = 1..n /\ \A k \in 1..n : r[k] \in decls[i].to
      /\ ToSet(r) = decls[i].to /\ \A k, l \in 1..n : r[k] = r[l] => k = l
  <2>1. Lists(r, decls[i].to)
    BY AllListed
  <2> HIDE DEF r
  <2> QED BY <2>1 DEF Lists
<1> DEFINE e(k) == Entry(i, m, x, r[k], Before(i), w(k))
<1>2. q = [k \in 1..n |-> e(k)]
  <2>1. q = [k \in DOMAIN r |-> IF decls[i].to \in Conditional
                                THEN ReturnCondOption(i, m, x, r[k], k = Len(r))
                                ELSE ReturnOption(i, m, x, r[k])]
    BY DEF print_trigger, print_transition_fn_as_dict
  <2>2. \A k : (IF decls[i].to \in Conditional
                THEN ReturnCondOption(i, m, x, r[k], k = Len(r))
                ELSE ReturnOption(i, m, x, r[k])) = e(k)
    BY DEF ReturnCondOption, ReturnOption
  <2> HIDE DEF q, e, n
  <2> QED BY <1>1, <2>1, <2>2
<1>3. ASSUME NEW k \in 1..n
      PROVE  /\ e(k) \in Entries /\ e(k).trigger = x /\ e(k).source = SourcesOf(m) /\ e(k).dest = r[k]
             /\ e(k).before = Before(i) /\ e(k).condition = w(k)
  <2> HIDE DEF r, n
  <2>1. r[k] \in States /\ r[k] \in Dests
    BY <1>1, <1>3 DEF MayList, Dests
  <2>2. w(k) \in Conditions
    BY <2>1 DEF Conditions
  <2> HIDE DEF w
  <2>3. EntryOf(e(k), i, m, x, r[k], w(k))
    BY <2>1, <2>2, EntryFields
  <2> HIDE DEF e
  <2> QED BY <2>3 DEF EntryOf
<1> HIDE DEF e, q
<1>4. /\ q \in Seq(Entries) /\ Len(q) = n
      /\ \A k \in 1..n : q[k] = e(k)
  <2> DEFINE V == Entries
  <2>1. \A k \in 1..n : e(k) \in V
    BY <1>3
  <2> HIDE DEF V, n
  <2>2. q \in Seq(V) /\ Len(q) = n /\ \A k \in 1..n : q[k] = e(k)
    BY <1>1, <1>2, <2>1
  <2> QED BY <2>2 DEF V
<1>5. ListedFor(q, i, m, x)
  BY <1>3, <1>4 DEF ListedFor
<1>6. ASSUME NEW c \in Cases, c.target \in decls[i].to PROVE Leading(q, i, c)
  <2>1. PICK p \in 1..n : r[p] = c.target
    BY <1>1, <1>6 DEF ToSet
  <2>2. \A k \in 1..n : r[k] = c.target => k = p
    <3> HIDE DEF n, r
    <3> QED BY <1>1, <2>1
  <2>3. Holds(w(p), c)
    BY <2>1 DEF Holds
  <2>4. ASSUME NEW k \in 1..n, Holds(w(k), c) PROVE p <= k
    <3>1. CASE r[k] = c.target
      <4>1. k = p
        BY <2>2, <3>1
      <4>2. p \in Nat
        BY <1>1
      <4> QED BY <4>1, <4>2
    <3>2. CASE r[k] # c.target
      <4>1. k = n
        BY <2>4, <3>2 DEF Holds
      <4> HIDE DEF n
      <4> QED BY <1>1, <4>1
    <3> QED BY <3>1, <3>2
  <2> HIDE DEF w, r
  <2>5. FirstOpen(q, p, c)
    BY <1>3, <1>4, <2>3, <2>4 DEF FirstOpen
  <2>6. Leads(c, i) = c.target
    BY DEF IsFn, Leads, NextOf
  <2>7. q[p].dest = Leads(c, i)
    BY <1>3, <1>4, <2>1, <2>6
  <2> QED BY <2>5, <2>7 DEF Leading
<1> QED
  BY <1>5, <1>6 DEF q

LEMMA TriggerListed ==
    ASSUME IInv, NEW i \in DOMAIN decls, NEW m \in DOMAIN decls, NEW x \in Events
    PROVE  /\ ListedFor(print_trigger(i, m, x), i, m, x)
           /\ \A c \in Cases :
                  (IsFn(i) => c.target \in decls[i].to) => Leading(print_trigger(i, m, x), i, c)
<1>1. /\ decls[i] \in Declarations /\ decls[m] \in Declarations
      /\ IsFiniteSet(States)
  BY ListFacts, MachineAssumption DEF IInv
<1>2. decls[i].to \subseteq States /\ decls[i].action \in Actions /\ MatrixStates(decls[m]) \in Seq(States)
  BY <1>1, MatrixFacts
<1>3. SourcesOf(m) \subseteq States
  BY <1>2 DEF SourcesOf, ToSet
<1>4. MayList(i, m) /\ IsFiniteSet(decls[i].to)
  BY <1>1, <1>2, <1>3, FS_Subset DEF Before, MayList
<1>5. CASE IsFn(i)
  BY <1>4, <1>5, ReturnEntries
<1>6. CASE ~IsFn(i)
  BY <1>4, <1>6, OneEntry
<1> QED
  BY <1>5, <1>6

-----------------------------------------------------------------------------
(* The list "transitions".                                                   *)

(* The entries valid for event x in state s.                                 *)
ValidEntries(x, s) == {e \in Entries : e.trigger = x /\ s \in e.source}

LEMMA TriggerBlock ==
    ASSUME IInv, NEW i \in DOMAIN decls, NEW m \in DOMAIN decls, NEW y \in Events,
           NEW x \in Events, NEW s \in States
    PROVE  LET q == print_trigger(i, m, y)
           IN  /\ q \in Seq(Entries)
               /\ y = x /\ s \in SourcesOf(m) => Block(q, q, ValidEntries(x, s))
               /\ ~(y = x /\ s \in SourcesOf(m)) => Free(q, ValidEntries(x, s))
<1> DEFINE q == print_trigger(i, m, y)
           E == ValidEntries(x, s)
           n == Len(q)
<1>1. /\ q \in Seq(Entries)
      /\ \A k \in 1..n : q[k].trigger = y /\ q[k].source = SourcesOf(m)
  <2>1. ListedFor(q, i, m, y)
    BY TriggerListed
  <2> HIDE DEF q
  <2> QED BY <2>1 DEF ListedFor
<1> HIDE DEF q
<1>2. n \in Nat
  BY <1>1
<1>3. ASSUME ~(y = x /\ s \in SourcesOf(m)) PROVE Free(q, E)
  <2>1. \A k \in 1..n : q[k] \notin E
    BY <1>1, <1>3 DEF ValidEntries
  <2> QED BY <2>1 DEF Free
<1>4. Block(q, q, E)
  <2>1. 0 \in Nat /\ 0 + n <= n /\ (\A j \in 1..n : 0 + j = j) /\ \A k \in 1..n : k \in (0 + 1)..(0 + n)
    BY <1>2
  <2>2. BlockAt(q, q, E, 0)
    BY <2>1 DEF BlockAt
  <2> QED BY <2>1, <2>2 DEF Block
<1> QED
  BY <1>1, <1>3, <1>4 DEF q

(* A matrix that names the cell names its event in one place.                *)
OnlyAt(q, K, x) == K \in 1..Len(q) /\ \A k \in 1..Len(q) : q[k] = x <=> k = K

LEMMA EventOnce ==
    ASSUME IInv, Populated, NEW m \in DOMAIN decls, NEW x \in Events, NEW s \in States, Covers(m, x, s)
    PROVE  \E K : OnlyAt(MatrixEvents(decls[m]), K, x)
<1> DEFINE xs == MatrixEvents(decls[m])
           ss == MatrixStates(decls[m])
<1>1. xs \in Seq(Events) /\ ss \in Seq(States)
  BY ListFacts, MatrixFacts DEF IInv
<1>2. PICK K \in DOMAIN xs : xs[K] = x
  BY DEF Covers, ToSet
<1>3. PICK p \in DOMAIN ss : ss[p] = s
  BY DEF Covers, ToSet
<1>4. ASSUME NEW k \in DOMAIN xs, xs[k] = x, k # K PROVE FALSE
  <2>1. <<m, k, p>> # <<m, K, p>>
    BY <1>4
  <2>2. Clash
    BY <1>2, <1>3, <1>4, <2>1 DEF Clash
  <2> QED BY <2>2, ArrayFollows DEF ArrayHoldsTheMatrices
<1>5. DOMAIN xs = 1..Len(xs)
  BY <1>1
<1> HIDE DEF xs
<1>6. OnlyAt(xs, K, x)
  BY <1>2, <1>4, <1>5 DEF OnlyAt
<1> QED
  BY <1>6 DEF xs

LEMMA MatrixBlock ==
    ASSUME IInv, Populated, NEW i \in DOMAIN decls, NEW m \in DOMAIN decls,
           NEW x \in Events, NEW s \in States
    PROVE  /\ OfMatrix(i, m) \in Seq(Entries)
           /\ Covers(m, x, s) => Block(OfMatrix(i, m), print_trigger(i, m, x), ValidEntries(x, s))
           /\ ~Covers(m, x, s) => Free(OfMatrix(i, m), ValidEntries(x, s))
<1> DEFINE xs == MatrixEvents(decls[m])
           n == Len(xs)
           E == ValidEntries(x, s)
           seqs == [k \in DOMAIN xs |-> print_trigger(i, m, xs[k])]
           b == print_trigger(i, m, x)
           V == Entries
<1>1. n \in Nat /\ DOMAIN xs = 1..n /\ \A k \in 1..n : xs[k] \in Events
  <2>1. xs \in Seq(Events)
    BY ListFacts, MatrixFacts DEF IInv
  <2> HIDE DEF xs
  <2> QED BY <2>1
<1>2. \A y \in Events :
          /\ print_trigger(i, m, y) \in Seq(V)
          /\ y = x /\ s \in SourcesOf(m) => Block(print_trigger(i, m, y), print_trigger(i, m, y), E)
          /\ ~(y = x /\ s \in SourcesOf(m)) => Free(print_trigger(i, m, y), E)
  BY TriggerBlock
<1>3. Covers(m, x, s) <=> (\E k \in 1..n : xs[k] = x) /\ s \in SourcesOf(m)
  BY <1>1 DEF Covers, ToSet, SourcesOf
<1>4. OfMatrix(i, m) = FlattenSeq(seqs)
  BY DEF OfMatrix
<1> HIDE DEF E, V, xs, n
<1>5. seqs = [k \in 1..n |-> print_trigger(i, m, xs[k])]
  BY <1>1
<1>6. seqs \in Seq(Seq(V)) /\ Len(seqs) = n /\ \A k \in 1..n : seqs[k] = print_trigger(i, m, xs[k])
  <2> HIDE DEF seqs
  <2>1. \A k \in 1..n : print_trigger(i, m, xs[k]) \in Seq(V)
    BY <1>1, <1>2
  <2> QED BY <1>1, <1>5, <2>1
<1>7. b \in Seq(V)
  BY <1>2
<1> HIDE DEF seqs, b
<1>8. CASE Covers(m, x, s)
  <2>1. PICK K : OnlyAt(xs, K, x)
    BY <1>8, EventOnce DEF xs
  <2>2. K \in 1..n /\ \A k \in 1..n : xs[k] = x <=> k = K
    BY <2>1 DEF OnlyAt, n
  <2>3. \A k \in 1..n : IF k = K THEN Block(seqs[k], b, E) ELSE Free(seqs[k], E)
    BY <1>1, <1>2, <1>3, <1>6, <1>8, <2>2 DEF b
  <2>4. OneBlock(seqs, K, b, E)
    BY <1>6, <2>3 DEF OneBlock
  <2> QED BY <1>4, <1>6, <1>7, <1>8, <2>2, <2>4, FlattenedBlock DEF V, E, b
<1>9. CASE ~Covers(m, x, s)
  <2>1. 0 \notin 1..n /\ \A k \in 1..n : k # 0
    BY <1>1
  <2>2. \A k \in 1..n : IF k = 0 THEN Block(seqs[k], b, E) ELSE Free(seqs[k], E)
    BY <1>1, <1>2, <1>3, <1>6, <1>9, <2>1
  <2>3. OneBlock(seqs, 0, b, E)
    BY <1>6, <2>2 DEF OneBlock
  <2> QED BY <1>4, <1>6, <1>7, <1>9, <2>1, <2>3, FlattenedBlock DEF V, E, b
<1> QED
  BY <1>8, <1>9

(* The records: record k has the matrix of the cell, at place m, or no       *)
(* record has it.                                                            *)
LEMMA RecordBlock ==
    ASSUME IInv, Populated, NEW k \in DOMAIN consolidate_action_info_list,
           NEW x \in Events, NEW s \in States
    PROVE  LET r == consolidate_action_info_list[k]
               i == array[x][s]
               q == OfRecord(r)
           IN  /\ q \in Seq(Entries)
               /\ (\E m : HasMatrix(consolidate_action_info_list, k, m, i)) =>
                      Block(q, print_trigger(r.pai, i, x), ValidEntries(x, s))
               /\ ~(\E m : HasMatrix(consolidate_action_info_list, k, m, i)) =>
                      Free(q, ValidEntries(x, s))
<1> DEFINE list == consolidate_action_info_list
           r == list[k]
           i == array[x][s]
           a == r.pai
           ms == r.matrices
           n == Len(ms)
           E == ValidEntries(x, s)
           V == Entries
           seqs == [j \in DOMAIN ms |-> OfMatrix(a, ms[j])]
           b == print_trigger(a, i, x)
<1>1. DOMAIN decls = 1..Len(decls) /\ \A j \in DOMAIN decls : Covers(j, x, s) <=> i = j
  BY ArrayAtTheEnd
<1>2. Consolidated(list, Len(decls))
  BY ArrayAtTheEnd, ListIsConsolidated DEF consolidate_action_info_list
<1>3. OfRecord(r) = FlattenSeq(seqs)
  BY DEF OfRecord
<1> HIDE DEF list
<1>4. /\ a \in DOMAIN decls
      /\ n \in Nat /\ DOMAIN ms = 1..n
      /\ \A j \in 1..n : HasMatrix(list, k, j, ms[j]) /\ ms[j] \in DOMAIN decls
  <2>1. r \in ActionRecord /\ a \in 1..Len(decls) /\ k \in DOMAIN list
    BY <1>2 DEF Consolidated, list
  <2>2. n \in Nat /\ DOMAIN ms = 1..n
    BY <2>1 DEF ActionRecord
  <2>3. \A j \in 1..n : HasMatrix(list, k, j, ms[j])
    BY <2>1, <2>2 DEF HasMatrix
  <2> HIDE DEF ms, n
  <2> QED BY <1>1, <1>2, <2>1, <2>2, <2>3 DEF Consolidated
<1> HIDE DEF ms, a, r, n
<1>5. \A j \in 1..n : /\ OfMatrix(a, ms[j]) \in Seq(V)
                      /\ ms[j] = i => Block(OfMatrix(a, ms[j]), print_trigger(a, ms[j], x), E)
                      /\ ms[j] # i => Free(OfMatrix(a, ms[j]), E)
  BY <1>1, <1>4, MatrixBlock
<1> HIDE DEF E, V
<1>6. seqs \in Seq(Seq(V)) /\ Len(seqs) = n /\ \A j \in 1..n : seqs[j] = OfMatrix(a, ms[j])
  <2>1. seqs = [j \in 1..n |-> OfMatrix(a, ms[j])]
    BY <1>4
  <2> HIDE DEF seqs
  <2> QED BY <1>4, <1>5, <2>1
<1> HIDE DEF seqs
<1>7. CASE \E m : HasMatrix(list, k, m, i)
  <2>1. PICK m : HasMatrix(list, k, m, i)
    BY <1>7
  <2>2. m \in 1..n /\ ms[m] = i
    BY <1>4, <2>1 DEF HasMatrix, ms, r
  <2>3. \A j \in 1..n : ms[j] = i => j = m
    BY <1>2, <1>4, <2>1 DEF Consolidated
  <2>4. b \in Seq(V)
    <3>1. i \in DOMAIN decls
      BY <1>4, <2>2
    <3> QED BY <1>4, <3>1, TriggerBlock DEF V
  <2> HIDE DEF i
  <2>5. \A j \in 1..n : IF j = m THEN Block(seqs[j], b, E) ELSE Free(seqs[j], E)
    BY <1>5, <1>6, <2>2, <2>3
  <2> HIDE DEF b
  <2>6. OneBlock(seqs, m, b, E)
    BY <1>6, <2>5 DEF OneBlock
  <2>7. FlattenSeq(seqs) \in Seq(V) /\ Block(FlattenSeq(seqs), b, E)
    BY <1>6, <2>2, <2>4, <2>6, FlattenedBlock
  <2> QED BY <1>3, <1>7, <2>7 DEF V, E, b, r, a, i, list
<1>8. CASE ~\E m : HasMatrix(list, k, m, i)
  <2> DEFINE e == <<>>
  <2>1. 0 \notin 1..n /\ e \in Seq(V) /\ \A j \in 1..n : j # 0
    BY <1>4
  <2>2. \A j \in 1..n : ms[j] # i
    BY <1>4, <1>8
  <2> HIDE DEF i, e
  <2>3. \A j \in 1..n : IF j = 0 THEN Block(seqs[j], e, E) ELSE Free(seqs[j], E)
    BY <1>5, <1>6, <2>1, <2>2
  <2>4. OneBlock(seqs, 0, e, E)
    BY <1>6, <2>3 DEF OneBlock
  <2>5. FlattenSeq(seqs) \in Seq(V) /\ Free(FlattenSeq(seqs), E)
    BY <1>6, <2>1, <2>4, FlattenedBlock
  <2> QED BY <1>3, <1>8, <2>5 DEF V, E, r, i, list
<1> QED
  BY <1>7, <1>8

(* The entries valid in a cell's state for its event are those printed for   *)
(* the cell's matrix, with the action and transition of its record.          *)
LEMMA EntriesOfCell ==
    ASSUME IInv, Populated, NEW x \in Events, NEW s \in States
    PROVE  /\ transitions \in Seq(Entries)
           /\ array[x][s] = NULL => Free(transitions, ValidEntries(x, s))
           /\ array[x][s] # NULL =>
                  \E k \in DOMAIN consolidate_action_info_list :
                      LET j == consolidate_action_info_list[k].pai
                      IN  /\ j \in DOMAIN decls /\ MayConsolidate(j, array[x][s])
                          /\ Groups(x, s) = {k}
                          /\ Block(transitions, print_trigger(j, array[x][s], x), ValidEntries(x, s))
<1> DEFINE list == consolidate_action_info_list
           n == Len(list)
           i == array[x][s]
           E == ValidEntries(x, s)
           V == Entries
           seqs == [k \in DOMAIN list |-> OfRecord(list[k])]
           Here(k) == \E m : HasMatrix(list, k, m, i)
           b(k) == print_trigger(list[k].pai, i, x)
<1>1. DOMAIN decls = 1..Len(decls) /\ (i # NULL => i \in DOMAIN decls)
  BY ArrayAtTheEnd
<1>2. Consolidated(list, Len(decls))
  BY ArrayAtTheEnd, ListIsConsolidated DEF consolidate_action_info_list
<1>3. transitions = FlattenSeq(seqs)
  BY DEF transitions
<1>4. \A k \in DOMAIN list : /\ OfRecord(list[k]) \in Seq(V)
                             /\ Here(k) => Block(OfRecord(list[k]), b(k), E)
                             /\ ~Here(k) => Free(OfRecord(list[k]), E)
  BY RecordBlock
<1>5. array[x][s] # NULL => \E k : Groups(x, s) = {k} /\ GroupBody(x, s) = list[k].pai
  BY GroupOfCell DEF GroupBody
<1> HIDE DEF list, E, V
<1>6. n \in Nat /\ DOMAIN list = 1..n
  BY <1>2 DEF Consolidated
<1>7. seqs \in Seq(Seq(V)) /\ Len(seqs) = n /\ \A k \in 1..n : seqs[k] = OfRecord(list[k])
  <2>1. seqs = [k \in 1..n |-> OfRecord(list[k])]
    BY <1>6
  <2> HIDE DEF seqs
  <2> QED BY <1>4, <1>6, <2>1
<1> HIDE DEF seqs, n
<1>8. CASE i = NULL
  <2> DEFINE e == <<>>
  <2>1. 0 \notin 1..n /\ e \in Seq(V) /\ \A k \in 1..n : k # 0
    BY <1>6
  <2>2. \A k \in 1..n : ~Here(k)
    <3>1. 0 \notin 1..Len(decls)
      OBVIOUS
    <3> HIDE DEF i
    <3> QED BY <1>2, <1>8, <3>1 DEF Consolidated, NULL
  <2> HIDE DEF Here, e
  <2>3. \A k \in 1..n : IF k = 0 THEN Block(seqs[k], e, E) ELSE Free(seqs[k], E)
    BY <1>4, <1>6, <1>7, <2>1, <2>2
  <2>4. OneBlock(seqs, 0, e, E)
    BY <1>7, <2>3 DEF OneBlock
  <2>5. FlattenSeq(seqs) \in Seq(V) /\ Free(FlattenSeq(seqs), E)
    BY <1>7, <2>1, <2>4, FlattenedBlock
  <2> QED BY <1>3, <1>8, <2>5 DEF V, E
<1>9. CASE i # NULL
  <2>1. i \in 1..Len(decls)
    BY <1>1, <1>9
  <2>2. PICK k, m : HasMatrix(list, k, m, i)
    <3> HIDE DEF i
    <3> QED BY <1>2, <2>1 DEF Consolidated
  <2>3. \A j \in 1..n : Here(j) => j = k
    <3> HIDE DEF i
    <3> QED BY <1>2, <2>2 DEF Consolidated
  <2>4. k \in 1..n /\ list[k].pai \in DOMAIN decls /\ MayConsolidate(list[k].pai, i) /\ Here(k)
    <3> HIDE DEF i
    <3>1. k \in 1..n
      BY <1>6, <2>2 DEF HasMatrix
    <3>2. list[k].pai \in DOMAIN decls /\ MayConsolidate(list[k].pai, i)
      BY <1>1, <1>2, <1>6, <2>2, <3>1 DEF Consolidated
    <3> QED BY <2>2, <3>1, <3>2
  <2>5. Groups(x, s) = {k}
    <3>1. PICK l : Groups(x, s) = {l}
      BY <1>5, <1>9
    <3>2. k \in DOMAIN list /\ m \in DOMAIN list[k].matrices /\ list[k].matrices[m] = i
      BY <2>2 DEF HasMatrix
    <3>3. Covers(i, x, s)
      BY <1>1, <1>9, ArrayAtTheEnd
    <3>4. <<x, s, m>> \in Labels(list[k])
      BY <3>2, <3>3 DEF Labels, Covers
    <3>5. k \in Groups(x, s)
      BY <3>2, <3>4 DEF Groups, list
    <3> QED BY <3>1, <3>5
  <2>6. b(k) \in Seq(V)
    BY <1>1, <1>9, <2>4, TriggerBlock DEF V
  <2> HIDE DEF Here, b
  <2>7. \A j \in 1..n : IF j = k THEN Block(seqs[j], b(k), E) ELSE Free(seqs[j], E)
    BY <1>4, <1>6, <1>7, <2>3, <2>4
  <2> DEFINE w == b(k)
  <2> HIDE DEF w
  <2>8. OneBlock(seqs, k, w, E)
    BY <1>7, <2>7 DEF OneBlock, w
  <2>9. FlattenSeq(seqs) \in Seq(V) /\ Block(FlattenSeq(seqs), w, E)
    BY <1>7, <2>4, <2>6, <2>8, FlattenedBlock DEF w
  <2> QED BY <1>3, <1>6, <1>9, <2>4, <2>5, <2>9 DEF V, E, w, b, list
<1> QED
  BY <1>8, <1>9

-----------------------------------------------------------------------------
(* The class.                                                                *)

LEMMA ActionsOfCell ==
    ASSUME IInv, Populated, NEW x \in Events, NEW s \in States
    PROVE  /\ Groups(x, s) = {} => _fsm_actions(s, x) = None
           /\ \A k \in DOMAIN consolidate_action_info_list : Groups(x, s) = {k} =>
                  LET j == consolidate_action_info_list[k].pai
                  IN  _fsm_actions(s, x) = IF HasAction(j) THEN decls[j].action ELSE None
<1> DEFINE list == consolidate_action_info_list
           at_key == {k \in DOMAIN list : /\ HasAction(list[k].pai)
                                          /\ \E m \in ToSet(list[k].matrices) : Covers(m, x, s)}
           last == CHOOSE k \in at_key : \A j \in at_key : j <= k
<1>1. _fsm_actions(s, x) = IF at_key = {} THEN None ELSE decls[list[last].pai].action
  BY Zenon DEF _fsm_actions
<1>2. at_key = {k \in Groups(x, s) : HasAction(list[k].pai)}
  <2>1. ASSUME NEW k \in DOMAIN list
        PROVE  k \in Groups(x, s) <=> \E m \in ToSet(list[k].matrices) : Covers(m, x, s)
    <3>1. k \in Groups(x, s) <=> \E m \in DOMAIN list[k].matrices : <<x, s, m>> \in Labels(list[k])
      BY DEF Groups
    <3>2. \A m \in DOMAIN list[k].matrices :
              <<x, s, m>> \in Labels(list[k]) <=> Covers(list[k].matrices[m], x, s)
      BY DEF Labels, Covers
    <3> QED BY <3>1, <3>2 DEF ToSet
  <2>2. Groups(x, s) \subseteq DOMAIN list
    BY DEF Groups
  <2> HIDE DEF list
  <2> QED BY <2>1, <2>2
<1>3. DOMAIN list \subseteq Nat
  <2>1. list \in Seq(ActionRecord)
    BY ArrayAtTheEnd, ListIsConsolidated DEF consolidate_action_info_list, Consolidated
  <2> QED BY <2>1
<1> HIDE DEF list, at_key
<1>4. ASSUME NEW k \in DOMAIN list, Groups(x, s) = {k}, HasAction(list[k].pai) PROVE last = k
  <2>1. at_key = {k} /\ k <= k
    BY <1>2, <1>3, <1>4
  <2> QED BY <2>1
<1> QED
  BY <1>1, <1>2, <1>4 DEF list

(* The callback is there for the cells that need it.                         *)
LEMMA CallbacksOfCell ==
    ASSUME IInv, Populated, NEW x \in Events, NEW s \in States, array[x][s] # NULL,
           NEW k \in DOMAIN consolidate_action_info_list, Groups(x, s) = {k}
    PROVE  /\ HasAction(consolidate_action_info_list[k].pai) => uses_actions
           /\ x \in DataEvents => uses_event_data
<1> DEFINE list == consolidate_action_info_list
           r == list[k]
<1>1. r \in Records
  BY DEF Records, ToSet
<1>2. HasAction(r.pai) => uses_actions
  BY <1>1 DEF uses_actions
<1>3. ASSUME x \in DataEvents PROVE uses_event_data
  <2>1. PICK m \in DOMAIN r.matrices : <<x, s, m>> \in Labels(r)
    BY DEF Groups
  <2>2. x \in ToSet(MatrixEvents(decls[r.matrices[m]]))
    BY <2>1 DEF Labels
  <2>3. r.matrices[m] \in ToSet(r.matrices)
    BY <2>1 DEF ToSet
  <2> HIDE DEF r, list
  <2> QED BY <1>1, <1>3, <2>2, <2>3 DEF uses_event_data
<1> QED
  BY <1>2, <1>3

(* What a trigger in case c of the class has called: its translator and      *)
(* action, then the functions for a change of state to t.                    *)
Translated(c) == IF On(c) \in DataEvents THEN Called(<<>>, "translator", On(c)) ELSE <<>>

Prepared(c) ==
    IF HasAction(Cell(c)) THEN Called(Translated(c), "action", decls[Cell(c)].action) ELSE Translated(c)

LeftState(c, k) == IF From(c) \in ExitStates THEN Called(k, "exit", From(c)) ELSE k

Entered(c, k, t) ==
    IF t \in EntryStates THEN Called(LeftState(c, k), "entry", t) ELSE LeftState(c, k)

Class(class) ==
    /\ class.transitions = transitions /\ class.prepares = uses_prepare_event
    /\ class.translates = uses_event_data
    /\ \A s \in States, x \in Events : class.actions[s][x] = _fsm_actions(s, x)

LEMMA ClassFields == Class(GeneratedClass)
  BY DEF Class, GeneratedClass

LEMMA PreparedPiece ==
    ASSUME IInv, Populated, NEW c \in Cases, Cell(c) # NULL,
           NEW class, Class(class)
    PROVE  (IF class.prepares THEN _fsm_prepare_event(class, c, Begin(c)) ELSE Begin(c)) =
               Vars(Prepared(c), From(c), From(c), On(c))
<1> DEFINE x == On(c)
           s == From(c)
           i == Cell(c)
           v == Vars(<<>>, s, s, x)
           w == Vars(Translated(c), s, s, x)
           a == class.actions[c.s][c.x]
<1>1. x \in Events /\ s \in States
  BY CaseFacts DEF On, From
<1>2. i = array[x][s] /\ i # NULL /\ i \in DOMAIN decls
  BY <1>1, ArrayAtTheEnd DEF Cell, On, From
<1>3. Begin(c) = v
  BY BeginPiece
<1>4. PICK k \in DOMAIN consolidate_action_info_list :
          Groups(x, s) = {k} /\ MayConsolidate(consolidate_action_info_list[k].pai, i)
  BY <1>1, <1>2, EntriesOfCell
<1> DEFINE j == consolidate_action_info_list[k].pai
<1>5. decls[j].action = decls[i].action /\ (HasAction(j) <=> HasAction(i))
  BY <1>4 DEF MayConsolidate, HasAction
<1>6. a = IF HasAction(i) THEN decls[i].action ELSE None
  <2>1. a = _fsm_actions(s, x)
    BY <1>1 DEF Class, On, From
  <2> QED BY <1>1, <1>4, <1>5, <2>1, ActionsOfCell
<1>7. a # None <=> HasAction(i)
  <2>1. decls[i] \in Declarations
    BY <1>2, ListFacts DEF IInv
  <2>2. decls[i].action \in Actions
    BY <2>1, MatrixFacts
  <2> QED BY <1>6, <2>2, NoneAssumption
<1>8. /\ HasAction(i) => uses_prepare_event
      /\ x \in DataEvents => uses_prepare_event /\ uses_event_data
  BY <1>1, <1>2, <1>4, <1>5, CallbacksOfCell DEF uses_prepare_event
<1>9. _fsm_translators(x) # None <=> x \in DataEvents
  BY <1>1, NoneAssumption DEF _fsm_translators
<1>10. x \in DataEvents => _fsm_translators(x) = x
  BY DEF _fsm_translators
<1>11. class.prepares = uses_prepare_event /\ class.translates = uses_event_data
  BY DEF Class
<1> HIDE DEF a, i, j
<1>12. (IF class.translates /\ _fsm_translators(x) # None
        THEN Call(v, "translator", _fsm_translators(x)) ELSE v) = w
  <2>1. CASE x \in DataEvents
    <3>1. Call(v, "translator", x) = Vars(Called(<<>>, "translator", x), s, s, x)
      BY Pieces
    <3>2. Translated(c) = Called(<<>>, "translator", x)
      BY <2>1 DEF Translated
    <3> HIDE DEF v, x, s
    <3> QED BY <1>8, <1>9, <1>10, <1>11, <2>1, <3>1, <3>2
  <2>2. CASE x \notin DataEvents
    <3>1. Translated(c) = <<>>
      BY <2>2 DEF Translated
    <3> QED BY <1>9, <2>2, <3>1
  <2> QED BY <2>1, <2>2
<1>13. _fsm_prepare_event(class, c, v) = IF a # None THEN Call(w, "action", a) ELSE w
  BY <1>12, Zenon DEF _fsm_prepare_event, a, On
<1>14. CASE HasAction(i)
  <2>1. Call(w, "action", decls[i].action) = Vars(Called(Translated(c), "action", decls[i].action), s, s, x)
    BY Pieces
  <2>2. Prepared(c) = Called(Translated(c), "action", decls[i].action)
    BY <1>14, Zenon DEF Prepared, i
  <2>3. a = decls[i].action /\ a # None /\ class.prepares
    BY <1>6, <1>7, <1>8, <1>11, <1>14
  <2> HIDE DEF v, w
  <2> QED BY <1>3, <1>13, <2>1, <2>2, <2>3 DEF x, s
<1>15. CASE ~HasAction(i)
  <2>1. Prepared(c) = Translated(c)
    BY <1>15, Zenon DEF Prepared, i
  <2>2. a = None
    BY <1>7, <1>15
  <2>3. _fsm_prepare_event(class, c, v) = w
    BY <1>13, <2>2
  <2>4. CASE class.prepares
    BY <1>3, <2>1, <2>3, <2>4
  <2>5. CASE ~class.prepares
    <3>1. x \notin DataEvents
      BY <1>8, <1>11, <2>5
    <3>2. Translated(c) = <<>>
      BY <3>1 DEF Translated
    <3> QED BY <1>3, <2>1, <2>5, <3>2
  <2> QED BY <2>4, <2>5
<1> QED
  BY <1>14, <1>15

LEMMA StateFnsPiece ==
    ASSUME NEW c, NEW k, NEW t, NEW o
    PROVE  Arrive(StateFns(Vars(k, From(c), From(c), o), t), t) =
               Vars(Entered(c, k, t), t, From(c), o)
<1> DEFINE s == From(c)
           v == Vars(k, s, s, o)
           l == LeftState(c, k)
<1> HIDE DEF s
<1>1. (IF v.state \in ExitStates THEN Call(v, "exit", v.state) ELSE v) = Vars(l, s, s, o)
  <2>1. v.state = s
    BY VarsFields
  <2>2. Call(v, "exit", s) = Vars(Called(k, "exit", s), s, s, o)
    BY Pieces
  <2> HIDE DEF v
  <2>3. v = Vars(k, s, s, o)
    BY DEF v
  <2> QED BY <2>1, <2>2, <2>3 DEF LeftState, s
<1> HIDE DEF l, v
<1>2. Call(Vars(l, s, s, o), "entry", t) = Vars(Called(l, "entry", t), s, s, o)
  BY Pieces
<1>3. StateFns(v, t) = Vars(Entered(c, k, t), s, s, o)
  BY <1>1, <1>2 DEF StateFns, Entered, l
<1>4. Arrive(Vars(Entered(c, k, t), s, s, o), t) = Vars(Entered(c, k, t), t, s, o)
  BY Pieces
<1> QED
  BY <1>3, <1>4 DEF s, v

(* The entry that a trigger takes.                                           *)
Takes(c, e) == e.dest = Leads(c, Cell(c)) /\ e.before = ""

Chosen(list, c, e) ==
    LET valid == {k \in DOMAIN list : list[k].trigger = c.x /\ c.s \in list[k].source}
        open == {k \in valid : Holds(list[k].condition, c)}
    IN  /\ valid # {} /\ open # {}
        /\ e = list[CHOOSE k \in open : \A j \in open : k <= j]

LEMMA EntryTaken ==
    ASSUME IInv, Populated, NEW c \in Cases, Cell(c) # NULL, MayReturn(c)
    PROVE  \E e : Chosen(transitions, c, e) /\ Takes(c, e)
<1> DEFINE x == On(c)
           s == From(c)
           i == Cell(c)
           list == transitions
           E == ValidEntries(x, s)
<1>1. x \in Events /\ s \in States
  BY CaseFacts DEF On, From
<1>2. i = array[x][s] /\ i # NULL /\ i \in DOMAIN decls /\ Covers(i, x, s)
  BY <1>1, ArrayAtTheEnd DEF Cell, On, From
<1>3. PICK k \in DOMAIN consolidate_action_info_list :
          LET j == consolidate_action_info_list[k].pai
          IN  /\ j \in DOMAIN decls /\ MayConsolidate(j, i)
              /\ Groups(x, s) = {k}
              /\ Block(list, print_trigger(j, i, x), E)
  BY <1>1, <1>2, EntriesOfCell
<1>4. list \in Seq(Entries)
  BY <1>1, EntriesOfCell
<1> DEFINE j == consolidate_action_info_list[k].pai
           q == print_trigger(j, i, x)
           n == Len(q)
<1>5. j \in DOMAIN decls /\ MayConsolidate(j, i) /\ Groups(x, s) = {k} /\ Block(list, q, E)
  BY <1>3
<1>6. HasAction(j) => uses_actions
  BY <1>1, <1>2, <1>5, CallbacksOfCell
<1>7. Before(j) = ""
  BY <1>6 DEF Before, uses_prepare_event
<1> HIDE DEF j, i, list
<1>8. decls[j].action = decls[i].action /\ decls[j].to = decls[i].to
  BY <1>5 DEF MayConsolidate
<1>9. IsFn(j) => c.target \in decls[j].to
  <2>1. IsFn(j) <=> IsFn(i)
    BY <1>8 DEF IsFn, HasTransition, NamesState
  <2> QED BY <1>2, <1>8, <2>1 DEF MayReturn, i, Cell
<1>10. Leads(c, j) = Leads(c, i)
  BY <1>8, AlikePieces DEF Leads
<1>11. Leading(q, j, c) /\ ListedFor(q, j, i, x)
  BY <1>1, <1>2, <1>5, <1>9, TriggerListed
<1> HIDE DEF q
<1>12. PICK p : FirstOpen(q, p, c) /\ q[p].dest = Leads(c, j)
  BY <1>11 DEF Leading
<1>13. /\ n \in Nat /\ p \in 1..n /\ Holds(q[p].condition, c)
       /\ \A l \in 1..n : Holds(q[l].condition, c) => p <= l
       /\ \A l \in 1..n : q[l].trigger = x /\ s \in q[l].source /\ q[l].before = ""
  <2>1. s \in SourcesOf(i)
    BY <1>2 DEF Covers, SourcesOf
  <2>2. n \in Nat
    <3>1. q \in Seq(Entries)
      BY <1>11 DEF ListedFor
    <3> QED BY <3>1
  <2>3. /\ p \in 1..n /\ Holds(q[p].condition, c)
        /\ \A l \in 1..n : Holds(q[l].condition, c) => p <= l
    BY <1>12 DEF FirstOpen
  <2>4. \A l \in 1..n : q[l].trigger = x /\ q[l].source = SourcesOf(i) /\ q[l].before = Before(j)
    BY <1>11 DEF ListedFor
  <2> HIDE DEF n
  <2> QED BY <1>7, <2>1, <2>2, <2>3, <2>4
<1>14. PICK o \in Nat : BlockAt(list, q, E, o)
  BY <1>5 DEF Block
<1>15. /\ DOMAIN list = 1..Len(list) /\ Len(list) \in Nat /\ o + n <= Len(list)
       /\ \A l \in 1..n : list[o + l] = q[l]
       /\ \A l \in 1..Len(list) : list[l] \in E => l \in (o + 1)..(o + n)
       /\ \A l \in 1..Len(list) : list[l] \in Entries
  BY <1>4, <1>14 DEF BlockAt
<1> HIDE DEF n, E
<1> DEFINE valid == {l \in DOMAIN list : list[l].trigger = x /\ s \in list[l].source}
           open == {l \in valid : Holds(list[l].condition, c)}
           first == CHOOSE l \in open : \A g \in open : l <= g
<1>16. \A l \in valid : l \in (o + 1)..(o + n)
  BY <1>15 DEF ValidEntries, E
<1>17. o + p \in open
  <2>1. o + p \in 1..Len(list)
    <3>1. o \in Nat /\ n \in Nat /\ p \in 1..n /\ Len(list) \in Nat /\ o + n <= Len(list)
      BY <1>13, <1>14, <1>15
    <3> QED BY <3>1
  <2>2. list[o + p] = q[p]
    BY <1>13, <1>15
  <2> QED BY <1>13, <1>15, <2>1, <2>2
<1>18. \A l \in open : o + p <= l
  <2> SUFFICES ASSUME NEW l \in open PROVE o + p <= l
    OBVIOUS
  <2>1. l \in (o + 1)..(o + n) /\ Holds(list[l].condition, c)
    BY <1>16
  <2>2. l - o \in 1..n /\ o + (l - o) = l
    <3>1. o \in Nat /\ n \in Nat /\ l \in (o + 1)..(o + n)
      BY <1>13, <1>14, <2>1
    <3> QED BY <3>1
  <2>3. list[l] = q[l - o]
    BY <1>15, <2>2
  <2>4. p <= l - o
    BY <1>13, <2>1, <2>2, <2>3
  <2>5. o \in Nat /\ n \in Nat /\ p \in 1..n /\ l \in (o + 1)..(o + n)
    BY <1>13, <1>14, <2>1
  <2> QED BY <2>4, <2>5
<1>19. open \subseteq Int
  BY <1>15
<1>20. first = o + p
  <2> HIDE DEF open
  <2>1. \A l \in open : (\A g \in open : l <= g) => l = o + p
    <3> SUFFICES ASSUME NEW l \in open, \A g \in open : l <= g PROVE l = o + p
      OBVIOUS
    <3>1. l <= o + p /\ o + p <= l /\ l \in Int /\ o + p \in Int
      BY <1>17, <1>18, <1>19
    <3> QED BY <3>1
  <2> QED BY <1>17, <1>18, <2>1
<1>21. list[first] = q[p]
  <2> HIDE DEF first
  <2> QED BY <1>13, <1>15, <1>20
<1>22. valid # {} /\ open # {}
  BY <1>17
<1>23. Chosen(list, c, list[first])
  BY <1>22, Zenon DEF Chosen, On, From
<1>24. Takes(c, q[p])
  BY <1>10, <1>12, <1>13 DEF Takes, i
<1> QED
  BY <1>21, <1>23, <1>24 DEF list

(* A trigger in case c: nothing for an empty cell; else the cell's action,   *)
(* and the transition to where the cell leads.                               *)
TriggerIs(v, c) ==
    /\ Cell(c) = NULL => v = Vars(<<>>, From(c), From(c), On(c))
    /\ Cell(c) # NULL /\ HasTransition(Cell(c)) =>
           v = Vars(Called(Entered(c, Prepared(c), Goal(c)), "machineTransition", Goal(c)),
                    Goal(c), From(c), On(c))
    /\ Cell(c) # NULL /\ ~HasTransition(Cell(c)) =>
           v = Vars(Called(Prepared(c), "machineTransition", From(c)), From(c), From(c), On(c))

LEMMA TriggerPiece ==
    ASSUME IInv, Populated, NEW c \in Cases, MayReturn(c), NEW class, Class(class)
    PROVE  TriggerIs(Trigger(class, c), c)
<1> DEFINE x == On(c)
           s == From(c)
           i == Cell(c)
           list == class.transitions
           valid == {k \in DOMAIN list : list[k].trigger = c.x /\ c.s \in list[k].source}
           open == {k \in valid : Holds(list[k].condition, c)}
           entry == list[CHOOSE k \in open : \A j \in open : k <= j]
           prepared == IF class.prepares THEN _fsm_prepare_event(class, c, Begin(c)) ELSE Begin(c)
           run == IF entry.before = "" THEN prepared ELSE Call(prepared, "action", entry.before)
           moved == IF entry.dest = None THEN run
                    ELSE Arrive(StateFns(run, entry.dest), entry.dest)
<1>1. x \in Events /\ s \in States /\ x = c.x /\ s = c.s /\ i = array[x][s]
  BY CaseFacts DEF On, From, Cell
<1>2. list = transitions
  BY DEF Class
<1>3. Trigger(class, c) = IF valid = {} THEN Begin(c)
                          ELSE IF open = {} THEN prepared
                          ELSE Call(moved, "machineTransition", moved.state)
  BY Zenon DEF Trigger
<1>4. CASE i = NULL
  <2>1. Free(transitions, ValidEntries(x, s)) /\ transitions \in Seq(Entries)
    BY <1>1, <1>4, EntriesOfCell
  <2>2. valid = {}
    <3>1. DOMAIN transitions = 1..Len(transitions) /\ \A k \in DOMAIN transitions : transitions[k] \in Entries
      BY <2>1
    <3>2. \A k \in DOMAIN transitions : transitions[k] \notin ValidEntries(x, s)
      BY <2>1, <3>1 DEF Free
    <3> HIDE DEF list
    <3> QED BY <1>1, <1>2, <3>1, <3>2 DEF ValidEntries
  <2> HIDE DEF valid, moved, prepared, open
  <2>3. Trigger(class, c) = Vars(<<>>, s, s, x)
    BY <1>3, <2>2, BeginPiece
  <2> QED BY <1>4, <2>3 DEF TriggerIs
<1>5. CASE i # NULL
  <2>1. PICK e : Chosen(transitions, c, e) /\ Takes(c, e)
    BY <1>5, EntryTaken
  <2>2. valid # {} /\ open # {} /\ entry = e
    BY <1>2, <2>1, Zenon DEF Chosen
  <2>3. prepared = Vars(Prepared(c), s, s, x)
    BY <1>5, PreparedPiece
  <2> HIDE DEF valid, open, entry, prepared
  <2>4. run = Vars(Prepared(c), s, s, x) /\ entry.dest = Leads(c, i)
    BY <2>1, <2>2, <2>3 DEF Takes
  <2> HIDE DEF run
  <2>5. CASE HasTransition(i)
    <3> DEFINE t == Goal(c)
               k == Entered(c, Prepared(c), t)
    <3>1. t \in States
      BY <1>5, <2>5, CellFacts
    <3>2. entry.dest = t /\ t # None
      BY <2>4, <2>5, <3>1, NoneAssumption DEF Leads, Goal
    <3>3. Arrive(StateFns(Vars(Prepared(c), s, s, x), t), t) = Vars(k, t, s, x)
      BY StateFnsPiece
    <3> HIDE DEF t, k
    <3>4. moved = Vars(k, t, s, x)
      BY <2>4, <3>2, <3>3
    <3> HIDE DEF moved
    <3>5. Call(Vars(k, t, s, x), "machineTransition", t) = Vars(Called(k, "machineTransition", t), t, s, x)
      BY Pieces
    <3>6. Trigger(class, c) = Vars(Called(k, "machineTransition", t), t, s, x)
      BY <1>3, <2>2, <3>4, <3>5, VarsFields
    <3> QED BY <1>5, <2>5, <3>6 DEF TriggerIs, k, t
  <2>6. CASE ~HasTransition(i)
    <3> DEFINE k == Prepared(c)
    <3>1. entry.dest = None
      BY <2>4, <2>6 DEF Leads
    <3> HIDE DEF k
    <3>2. moved = Vars(k, s, s, x)
      BY <2>4, <3>1 DEF k
    <3> HIDE DEF moved
    <3>3. Call(Vars(k, s, s, x), "machineTransition", s) = Vars(Called(k, "machineTransition", s), s, s, x)
      BY Pieces
    <3>4. Trigger(class, c) = Vars(Called(k, "machineTransition", s), s, s, x)
      BY <1>3, <2>2, <3>2, <3>3, VarsFields
    <3> QED BY <1>5, <2>6, <3>4 DEF TriggerIs, k
  <2> QED BY <2>5, <2>6
<1> QED
  BY <1>4, <1>5

-----------------------------------------------------------------------------
(* The calls compared.                                                       *)

(* Of the calls k, those in W are r.                                         *)
KeptAs(k, W, r) == k \in Seq(CallSet) /\ Only(k, W) = r

LEMMA KeptNone == ASSUME NEW W PROVE KeptAs(<<>>, W, <<>>)
  BY OnlyNone DEF KeptAs

LEMMA KeptCalled ==
    ASSUME NEW k, NEW W, NEW r, KeptAs(k, W, r), NEW f \in Callees, NEW a \in Args
    PROVE  /\ <<f, a>> \in W => KeptAs(Called(k, f, a), W, Called(r, f, a))
           /\ <<f, a>> \notin W => KeptAs(Called(k, f, a), W, r)
<1>1. k \in Seq(CallSet) /\ Only(k, W) = r
  BY DEF KeptAs
<1>2. /\ Called(k, f, a) \in Seq(CallSet)
      /\ Only(Called(k, f, a), W) = IF <<f, a>> \in W THEN Called(Only(k, W), f, a) ELSE Only(k, W)
  BY <1>1, OnlyCalled
<1> QED
  BY <1>1, <1>2 DEF KeptAs

LEMMA CallKinds ==
    /\ \A a : /\ <<"translator", a>> \notin ActionCalls /\ <<"next", a>> \notin ActionCalls
              /\ <<"machineTransition", a>> \notin ActionCalls /\ <<"exit", a>> \notin ActionCalls
              /\ <<"entry", a>> \notin ActionCalls /\ <<"empty", a>> \notin ActionCalls
    /\ \A a \in STRING : <<"action", a>> \in ActionCalls
    /\ \A a : \A W \in {StateFnCalls, UsersStateFns} :
           /\ <<"translator", a>> \notin W /\ <<"action", a>> \notin W
           /\ <<"next", a>> \notin W /\ <<"machineTransition", a>> \notin W
    /\ \A t \in States : <<"exit", t>> \in StateFnCalls /\ <<"entry", t>> \in StateFnCalls
    /\ \A t : /\ <<"exit", t>> \in UsersStateFns <=> t \in ExitStates
              /\ <<"entry", t>> \in UsersStateFns <=> t \in EntryStates
  BY DEF ActionCalls, StateFnCalls, UsersStateFns

(* What is called before the state changes.                                  *)
LEMMA BeforeTheMove ==
    ASSUME IInv, Populated, NEW c \in Cases, c.kind = "void", Cell(c) # NULL
    PROVE  /\ KeptAs(Prepared(c), ActionCalls, Acts(c)) /\ KeptAs(Acts(c), ActionCalls, Acts(c))
           /\ KeptAs(Goes(c), ActionCalls, Acts(c))
           /\ \A W \in {StateFnCalls, UsersStateFns} :
                  KeptAs(Prepared(c), W, <<>>) /\ KeptAs(Acts(c), W, <<>>) /\ KeptAs(Goes(c), W, <<>>)
<1> DEFINE a == decls[Cell(c)].action
           e == <<>>
           T == Translated(c)
           A == Called(e, "action", a)
<1>1. On(c) \in Args /\ Heard(c, On(c)) \in Args
  BY CellFacts DEF Args, Heard
<1>2. a \in Args /\ a \in STRING
  <2>1. decls[Cell(c)] \in Declarations
    BY CellFacts, ListFacts DEF IInv
  <2> QED BY <2>1, MatrixFacts, DeclarationAssumption DEF Args
<1>3. "translator" \in Callees /\ "action" \in Callees /\ "next" \in Callees
  BY DEF Callees
<1> HIDE DEF a, e
<1>4. ASSUME NEW W, \A y : <<"translator", y>> \notin W PROVE KeptAs(T, W, e)
  <2>1. KeptAs(e, W, e)
    BY KeptNone DEF e
  <2>2. KeptAs(Called(e, "translator", On(c)), W, e)
    BY <1>1, <1>3, <1>4, <2>1, KeptCalled
  <2> QED BY <2>1, <2>2 DEF Translated, e
<1> HIDE DEF T
<1>5. Prepared(c) = IF HasAction(Cell(c)) THEN Called(T, "action", a) ELSE T
  BY DEF Prepared, a, T
<1>6. Acts(c) = IF HasAction(Cell(c)) THEN A ELSE e
  BY DEF Acts, Acted, a, e
<1>7. Goes(c) = IF NamesState(Cell(c)) THEN Acts(c) ELSE Called(Acts(c), "next", Heard(c, On(c)))
  BY DEF Goes, Told
<1> HIDE DEF A
<1>8. KeptAs(Prepared(c), ActionCalls, Acts(c)) /\ KeptAs(Acts(c), ActionCalls, Acts(c))
  <2>1. KeptAs(T, ActionCalls, e) /\ KeptAs(e, ActionCalls, e)
    BY <1>4, CallKinds, KeptNone DEF e
  <2>2. KeptAs(Called(T, "action", a), ActionCalls, A) /\ KeptAs(A, ActionCalls, A)
    BY <1>2, <1>3, <2>1, CallKinds, KeptCalled DEF A
  <2> QED BY <1>5, <1>6, <2>1, <2>2
<1>9. KeptAs(Goes(c), ActionCalls, Acts(c))
  <2>1. KeptAs(Called(Acts(c), "next", Heard(c, On(c))), ActionCalls, Acts(c))
    BY <1>1, <1>3, <1>8, CallKinds, KeptCalled
  <2> QED BY <1>7, <1>8, <2>1
<1>10. ASSUME NEW W \in {StateFnCalls, UsersStateFns}
       PROVE  KeptAs(Prepared(c), W, e) /\ KeptAs(Acts(c), W, e) /\ KeptAs(Goes(c), W, e)
  <2>1. \A y : <<"translator", y>> \notin W /\ <<"action", y>> \notin W /\ <<"next", y>> \notin W
    BY CallKinds
  <2>2. KeptAs(T, W, e) /\ KeptAs(e, W, e)
    BY <1>4, <2>1, KeptNone DEF e
  <2>3. KeptAs(Called(T, "action", a), W, e) /\ KeptAs(A, W, e)
    BY <1>2, <1>3, <2>1, <2>2, KeptCalled DEF A
  <2>4. KeptAs(Prepared(c), W, e) /\ KeptAs(Acts(c), W, e)
    BY <1>5, <1>6, <2>2, <2>3
  <2>5. KeptAs(Called(Acts(c), "next", Heard(c, On(c))), W, e)
    BY <1>1, <1>3, <2>1, <2>4, KeptCalled
  <2> QED BY <1>7, <2>4, <2>5
<1> QED
  BY <1>8, <1>9, <1>10 DEF e

(* What is called on the move to t.                                          *)
LEMMA OnTheMove ==
    ASSUME NEW c \in Cases, c.fns, NEW t \in States, NEW k, NEW l, NEW r,
           NEW W, KeptAs(k, W, r), NEW U, KeptAs(l, U, r)
    PROVE  /\ W = ActionCalls /\ U = ActionCalls =>
                  /\ KeptAs(Called(Entered(c, k, t), "machineTransition", t), W, r)
                  /\ KeptAs(Moved(c, l, t), U, r)
           /\ W = StateFnCalls /\ U = UsersStateFns /\ t # From(c) =>
                  /\ KeptAs(Called(Entered(c, k, t), "machineTransition", t), W, Entered(c, r, t))
                  /\ KeptAs(Moved(c, l, t), U, Entered(c, r, t))
<1> DEFINE s == From(c)
           m == Called(l, "machineTransition", t)
           x == Called(m, "exit", s)
           n == Called(x, "entry", t)
           left == LeftState(c, k)
           in == Entered(c, k, t)
<1>1. s \in States /\ s \in Args /\ t \in Args
  BY CaseFacts DEF From, Args
<1>2. "machineTransition" \in Callees /\ "exit" \in Callees /\ "entry" \in Callees
  BY DEF Callees
<1> HIDE DEF s
<1>3. Moved(c, l, t) = IF t # s THEN n ELSE l
  BY DEF Moved, s
<1>4. left = IF s \in ExitStates THEN Called(k, "exit", s) ELSE k
  BY DEF LeftState, s
<1>5. in = IF t \in EntryStates THEN Called(left, "entry", t) ELSE left
  BY DEF Entered
<1>6. ASSUME W = ActionCalls, U = ActionCalls
      PROVE  KeptAs(Called(in, "machineTransition", t), W, r) /\ KeptAs(Moved(c, l, t), U, r)
  <2>1. \A a : /\ <<"machineTransition", a>> \notin W /\ <<"exit", a>> \notin W
               /\ <<"entry", a>> \notin W
    BY <1>6, CallKinds
  <2>2. KeptAs(Called(k, "exit", s), W, r)
    BY <1>1, <1>2, <2>1, KeptCalled
  <2> HIDE DEF left, in
  <2>3. KeptAs(left, W, r)
    BY <1>4, <2>2
  <2>4. KeptAs(Called(left, "entry", t), W, r)
    BY <1>1, <1>2, <2>1, <2>3, KeptCalled
  <2>5. KeptAs(in, W, r)
    BY <1>5, <2>3, <2>4
  <2>6. KeptAs(Called(in, "machineTransition", t), W, r)
    BY <1>1, <1>2, <2>1, <2>5, KeptCalled
  <2>7. KeptAs(m, U, r)
    BY <1>1, <1>2, <1>6, <2>1, KeptCalled
  <2> HIDE DEF m
  <2>8. KeptAs(x, U, r)
    BY <1>1, <1>2, <1>6, <2>1, <2>7, KeptCalled
  <2> HIDE DEF x
  <2>9. KeptAs(n, U, r)
    BY <1>1, <1>2, <1>6, <2>1, <2>8, KeptCalled
  <2> QED BY <1>3, <2>6, <2>9
<1>7. ASSUME W = StateFnCalls, U = UsersStateFns, t # s
      PROVE  /\ KeptAs(Called(in, "machineTransition", t), W, Entered(c, r, t))
             /\ KeptAs(Moved(c, l, t), U, Entered(c, r, t))
  <2> DEFINE p == LeftState(c, r)
             q == Entered(c, r, t)
  <2>1. p = IF s \in ExitStates THEN Called(r, "exit", s) ELSE r
    BY DEF LeftState, s
  <2>2. q = IF t \in EntryStates THEN Called(p, "entry", t) ELSE p
    BY DEF Entered
  <2>3. /\ <<"machineTransition", t>> \notin W /\ <<"machineTransition", t>> \notin U
        /\ <<"exit", s>> \in W /\ <<"entry", t>> \in W
        /\ <<"exit", s>> \in U <=> s \in ExitStates
        /\ <<"entry", t>> \in U <=> t \in EntryStates
    BY <1>1, <1>7, CallKinds
  <2> HIDE DEF left, in, p, q
  <2>4. KeptAs(Called(k, "exit", s), W, Called(r, "exit", s))
    BY <1>1, <1>2, <2>3, KeptCalled
  <2>5. KeptAs(left, W, p)
    BY <1>4, <2>1, <2>4
  <2>6. KeptAs(Called(left, "entry", t), W, Called(p, "entry", t))
    BY <1>1, <1>2, <2>3, <2>5, KeptCalled
  <2>7. KeptAs(in, W, q)
    BY <1>5, <2>2, <2>5, <2>6
  <2>8. KeptAs(Called(in, "machineTransition", t), W, q)
    BY <1>1, <1>2, <2>3, <2>7, KeptCalled
  <2>9. KeptAs(m, U, r)
    BY <1>1, <1>2, <2>3, KeptCalled
  <2> HIDE DEF m
  <2>10. KeptAs(x, U, p)
    BY <1>1, <1>2, <2>1, <2>3, <2>9, KeptCalled
  <2> HIDE DEF x
  <2>11. KeptAs(n, U, q)
    BY <1>1, <1>2, <2>2, <2>3, <2>10, KeptCalled
  <2> QED BY <1>3, <1>7, <2>8, <2>11 DEF q
<1> QED
  BY <1>6, <1>7 DEF s

(* The calls k begin with the call of f for a.                               *)
BeginWith(k, f, a) == k \in Seq(CallSet) /\ Len(k) > 0 /\ k[1] = <<f, a>>

LEMMA BeginCalled ==
    ASSUME NEW k, NEW f, NEW a, BeginWith(k, f, a), NEW g \in Callees, NEW b \in Args
    PROVE  BeginWith(Called(k, g, b), f, a)
<1> DEFINE c == <<g, b>>
           q == Append(k, c)
<1>1. c \in CallSet /\ k \in Seq(CallSet) /\ Len(k) > 0 /\ k[1] = <<f, a>>
  BY DEF CallSet, BeginWith
<1> DEFINE S == CallSet
<1> HIDE DEF c, S
<1>2. q \in Seq(S) /\ Len(q) = Len(k) + 1 /\ q[1] = k[1] /\ Len(k) \in Nat
  <2>1. c \in S /\ k \in Seq(S) /\ Len(k) > 0
    BY <1>1 DEF S
  <2> QED BY <2>1
<1> HIDE DEF q
<1>3. BeginWith(q, f, a)
  BY <1>1, <1>2 DEF BeginWith, S
<1> QED
  BY <1>3 DEF q, Called, c

LEMMA BeginsTranslated ==
    ASSUME IInv, Populated, NEW c \in Cases, Cell(c) # NULL, On(c) \in DataEvents, NEW t \in States
    PROVE  LET q == Called(Entered(c, Prepared(c), t), "machineTransition", t)
               r == Called(Prepared(c), "machineTransition", t)
           IN  Head(q) = <<"translator", On(c)>> /\ Head(r) = <<"translator", On(c)>>
<1> DEFINE w == On(c)
           s == From(c)
           a == decls[Cell(c)].action
           k == Prepared(c)
           l == LeftState(c, k)
           n == Entered(c, k, t)
           q == Called(n, "machineTransition", t)
           r == Called(k, "machineTransition", t)
           T == Translated(c)
<1>1. w \in Args /\ s \in Args /\ t \in Args
  BY CellFacts DEF Args
<1>2. a \in Args
  <2>1. decls[Cell(c)] \in Declarations
    BY CellFacts, ListFacts DEF IInv
  <2> QED BY <2>1, MatrixFacts DEF Args
<1>3. /\ "translator" \in Callees /\ "action" \in Callees /\ "machineTransition" \in Callees
      /\ "exit" \in Callees /\ "entry" \in Callees
  BY DEF Callees
<1>4. BeginWith(T, "translator", w)
  <2> DEFINE c1 == <<"translator", w>>
             S == CallSet
  <2>1. T = Append(<<>>, c1)
    BY DEF Translated, Called
  <2>2. c1 \in S
    BY <1>1, <1>3 DEF CallSet
  <2> HIDE DEF c1, S
  <2>3. T \in Seq(S) /\ Len(T) = 1 /\ T[1] = c1
    <3> HIDE DEF T
    <3> QED BY <2>1, <2>2
  <2> HIDE DEF T
  <2> QED BY <2>3 DEF BeginWith, c1, S
<1>5. BeginWith(k, "translator", w)
  <2>1. k = IF HasAction(Cell(c)) THEN Called(T, "action", a) ELSE T
    BY DEF Prepared
  <2> HIDE DEF k, T, a, w
  <2>2. BeginWith(Called(T, "action", a), "translator", w)
    BY <1>2, <1>3, <1>4, BeginCalled
  <2> QED BY <1>4, <2>1, <2>2
<1>6. BeginWith(l, "translator", w)
  <2>1. l = IF s \in ExitStates THEN Called(k, "exit", s) ELSE k
    BY DEF LeftState
  <2> HIDE DEF k, l, w, s
  <2>2. BeginWith(Called(k, "exit", s), "translator", w)
    BY <1>1, <1>3, <1>5, BeginCalled
  <2> QED BY <1>5, <2>1, <2>2
<1>7. BeginWith(n, "translator", w)
  <2>1. n = IF t \in EntryStates THEN Called(l, "entry", t) ELSE l
    BY DEF Entered
  <2> HIDE DEF l, n, w
  <2>2. BeginWith(Called(l, "entry", t), "translator", w)
    BY <1>1, <1>3, <1>6, BeginCalled
  <2> QED BY <1>6, <2>1, <2>2
<1> HIDE DEF n, k, w
<1>8. BeginWith(q, "translator", w) /\ BeginWith(r, "translator", w)
  BY <1>1, <1>3, <1>5, <1>7, BeginCalled
<1> HIDE DEF q, r
<1>9. Head(q) = <<"translator", w>> /\ Head(r) = <<"translator", w>>
  BY <1>8 DEF BeginWith
<1> QED
  BY <1>9 DEF q, r, n, k, w

(* What the property says of case c, if a trigger comes to p.                *)
TakesTheSame(p, c) ==
    LET d == Described(c)
    IN  /\ Only(p.calls, ActionCalls) = Only(d.calls, ActionCalls)
        /\ p.state = d.state
        /\ c.x \in DataEvents /\ array[c.x][c.s] # NULL => Head(p.calls) = <<"translator", c.x>>
        /\ d.state # c.s => Only(p.calls, StateFnCalls) = Only(d.calls, UsersStateFns)

LEMMA SamePath ==
    ASSUME IInv, Populated, NEW c \in Cases, c.kind = "void", c.fns, NEW p, TriggerIs(p, c)
    PROVE  TakesTheSame(p, c)
<1> DEFINE d == Described(c)
           i == Cell(c)
           s == From(c)
           P == Prepared(c)
           e == <<>>
<1>1. s \in States /\ c.s = s /\ c.x = On(c) /\ array[c.x][c.s] = i
  BY CellFacts DEF From, On, Cell
<1> HIDE DEF d
<1>2. CASE i = NULL
  <2>1. p = Vars(e, s, s, On(c))
    BY <1>2 DEF TriggerIs
  <2>2. d.calls = EmptyCall /\ d.state = s
    BY <1>2, DescribedPieces DEF d
  <2>3. KeptAs(e, ActionCalls, e)
    BY KeptNone
  <2>4. EmptyCall = Called(e, "empty", "")
    BY DEF EmptyCall
  <2>5. "empty" \in Callees /\ "" \in Args /\ <<"empty", "">> \notin ActionCalls
    BY CallKinds DEF Callees, Args
  <2> HIDE DEF e
  <2>6. KeptAs(EmptyCall, ActionCalls, e)
    BY <2>3, <2>4, <2>5, KeptCalled
  <2>7. p.calls = e /\ p.state = s
    BY <2>1, VarsFields
  <2>8. Only(p.calls, ActionCalls) = Only(d.calls, ActionCalls)
    BY <2>2, <2>3, <2>6, <2>7 DEF KeptAs
  <2> HIDE DEF i, s
  <2> QED BY <1>1, <1>2, <2>2, <2>7, <2>8 DEF TakesTheSame, d
<1>3. CASE i # NULL /\ HasTransition(i)
  <2> DEFINE t == Goal(c)
             q == Called(Entered(c, P, t), "machineTransition", t)
             m == Moved(c, Goes(c), t)
  <2>1. t \in States
    BY <1>3, CellFacts
  <2>2. p = Vars(q, t, s, On(c))
    BY <1>3 DEF TriggerIs
  <2>3. d.calls = m /\ d.state = t
    BY <1>3, DescribedPieces DEF d
  <2>4. /\ KeptAs(P, ActionCalls, Acts(c)) /\ KeptAs(Goes(c), ActionCalls, Acts(c))
        /\ KeptAs(P, StateFnCalls, e) /\ KeptAs(Goes(c), UsersStateFns, e)
    BY <1>3, BeforeTheMove
  <2>5. KeptAs(q, ActionCalls, Acts(c)) /\ KeptAs(m, ActionCalls, Acts(c))
    BY <2>1, <2>4, OnTheMove
  <2>6. t # s => \E r : KeptAs(q, StateFnCalls, r) /\ KeptAs(m, UsersStateFns, r)
    <3> HIDE DEF e
    <3> QED BY <2>1, <2>4, OnTheMove
  <2>7. On(c) \in DataEvents => Head(q) = <<"translator", On(c)>>
    BY <1>3, <2>1, BeginsTranslated
  <2> HIDE DEF q, t
  <2>8. p.calls = q /\ p.state = t
    BY <2>2, VarsFields
  <2> HIDE DEF m, i, s
  <2> QED BY <1>1, <2>3, <2>5, <2>6, <2>7, <2>8 DEF TakesTheSame, KeptAs, d
<1>4. CASE i # NULL /\ ~HasTransition(i)
  <2> DEFINE q == Called(P, "machineTransition", s)
             k == Acts(c)
  <2>1. p = Vars(q, s, s, On(c))
    BY <1>4 DEF TriggerIs
  <2>2. Settled(c) = s
    BY DEF Settled
  <2>3. d.calls = k /\ d.state = s
    BY <1>4, <2>2, DescribedPieces, Stays DEF d
  <2>4. KeptAs(P, ActionCalls, k) /\ KeptAs(k, ActionCalls, k)
    BY <1>4, BeforeTheMove
  <2>5. "machineTransition" \in Callees /\ s \in Args /\ <<"machineTransition", s>> \notin ActionCalls
    BY <1>1, CallKinds DEF Callees, Args
  <2> HIDE DEF k
  <2>6. KeptAs(q, ActionCalls, k)
    BY <2>4, <2>5, KeptCalled
  <2>7. On(c) \in DataEvents => Head(q) = <<"translator", On(c)>>
    BY <1>1, <1>4, BeginsTranslated
  <2> HIDE DEF q
  <2>8. p.calls = q /\ p.state = s
    BY <2>1, VarsFields
  <2> HIDE DEF i, s
  <2> QED BY <1>1, <2>3, <2>4, <2>6, <2>7, <2>8 DEF TakesTheSame, KeptAs, d
<1> QED
  BY <1>2, <1>3, <1>4

(* A trigger of the generated Python class takes the path the description    *)
(* and the C code take, for every machine whose actions return nothing: the  *)
(* action of the cell once, after the event's translator, the state it       *)
(* leads to, and the functions for leaving the one and entering the other,   *)
(* in this order.                                                            *)
THEOREM PythonFollows == Spec => []PythonTakesTheSame
<1>1. IInv => PythonTakesTheSame
  <2> SUFFICES ASSUME IInv, Populated, NEW c \in Cases, c.kind = "void", c.fns, MayReturn(c)
               PROVE  TakesTheSame(Trigger(GeneratedClass, c), c)
    BY Zenon DEF PythonTakesTheSame, TakesTheSame
  <2> DEFINE class == GeneratedClass
  <2>1. Class(class)
    BY ClassFields
  <2> HIDE DEF class
  <2>2. TriggerIs(Trigger(class, c), c)
    BY <2>1, TriggerPiece
  <2>3. TakesTheSame(Trigger(class, c), c)
    BY <2>2, SamePath
  <2> QED BY <2>3 DEF class
<1> QED
  BY <1>1, Inductive, PTL

-----------------------------------------------------------------------------
(* The documents.                                                            *)

(* The cells are scanned each once.                                          *)
LEMMA CellsScanned == Lists(ScanOrder, Events \X States)
<1> DEFINE ss == SetToSeq(States)
           es == SetToSeq(Events)
           V == Events \X States
           rows == [k \in DOMAIN ss |-> [l \in DOMAIN es |-> <<es[l], ss[k]>>]]
<1>1. /\ ss \in Seq(States) /\ DOMAIN ss = 1..Len(ss) /\ Len(ss) \in Nat
      /\ \A s : s \in States <=> \E k \in 1..Len(ss) : ss[k] = s
      /\ \A k, l \in 1..Len(ss) : ss[k] = ss[l] => k = l
  <2>1. Lists(ss, States)
    BY AllListed, MachineAssumption
  <2> HIDE DEF ss
  <2> QED BY <2>1 DEF Lists, ToSet
<1>2. /\ es \in Seq(Events) /\ DOMAIN es = 1..Len(es) /\ Len(es) \in Nat
      /\ \A x : x \in Events <=> \E k \in 1..Len(es) : es[k] = x
      /\ \A k, l \in 1..Len(es) : es[k] = es[l] => k = l
  <2>1. Lists(es, Events)
    BY AllListed, MachineAssumption
  <2> HIDE DEF es
  <2> QED BY <2>1 DEF Lists, ToSet
<1>3. ScanOrder = FlattenSeq(rows)
  BY Zenon DEF ScanOrder
<1> HIDE DEF ss, es
<1>4. ASSUME NEW k \in 1..Len(ss)
      PROVE  /\ rows[k] \in Seq(V) /\ Len(rows[k]) = Len(es)
             /\ \A l \in 1..Len(es) : rows[k][l] = <<es[l], ss[k]>>
  <2>1. \A l \in 1..Len(es) : <<es[l], ss[k]>> \in V
    BY <1>1, <1>2, <1>4
  <2>2. rows[k] = [l \in 1..Len(es) |-> <<es[l], ss[k]>>]
    BY <1>1, <1>2, <1>4
  <2> HIDE DEF V, rows
  <2> QED BY <1>2, <2>1, <2>2
<1>5. rows \in Seq(Seq(V)) /\ Len(rows) = Len(ss)
  <2>1. DOMAIN rows = 1..Len(ss)
    BY <1>1
  <2>2. \A k \in 1..Len(ss) : rows[k] \in Seq(V)
    BY <1>4
  <2>3. rows = [k \in 1..Len(ss) |-> rows[k]]
    BY <2>1
  <2> DEFINE W == Seq(V)
  <2> HIDE DEF rows, V, W
  <2>4. rows \in Seq(W) /\ Len(rows) = Len(ss)
    BY <1>1, <2>1, <2>2, <2>3 DEF W
  <2> QED BY <2>4 DEF W
<1>6. ASSUME NEW c \in V
      PROVE  Block(FlattenSeq(rows), <<c>>, {c}) /\ FlattenSeq(rows) \in Seq(V)
  <2> DEFINE b == <<c>>
             E == {c}
  <2>1. PICK x \in Events, s \in States : c = <<x, s>>
    OBVIOUS
  <2>2. PICK K \in 1..Len(ss) : ss[K] = s
    BY <1>1
  <2>3. PICK L \in 1..Len(es) : es[L] = x
    BY <1>2
  <2>4. b \in Seq(V) /\ Len(b) = 1 /\ b[1] = c
    OBVIOUS
  <2>5. ASSUME NEW k \in 1..Len(ss), k # K PROVE Free(rows[k], E)
    <3>1. \A l \in 1..Len(es) : rows[k][l] # c
      BY <1>1, <1>4, <2>1, <2>2, <2>5
    <3> QED BY <1>4, <2>5, <3>1 DEF Free
  <2>6. Block(rows[K], b, E)
    <3>1. \A l \in 1..Len(es) : rows[K][l] = c => l = L
      BY <1>2, <1>4, <2>1, <2>2, <2>3
    <3>2. rows[K][L] = c
      BY <1>4, <2>1, <2>2, <2>3
    <3>3. Len(rows[K]) = Len(es)
      BY <1>4, <2>2
    <3> DEFINE o == L - 1
               q == rows[K]
    <3>4. o \in Nat /\ o + 1 = L /\ L <= Len(es)
      BY <1>2, <2>3
    <3> HIDE DEF rows, b, o
    <3>5. \A j \in 1..1 : q[o + j] = b[j]
      BY <2>4, <3>2, <3>4
    <3>6. \A k \in 1..Len(q) : q[k] \in E => k \in (o + 1)..(o + 1)
      BY <3>1, <3>3, <3>4
    <3>7. BlockAt(q, b, E, o)
      BY <2>4, <3>3, <3>4, <3>5, <3>6 DEF BlockAt
    <3> QED BY <3>4, <3>7 DEF Block
  <2> HIDE DEF rows, b, E, V
  <2>7. OneBlock(rows, K, b, E)
    BY <1>5, <2>5, <2>6 DEF OneBlock
  <2>8. FlattenSeq(rows) \in Seq(V) /\ Block(FlattenSeq(rows), b, E)
    BY <1>5, <2>2, <2>4, <2>7, FlattenedBlock
  <2> QED BY <2>8 DEF b, E
<1>7. FlattenSeq(rows) \in Seq(V)
  <2> DEFINE b == <<>>
  <2>1. CASE V # {}
    BY <1>6, <2>1
  <2>2. CASE V = {}
    <3>1. \A k \in 1..Len(rows) : Free(rows[k], {})
      BY DEF Free
    <3>2. b \in Seq(V)
      OBVIOUS
    <3> HIDE DEF b, rows, V
    <3>3. OneBlock(rows, 0, b, {})
      BY <3>1 DEF OneBlock
    <3> QED BY <1>5, <3>2, <3>3, FlattenedBlock
  <2> QED BY <2>1, <2>2
<1> DEFINE q == FlattenSeq(rows)
<1> HIDE DEF q, rows
<1>8. q \in Seq(V) /\ Len(q) \in Nat /\ DOMAIN q = 1..Len(q)
  <2> HIDE DEF V
  <2>1. q \in Seq(V)
    BY <1>7 DEF q
  <2> QED BY <2>1
<1>9. ASSUME NEW c \in V PROVE \E o \in 1..Len(q) : \A k \in 1..Len(q) : q[k] = c <=> k = o
  <2> DEFINE b == <<c>>
             E == {c}
  <2>1. Len(b) = 1 /\ b[1] = c
    OBVIOUS
  <2>2. PICK o \in Nat : BlockAt(q, b, E, o)
    BY <1>6, <1>9 DEF Block, q
  <2> HIDE DEF b
  <2>3. /\ o + 1 <= Len(q) /\ \A j \in 1..1 : q[o + j] = b[j]
        /\ \A k \in 1..Len(q) : q[k] = c => k \in (o + 1)..(o + 1)
    BY <2>1, <2>2 DEF BlockAt
  <2>4. o + 1 \in 1..Len(q) /\ q[o + 1] = c
    BY <1>8, <2>1, <2>3
  <2> QED BY <2>3, <2>4
<1>10. ToSet(q) = V
  <2>1. \A k \in 1..Len(q) : q[k] \in V
    <3> HIDE DEF V
    <3> QED BY <1>8
  <2>2. \A c \in V : \E k \in 1..Len(q) : q[k] = c
    BY <1>9
  <2> HIDE DEF V
  <2> QED BY <1>8, <2>1, <2>2 DEF ToSet
<1>11. ASSUME NEW k \in DOMAIN q, NEW l \in DOMAIN q, q[k] = q[l] PROVE k = l
  <2>1. q[k] \in V
    BY <1>10 DEF ToSet
  <2> HIDE DEF V
  <2> QED BY <1>8, <1>9, <1>11, <2>1
<1> QED
  BY <1>3, <1>8, <1>10, <1>11 DEF Lists, q

(* A diagram drawn so far.                                                   *)
Drawing(a, c, l) == [arcs |-> a, choices |-> c, loopBacks |-> l]

LEMMA DrawingFields ==
    ASSUME NEW a, NEW c, NEW l
    PROVE  /\ Drawing(a, c, l).arcs = a /\ Drawing(a, c, l).choices = c
           /\ Drawing(a, c, l).loopBacks = l
  BY DEF Drawing

AllCells == Events \X States

ArcSet == [from : States, event : Events, to : SUBSET States, action : Actions]

ArcOf(cell) == [from |-> cell[2], event |-> cell[1], to |-> CellTarget(cell),
                action |-> decls[array[cell[1]][cell[2]]].action]

WithChoice(c, to) == IF IsChoice(to) THEN AddUnique(c, to) ELSE c

IsFilled(cell) == array[cell[1]][cell[2]] # NULL

LEMMA DrawCellPiece ==
    ASSUME NEW a, NEW c, NEW l, NEW cell
    PROVE  DrawCell(Drawing(a, c, l), cell) =
               IF ~IsFilled(cell) THEN Drawing(a, c, l)
               ELSE IF CellTarget(cell) = {} THEN Drawing(a, c, Append(l, cell))
               ELSE Drawing(Append(a, ArcOf(cell)), WithChoice(c, CellTarget(cell)), l)
<1> DEFINE v == Drawing(a, c, l)
<1>1. v.arcs = a /\ v.choices = c /\ v.loopBacks = l
  BY DEF Drawing
<1>2. \A q : [v EXCEPT !.loopBacks = q] = Drawing(a, c, q)
  BY DEF Drawing
<1>3. ASSUME IsFilled(cell), CellTarget(cell) = {} PROVE DrawCell(v, cell) = Drawing(a, c, Append(l, cell))
  <2> HIDE DEF v
  <2>1. DrawCell(v, cell) = [v EXCEPT !.loopBacks = Append(v.loopBacks, cell)]
    BY <1>3 DEF DrawCell, IsFilled, CellTarget
  <2>2. [v EXCEPT !.loopBacks = Append(l, cell)] = Drawing(a, c, Append(l, cell))
    BY <1>2
  <2> QED BY <1>1, <2>1, <2>2
<1>4. ASSUME IsFilled(cell), CellTarget(cell) # {}
      PROVE  DrawCell(v, cell) = Drawing(Append(a, ArcOf(cell)), WithChoice(c, CellTarget(cell)), l)
  <2> HIDE DEF v
  <2>1. WithChoice(c, CellTarget(cell))
            = IF IsChoice(CellTarget(cell)) /\ CellTarget(cell) \notin ToSet(c)
              THEN Append(c, CellTarget(cell)) ELSE c
    BY DEF WithChoice, AddUnique
  <2>2. ArcOf(cell).to = CellTarget(cell)
    BY DEF ArcOf
  <2>3. DrawCell(v, cell) = [arcs |-> Append(v.arcs, ArcOf(cell)),
              choices |-> IF IsChoice(ArcOf(cell).to) /\ ArcOf(cell).to \notin ToSet(v.choices)
                          THEN Append(v.choices, ArcOf(cell).to) ELSE v.choices,
              loopBacks |-> v.loopBacks]
    BY <1>4 DEF DrawCell, IsFilled, CellTarget, ArcOf
  <2> QED BY <1>1, <2>1, <2>2, <2>3 DEF Drawing
<1>5. ASSUME ~IsFilled(cell) PROVE DrawCell(v, cell) = v
  BY <1>5 DEF DrawCell, IsFilled
<1> HIDE DEF v
<1> QED
  BY <1>3, <1>4, <1>5 DEF v

(* What a filled cell has an arc, or a loop-back, and a choice from.         *)
LEMMA CellFields ==
    ASSUME IInv, NEW cell \in AllCells, IsFilled(cell)
    PROVE  /\ array[cell[1]][cell[2]] \in DOMAIN decls
           /\ CellTarget(cell) \in SUBSET States /\ ArcOf(cell) \in ArcSet
<1>1. cell[1] \in Events /\ cell[2] \in States
  BY DEF AllCells
<1>2. array[cell[1]][cell[2]] \in DOMAIN decls
  BY <1>1 DEF IInv, ArrayInv, HeldInv, IsFilled
<1> DEFINE i == array[cell[1]][cell[2]]
<1>3. decls[i] \in Declarations
  BY <1>2, ListFacts DEF IInv
<1>4. decls[i].to \subseteq States /\ decls[i].action \in Actions
  BY <1>3, MatrixFacts
<1> QED
  BY <1>1, <1>2, <1>4 DEF CellTarget, ArcOf, ArcSet

(* d[k] is the diagram when k cells have been drawn.                         *)
DrawingSet == {Drawing(a, c, l) : a \in Seq(ArcSet), c \in Seq(SUBSET States), l \in Seq(AllCells)}

Draws(d) ==
    /\ Diagram = d[Len(ScanOrder)] /\ d[0] = Drawing(<<>>, <<>>, <<>>)
    /\ \A k \in 1..Len(ScanOrder) : d[k] = DrawCell(d[k - 1], ScanOrder[k])

LEMMA StaysDrawing ==
    ASSUME IInv, NEW v \in DrawingSet, NEW cell \in AllCells
    PROVE  DrawCell(v, cell) \in DrawingSet
<1> DEFINE A == Seq(ArcSet)
           C == Seq(SUBSET States)
           L == Seq(AllCells)
<1>1. PICK a \in A, c \in C, l \in L : v = Drawing(a, c, l)
  BY DEF DrawingSet
<1>2. Append(l, cell) \in L
  BY <1>1
<1>3. ASSUME IsFilled(cell) PROVE Append(a, ArcOf(cell)) \in A /\ WithChoice(c, CellTarget(cell)) \in C
  <2>1. ArcOf(cell) \in ArcSet /\ CellTarget(cell) \in SUBSET States
    BY <1>3, CellFields
  <2>2. Append(a, ArcOf(cell)) \in A /\ Append(c, CellTarget(cell)) \in C
    BY <1>1, <2>1, AppendProperties
  <2> HIDE DEF C
  <2>3. WithChoice(c, CellTarget(cell)) \in C
    BY <1>1, <2>2 DEF WithChoice, AddUnique
  <2> QED BY <2>2, <2>3
<1>4. \A p \in A, q \in C, r \in L : Drawing(p, q, r) \in DrawingSet
  BY DEF DrawingSet
<1> HIDE DEF A, C, L
<1> QED
  BY <1>1, <1>2, <1>3, <1>4, DrawCellPiece

LEMMA DiagramSteps == ASSUME IInv PROVE \E d : Draws(d)
<1> DEFINE order == ScanOrder
           n == Len(order)
           D == 0..n
           V == DrawingSet
           b == Blank
           step == [k \in 1..n |-> [v \in V |-> DrawCell(v, order[k])]]
           At1(f, k) == IF k = 0 THEN b ELSE DrawCell(f[k - 1], order[k])
<1>1. n \in Nat /\ \A k \in 1..n : order[k] \in AllCells
  <2>1. order \in Seq(AllCells)
    BY CellsScanned DEF Lists, AllCells
  <2> HIDE DEF order
  <2> QED BY <2>1
<1>2. b \in V /\ b = Drawing(<<>>, <<>>, <<>>)
  <2> DEFINE e == <<>>
  <2>1. e \in Seq(ArcSet) /\ e \in Seq(SUBSET States) /\ e \in Seq(AllCells)
    OBVIOUS
  <2>2. b = Drawing(e, e, e)
    BY DEF Blank, Drawing
  <2> HIDE DEF e, b
  <2>3. b \in V
    BY <2>1, <2>2 DEF DrawingSet
  <2> QED BY <2>2, <2>3 DEF e
<1>3. step \in [1..n -> [V -> V]]
  <2>1. ASSUME NEW k \in 1..n, NEW v \in V PROVE DrawCell(v, order[k]) \in V
    BY <1>1, <2>1, StaysDrawing
  <2> HIDE DEF V, n
  <2> QED BY <2>1
<1>4. PICK f : f \in [D -> V] /\ f[0] = b /\ \A k \in 1..n : f[k] = step[k][f[k - 1]]
  <2> HIDE DEF n, V, step, b
  <2>1. WalkFrom(b, step, n, V)
    BY <1>1, <1>2, <1>3 DEF WalkFrom
  <2>2. \E f : Walks(f, b, step, n, V)
    BY <2>1, Iterated
  <2> QED BY <2>2 DEF Walks
<1>5. f = [k \in D |-> At1(f, k)]
  <2>1. ASSUME NEW k \in D PROVE f[k] = At1(f, k)
    <3>1. k # 0 => k \in 1..n /\ k - 1 \in D
      BY <1>1, <2>1
    <3> HIDE DEF V, n, D, b
    <3>2. k # 0 => f[k] = step[k][f[k - 1]] /\ f[k - 1] \in V
      BY <1>4, <3>1
    <3> QED BY <1>4, <3>1, <3>2
  <2> HIDE DEF V, n, D, At1
  <2>2. \A k \in D : f[k] = At1(f, k)
    BY <2>1
  <2> QED BY <1>4, <2>2
<1> DEFINE u == CHOOSE g : g = [k \in D |-> At1(g, k)]
<1>6. Diagram = u[n]
  BY Zenon DEF Diagram
<1>7. u = [k \in D |-> At1(u, k)]
  <2> HIDE DEF At1, D
  <2> QED BY <1>5
<1> HIDE DEF u
<1>8. \A k \in D : u[k] = At1(u, k)
  <2> HIDE DEF At1, D
  <2> QED BY <1>7
<1>9. 0 \in D /\ \A k \in 1..n : k \in D /\ k # 0
  BY <1>1
<1>10. u[0] = b /\ \A k \in 1..n : u[k] = DrawCell(u[k - 1], order[k])
  <2> HIDE DEF D, n, b
  <2> QED BY <1>8, <1>9
<1> QED
  BY <1>2, <1>6, <1>10 DEF Draws

LEMMA OneMore ==
    ASSUME NEW S, NEW q \in Seq(S), NEW x \in S
    PROVE  /\ Append(q, x) \in Seq(S) /\ Len(Append(q, x)) = Len(q) + 1 /\ Len(q) \in Nat
           /\ ToSet(Append(q, x)) = ToSet(q) \cup {x}
<1> DEFINE r == Append(q, x)
<1>1. /\ r \in Seq(S) /\ Len(r) = Len(q) + 1 /\ Len(q) \in Nat
      /\ DOMAIN r = 1..(Len(q) + 1) /\ DOMAIN q = 1..Len(q)
      /\ r[Len(q) + 1] = x /\ \A k \in 1..Len(q) : r[k] = q[k]
  OBVIOUS
<1> HIDE DEF r
<1>2. \A k \in 1..(Len(q) + 1) : k \in 1..Len(q) \/ k = Len(q) + 1
  BY <1>1
<1>3. Len(q) + 1 \in 1..(Len(q) + 1) /\ \A k \in 1..Len(q) : k \in 1..(Len(q) + 1)
  BY <1>1
<1>4. ToSet(r) = ToSet(q) \cup {x}
  BY <1>1, <1>2, <1>3 DEF ToSet
<1> QED
  BY <1>1, <1>4 DEF r

(* The diagram of the cells of P.                                            *)
ArcCells(P) == {c \in P : IsFilled(c) /\ CellTarget(c) # {}}
LoopCells(P) == {c \in P : IsFilled(c) /\ CellTarget(c) = {}}
ChoiceCells(P) == {c \in P : IsFilled(c) /\ IsChoice(CellTarget(c))}

Shows(a, c, l, P) ==
    /\ a \in Seq(ArcSet) /\ ToSet(a) = {ArcOf(cell) : cell \in ArcCells(P)}
    /\ Lists(c, {CellTarget(cell) : cell \in ChoiceCells(P)})
    /\ l \in Seq(AllCells) /\ ToSet(l) = LoopCells(P)
    /\ Len(a) + Len(l) = Cardinality({cell \in P : IsFilled(cell)})

Shown(v, P) == \E a, c, l : Shows(a, c, l, P) /\ v = Drawing(a, c, l)

LEMMA OneMoreCell ==
    ASSUME IInv, NEW P, IsFiniteSet(P), NEW v, Shown(v, P), NEW cell \in AllCells, cell \notin P
    PROVE  Shown(DrawCell(v, cell), P \cup {cell})
<1> DEFINE Q == P \cup {cell}
           F == {d \in P : IsFilled(d)}
           G == {d \in Q : IsFilled(d)}
           to == CellTarget(cell)
<1>1. PICK a, c, l : Shows(a, c, l, P) /\ v = Drawing(a, c, l)
  BY DEF Shown
<1>2. /\ a \in Seq(ArcSet) /\ ToSet(a) = {ArcOf(d) : d \in ArcCells(P)}
      /\ Lists(c, {CellTarget(d) : d \in ChoiceCells(P)})
      /\ l \in Seq(AllCells) /\ ToSet(l) = LoopCells(P)
      /\ Len(a) + Len(l) = Cardinality(F)
  BY <1>1 DEF Shows
<1>3. IsFiniteSet(F) /\ cell \notin F
  BY FS_Subset
<1>4. CASE ~IsFilled(cell)
  <2>1. ArcCells(Q) = ArcCells(P) /\ LoopCells(Q) = LoopCells(P) /\ ChoiceCells(Q) = ChoiceCells(P) /\ G = F
    BY <1>4 DEF ArcCells, LoopCells, ChoiceCells
  <2>2. Shows(a, c, l, Q)
    BY <1>2, <2>1 DEF Shows
  <2>3. DrawCell(v, cell) = Drawing(a, c, l)
    BY <1>1, <1>4, DrawCellPiece
  <2> QED BY <2>2, <2>3 DEF Shown
<1>5. CASE IsFilled(cell) /\ to = {}
  <2>1. ~IsChoice(to)
    BY <1>5, FS_EmptySet DEF IsChoice
  <2>2. /\ ArcCells(Q) = ArcCells(P) /\ LoopCells(Q) = LoopCells(P) \cup {cell}
        /\ ChoiceCells(Q) = ChoiceCells(P) /\ G = F \cup {cell}
    BY <1>5, <2>1 DEF ArcCells, LoopCells, ChoiceCells
  <2>3. Cardinality(G) = Cardinality(F) + 1
    BY <1>3, <2>2, FS_AddElement
  <2> DEFINE m == Append(l, cell)
  <2>4. m \in Seq(AllCells) /\ Len(m) = Len(l) + 1 /\ Len(l) \in Nat /\ ToSet(m) = ToSet(l) \cup {cell}
    BY <1>2, OneMore
  <2>5. Len(a) \in Nat /\ Cardinality(F) \in Nat
    BY <1>2, <1>3, FS_CardinalityType
  <2>6. DrawCell(v, cell) = Drawing(a, c, m)
    BY <1>1, <1>5, DrawCellPiece
  <2> HIDE DEF m, F, G, Q
  <2>7. Len(a) + Len(m) = Cardinality(G)
    BY <1>2, <2>3, <2>4, <2>5
  <2>8. Shows(a, c, m, Q)
    BY <1>2, <2>2, <2>4, <2>7 DEF Shows, G
  <2> QED BY <2>6, <2>8 DEF Shown, Q
<1>6. CASE IsFilled(cell) /\ to # {}
  <2>1. /\ ArcCells(Q) = ArcCells(P) \cup {cell} /\ LoopCells(Q) = LoopCells(P) /\ G = F \cup {cell}
        /\ ChoiceCells(Q) = IF IsChoice(to) THEN ChoiceCells(P) \cup {cell} ELSE ChoiceCells(P)
    BY <1>6 DEF ArcCells, LoopCells, ChoiceCells
  <2>2. Cardinality(G) = Cardinality(F) + 1
    BY <1>3, <2>1, FS_AddElement
  <2> DEFINE b == Append(a, ArcOf(cell))
             d == WithChoice(c, to)
             S == {CellTarget(e) : e \in ChoiceCells(P)}
             T == {CellTarget(e) : e \in ChoiceCells(Q)}
  <2>3. ArcOf(cell) \in ArcSet
    BY <1>6, CellFields
  <2>4. b \in Seq(ArcSet) /\ Len(b) = Len(a) + 1 /\ Len(a) \in Nat /\ ToSet(b) = ToSet(a) \cup {ArcOf(cell)}
    BY <1>2, <2>3, OneMore
  <2>5. Len(l) \in Nat /\ Cardinality(F) \in Nat
    BY <1>2, <1>3, FS_CardinalityType
  <2>6. DrawCell(v, cell) = Drawing(b, d, l)
    BY <1>1, <1>6, DrawCellPiece
  <2>7. ToSet(b) = {ArcOf(e) : e \in ArcCells(Q)}
    BY <1>2, <2>1, <2>4
  <2>8. Lists(d, T)
    <3>1. CASE IsChoice(to)
      <4>1. T = S \cup {to}
        BY <2>1, <3>1
      <4>2. d = AddUnique(c, to) /\ Lists(c, S)
        BY <1>2, <3>1 DEF WithChoice
      <4> HIDE DEF d, S, T, to
      <4> QED BY <4>1, <4>2, UniqueAdded
    <3>2. CASE ~IsChoice(to)
      <4>1. T = S /\ d = c
        BY <2>1, <3>2 DEF WithChoice
      <4> HIDE DEF d, T
      <4> QED BY <1>2, <4>1
    <3> QED BY <3>1, <3>2
  <2> HIDE DEF b, d, F, G, Q
  <2>9. Len(b) + Len(l) = Cardinality(G)
    BY <1>2, <2>2, <2>4, <2>5
  <2>10. Shows(b, d, l, Q)
    BY <1>2, <2>1, <2>4, <2>7, <2>8, <2>9 DEF Shows, G
  <2> QED BY <2>6, <2>10 DEF Shown, Q
<1> QED
  BY <1>4, <1>5, <1>6

LEMMA NothingShown == Shown(Drawing(<<>>, <<>>, <<>>), {})
<1> DEFINE e == <<>>
<1>1. e \in Seq(ArcSet) /\ e \in Seq(AllCells) /\ Len(e) = 0 /\ ToSet(e) = {} /\ Lists(e, {})
  <2>1. e \in Seq(ArcSet) /\ e \in Seq(AllCells) /\ Len(e) = 0
    OBVIOUS
  <2>2. ToSet(e) = {}
    BY DEF ToSet
  <2> QED BY <2>1, <2>2, NoneListed
<1>2. ArcCells({}) = {} /\ LoopCells({}) = {} /\ ChoiceCells({}) = {}
  BY DEF ArcCells, LoopCells, ChoiceCells
<1>3. /\ {cell \in {} : IsFilled(cell)} = {}
      /\ {ArcOf(cell) : cell \in {}} = {} /\ {CellTarget(cell) : cell \in {}} = {}
  OBVIOUS
<1>4. Cardinality({}) = 0
  BY FS_EmptySet
<1> HIDE DEF e
<1>5. Shows(e, e, e, {})
  <2>1. ToSet(e) = {ArcOf(cell) : cell \in ArcCells({})} /\ ToSet(e) = LoopCells({})
    BY <1>1, <1>2, <1>3
  <2>2. {CellTarget(cell) : cell \in ChoiceCells({})} = {}
    BY <1>2, <1>3
  <2>3. Lists(e, {CellTarget(cell) : cell \in ChoiceCells({})})
    BY <1>1, <2>2
  <2>4. Len(e) + Len(e) = Cardinality({cell \in {} : IsFilled(cell)})
    BY <1>1, <1>3, <1>4
  <2> QED BY <1>1, <2>1, <2>3, <2>4 DEF Shows
<1> QED
  BY <1>5 DEF Shown, e

LEMMA DiagramShows == ASSUME IInv PROVE Shown(Diagram, AllCells)
<1> DEFINE order == ScanOrder
           n == Len(order)
           P(k) == {order[j] : j \in 1..k}
<1>1. PICK d : Draws(d)
  BY DiagramSteps
<1>2. Diagram = d[n] /\ d[0] = Drawing(<<>>, <<>>, <<>>) /\ \A k \in 1..n : d[k] = DrawCell(d[k - 1], order[k])
  BY <1>1 DEF Draws
<1>3. /\ n \in Nat /\ DOMAIN order = 1..n /\ (\A k \in 1..n : order[k] \in AllCells)
      /\ P(n) = AllCells /\ \A k, l \in 1..n : order[k] = order[l] => k = l
  <2>1. order \in Seq(AllCells) /\ ToSet(order) = AllCells /\ \A k, l \in DOMAIN order : order[k] = order[l] => k = l
    BY CellsScanned DEF Lists, AllCells
  <2> HIDE DEF order
  <2> QED BY <2>1 DEF ToSet
<1> HIDE DEF order, n
<1>4. \A k \in 0..n : IsFiniteSet(P(k)) /\ Shown(d[k], P(k))
  <2> DEFINE S == {k \in 0..n : ~(IsFiniteSet(P(k)) /\ Shown(d[k], P(k)))}
  <2> SUFFICES ASSUME S # {} PROVE FALSE
    OBVIOUS
  <2>1. S \subseteq Nat
    BY <1>3
  <2>2. PICK k \in S : \A j \in S : k <= j
    BY <2>1, LeastNat
  <2>3. P(0) = {}
    OBVIOUS
  <2> HIDE DEF P
  <2>4. k # 0
    BY <1>2, <2>2, <2>3, NothingShown, FS_EmptySet
  <2>5. k \in 1..n /\ k - 1 \in 0..n /\ k \in Nat /\ ~(k <= k - 1)
    BY <1>3, <2>2, <2>4
  <2>6. IsFiniteSet(P(k - 1)) /\ Shown(d[k - 1], P(k - 1))
    BY <2>2, <2>5
  <2>7. P(k) = P(k - 1) \cup {order[k]} /\ order[k] \notin P(k - 1)
    <3>1. 1..k = (1..(k - 1)) \cup {k} /\ \A j \in 1..(k - 1) : j \in 1..n /\ j # k
      BY <1>3, <2>5
    <3> QED BY <1>3, <2>5, <3>1 DEF P
  <2>8. order[k] \in AllCells /\ d[k] = DrawCell(d[k - 1], order[k])
    BY <1>2, <1>3, <2>5
  <2>9. Shown(d[k], P(k))
    BY <2>6, <2>7, <2>8, OneMoreCell
  <2>10. IsFiniteSet(P(k))
    BY <2>6, <2>7, FS_AddElement
  <2> QED BY <2>2, <2>9, <2>10
<1>5. n \in 0..n
  BY <1>3
<1> HIDE DEF P
<1> QED
  BY <1>2, <1>3, <1>4, <1>5

(* What is known of counts, besides IInv: one that is not 0 is that of the   *)
(* states in which the event is handled by the declaration it is counted for. *)
RowOf(x, i) == {s \in States : array[x][s] = i}

CountedInv ==
    \A x \in Events : count[x] # 0 => single[x] # NULL /\ count[x] = Cardinality(RowOf(x, single[x]))

(* A declaration about to fill its first cell of an event has none of it yet. *)
LEMMA RowBegins ==
    ASSUME IInv, at = "states", states # <<>>, array[Head(events)][Head(states)] = NULL, StatesDone = 0
    PROVE  RowOf(Head(events), pai) = {}
<1> DEFINE x == Head(events)
           t == Head(states)
<1>0. ListsInv /\ FilledInv /\ HeldInv
  BY DEF IInv, ArrayInv
<1>1. /\ pai \in DOMAIN decls /\ pai \in Nat \ {0} /\ x \in Events
      /\ StatesDone + 1 \in StatePositions(pai) /\ t = StatesOf(pai)[StatesDone + 1]
  BY <1>0, EventCursor, StateCursor, ListFacts
<1> SUFFICES ASSUME NEW s \in States, array[x][s] = pai PROVE FALSE
  BY DEF RowOf
<1>2. PICK k \in EventPositions(pai), p \in StatePositions(pai) : FilledWith(pai, k, p, x, s)
  BY <1>0, <1>1 DEF HeldInv, NULL
<1>3. Filled(pai, k, p) /\ EventsOf(pai)[k] = x /\ p >= 1
  BY <1>2 DEF FilledWith, StatePositions
<1>4. k <= EventsDone
  <2>1. ~(p <= StatesDone)
    BY <1>3 DEF StatePositions
  <2>2. ~(pai < pai)
    BY <1>1
  <2> QED BY <1>3, <2>1, <2>2 DEF Filled
<1>5. Filled(pai, k, StatesDone + 1)
  BY <1>4 DEF Filled
<1>6. array[EventsOf(pai)[k]][StatesOf(pai)[StatesDone + 1]] = pai
  BY <1>0, <1>1, <1>5 DEF FilledInv
<1> QED
  BY <1>1, <1>3, <1>6 DEF NULL

LEMMA RowsAreCounted == Spec => [](IInv /\ CountedInv)
<1>1. Init => CountedInv
  BY DEF Init, CountedInv
<1>2. ASSUME IInv, CountedInv, [Next]_vars PROVE CountedInv'
  <2>1. CASE AddCell
    <3> DEFINE h == Head(events)
               t == Head(states)
    <3>1. /\ array' = [array EXCEPT ![h][t] = pai] /\ single' = single
          /\ count' = [count EXCEPT ![h] = IF single[h] = pai THEN @ + 1 ELSE @]
          /\ at = "states" /\ states # <<>> /\ array[h][t] = NULL
      BY <2>1 DEF AddCell, Record
    <3>2. /\ array \in [Events -> [States -> Index \cup {NULL}]]
          /\ single \in [Events -> Index \cup {NULL}] /\ count \in [Events -> Nat]
          /\ count[h] = IF single[h] = pai THEN StatesDone ELSE 0
      BY <1>2, <3>1 DEF IInv, ArrayInv, CountInv
    <3>3. h \in Events /\ t \in States /\ pai # NULL /\ pai \in Nat
      BY <1>2, <3>1, EventCursor, StateCursor, ListFacts DEF IInv, NULL
    <3>4. StatesDone = 0 => RowOf(h, pai) = {}
      BY <1>2, <3>1, RowBegins
    <3> HIDE DEF h, t
    <3> SUFFICES ASSUME NEW x \in Events, count'[x] # 0
                 PROVE  single'[x] # NULL /\ count'[x] = Cardinality(RowOf(x, single[x])')
      BY <3>1 DEF CountedInv
    <3>5. CASE x # h
      <4>1. RowOf(x, single[x])' = RowOf(x, single[x])
        BY <3>1, <3>2, <3>3, <3>5 DEF RowOf
      <4>2. count'[x] = count[x]
        BY <3>1, <3>2, <3>5
      <4> QED BY <1>2, <3>1, <4>1, <4>2 DEF CountedInv
    <3>6. CASE x = h
      <4>1. single[h] = pai
        <5> SUFFICES ASSUME single[h] # pai PROVE FALSE
          OBVIOUS
        <5>1. count'[h] = count[h] /\ count[h] = 0
          BY <3>1, <3>2, <3>3
        <5> QED BY <3>6, <5>1
      <4> DEFINE R == RowOf(h, pai)
      <4>2. RowOf(x, single[x])' = R \cup {t}
        BY <3>1, <3>2, <3>3, <3>6, <4>1 DEF RowOf
      <4>3. t \notin R /\ IsFiniteSet(R)
        BY <3>1, <3>3, MachineAssumption, FS_Subset DEF RowOf
      <4>4. Cardinality(R) = count[h]
        <5>1. CASE count[h] = 0
          <6>1. R = {}
            BY <3>2, <3>4, <4>1, <5>1
          <6> QED BY <5>1, <6>1, FS_EmptySet
        <5>2. CASE count[h] # 0
          BY <1>2, <3>3, <4>1, <5>2 DEF CountedInv
        <5> QED BY <5>1, <5>2
      <4> HIDE DEF R
      <4>5. Cardinality(R \cup {t}) = Cardinality(R) + 1
        BY <4>3, FS_AddElement
      <4>6. count'[h] = count[h] + 1
        BY <3>1, <3>2, <3>3, <4>1
      <4> QED BY <3>1, <3>3, <3>6, <4>1, <4>2, <4>4, <4>5, <4>6
    <3> QED BY <3>5, <3>6
  <2>2. CASE StartEvent
    <3> DEFINE h == Head(events)
    <3>1. /\ single' = [single EXCEPT ![h] = IF @ = NULL THEN pai ELSE @] /\ array' = array
          /\ count' = [count EXCEPT ![h] = 0]
      BY <2>2 DEF StartEvent
    <3>2. single \in [Events -> Index \cup {NULL}] /\ count \in [Events -> Nat]
      BY <1>2 DEF IInv, CountInv
    <3> HIDE DEF h
    <3>3. \A x \in Events : count'[x] # 0 => x # h
      BY <3>1, <3>2
    <3>4. \A x \in Events : x # h => single'[x] = single[x] /\ count'[x] = count[x]
                                     /\ RowOf(x, single[x])' = RowOf(x, single[x])
      BY <3>1, <3>2 DEF RowOf
    <3> QED BY <1>2, <3>3, <3>4 DEF CountedInv
  <2>3. CASE UNCHANGED <<array, single, count>>
    BY <1>2, <2>3 DEF CountedInv, RowOf
  <2> QED
    BY <1>2, <2>1, <2>2, <2>3 DEF Next, ProcessActionInfo, RefuseCell, EndEvent, EndActionInfo,
       vars, records
<1> QED
  BY <1>1, <1>2, Inductive, PTL DEF Spec

(* The chart's cell, and what it is read from.                               *)
LEMMA ChartCells ==
    ASSUME IInv, Populated, NEW x \in Events, NEW s \in States
    PROVE  /\ ChartCell(x, s).action # none <=> array[x][s] # NULL
           /\ array[x][s] = NULL => ChartCell(x, s).to = {}
           /\ array[x][s] # NULL =>
                 /\ array[x][s] \in DOMAIN decls
                 /\ ChartCell(x, s) = [action |-> decls[array[x][s]].action, to |-> decls[array[x][s]].to]
                 /\ ChartCell(x, s).to \subseteq States
                 /\ Covers(array[x][s], x, s)
<1>1. CASE array[x][s] = NULL
  BY <1>1 DEF ChartCell
<1>2. CASE array[x][s] # NULL
  <2> DEFINE i == array[x][s]
  <2>1. i \in DOMAIN decls /\ Covers(i, x, s)
    BY <1>2, ArrayAtTheEnd
  <2>2. decls[i].action \in Actions /\ decls[i].to \subseteq States
    <3>1. decls[i] \in Declarations
      BY <2>1, ListFacts DEF IInv
    <3> QED BY <3>1, MatrixFacts
  <2>3. ChartCell(x, s) = [action |-> decls[i].action, to |-> decls[i].to]
    BY <1>2 DEF ChartCell
  <2>4. decls[i].action # none
    BY <2>2, BlankAssumption
  <2> QED BY <1>2, <2>1, <2>2, <2>3, <2>4
<1> QED
  BY <1>1, <1>2

LEMMA ActionTableFollows ==
    ASSUME IInv, Populated
    PROVE  /\ \A x \in Events, s \in States : ChartCell(x, s).action # none =>
                  \E r \in ActionRow(ChartCell(x, s).action) :
                      x \in r.events /\ s \in r.states /\ r.to = ChartCell(x, s).to
           /\ \A i \in DOMAIN decls : \A r \in ActionRow(decls[i].action) :
                  \A x \in r.events, s \in r.states :
                      ChartCell(x, s) = [action |-> decls[i].action, to |-> r.to]
<1> DEFINE Row(i) == [events |-> ToSet(MatrixEvents(decls[i])), states |-> ToSet(MatrixStates(decls[i])),
                      to |-> decls[i].to]
<1>1. \A a : ActionRow(a) = {Row(i) : i \in DeclaredAs(a)}
  BY DEF ActionRow
<1>2. \A i : /\ Row(i).events = ToSet(MatrixEvents(decls[i]))
             /\ Row(i).states = ToSet(MatrixStates(decls[i])) /\ Row(i).to = decls[i].to
  OBVIOUS
<1> HIDE DEF Row
<1>3. ASSUME NEW x \in Events, NEW s \in States, ChartCell(x, s).action # none
      PROVE  \E r \in ActionRow(ChartCell(x, s).action) :
                 x \in r.events /\ s \in r.states /\ r.to = ChartCell(x, s).to
  <2> DEFINE i == array[x][s]
  <2>1. /\ i \in DOMAIN decls /\ ChartCell(x, s).action = decls[i].action
        /\ ChartCell(x, s).to = decls[i].to /\ Covers(i, x, s)
    BY <1>3, ChartCells
  <2> HIDE DEF i
  <2>2. i \in DeclaredAs(ChartCell(x, s).action)
    BY <2>1 DEF DeclaredAs
  <2>3. Row(i) \in ActionRow(ChartCell(x, s).action)
    BY <1>1, <2>2
  <2>4. x \in Row(i).events /\ s \in Row(i).states
    BY <1>2, <2>1 DEF Covers
  <2> QED BY <1>2, <2>1, <2>3, <2>4
<1>4. ASSUME NEW i \in DOMAIN decls, NEW r \in ActionRow(decls[i].action), NEW x \in r.events, NEW s \in r.states
      PROVE  ChartCell(x, s) = [action |-> decls[i].action, to |-> r.to]
  <2>1. PICK j \in DOMAIN decls : decls[j].action = decls[i].action /\ r = Row(j)
    BY <1>1 DEF DeclaredAs
  <2>2. x \in ToSet(MatrixEvents(decls[j])) /\ s \in ToSet(MatrixStates(decls[j])) /\ r.to = decls[j].to
    BY <1>2, <1>4, <2>1
  <2>3. x \in Events /\ s \in States
    <3>1. decls[j] \in Declarations
      BY <2>1, ListFacts DEF IInv
    <3>2. MatrixEvents(decls[j]) \in Seq(Events) /\ MatrixStates(decls[j]) \in Seq(States)
      BY <3>1, MatrixFacts
    <3> QED BY <2>2, <3>2 DEF ToSet
  <2>4. array[x][s] = j /\ j # NULL
    <3>1. Covers(j, x, s)
      BY <2>2 DEF Covers
    <3> QED BY <2>1, <2>3, <3>1, ArrayAtTheEnd, ListFacts DEF IInv, NULL
  <2> QED BY <2>1, <2>2, <2>3, <2>4, ChartCells
<1> QED
  BY <1>3, <1>4

(* Identical handling is claimed for a number of states in which one         *)
(* declaration does handle the event.                                        *)
LEMMA IdenticalStates ==
    ASSUME IInv, CountedInv, NEW x \in Events, RstEvent(x).identicallyIn # 0
    PROVE  \E i \in DOMAIN decls :
               RstEvent(x).identicallyIn = Cardinality({s \in States : array[x][s] = i})
<1>1. CASE inAll[x]
  <2>1. RstEvent(x).identicallyIn = Cardinality(States)
    BY <1>1 DEF RstEvent
  <2>2. PICK i \in Index : \A s \in States : array[x][s] = i
    BY <1>1 DEF IInv, MarkedInv, OneDeclaration
  <2>3. PICK s \in States : TRUE
    BY <2>1, FS_EmptySet
  <2>4. i \in DOMAIN decls
    BY <2>2, <2>3 DEF IInv, ArrayInv, HeldInv, Index, NULL
  <2>5. {t \in States : array[x][t] = i} = States
    BY <2>2
  <2> QED BY <2>1, <2>4, <2>5
<1>2. CASE ~inAll[x]
  <2>1. RstEvent(x).identicallyIn = count[x]
    BY <1>2 DEF RstEvent
  <2>2. single[x] # NULL /\ count[x] = Cardinality(RowOf(x, single[x]))
    BY <2>1 DEF CountedInv
  <2>3. single[x] \in DOMAIN decls
    BY <2>2 DEF IInv, CountInv
  <2> QED BY <2>1, <2>2, <2>3 DEF RowOf
<1> QED
  BY <1>1, <1>2

LEMMA EventTableFollows ==
    ASSUME IInv, CountedInv, Populated, NEW x \in ChartEvents
    PROVE  LET column == {s \in States : ChartCell(x, s).action # none}
           IN  /\ EventRow(x).handledIn = column
               /\ EventRow(x).noHandler <=> column = {}
               /\ EventRow(x).actions = {ChartCell(x, s).action : s \in column} \ {""}
               /\ RstEvent(x).noStateWarning <=> EventRow(x).noHandler
               /\ RstEvent(x).identicallyIn # 0 =>
                      \E i \in DOMAIN decls :
                          RstEvent(x).identicallyIn = Cardinality({s \in States : array[x][s] = i})
<1> DEFINE column == {s \in States : ChartCell(x, s).action # none}
<1>1. x \in Events /\ x \notin Consumed
  BY DEF ChartEvents
<1>2. FactsMatchTheArray /\ TypeOK
  BY FactsFollow, TypeFollows
<1>3. handling[x] = column
  <2>1. handling[x] \subseteq States /\ \A s \in States : s \in handling[x] <=> array[x][s] # NULL
    BY <1>1, <1>2 DEF FactsMatchTheArray, HandlersMatchTheArray, TypeOK
  <2>2. \A s \in States : ChartCell(x, s).action # none <=> array[x][s] # NULL
    BY <1>1, ChartCells
  <2> QED BY <2>1, <2>2
<1>4. caused[x] = {ChartCell(x, s).action : s \in column} \ {""}
  <2>1. caused[x] = {decls[array[x][s]].action : s \in column} \ {""}
    BY <1>1, <1>2, <1>3 DEF FactsMatchTheArray, HandlersMatchTheArray
  <2>2. \A s \in column : ChartCell(x, s).action = decls[array[x][s]].action
    BY <1>1, ChartCells
  <2> HIDE DEF column
  <2> QED BY <2>1, <2>2
<1>5. /\ EventRow(x).handledIn = handling[x] /\ EventRow(x).actions = caused[x]
      /\ EventRow(x).noHandler <=> handling[x] = {}
      /\ RstEvent(x).noStateWarning <=> handling[x] = {}
  BY <1>1 DEF EventRow, RstEvent
<1>6. RstEvent(x).identicallyIn # 0 =>
          \E i \in DOMAIN decls : RstEvent(x).identicallyIn = Cardinality({s \in States : array[x][s] = i})
  BY <1>1, IdenticalStates
<1> QED
  BY <1>3, <1>4, <1>5, <1>6

LEMMA DiagramMembers ==
    ASSUME IInv
    PROVE  /\ ToSet(Diagram.arcs) = {ArcOf(cell) : cell \in ArcCells(AllCells)}
           /\ ToSet(Diagram.choices) = {CellTarget(cell) : cell \in ChoiceCells(AllCells)}
           /\ ToSet(Diagram.loopBacks) = LoopCells(AllCells)
           /\ IsInjective(Diagram.choices)
           /\ Len(Diagram.arcs) + Len(Diagram.loopBacks) = NumberOf(FilledCells)
<1>1. PICK a, c, l : Shows(a, c, l, AllCells) /\ Diagram = Drawing(a, c, l)
  BY DiagramShows DEF Shown
<1>2. Diagram.arcs = a /\ Diagram.choices = c /\ Diagram.loopBacks = l
  BY <1>1, DrawingFields
<1> DEFINE T == {CellTarget(cell) : cell \in ChoiceCells(AllCells)}
           F == {cell \in AllCells : IsFilled(cell)}
<1>3. /\ ToSet(a) = {ArcOf(cell) : cell \in ArcCells(AllCells)} /\ Lists(c, T)
      /\ ToSet(l) = LoopCells(AllCells) /\ Len(a) + Len(l) = Cardinality(F)
  BY <1>1 DEF Shows
<1>4. F = FilledCells
  BY DEF IsFilled, AllCells, FilledCells
<1>5. ToSet(c) = T /\ IsInjective(c)
  <2> HIDE DEF T
  <2> QED BY <1>3 DEF Lists, IsInjective
<1> HIDE DEF F
<1> QED
  BY <1>2, <1>3, <1>4, <1>5 DEF NumberOf

(* The diagram's arcs lead from a state where its row of the chart does.     *)
LEMMA ArcsLead ==
    ASSUME IInv, Populated, NEW s \in States
    PROVE  \A t : t \in Reached(s) <=> \E x \in Events : t \in ChartCell(x, s).to
<1> DEFINE Behind(a) == IF IsChoice(a.to) THEN UNION {c \in ToSet(Diagram.choices) : c = a.to} ELSE a.to
           ArcsOf == {b \in ToSet(Diagram.arcs) : b.from = s}
<1>1. Reached(s) = UNION {Behind(a) : a \in ArcsOf}
  BY DEF Reached
<1>2. ASSUME NEW cell \in ArcCells(AllCells)
      PROVE  /\ ArcOf(cell).from = cell[2] /\ ArcOf(cell).to = CellTarget(cell)
             /\ Behind(ArcOf(cell)) = CellTarget(cell)
  <2> DEFINE to == CellTarget(cell)
  <2>1. ArcOf(cell).from = cell[2] /\ ArcOf(cell).to = to
    BY DEF ArcOf
  <2>2. IsChoice(to) => to \in ToSet(Diagram.choices)
    <3> SUFFICES ASSUME IsChoice(to) PROVE to \in ToSet(Diagram.choices)
      OBVIOUS
    <3>1. cell \in ChoiceCells(AllCells)
      BY <1>2 DEF ArcCells, ChoiceCells
    <3> QED BY <3>1, DiagramMembers
  <2> HIDE DEF to
  <2>3. CASE IsChoice(to)
    <3>1. {c \in ToSet(Diagram.choices) : c = to} = {to}
      BY <2>2, <2>3
    <3>2. UNION {to} = to
      OBVIOUS
    <3> QED BY <2>1, <2>3, <3>1, <3>2 DEF to
  <2>4. CASE ~IsChoice(to)
    BY <2>1, <2>4 DEF to
  <2> QED BY <2>1, <2>3, <2>4 DEF to
<1> HIDE DEF Behind
<1>3. ASSUME NEW x \in Events
      PROVE  /\ <<x, s>> \in AllCells
             /\ IsFilled(<<x, s>>) <=> array[x][s] # NULL
             /\ CellTarget(<<x, s>>) = decls[array[x][s]].to
  BY DEF AllCells, IsFilled, CellTarget
<1>4. ASSUME NEW t, t \in Reached(s) PROVE \E x \in Events : t \in ChartCell(x, s).to
  <2>1. PICK a \in ArcsOf : t \in Behind(a)
    BY <1>1, <1>4
  <2>2. PICK cell \in ArcCells(AllCells) : a = ArcOf(cell)
    BY <2>1, DiagramMembers
  <2>3. cell[2] = s /\ t \in CellTarget(cell)
    BY <1>2, <2>1, <2>2
  <2>4. PICK x \in Events : cell = <<x, s>>
    BY <2>2, <2>3 DEF ArcCells, AllCells
  <2>5. array[x][s] # NULL
    BY <1>3, <2>2, <2>4 DEF ArcCells
  <2>6. ChartCell(x, s).to = decls[array[x][s]].to
    BY <2>5, ChartCells
  <2> QED BY <1>3, <2>3, <2>4, <2>6
<1>5. ASSUME NEW t, NEW x \in Events, t \in ChartCell(x, s).to PROVE t \in Reached(s)
  <2> DEFINE cell == <<x, s>>
  <2>1. array[x][s] # NULL /\ ChartCell(x, s).to = CellTarget(cell)
    BY <1>3, <1>5, ChartCells
  <2>2. cell \in AllCells /\ IsFilled(cell) /\ cell[2] = s
    BY <1>3, <2>1
  <2> HIDE DEF cell
  <2>3. cell \in ArcCells(AllCells)
    BY <1>5, <2>1, <2>2 DEF ArcCells
  <2>4. ArcOf(cell) \in ArcsOf /\ t \in Behind(ArcOf(cell))
    <3>1. ArcOf(cell) \in ToSet(Diagram.arcs)
      BY <2>3, DiagramMembers
    <3> QED BY <1>2, <1>5, <2>1, <2>2, <2>3, <3>1
  <2> QED BY <1>1, <2>4
<1> QED
  BY <1>4, <1>5

LEMMA StateTableFollows ==
    ASSUME IInv, Populated, \A x \in Consumed : handling[x] = {}, NEW s \in States
    PROVE  LET row == {x \in ChartEvents : ChartCell(x, s).action # none}
               leads == UNION {ChartCell(x, s).to : x \in row}
           IN  /\ StateRow(s).events = row
               /\ StateRow(s).actions = {ChartCell(x, s).action : x \in row} \ {""}
               /\ StateRow(s).outbound = leads \ {s}
               /\ StateRow(s).inbound = {t \in States : s \in StateRow(t).outbound}
               /\ Reached(s) = leads
               /\ \A x \in row :
                      (<<x, s>> \in ToSet(Diagram.loopBacks)) <=> ChartCell(x, s).to = {}
<1> DEFINE row == {x \in ChartEvents : ChartCell(x, s).action # none}
           leads == UNION {ChartCell(x, s).to : x \in row}
<1>1. FactsMatchTheArray /\ TypeOK
  BY FactsFollow, TypeFollows
<1>2. \A x : x \in row <=> x \in Events /\ array[x][s] # NULL
  <2>1. ASSUME NEW x \in Events, array[x][s] # NULL PROVE x \notin Consumed
    <3>1. s \in handling[x]
      BY <1>1, <2>1 DEF FactsMatchTheArray, HandlersMatchTheArray
    <3> QED BY <3>1
  <2>2. \A x \in Events : ChartCell(x, s).action # none <=> array[x][s] # NULL
    BY ChartCells
  <2> QED BY <2>1, <2>2 DEF ChartEvents
<1>3. handled[s] = row
  <2>1. handled[s] \subseteq Events
    BY <1>1 DEF TypeOK
  <2>2. \A x \in Events : x \in handled[s] <=> array[x][s] # NULL
    BY <1>1 DEF FactsMatchTheArray, HandlersMatchTheArray
  <2> HIDE DEF row
  <2> QED BY <1>2, <2>1, <2>2
<1>4. taken[s] = {ChartCell(x, s).action : x \in row} \ {""}
  <2> HIDE DEF row
  <2>1. taken[s] = {decls[array[x][s]].action : x \in row} \ {""}
    BY <1>1, <1>3 DEF FactsMatchTheArray, HandlersMatchTheArray
  <2>2. \A x \in row : ChartCell(x, s).action = decls[array[x][s]].action
    BY <1>2, ChartCells
  <2> QED BY <2>1, <2>2
<1>5. \A t : t \in leads <=> \E x \in Events : t \in ChartCell(x, s).to
  <2>1. \A x \in Events : ChartCell(x, s).to # {} => x \in row
    BY <1>2, ChartCells
  <2>2. row \subseteq Events
    BY DEF ChartEvents
  <2> HIDE DEF row
  <2> QED BY <2>1, <2>2
<1>6. outbound[s] = leads \ {s}
  <2>1. outbound[s] \subseteq States /\ inbound[s] \subseteq States
    BY <1>1 DEF TypeOK
  <2>2. \A t \in States : t \in outbound[s] <=>
            t # s /\ \E x \in Events : array[x][s] # NULL /\ t \in decls[array[x][s]].to
    BY <1>1 DEF FactsMatchTheArray, TransitionsAreMirrored
  <2>3. \A t : \A x \in Events : t \in ChartCell(x, s).to <=>
            array[x][s] # NULL /\ t \in decls[array[x][s]].to
    BY ChartCells
  <2>4. \A x \in Events : ChartCell(x, s).to \subseteq States
    BY ChartCells
  <2>5. \A t \in leads : t \in States
    BY <1>5, <2>4
  <2> HIDE DEF leads, row
  <2>6. \A t \in States : t \in outbound[s] <=> t # s /\ t \in leads
    BY <1>5, <2>2, <2>3
  <2> QED BY <2>1, <2>5, <2>6
<1>7. inbound[s] = {t \in States : s \in outbound[t]}
  <2>1. inbound[s] \subseteq States
    BY <1>1 DEF TypeOK
  <2>2. \A t \in States : t \in inbound[s] <=> s \in outbound[t]
    BY <1>1 DEF FactsMatchTheArray, TransitionsAreMirrored
  <2> QED BY <2>1, <2>2
<1>8. Reached(s) = leads
  <2> HIDE DEF leads
  <2> QED BY <1>5, ArcsLead
<1>9. \A x \in row : (<<x, s>> \in ToSet(Diagram.loopBacks)) <=> ChartCell(x, s).to = {}
  <2> SUFFICES ASSUME NEW x \in row
               PROVE  (<<x, s>> \in ToSet(Diagram.loopBacks)) <=> ChartCell(x, s).to = {}
    OBVIOUS
  <2>1. x \in Events /\ array[x][s] # NULL
    BY <1>2
  <2> DEFINE cell == <<x, s>>
  <2>2. cell \in AllCells /\ IsFilled(cell) /\ CellTarget(cell) = ChartCell(x, s).to
    BY <2>1, ChartCells DEF AllCells, IsFilled, CellTarget
  <2> HIDE DEF cell, row
  <2>3. cell \in LoopCells(AllCells) <=> CellTarget(cell) = {}
    BY <2>2 DEF LoopCells
  <2> QED BY <2>2, <2>3, DiagramMembers DEF cell
<1>10. /\ StateRow(s).events = handled[s] /\ StateRow(s).actions = taken[s]
       /\ StateRow(s).inbound = inbound[s] /\ \A t : StateRow(t).outbound = outbound[t]
  BY DEF StateRow
<1> HIDE DEF row, leads
<1> QED
  BY <1>3, <1>4, <1>6, <1>7, <1>8, <1>9, <1>10 DEF row, leads

(* The figures above the tables count the rows that are marked.              *)
LEMMA MarkedRows ==
    /\ NumberOf({x \in ChartEvents : EventRow(x).noHandler}) = EventTableHead.notHandled
    /\ NumberOf({s \in States : StateRow(s).lazy}) = StateTableHead.noEvents
    /\ NumberOf({s \in States : StateRow(s).noEntry}) = StateTableHead.noWayIn
    /\ NumberOf({s \in States : StateRow(s).deadEnd}) = StateTableHead.noWayOut
    /\ NumberOf({s \in States : RstState(s).noWayInWarning}) = RstStatistics.noWayIn
    /\ NumberOf({s \in States : RstState(s).noWayOutWarning}) = HtmlStatistics.noWayOut
<1>1. /\ Summary.notHandled = NumberOf({x \in Events \ Consumed : handling[x] = {}})
      /\ Summary.noEvents = NumberOf({s \in States : handled[s] = {}})
      /\ Summary.noWayIn = NumberOf({s \in States \ {FirstState} : inbound[s] = {}})
      /\ Summary.noWayOut = NumberOf({s \in States : outbound[s] = {}})
  BY DEF Summary, events_with_zero_handlers, states_with_zero_events, states_with_no_way_in,
         states_with_no_way_out
<1>2. /\ EventTableHead.notHandled = Summary.notHandled /\ StateTableHead.noEvents = Summary.noEvents
      /\ StateTableHead.noWayIn = Summary.noWayIn /\ StateTableHead.noWayOut = Summary.noWayOut
      /\ HtmlStatistics.noWayOut = Summary.noWayOut
  BY DEF EventTableHead, StateTableHead, HtmlStatistics
<1>3. RstStatistics.noWayIn = Summary.noWayIn
  BY DEF RstStatistics, Summary
<1>4. {x \in ChartEvents : EventRow(x).noHandler} = {x \in Events \ Consumed : handling[x] = {}}
  BY DEF EventRow, ChartEvents
<1>5. /\ {s \in States : StateRow(s).lazy} = {s \in States : handled[s] = {}}
      /\ {s \in States : StateRow(s).noEntry} = {s \in States \ {FirstState} : inbound[s] = {}}
      /\ {s \in States : StateRow(s).deadEnd} = {s \in States : outbound[s] = {}}
  BY DEF StateRow
<1>6. /\ {s \in States : RstState(s).noWayInWarning} = {s \in States \ {FirstState} : inbound[s] = {}}
      /\ {s \in States : RstState(s).noWayOutWarning} = {s \in States : outbound[s] = {}}
  BY DEF RstState
<1> QED
  BY <1>1, <1>2, <1>3, <1>4, <1>5, <1>6

LEMMA DocumentsFollow == ASSUME IInv, CountedInv PROVE DocumentsTellTheSame
<1> SUFFICES ASSUME Populated, \A x \in Consumed : handling[x] = {} PROVE DocumentsTellTheSame
  BY DEF DocumentsTellTheSame
<1>1. ChartEvents \subseteq Events
  BY DEF ChartEvents
<1>2. \A x \in ChartEvents, s \in States :
         /\ ChartCell(x, s).action # none =>
                \E r \in ActionRow(ChartCell(x, s).action) :
                    x \in r.events /\ s \in r.states /\ r.to = ChartCell(x, s).to
         /\ RstCell(x, s).to = ChartCell(x, s).to
  <2>1. \A x, s : RstCell(x, s).to = ChartCell(x, s).to
    BY DEF RstCell, ChartCell
  <2> QED BY <1>1, <2>1, ActionTableFollows
<1> QED
  BY <1>2, ActionTableFollows, EventTableFollows, StateTableFollows, MarkedRows, DiagramMembers, Zenon
  DEF DocumentsTellTheSame

(* What the HTML, RST and PlantUML writers print of a machine says the same   *)
(* of it, for every description without a matrix that names a consumed       *)
(* event: the chart, the action, event and state tables and sections, the    *)
(* diagram, and the figures above the tables; identical handling is never    *)
(* claimed for more states than one declaration handles the event in.        *)
THEOREM DocumentsAgree == Spec => []DocumentsTellTheSame
  BY RowsAreCounted, DocumentsFollow, PTL
=============================================================================
