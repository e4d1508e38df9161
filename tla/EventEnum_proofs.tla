-------------------------- MODULE EventEnum_proofs ---------------------------
(***************************************************************************)
(* Proofs about the enumeration of events, for trees of machines of any    *)
(* size and depth: the values of all machines are distinct, the listings   *)
(* agree with them, and the finder leads every event to its machine, as    *)
(* long as the machine whose noEvent closes a range has no sub-machines.   *)
(***************************************************************************)
EXTENDS EventEnum, FiniteSetTheorems, SequenceTheorems, WellFoundedInduction, TLAPS

(* Induction: what holds for some number holds for a least one.              *)
LEMMA LeastNat ==
    ASSUME NEW S \in SUBSET Nat, S # {}
    PROVE  \E n \in S : \A m \in S : n <= m
<1>1. IsWellFoundedOn(OpToRel(<, Nat), Nat)
  BY NatLessThanWellFounded
<1>2. \E n \in S : \A m \in S : ~(m < n)
  <2>1. PICK n \in S : \A m \in S : ~(<<m, n>> \in OpToRel(<, Nat))
    BY <1>1, WFMin
  <2> QED BY <2>1 DEF OpToRel
<1> QED
  BY <1>2

(* Recursion: there is a function with its equation's values if the value at *)
(* d depends on the values at members of lower rank only. "B" maps a         *)
(* function to the values its equation gives.                                *)
Causal(B, D, V, rank) ==
    \A f, g \in [D -> V], d \in D :
        (\A k \in D : rank[k] < rank[d] => f[k] = g[k]) => B[f][d] = B[g][d]

WellDefined(B, D, V, rank, R) ==
    /\ V # {} /\ B \in [[D -> V] -> [D -> V]]
    /\ rank \in [D -> Nat] /\ R \in Nat /\ \A d \in D : rank[d] <= R
    /\ Causal(B, D, V, rank)

LEMMA FixedPoint ==
    ASSUME NEW D, NEW V, NEW rank, NEW R, NEW B, WellDefined(B, D, V, rank, R)
    PROVE  \E f \in [D -> V] : B[f] = f
<1>0. /\ V # {} /\ B \in [[D -> V] -> [D -> V]]
      /\ rank \in [D -> Nat] /\ R \in Nat /\ \A d \in D : rank[d] <= R
      /\ Causal(B, D, V, rank)
  BY DEF WellDefined
<1> DEFINE Upto(n, f) == f \in [D -> V] /\ \A d \in D : rank[d] < n => B[f][d] = f[d]
           S == {n \in Nat : ~\E f : Upto(n, f)}
<1>1. S = {}
  <2> SUFFICES ASSUME S # {} PROVE FALSE
    OBVIOUS
  <2>1. PICK n \in S : \A m \in S : n <= m
    BY LeastNat
  <2>2. n # 0
    <3>1. PICK v \in V : TRUE
      BY <1>0
    <3>2. Upto(0, [d \in D |-> v])
      BY <1>0
    <3> QED BY <3>2
  <2>3. n - 1 \in Nat /\ n - 1 \notin S
    BY <2>1, <2>2
  <2>4. PICK f : Upto(n - 1, f)
    BY <2>3
  <2>5. B[f] \in [D -> V]
    BY <1>0, <2>4
  <2>6. ASSUME NEW d \in D, rank[d] < n PROVE B[B[f]][d] = B[f][d]
    <3>1. \A k \in D : rank[k] < rank[d] => B[f][k] = f[k]
      BY <1>0, <2>3, <2>4, <2>6
    <3> QED BY <1>0, <2>4, <2>5, <3>1 DEF Causal
  <2>7. Upto(n, B[f])
    BY <2>5, <2>6
  <2> QED BY <2>7
<1>2. PICK f : Upto(R + 1, f)
  <2> HIDE DEF Upto
  <2>1. R + 1 \in Nat
    BY <1>0
  <2> QED BY <1>1, <2>1
<1>3. B[f] \in [D -> V]
  BY <1>0, <1>2
<1>4. \A d \in D : B[f][d] = f[d]
  <2>1. \A d \in D : rank[d] < R + 1
    BY <1>0
  <2> QED BY <1>2, <2>1
<1>5. B[f] = f
  BY <1>2, <1>3, <1>4
<1> QED
  BY <1>2, <1>5

-----------------------------------------------------------------------------
(* The tree of declarations.                                                 *)

(* A sub-machine is declared after its parent, and stands once in the list   *)
(* of its parent and in no other.                                            *)
TreeInv ==
    /\ TopLevel \in Declared
    /\ \A m \in Declared \ {TopLevel} :
          /\ parent[m] \in Declared /\ parent[m] < m
          /\ \E i \in DOMAIN machine_list[parent[m]] : machine_list[parent[m]][i] = m
    /\ \A m \in Declared : \A i \in DOMAIN machine_list[m] :
          /\ machine_list[m][i] \in Declared \ {TopLevel}
          /\ parent[machine_list[m][i]] = m
          /\ \A j \in DOMAIN machine_list[m] : machine_list[m][i] = machine_list[m][j] => i = j

IInv == TypeOK /\ TreeInv

(* A list is a function on its places; a list with one more member.         *)
LEMMA ListFunction ==
    ASSUME NEW S, NEW s \in Seq(S)
    PROVE  s \in [1..Len(s) -> S] /\ DOMAIN s = 1..Len(s) /\ Len(s) \in Nat
  OBVIOUS

LEMMA Appended ==
    ASSUME NEW S, NEW s \in Seq(S), NEW e \in S
    PROVE  /\ Append(s, e) \in Seq(S) /\ Len(Append(s, e)) = Len(s) + 1
           /\ \A i \in 1..Len(s) : Append(s, e)[i] = s[i]
           /\ Append(s, e)[Len(s) + 1] = e
  OBVIOUS

LEMMA TypeFacts ==
    ASSUME TypeOK
    PROVE  /\ Declared = 1..Len(numEvents) /\ Len(numEvents) \in Nat /\ MaxMachines \in Nat /\ Len(numEvents) <= MaxMachines
           /\ parent \in [Declared -> 0..MaxMachines]
           /\ numEvents \in [Declared -> 1..MaxEvents] /\ 1..MaxEvents \subseteq Nat
           /\ returns \in [Declared -> Returns]
           /\ machine_list \in [Declared -> Seq(1..MaxMachines)]
<1>1. MaxMachines \in Nat /\ 1..MaxEvents \subseteq Nat
  BY BoundsAssumption
<1>2. parent \in Seq(0..MaxMachines) /\ numEvents \in Seq(1..MaxEvents) /\ returns \in Seq(Returns)
  BY DEF TypeOK
<1>3. machine_list \in Seq(Seq(1..MaxMachines))
  BY DEF TypeOK
<1>4. Len(parent) = Len(numEvents) /\ Len(returns) = Len(numEvents) /\ Len(machine_list) = Len(numEvents)
      /\ Len(numEvents) <= MaxMachines
  BY DEF TypeOK
<1>5. Declared = 1..Len(numEvents) /\ Len(numEvents) \in Nat
  BY <1>2 DEF Declared
<1>6. machine_list \in [Declared -> Seq(1..MaxMachines)]
  BY <1>3, <1>4, <1>5, ListFunction
<1>7. parent \in [Declared -> 0..MaxMachines]
  BY <1>2, <1>4, <1>5, ListFunction
<1>8. numEvents \in [Declared -> 1..MaxEvents]
  BY <1>2, <1>5, ListFunction
<1>9. returns \in [Declared -> Returns]
  BY <1>2, <1>4, <1>5, ListFunction
<1> QED
  BY <1>1, <1>4, <1>5, <1>6, <1>7, <1>8, <1>9

LEMMA InitIInv == Init => IInv
<1> SUFFICES ASSUME Init PROVE IInv
  OBVIOUS
<1>1. PICK k \in 1..MaxEvents, r \in Returns :
         numEvents = <<k>> /\ returns = <<r>> /\ parent = <<0>> /\ machine_list = << <<>> >>
  BY DEF Init
<1>2. TypeOK
  <2>1. parent \in Seq(0..MaxMachines) /\ numEvents \in Seq(1..MaxEvents) /\ returns \in Seq(Returns)
    BY <1>1, BoundsAssumption
  <2>2. <<>> \in Seq(1..MaxMachines)
    OBVIOUS
  <2>3. machine_list \in Seq(Seq(1..MaxMachines))
    BY <1>1, <2>2
  <2> QED BY <1>1, <2>1, <2>3, BoundsAssumption DEF TypeOK
<1>3. TreeInv
  <2>1. Declared = {1}
    BY <1>1 DEF Declared
  <2>2. DOMAIN machine_list[1] = {}
    BY <1>1
  <2> QED BY <2>1, <2>2 DEF TreeInv, TopLevel
<1> QED
  BY <1>2, <1>3 DEF IInv

(* What the declaration of one more sub-machine changes.                     *)
LEMMA Grown ==
    ASSUME IInv, NEW p \in Declared, NEW k \in 1..MaxEvents, NEW r \in Returns,
           DeclareSubMachine(p, k, r)
    PROVE  /\ TypeOK'
           /\ Declared' = 1..Len(numEvents) + 1 /\ Declared' = Declared \cup {Len(numEvents) + 1}
           /\ Len(numEvents) + 1 \notin Declared
           /\ \A m \in Declared : parent'[m] = parent[m]
           /\ parent'[Len(numEvents) + 1] = p
           /\ \A m \in Declared : m # p => machine_list'[m] = machine_list[m]
           /\ machine_list'[p] = Append(machine_list[p], Len(numEvents) + 1)
           /\ machine_list'[Len(numEvents) + 1] = <<>>
<1> DEFINE n == Len(numEvents)
           q == n + 1
<1>0. TypeOK /\ TreeInv
  BY DEF IInv
<1>1. /\ Declared = 1..n /\ n \in Nat /\ MaxMachines \in Nat /\ n < MaxMachines
      /\ parent \in [Declared -> 0..MaxMachines] /\ numEvents \in [Declared -> 1..MaxEvents]
      /\ machine_list \in [Declared -> Seq(1..MaxMachines)]
      /\ Len(parent) = n /\ Len(machine_list) = n
  BY <1>0, TypeFacts DEF TypeOK, DeclareSubMachine
<1> DEFINE ml == [machine_list EXCEPT ![p] = Append(@, q)]
<1>2. /\ parent' = Append(parent, p) /\ numEvents' = Append(numEvents, k)
      /\ returns' = Append(returns, r) /\ machine_list' = Append(ml, <<>>)
  BY DEF DeclareSubMachine
<1>3. Append(machine_list[p], q) \in Seq(1..MaxMachines)
  <2>1. machine_list[p] \in Seq(1..MaxMachines) /\ q \in 1..MaxMachines
    BY <1>1
  <2> QED BY <2>1
<1>4. ml \in Seq(Seq(1..MaxMachines)) /\ Len(ml) = n
  <2>1. machine_list \in Seq(Seq(1..MaxMachines))
    BY <1>0 DEF TypeOK
  <2>2. p \in 1..Len(machine_list)
    BY <1>1
  <2> QED BY <1>1, <1>3, <2>1, <2>2
<1>5. /\ \A m \in 1..n : m # p => ml[m] = machine_list[m]
      /\ ml[p] = Append(machine_list[p], q)
  BY <1>1
<1> HIDE DEF ml
<1>6. TypeOK'
  <2>1. <<>> \in Seq(1..MaxMachines)
    OBVIOUS
  <2>2. machine_list' \in Seq(Seq(1..MaxMachines)) /\ Len(machine_list') = n + 1
    BY <1>2, <1>4, <2>1, Appended
  <2>3. p \in 0..MaxMachines
    BY <1>1
  <2>4. parent \in Seq(0..MaxMachines) /\ numEvents \in Seq(1..MaxEvents) /\ returns \in Seq(Returns)
        /\ Len(returns) = n
    BY <1>0, <1>1 DEF TypeOK
  <2>5. /\ parent' \in Seq(0..MaxMachines) /\ Len(parent') = n + 1
        /\ numEvents' \in Seq(1..MaxEvents) /\ Len(numEvents') = n + 1
        /\ returns' \in Seq(Returns) /\ Len(returns') = n + 1
    <3>1. parent' \in Seq(0..MaxMachines) /\ Len(parent') = n + 1
      BY <1>1, <1>2, <2>3, <2>4, Appended
    <3>2. numEvents' \in Seq(1..MaxEvents) /\ Len(numEvents') = n + 1
      BY <1>2, <2>4, Appended
    <3>3. returns' \in Seq(Returns) /\ Len(returns') = n + 1
      BY <1>2, <2>4, Appended
    <3> QED BY <3>1, <3>2, <3>3
  <2>6. n + 1 <= MaxMachines
    BY <1>1
  <2> QED BY <2>2, <2>5, <2>6 DEF TypeOK
<1>7. /\ Declared' = 1..q /\ Declared' = Declared \cup {q} /\ q \notin Declared
      /\ \A m \in Declared : parent'[m] = parent[m]
      /\ parent'[q] = p
  <2>1. Len(parent') = q /\ Len(numEvents') = q
    BY <1>6, <1>1, <1>2, <1>0, Appended DEF TypeOK
  <2>2. Declared' = 1..q
    <3>1. numEvents' \in Seq(1..MaxEvents)'
      BY <1>6 DEF TypeOK
    <3> QED BY <2>1, <3>1 DEF Declared
  <2>3. parent \in Seq(0..MaxMachines)
    BY <1>0 DEF TypeOK
  <2>4. p \in 0..MaxMachines
    BY <1>1
  <2>5. (\A m \in 1..n : parent'[m] = parent[m]) /\ parent'[q] = p
    <3>1. /\ \A i \in 1..Len(parent) : Append(parent, p)[i] = parent[i]
          /\ Append(parent, p)[Len(parent) + 1] = p
      BY <2>3, <2>4, Appended
    <3>2. Len(parent) = n /\ parent' = Append(parent, p)
      BY <1>1, <1>2
    <3> HIDE DEF n
    <3> QED BY <3>1, <3>2
  <2>6. 1..q = 1..n \cup {q} /\ q \notin 1..n
    BY <1>1
  <2> HIDE DEF n, q
  <2> QED BY <1>1, <2>2, <2>5, <2>6
<1>8. /\ \A m \in Declared : m # p => machine_list'[m] = machine_list[m]
      /\ machine_list'[p] = Append(machine_list[p], q)
      /\ machine_list'[q] = <<>>
  <2>1. <<>> \in Seq(1..MaxMachines)
    OBVIOUS
  <2>2. /\ \A i \in 1..n : machine_list'[i] = ml[i]
        /\ machine_list'[q] = <<>>
    BY <1>2, <1>4, <2>1, Appended
  <2> QED BY <1>1, <1>5, <2>2
<1> QED
  BY <1>6, <1>7, <1>8

LEMMA DeclareStep ==
    ASSUME IInv, NEW p \in Declared, NEW k \in 1..MaxEvents, NEW r \in Returns,
           DeclareSubMachine(p, k, r)
    PROVE  IInv'
<1> DEFINE n == Len(numEvents)
           q == n + 1
<1>0. TypeOK /\ TreeInv
  BY DEF IInv
<1>1. Declared = 1..n /\ n \in Nat /\ machine_list \in [Declared -> Seq(1..MaxMachines)]
  BY <1>0, TypeFacts
<1>6. TypeOK'
  BY Grown
<1>7. /\ Declared' = 1..q /\ Declared' = Declared \cup {q} /\ q \notin Declared
      /\ \A m \in Declared : parent'[m] = parent[m]
      /\ parent'[q] = p
  BY Grown
<1>8. /\ \A m \in Declared : m # p => machine_list'[m] = machine_list[m]
      /\ machine_list'[p] = Append(machine_list[p], q)
      /\ machine_list'[q] = <<>>
  BY Grown
<1>9. machine_list[p] \in Seq(1..MaxMachines)
  BY <1>1
<1>10. /\ DOMAIN machine_list'[p] = DOMAIN machine_list[p] \cup {Len(machine_list[p]) + 1}
       /\ \A i \in DOMAIN machine_list[p] : machine_list'[p][i] = machine_list[p][i]
       /\ machine_list'[p][Len(machine_list[p]) + 1] = q
  BY <1>8, <1>9
<1>11. TreeInv'
  <2>1. TopLevel \in Declared'
    BY <1>0, <1>7 DEF TreeInv
  <2>2. ASSUME NEW m \in Declared' \ {TopLevel}
        PROVE  /\ parent'[m] \in Declared' /\ parent'[m] < m
               /\ \E i \in DOMAIN machine_list'[parent'[m]] : machine_list'[parent'[m]][i] = m
    <3>1. CASE m = q
      BY <1>1, <1>7, <1>10, <3>1
    <3>2. CASE m # q
      <4>1. m \in Declared \ {TopLevel} /\ parent'[m] = parent[m]
        BY <1>7, <3>2
      <4>2. PICK i \in DOMAIN machine_list[parent[m]] : machine_list[parent[m]][i] = m
        BY <1>0, <4>1 DEF TreeInv
      <4>3. parent[m] \in Declared /\ parent[m] < m
        BY <1>0, <4>1 DEF TreeInv
      <4>4. i \in DOMAIN machine_list'[parent[m]] /\ machine_list'[parent[m]][i] = m
        BY <1>8, <1>10, <4>2, <4>3
      <4> QED BY <1>7, <4>1, <4>3, <4>4
    <3> QED BY <3>1, <3>2
  <2>3. ASSUME NEW m \in Declared', NEW i \in DOMAIN machine_list'[m]
        PROVE  /\ machine_list'[m][i] \in Declared' \ {TopLevel}
               /\ parent'[machine_list'[m][i]] = m
               /\ \A j \in DOMAIN machine_list'[m] : machine_list'[m][i] = machine_list'[m][j] => i = j
    <3>1. m # q
      BY <1>8
    <3>2. m \in Declared
      BY <1>7, <3>1
    <3>3. \A j \in DOMAIN machine_list[m] :
             /\ machine_list[m][j] \in Declared \ {TopLevel} /\ parent[machine_list[m][j]] = m
             /\ \A l \in DOMAIN machine_list[m] : machine_list[m][j] = machine_list[m][l] => j = l
      BY <1>0, <3>2 DEF TreeInv
    <3>4. CASE m # p
      BY <1>7, <1>8, <3>2, <3>3, <3>4
    <3>5. CASE m = p
      <4>1. q # TopLevel
        BY <1>0, <1>1, <1>7 DEF TreeInv
      <4>2. CASE i = Len(machine_list[p]) + 1
        BY <1>7, <1>10, <3>3, <3>5, <4>1, <4>2
      <4>3. CASE i \in DOMAIN machine_list[p]
        BY <1>7, <1>10, <3>3, <3>5, <4>3
      <4> QED BY <1>10, <3>5, <4>2, <4>3
    <3> QED BY <3>4, <3>5
  <2> QED BY <2>1, <2>2, <2>3 DEF TreeInv
<1> QED
  BY <1>6, <1>11 DEF IInv

LEMMA Inductive == Spec => []IInv
<1>1. IInv /\ [Next]_vars => IInv'
  <2> SUFFICES ASSUME IInv, [Next]_vars PROVE IInv'
    OBVIOUS
  <2>1. CASE Next
    BY <2>1, DeclareStep DEF Next
  <2>2. CASE UNCHANGED vars
    BY <2>2 DEF vars, IInv, TypeOK, TreeInv, Declared
  <2> QED BY <2>1, <2>2
<1> QED
  BY InitIInv, <1>1, PTL DEF Spec

(* The lists and lengths of the declarations have the types of TypeOK.       *)
THEOREM TypeCorrect == Spec => []TypeOK
<1>1. IInv => TypeOK
  BY DEF IInv
<1> QED
  BY <1>1, Inductive, PTL

-----------------------------------------------------------------------------
(* The running value of the enumeration.                                     *)

(* Each machine starts where the one before it ends.                         *)
Advances(advance, subs) ==
    Len(subs) \in Nat /\ \A i \in 1..Len(subs) : advance[subs[i]] \in Nat

OneAfterAnother(s, advance, subs, n) ==
    /\ s \in [1..Len(subs) -> Nat]
    /\ 1 \in 1..Len(subs) => s[1] = n
    /\ \A i \in 1..Len(subs) : i # 1 => s[i] = s[i - 1] + advance[subs[i - 1]]

LEMMA StartsIs ==
    ASSUME NEW advance, NEW subs, NEW n \in Nat, Advances(advance, subs)
    PROVE  OneAfterAnother(Starts(advance, subs, n), advance, subs, n)
<1> DEFINE L == 1..Len(subs)
           Value(f, i) == IF i = 1 THEN n ELSE f[i - 1] + advance[subs[i - 1]]
           B == [f \in [L -> Nat] |-> [i \in L |-> Value(f, i)]]
           rank == [i \in L |-> i]
<1>1. Len(subs) \in Nat /\ \A i \in L : i # 1 => i - 1 \in L /\ advance[subs[i - 1]] \in Nat
  BY DEF Advances
<1>2. ASSUME NEW f \in [L -> Nat], NEW i \in L PROVE Value(f, i) \in Nat
  <2>1. i # 1 => f[i - 1] \in Nat /\ advance[subs[i - 1]] \in Nat
    BY <1>1
  <2> QED BY <2>1
<1>3. B \in [[L -> Nat] -> [L -> Nat]]
  BY <1>2
<1>4. rank \in [L -> Nat] /\ \A i \in L : rank[i] <= Len(subs)
  BY <1>1
<1>5. Causal(B, L, Nat, rank)
  <2> SUFFICES ASSUME NEW f \in [L -> Nat], NEW g \in [L -> Nat], NEW i \in L,
                      \A k \in L : rank[k] < rank[i] => f[k] = g[k]
               PROVE  B[f][i] = B[g][i]
    BY DEF Causal
  <2>1. i # 1 => f[i - 1] = g[i - 1]
    BY <1>1
  <2>2. Value(f, i) = Value(g, i)
    BY <2>1
  <2> HIDE DEF Value
  <2> QED BY <2>2
<1>6. PICK f \in [L -> Nat] : B[f] = f
  <2> HIDE DEF B, rank, L
  <2>1. WellDefined(B, L, Nat, rank, Len(subs))
    BY <1>1, <1>3, <1>4, <1>5 DEF WellDefined
  <2> QED BY <2>1, FixedPoint
<1>7. f = [i \in L |-> Value(f, i)]
  <2> HIDE DEF Value
  <2> QED BY <1>6
<1> DEFINE s == Starts(advance, subs, n)
<1>8. s = [i \in L |-> Value(s, i)]
  BY <1>7 DEF Starts
<1>9. \A i \in L : s[i] = Value(s, i)
  <2> HIDE DEF s, Value
  <2> QED BY <1>8
<1>10. DOMAIN s = L
  <2> HIDE DEF s, Value
  <2> QED BY <1>8
<1> HIDE DEF s
<1>11. \A i \in L : s[i] \in Nat
  <2> DEFINE S == {i \in Nat : i \in L /\ s[i] \notin Nat}
  <2> SUFFICES ASSUME S # {} PROVE FALSE
    BY <1>1
  <2>1. PICK i \in S : \A j \in S : i <= j
    BY LeastNat
  <2>2. i # 1
    BY <1>9, <2>1
  <2>3. s[i - 1] \in Nat
    BY <1>1, <2>1, <2>2
  <2>4. s[i] = s[i - 1] + advance[subs[i - 1]]
    BY <1>9, <2>1, <2>2
  <2>5. advance[subs[i - 1]] \in Nat
    BY <1>1, <2>1, <2>2
  <2> QED BY <2>1, <2>3, <2>4, <2>5
<1>12. s \in [L -> Nat]
  <2>1. s = [i \in L |-> s[i]]
    <3> HIDE DEF Value
    <3> QED BY <1>8, <1>9
  <2> QED BY <1>11, <2>1
<1> QED
  BY <1>9, <1>12 DEF s, OneAfterAnother

(* The starts depend on nothing but how far each of the machines advances.   *)
AdvanceAlike(f, g, subs) ==
    Len(subs) \in Nat /\ \A i \in 1..Len(subs) : f[subs[i]] \in Nat /\ f[subs[i]] = g[subs[i]]

LEMMA StartsAgree ==
    ASSUME NEW f, NEW g, NEW subs, AdvanceAlike(f, g, subs), NEW n \in Nat
    PROVE  Starts(f, subs, n) = Starts(g, subs, n)
<1>0. Len(subs) \in Nat /\ \A i \in 1..Len(subs) : f[subs[i]] \in Nat /\ f[subs[i]] = g[subs[i]]
  BY DEF AdvanceAlike
<1> DEFINE s == Starts(f, subs, n)
           t == Starts(g, subs, n)
           S == {i \in Nat : i \in 1..Len(subs) /\ s[i] # t[i]}
<1>1. s \in [1..Len(subs) -> Nat] /\ t \in [1..Len(subs) -> Nat]
  <2>1. Advances(f, subs) /\ Advances(g, subs)
    BY <1>0 DEF Advances
  <2> QED BY <2>1, StartsIs DEF OneAfterAnother
<1>2. /\ 1 \in 1..Len(subs) => s[1] = t[1]
      /\ \A i \in 1..Len(subs) : i # 1 =>
            s[i] = s[i - 1] + f[subs[i - 1]] /\ t[i] = t[i - 1] + g[subs[i - 1]]
  <2>1. /\ 1 \in 1..Len(subs) => s[1] = n
        /\ \A i \in 1..Len(subs) : i # 1 => s[i] = s[i - 1] + f[subs[i - 1]]
    <3>1. Advances(f, subs)
      BY <1>0 DEF Advances
    <3> QED BY <3>1, StartsIs DEF OneAfterAnother
  <2>2. /\ 1 \in 1..Len(subs) => t[1] = n
        /\ \A i \in 1..Len(subs) : i # 1 => t[i] = t[i - 1] + g[subs[i - 1]]
    <3>1. Advances(g, subs)
      BY <1>0 DEF Advances
    <3> QED BY <3>1, StartsIs DEF OneAfterAnother
  <2> HIDE DEF s, t
  <2> QED BY <2>1, <2>2
<1> HIDE DEF s, t
<1>4. S = {}
  <2> SUFFICES ASSUME S # {} PROVE FALSE
    OBVIOUS
  <2>1. PICK i \in S : \A j \in S : i <= j
    BY LeastNat
  <2>2. i # 1
    BY <1>2, <2>1
  <2>3. i - 1 \in 1..Len(subs) /\ i - 1 \in Nat
    BY <1>0, <2>1, <2>2
  <2>4. s[i - 1] = t[i - 1]
    BY <2>1, <2>3
  <2> QED BY <1>0, <1>2, <2>1, <2>2, <2>3, <2>4
<1>5. \A i \in 1..Len(subs) : s[i] = t[i]
  <2> HIDE DEF s, t
  <2> QED BY <1>0, <1>4
<1>6. s = t
  BY <1>1, <1>5
<1> QED
  BY <1>6 DEF s, t

(* What the printing of machine m advances by, if its sub-machines advance   *)
(* as f says.                                                                *)
Printed(f, m) ==
    IF machine_list[m] = <<>> THEN numEvents[m] + 1
    ELSE Starts(f, machine_list[m], numEvents[m] + 1)[Len(machine_list[m])]
             + numEvents[Last(machine_list[m])] + 1

LEMMA TreeFacts ==
    ASSUME IInv
    PROVE  /\ Declared = 1..Len(numEvents) /\ Len(numEvents) \in Nat /\ TopLevel = 1 /\ 1 \in Declared
           /\ \A m \in Declared : numEvents[m] \in Nat /\ numEvents[m] > 0
           /\ \A m \in Declared :
                 /\ machine_list[m] \in Seq(Declared)
                 /\ Len(machine_list[m]) \in Nat /\ DOMAIN machine_list[m] = 1..Len(machine_list[m])
                 /\ machine_list[m] # <<>> =>
                       /\ Len(machine_list[m]) \in 1..Len(machine_list[m])
                       /\ 1 \in 1..Len(machine_list[m])
                       /\ Last(machine_list[m]) = machine_list[m][Len(machine_list[m])]
                 /\ \A i \in 1..Len(machine_list[m]) :
                       /\ machine_list[m][i] \in Declared
                       /\ machine_list[m][i] # 1 /\ m < machine_list[m][i]
<1>1. TypeOK /\ TreeInv
  BY DEF IInv
<1>2. Declared = 1..Len(numEvents) /\ Len(numEvents) \in Nat /\ TopLevel = 1 /\ 1 \in Declared
  BY <1>1, TypeFacts DEF TreeInv, TopLevel
<1>3. \A m \in Declared : numEvents[m] \in Nat /\ numEvents[m] > 0
  BY <1>1, TypeFacts
<1>4. ASSUME NEW m \in Declared
      PROVE  /\ machine_list[m] \in Seq(Declared)
             /\ Len(machine_list[m]) \in Nat /\ DOMAIN machine_list[m] = 1..Len(machine_list[m])
             /\ \A i \in 1..Len(machine_list[m]) :
                   /\ machine_list[m][i] \in Declared
                   /\ machine_list[m][i] # 1 /\ m < machine_list[m][i]
  <2>1. machine_list[m] \in Seq(1..MaxMachines)
    BY <1>1, TypeFacts
  <2>2. Len(machine_list[m]) \in Nat /\ DOMAIN machine_list[m] = 1..Len(machine_list[m])
        /\ machine_list[m] \in [1..Len(machine_list[m]) -> 1..MaxMachines]
    BY <2>1, ListFunction
  <2>3. \A i \in 1..Len(machine_list[m]) :
           machine_list[m][i] \in Declared /\ machine_list[m][i] # 1 /\ m < machine_list[m][i]
    BY <1>1, <1>2, <2>2 DEF TreeInv
  <2>4. machine_list[m] \in [1..Len(machine_list[m]) -> Declared]
    BY <2>2, <2>3
  <2>5. machine_list[m] \in Seq(Declared)
    BY <2>2, <2>4
  <2> QED BY <2>2, <2>3, <2>5
<1>5. ASSUME NEW m \in Declared, machine_list[m] # <<>>
      PROVE  /\ Len(machine_list[m]) \in 1..Len(machine_list[m]) /\ 1 \in 1..Len(machine_list[m])
             /\ Last(machine_list[m]) = machine_list[m][Len(machine_list[m])]
  BY <1>4, <1>5 DEF Last
<1> QED
  BY <1>2, <1>3, <1>4, <1>5

LEMMA PrintedIsNat ==
    ASSUME IInv, NEW m \in Declared, NEW f,
           \A i \in 1..Len(machine_list[m]) : f[machine_list[m][i]] \in Nat
    PROVE  Printed(f, m) \in Nat
<1>1. numEvents[m] + 1 \in Nat /\ Len(machine_list[m]) \in Nat
  BY TreeFacts
<1>2. CASE machine_list[m] = <<>>
  BY <1>1, <1>2 DEF Printed
<1>3. CASE machine_list[m] # <<>>
  <2>1. Starts(f, machine_list[m], numEvents[m] + 1) \in [1..Len(machine_list[m]) -> Nat]
    <3>1. Advances(f, machine_list[m])
      BY <1>1 DEF Advances
    <3> QED BY <1>1, <3>1, StartsIs DEF OneAfterAnother
  <2>2. Len(machine_list[m]) \in 1..Len(machine_list[m]) /\ numEvents[Last(machine_list[m])] \in Nat
    BY <1>3, TreeFacts
  <2> QED BY <1>3, <2>1, <2>2 DEF Printed
<1> QED
  BY <1>2, <1>3

LEMMA AdvanceIs ==
    ASSUME IInv
    PROVE  /\ Advance \in [Declared -> Nat]
           /\ \A m \in Declared : Advance[m] = Printed(Advance, m)
<1> DEFINE N == Len(numEvents)
           B == [f \in [Declared -> Nat] |-> [m \in Declared |-> Printed(f, m)]]
           rank == [m \in Declared |-> N - m]
<1>1. Declared = 1..N /\ N \in Nat /\ 1 \in Declared
  BY TreeFacts
<1>2. ASSUME NEW f \in [Declared -> Nat], NEW m \in Declared PROVE Printed(f, m) \in Nat
  BY TreeFacts, PrintedIsNat
<1>3. B \in [[Declared -> Nat] -> [Declared -> Nat]]
  BY <1>2
<1>4. rank \in [Declared -> Nat] /\ \A m \in Declared : rank[m] <= N
  BY <1>1
<1>5. Causal(B, Declared, Nat, rank)
  <2> SUFFICES ASSUME NEW f \in [Declared -> Nat], NEW g \in [Declared -> Nat], NEW m \in Declared,
                      \A k \in Declared : rank[k] < rank[m] => f[k] = g[k]
               PROVE  B[f][m] = B[g][m]
    BY DEF Causal
  <2>1. ASSUME NEW i \in 1..Len(machine_list[m]) PROVE f[machine_list[m][i]] = g[machine_list[m][i]]
    <3>1. machine_list[m][i] \in Declared /\ m < machine_list[m][i]
      BY TreeFacts
    <3>2. rank[machine_list[m][i]] < rank[m]
      BY <1>1, <3>1
    <3> QED BY <3>1, <3>2
  <2>2. Len(machine_list[m]) \in Nat /\ numEvents[m] + 1 \in Nat
        /\ \A i \in 1..Len(machine_list[m]) : f[machine_list[m][i]] \in Nat
    BY TreeFacts
  <2>3. Starts(f, machine_list[m], numEvents[m] + 1) = Starts(g, machine_list[m], numEvents[m] + 1)
    <3>1. AdvanceAlike(f, g, machine_list[m])
      BY <2>1, <2>2 DEF AdvanceAlike
    <3> QED BY <2>2, <3>1, StartsAgree
  <2>4. Printed(f, m) = Printed(g, m)
    BY <2>3 DEF Printed
  <2> QED BY <2>4
<1>6. PICK f \in [Declared -> Nat] : B[f] = f
  <2> HIDE DEF B, rank, N
  <2>1. WellDefined(B, Declared, Nat, rank, N)
    BY <1>1, <1>3, <1>4, <1>5 DEF WellDefined
  <2> QED BY <2>1, FixedPoint
<1>7. f = [m \in Declared |-> Printed(f, m)]
  BY <1>6
<1>8. Advance = [m \in Declared |-> Printed(Advance, m)]
  BY <1>7 DEF Advance, Printed
<1>9. \A m \in Declared : Advance[m] = Printed(Advance, m)
  BY <1>8
<1>10. \A m \in Declared : Advance[m] \in Nat
  <2> DEFINE S == {k \in Nat : N - k \in Declared /\ Advance[N - k] \notin Nat}
  <2>1. ASSUME S # {} PROVE FALSE
    <3>1. PICK k \in S : \A j \in S : k <= j
      BY <2>1, LeastNat
    <3>2. ASSUME NEW i \in 1..Len(machine_list[N - k])
          PROVE  Advance[machine_list[N - k][i]] \in Nat
      <4> DEFINE c == machine_list[N - k][i]
      <4>1. c \in Declared /\ N - k < c
        BY <3>1, TreeFacts
      <4>2. N - c \in Nat /\ N - c < k /\ N - (N - c) = c
        BY <1>1, <3>1, <4>1
      <4> QED BY <3>1, <4>1, <4>2
    <3>3. Printed(Advance, N - k) \in Nat
      BY <3>1, <3>2, PrintedIsNat
    <3> QED BY <1>9, <3>1, <3>3
  <2>2. ASSUME NEW m \in Declared PROVE Advance[m] \in Nat
    <3>1. N - m \in Nat /\ N - (N - m) = m
      BY <1>1
    <3> QED BY <2>1, <3>1
  <2> QED BY <2>2
<1>11. Advance \in [Declared -> Nat]
  <2>1. Advance = [m \in Declared |-> Advance[m]]
    BY <1>8, <1>9
  <2> QED BY <1>10, <2>1
<1> QED
  BY <1>9, <1>11

-----------------------------------------------------------------------------
(* Where the machines are in the enumeration.                                *)

(* Machine m starts where its place among its parent's sub-machines says.    *)
Entered(begin, first, p) == IF p = TopLevel THEN first ELSE begin[p] + numEvents[p] + 1

Beginning(begin, first, m) ==
    IF m = TopLevel THEN 0
    ELSE Starts(Advance, machine_list[parent[m]], Entered(begin, first, parent[m]))
             [Place(machine_list[parent[m]], m)]

LastValue(begin, first, m) ==
    IF m = TopLevel
    THEN IF machine_list[m] = <<>> THEN first - 1
         ELSE begin[Last(machine_list[m])] + Advance[Last(machine_list[m])]
    ELSE IF machine_list[m] = <<>> THEN begin[m] + numEvents[m]
         ELSE begin[Last(machine_list[m])] + numEvents[Last(machine_list[m])]

LEMMA SubsStart ==
    ASSUME IInv, NEW m \in Declared, NEW n \in Nat
    PROVE  /\ Starts(Advance, machine_list[m], n) \in [1..Len(machine_list[m]) -> Nat]
           /\ 1 \in 1..Len(machine_list[m]) => Starts(Advance, machine_list[m], n)[1] = n
           /\ \A i \in 1..Len(machine_list[m]) : i # 1 =>
                 Starts(Advance, machine_list[m], n)[i] =
                     Starts(Advance, machine_list[m], n)[i - 1] + Advance[machine_list[m][i - 1]]
<1>1. Advances(Advance, machine_list[m])
  BY TreeFacts, AdvanceIs DEF Advances
<1> QED
  BY <1>1, StartsIs DEF OneAfterAnother

LEMMA PlaceIs ==
    ASSUME IInv, NEW m \in Declared, m # 1
    PROVE  /\ parent[m] \in Declared /\ parent[m] < m
           /\ Place(machine_list[parent[m]], m) \in 1..Len(machine_list[parent[m]])
           /\ machine_list[parent[m]][Place(machine_list[parent[m]], m)] = m
<1>1. parent[m] \in Declared /\ parent[m] < m
      /\ \E i \in DOMAIN machine_list[parent[m]] : machine_list[parent[m]][i] = m
  BY DEF IInv, TreeInv, TopLevel
<1>2. DOMAIN machine_list[parent[m]] = 1..Len(machine_list[parent[m]])
  BY <1>1, TreeFacts
<1> QED
  BY <1>1, <1>2 DEF Place

LEMMA PlaceOf ==
    ASSUME IInv, NEW m \in Declared, NEW i \in 1..Len(machine_list[m])
    PROVE  /\ Place(machine_list[m], machine_list[m][i]) = i
           /\ parent[machine_list[m][i]] = m
<1>1. DOMAIN machine_list[m] = 1..Len(machine_list[m])
  BY TreeFacts
<1>2. /\ parent[machine_list[m][i]] = m
      /\ \A j \in DOMAIN machine_list[m] : machine_list[m][i] = machine_list[m][j] => i = j
  BY <1>1 DEF IInv, TreeInv
<1> QED
  BY <1>1, <1>2 DEF Place

LEMMA BeginningIsNat ==
    ASSUME IInv, NEW first \in Nat, NEW m \in Declared, NEW f,
           m # 1 => f[parent[m]] \in Nat
    PROVE  Beginning(f, first, m) \in Nat
<1>1. CASE m = 1
  BY <1>1 DEF Beginning, TopLevel
<1>2. CASE m # 1
  <2> DEFINE p == parent[m]
  <2>1. p \in Declared /\ Place(machine_list[p], m) \in 1..Len(machine_list[p])
    BY <1>2, PlaceIs
  <2>2. Entered(f, first, p) \in Nat
    BY <1>2, <2>1, TreeFacts DEF Entered
  <2>4. Starts(Advance, machine_list[p], Entered(f, first, p)) \in [1..Len(machine_list[p]) -> Nat]
    BY <2>1, <2>2, SubsStart
  <2> QED BY <1>2, <2>1, <2>4 DEF Beginning, TopLevel
<1> QED
  BY <1>1, <1>2

LEMMA EnumerationIs ==
    ASSUME IInv, NEW first \in Nat
    PROVE  \E begin \in [Declared -> Nat] :
              /\ \A m \in Declared : begin[m] = Beginning(begin, first, m)
              /\ Enumeration(first) =
                    [m \in Declared |-> [firstEvent |-> begin[m], noEvent |-> begin[m] + numEvents[m],
                                         lastEvent |-> LastValue(begin, first, m)]]
<1> DEFINE N == Len(numEvents)
           B == [f \in [Declared -> Nat] |-> [m \in Declared |-> Beginning(f, first, m)]]
           rank == [m \in Declared |-> m]
<1>1. Declared = 1..N /\ N \in Nat /\ 1 \in Declared
  BY TreeFacts
<1>2. ASSUME NEW f \in [Declared -> Nat], NEW m \in Declared PROVE Beginning(f, first, m) \in Nat
  BY PlaceIs, BeginningIsNat
<1>3. B \in [[Declared -> Nat] -> [Declared -> Nat]]
  BY <1>2
<1>4. rank \in [Declared -> Nat] /\ \A m \in Declared : rank[m] <= N
  BY <1>1
<1>5. Causal(B, Declared, Nat, rank)
  <2> SUFFICES ASSUME NEW f \in [Declared -> Nat], NEW g \in [Declared -> Nat], NEW m \in Declared,
                      \A k \in Declared : rank[k] < rank[m] => f[k] = g[k]
               PROVE  B[f][m] = B[g][m]
    BY DEF Causal
  <2>1. Beginning(f, first, m) = Beginning(g, first, m)
    <3>1. CASE m = 1
      BY <3>1 DEF Beginning, TopLevel
    <3>2. CASE m # 1
      <4>1. f[parent[m]] = g[parent[m]]
        BY <3>2, PlaceIs
      <4> QED BY <4>1 DEF Beginning, Entered
    <3> QED BY <3>1, <3>2
  <2> QED BY <2>1
<1>6. PICK f \in [Declared -> Nat] : B[f] = f
  <2> HIDE DEF B, rank, N
  <2>1. WellDefined(B, Declared, Nat, rank, N)
    BY <1>1, <1>3, <1>4, <1>5 DEF WellDefined
  <2> QED BY <2>1, FixedPoint
<1>7. f = [m \in Declared |-> Beginning(f, first, m)]
  BY <1>6
<1> DEFINE begin == CHOOSE begin : begin = [m \in Declared |-> Beginning(begin, first, m)]
<1>8. begin = [m \in Declared |-> Beginning(begin, first, m)]
  BY <1>7
<1>9. Enumeration(first) = [m \in Declared |-> [firstEvent |-> begin[m], noEvent |-> begin[m] + numEvents[m],
                                                lastEvent |-> LastValue(begin, first, m)]]
  BY DEF Enumeration, Beginning, Entered, LastValue
<1> HIDE DEF begin
<1>10. \A m \in Declared : begin[m] = Beginning(begin, first, m)
  BY <1>8
<1>11. \A m \in Declared : begin[m] \in Nat
  <2> DEFINE S == {k \in Nat : k \in Declared /\ begin[k] \notin Nat}
  <2>1. ASSUME S # {} PROVE FALSE
    <3>1. PICK k \in S : \A j \in S : k <= j
      BY <2>1, LeastNat
    <3>2. k # 1 => begin[parent[k]] \in Nat
      <4> SUFFICES ASSUME k # 1 PROVE begin[parent[k]] \in Nat
        OBVIOUS
      <4>1. parent[k] \in Declared /\ parent[k] < k
        BY <3>1, PlaceIs
      <4>2. parent[k] \in Nat
        BY <1>1, <4>1
      <4> QED BY <3>1, <4>1, <4>2
    <3> QED BY <1>10, <3>1, <3>2, BeginningIsNat
  <2> QED BY <1>1, <2>1
<1>12. begin \in [Declared -> Nat]
  <2>1. begin = [m \in Declared |-> begin[m]]
    BY <1>8, <1>10
  <2> QED BY <1>11, <2>1
<1> QED
  BY <1>9, <1>10, <1>12

(* Positions in the enumeration: where a machine's events start, its noEvent,*)
(* and the value after the block of the machine and all below it.            *)
First(m) == EventEnum[m].firstEvent
No(m) == EventEnum[m].noEvent
Behind(m) == First(m) + Advance[m]
FirstOfSubs == numEvents[TopLevel] + IF Counted(TopLevel) THEN 2 ELSE 1

LEMMA Layout ==
    ASSUME IInv
    PROVE  /\ FirstOfSubs \in Nat /\ FirstOfSubs > numEvents[1] /\ First(1) = 0
           /\ \A m \in Declared :
                 /\ First(m) \in Nat /\ No(m) = First(m) + numEvents[m] /\ No(m) \in Nat
                 /\ Advance[m] \in Nat /\ Behind(m) \in Nat
                 /\ machine_list[m] = <<>> =>
                       /\ m # 1 => EventEnum[m].lastEvent = No(m) /\ Behind(m) = No(m) + 1
                       /\ m = 1 => EventEnum[m].lastEvent = FirstOfSubs - 1
                 /\ machine_list[m] # <<>> =>
                       /\ m # 1 => /\ EventEnum[m].lastEvent = No(Last(machine_list[m]))
                                   /\ First(machine_list[m][1]) = No(m) + 1
                       /\ m = 1 => /\ EventEnum[m].lastEvent = Behind(Last(machine_list[m]))
                                   /\ First(machine_list[m][1]) = FirstOfSubs
                       /\ m # 1 => Behind(m) = No(Last(machine_list[m])) + 1
                 /\ \A i \in 1..Len(machine_list[m]) : i # 1 =>
                       First(machine_list[m][i]) = Behind(machine_list[m][i - 1])
<1>1. FirstOfSubs \in Nat /\ FirstOfSubs > numEvents[1]
  BY TreeFacts DEF FirstOfSubs, TopLevel
<1>2. PICK begin \in [Declared -> Nat] :
         /\ \A m \in Declared : begin[m] = Beginning(begin, FirstOfSubs, m)
         /\ Enumeration(FirstOfSubs) =
               [m \in Declared |-> [firstEvent |-> begin[m], noEvent |-> begin[m] + numEvents[m],
                                    lastEvent |-> LastValue(begin, FirstOfSubs, m)]]
  BY <1>1, EnumerationIs
<1>3. EventEnum = Enumeration(FirstOfSubs)
  BY DEF EventEnum, FirstOfSubs
<1>4. \A m \in Declared : /\ First(m) = begin[m] /\ No(m) = begin[m] + numEvents[m]
                          /\ EventEnum[m].lastEvent = LastValue(begin, FirstOfSubs, m)
  BY <1>2, <1>3 DEF First, No
<1>5. First(1) = 0
  BY <1>2, <1>4, TreeFacts DEF Beginning, TopLevel
<1>6. ASSUME NEW m \in Declared
      PROVE  /\ First(m) \in Nat /\ No(m) = First(m) + numEvents[m] /\ No(m) \in Nat
             /\ Advance[m] \in Nat /\ Behind(m) \in Nat
  BY <1>2, <1>4, TreeFacts, AdvanceIs DEF Behind
<1>7. ASSUME NEW m \in Declared
      PROVE  /\ machine_list[m] # <<>> =>
                   First(machine_list[m][1]) = IF m = 1 THEN FirstOfSubs ELSE No(m) + 1
             /\ \A i \in 1..Len(machine_list[m]) : i # 1 =>
                   First(machine_list[m][i]) = Behind(machine_list[m][i - 1])
  <2> DEFINE n == Entered(begin, FirstOfSubs, m)
             s == Starts(Advance, machine_list[m], n)
  <2>1. n \in Nat /\ n = IF m = 1 THEN FirstOfSubs ELSE No(m) + 1
    BY <1>1, <1>2, <1>4, TreeFacts DEF Entered, TopLevel
  <2>2. Len(machine_list[m]) \in Nat
    BY TreeFacts
  <2>3. /\ 1 \in 1..Len(machine_list[m]) => s[1] = n
        /\ \A i \in 1..Len(machine_list[m]) : i # 1 => s[i] = s[i - 1] + Advance[machine_list[m][i - 1]]
    BY <2>1, SubsStart
  <2>4. ASSUME NEW i \in 1..Len(machine_list[m]) PROVE First(machine_list[m][i]) = s[i]
    <3>1. machine_list[m][i] \in Declared /\ machine_list[m][i] # 1
      BY TreeFacts
    <3>2. Place(machine_list[m], machine_list[m][i]) = i /\ parent[machine_list[m][i]] = m
      BY PlaceOf
    <3>3. begin[machine_list[m][i]] = s[i]
      BY <1>2, <3>1, <3>2 DEF Beginning, TopLevel
    <3> QED BY <1>4, <3>1, <3>3
  <2> HIDE DEF s, n
  <2>5. machine_list[m] # <<>> => 1 \in 1..Len(machine_list[m])
    BY TreeFacts
  <2>6. ASSUME NEW i \in 1..Len(machine_list[m]), i # 1
        PROVE  First(machine_list[m][i]) = Behind(machine_list[m][i - 1])
    <3>1. i - 1 \in 1..Len(machine_list[m])
      BY <2>2, <2>6
    <3> QED BY <2>3, <2>4, <2>6, <3>1 DEF Behind
  <2> QED BY <2>1, <2>3, <2>4, <2>5, <2>6
<1>8. ASSUME NEW m \in Declared, machine_list[m] = <<>>
      PROVE  /\ m # 1 => EventEnum[m].lastEvent = No(m) /\ Behind(m) = No(m) + 1
             /\ m = 1 => EventEnum[m].lastEvent = FirstOfSubs - 1
  <2>1. Advance[m] = numEvents[m] + 1
    BY <1>8, AdvanceIs DEF Printed
  <2>2. EventEnum[m].lastEvent = LastValue(begin, FirstOfSubs, m)
        /\ First(m) = begin[m] /\ No(m) = begin[m] + numEvents[m]
    BY <1>4
  <2>3. m # 1 => EventEnum[m].lastEvent = No(m)
    BY <1>8, <2>2 DEF LastValue, TopLevel
  <2>4. m = 1 => EventEnum[m].lastEvent = FirstOfSubs - 1
    BY <1>8, <2>2 DEF LastValue, TopLevel
  <2>5. Behind(m) = No(m) + 1
    <3>1. First(m) \in Nat /\ numEvents[m] \in Nat /\ No(m) = First(m) + numEvents[m]
      BY <1>6, TreeFacts
    <3> QED BY <2>1, <3>1 DEF Behind
  <2> QED BY <2>3, <2>4, <2>5
<1>9. ASSUME NEW m \in Declared, machine_list[m] # <<>>
      PROVE  /\ m # 1 => EventEnum[m].lastEvent = No(Last(machine_list[m]))
             /\ m = 1 => EventEnum[m].lastEvent = Behind(Last(machine_list[m]))
             /\ m # 1 => Behind(m) = No(Last(machine_list[m])) + 1
  <2> DEFINE c == Last(machine_list[m])
             L == Len(machine_list[m])
  <2>1. c \in Declared /\ L \in 1..L /\ c = machine_list[m][L]
    BY <1>9, TreeFacts
  <2>2. EventEnum[m].lastEvent = LastValue(begin, FirstOfSubs, m) /\ First(c) = begin[c] /\ No(c) = begin[c] + numEvents[c]
    BY <1>4, <2>1
  <2>3. ASSUME m # 1 PROVE Behind(m) = No(c) + 1
    <3> DEFINE s == Starts(Advance, machine_list[m], numEvents[m] + 1)
               t == Starts(Advance, machine_list[m], No(m) + 1)
    <3>1. Advance[m] = s[L] + numEvents[c] + 1
      BY <1>9, AdvanceIs DEF Printed
    <3>2. /\ Len(machine_list[m]) \in Nat /\ \A i \in 1..L : Advance[machine_list[m][i]] \in Nat
          /\ numEvents[m] + 1 \in Nat /\ No(m) + 1 \in Nat /\ numEvents[c] \in Nat
      <4> HIDE DEF c
      <4>1. Len(machine_list[m]) \in Nat /\ \A i \in 1..L : Advance[machine_list[m][i]] \in Nat
        BY TreeFacts, AdvanceIs
      <4>2. numEvents[m] \in Nat /\ No(m) \in Nat /\ numEvents[c] \in Nat
        BY <1>6, <2>1, TreeFacts
      <4> QED BY <4>1, <4>2
    <3>3. /\ s \in [1..L -> Nat] /\ s[1] = numEvents[m] + 1
          /\ \A i \in 1..L : i # 1 => s[i] = s[i - 1] + Advance[machine_list[m][i - 1]]
      <4>1. 1 \in 1..L
        BY <1>9, TreeFacts
      <4> QED BY <3>2, <4>1, SubsStart
    <3> HIDE DEF s, t, c
    <3>4. \A i \in 1..L : First(machine_list[m][i]) = First(m) + s[i]
      <4> DEFINE S == {i \in Nat : i \in 1..L /\ First(machine_list[m][i]) # First(m) + s[i]}
      <4>1. ASSUME S # {} PROVE FALSE
        <5>1. PICK i \in S : \A j \in S : i <= j
          BY <4>1, LeastNat
        <5>2. i # 1
          BY <1>6, <1>7, <1>9, <2>3, <3>2, <3>3, <5>1, TreeFacts
        <5>3. i - 1 \in 1..L /\ i - 1 \in Nat
          BY <3>2, <5>1, <5>2
        <5>4. First(machine_list[m][i - 1]) = First(m) + s[i - 1]
          BY <5>1, <5>3
        <5>5. First(machine_list[m][i]) = First(machine_list[m][i - 1]) + Advance[machine_list[m][i - 1]]
          BY <1>7, <5>1, <5>2 DEF Behind
        <5>6. s[i] = s[i - 1] + Advance[machine_list[m][i - 1]] /\ s[i - 1] \in Nat
              /\ Advance[machine_list[m][i - 1]] \in Nat /\ First(m) \in Nat
          BY <1>6, <3>2, <3>3, <5>1, <5>2, <5>3
        <5>7. First(machine_list[m][i]) = First(m) + s[i]
          BY <5>4, <5>5, <5>6
        <5> QED BY <5>1, <5>7
      <4> QED BY <4>1
    <3>5. First(c) = First(m) + s[L]
      BY <2>1, <3>4
    <3>6. First(m) \in Nat /\ s[L] \in Nat /\ No(c) = First(c) + numEvents[c]
      BY <1>6, <2>1, <3>3
    <3> QED BY <3>1, <3>2, <3>5, <3>6 DEF Behind
  <2>4. /\ m # 1 => EventEnum[m].lastEvent = No(c)
        /\ m = 1 => EventEnum[m].lastEvent = Behind(c)
    BY <1>9, <2>2 DEF LastValue, TopLevel, Behind
  <2> QED BY <2>3, <2>4
<1> QED
  BY <1>1, <1>5, <1>6, <1>7, <1>8, <1>9

-----------------------------------------------------------------------------
(* The machines below a machine.                                             *)

(* Machine d is m or below m: m is in every set that has d, and the parents  *)
(* of its machines.                                                          *)
Closed(S) == S \in SUBSET Declared /\ \A x \in S \ {TopLevel} : parent[x] \in S
IsBelow(d, m) == \A S : Closed(S) /\ d \in S => m \in S

LEMMA ParentFacts ==
    ASSUME IInv
    PROVE  /\ \A m \in Declared : m \in Nat /\ m > 0
           /\ \A m \in Declared : m # 1 => parent[m] \in Declared /\ parent[m] < m
           /\ TopLevel = 1
<1>1. Declared = 1..Len(numEvents) /\ TopLevel = 1 /\ Len(numEvents) \in Nat
  BY TreeFacts
<1>2. \A m \in Declared : m # 1 => parent[m] \in Declared /\ parent[m] < m
  BY PlaceIs
<1> QED
  BY <1>1, <1>2

LEMMA BelowFacts ==
    ASSUME IInv, NEW d \in Declared, NEW m \in Declared
    PROVE  /\ IsBelow(d, d)
           /\ IsBelow(d, m) /\ d # m => d # 1 /\ IsBelow(parent[d], m)
           /\ d # 1 /\ IsBelow(parent[d], m) => IsBelow(d, m)
           /\ IsBelow(d, m) => m <= d
<1>1. IsBelow(d, d)
  BY DEF IsBelow
<1>2. ASSUME IsBelow(d, m), d # m PROVE d # 1 /\ IsBelow(parent[d], m)
  <2>1. d # 1
    <3>1. Closed({1})
      BY TreeFacts, ParentFacts DEF Closed
    <3> QED BY <1>2, <3>1 DEF IsBelow
  <2>2. ASSUME NEW S, Closed(S), parent[d] \in S PROVE m \in S
    <3>1. Closed(S \cup {d})
      BY <2>2 DEF Closed
    <3> QED BY <1>2, <3>1 DEF IsBelow
  <2> QED BY <2>1, <2>2 DEF IsBelow
<1>3. ASSUME d # 1, IsBelow(parent[d], m) PROVE IsBelow(d, m)
  <2>1. ASSUME NEW S, Closed(S), d \in S PROVE m \in S
    <3>1. parent[d] \in S
      BY <1>3, <2>1, ParentFacts DEF Closed
    <3> QED BY <1>3, <2>1, <3>1 DEF IsBelow
  <2> QED BY <2>1 DEF IsBelow
<1>4. ASSUME IsBelow(d, m) PROVE m <= d
  <2> DEFINE S == {x \in Declared : x <= d}
  <2>1. Closed(S)
    <3>1. ASSUME NEW x \in S \ {TopLevel} PROVE parent[x] \in S
      <4>1. parent[x] \in Declared /\ parent[x] < x /\ parent[x] \in Nat /\ x \in Nat /\ d \in Nat
        BY ParentFacts
      <4> QED BY <4>1
    <3> QED BY <3>1 DEF Closed
  <2>2. d \in S
    BY ParentFacts
  <2> HIDE DEF S
  <2>3. m \in S
    BY <1>4, <2>1, <2>2 DEF IsBelow
  <2> QED BY <2>3 DEF S
<1> QED
  BY <1>1, <1>2, <1>3, <1>4

LEMMA AllBelowTop ==
    ASSUME IInv, NEW d \in Declared
    PROVE  IsBelow(d, 1)
<1> DEFINE S == {x \in Nat : x \in Declared /\ ~IsBelow(x, 1)}
<1>1. ASSUME S # {} PROVE FALSE
  <2>1. PICK x \in S : \A y \in S : x <= y
    BY <1>1, LeastNat
  <2>2. 1 \in Declared
    BY TreeFacts
  <2>3. x # 1
    BY <2>1, <2>2, BelowFacts
  <2>4. parent[x] \in Declared /\ parent[x] < x /\ parent[x] \in Nat
    BY <2>1, <2>3, ParentFacts
  <2>5. IsBelow(parent[x], 1)
    BY <2>1, <2>4
  <2> QED BY <2>1, <2>2, <2>3, <2>5, BelowFacts
<1> QED
  BY <1>1, ParentFacts

(* Whatever is below m, and is not m, is below one of its sub-machines, and  *)
(* below no other one.                                                       *)
LEMMA SubAbove ==
    ASSUME IInv, NEW m \in Declared, NEW d \in Declared, IsBelow(d, m), d # m
    PROVE  \E i \in 1..Len(machine_list[m]) : IsBelow(d, machine_list[m][i])
<1> DEFINE Found(x) == \E i \in 1..Len(machine_list[m]) : IsBelow(x, machine_list[m][i])
           S == {x \in Nat : x \in Declared /\ x # m /\ IsBelow(x, m) /\ ~Found(x)}
<1>1. ASSUME S # {} PROVE FALSE
  <2>1. PICK x \in S : \A y \in S : x <= y
    BY <1>1, LeastNat
  <2>2. x # 1 /\ IsBelow(parent[x], m)
    BY <2>1, BelowFacts
  <2>3. parent[x] \in Declared /\ parent[x] < x /\ parent[x] \in Nat
    BY <2>1, <2>2, ParentFacts
  <2>4. CASE parent[x] = m
    <3>1. Place(machine_list[m], x) \in 1..Len(machine_list[m])
          /\ machine_list[m][Place(machine_list[m], x)] = x
      BY <2>1, <2>2, <2>4, PlaceIs
    <3>2. IsBelow(x, x)
      BY <2>1, BelowFacts
    <3>3. Found(x)
      BY <3>1, <3>2
    <3> QED BY <2>1, <3>3
  <2>5. CASE parent[x] # m
    <3>1. Found(parent[x])
      BY <2>1, <2>2, <2>3, <2>5
    <3>2. PICK i \in 1..Len(machine_list[m]) : IsBelow(parent[x], machine_list[m][i])
      BY <3>1
    <3>3. machine_list[m][i] \in Declared
      BY TreeFacts
    <3>4. IsBelow(x, machine_list[m][i])
      BY <2>1, <2>2, <3>2, <3>3, BelowFacts
    <3>5. Found(x)
      BY <3>4
    <3> QED BY <2>1, <3>5
  <2> QED BY <2>4, <2>5
<1> HIDE DEF Found
<1>2. d \in Nat /\ Found(d)
  BY <1>1, ParentFacts
<1> QED
  BY <1>2 DEF Found

LEMMA OneSubAbove ==
    ASSUME IInv, NEW m \in Declared, NEW d \in Declared,
           NEW i \in 1..Len(machine_list[m]), NEW j \in 1..Len(machine_list[m]),
           IsBelow(d, machine_list[m][i]), IsBelow(d, machine_list[m][j])
    PROVE  i = j
<1> DEFINE a == machine_list[m][i]
           b == machine_list[m][j]
           S == {x \in Nat : x \in Declared /\ IsBelow(x, a) /\ IsBelow(x, b)}
<1>1. a \in Declared /\ b \in Declared /\ m < a /\ m < b /\ a # 1 /\ b # 1
      /\ parent[a] = m /\ parent[b] = m
  BY TreeFacts, PlaceOf
<1>2. ASSUME a # b PROVE FALSE
  <2>1. d \in S
    BY ParentFacts
  <2>2. PICK x \in S : \A y \in S : x <= y
    BY <2>1, LeastNat
  <2> HIDE DEF a, b
  <2>3. CASE x = a
    <3>1. IsBelow(m, b)
      BY <1>1, <1>2, <2>2, <2>3, BelowFacts
    <3>2. b <= m
      BY <1>1, <3>1, BelowFacts
    <3> QED BY <1>1, <3>2, ParentFacts
  <2>4. CASE x = b
    <3>1. IsBelow(m, a)
      BY <1>1, <1>2, <2>2, <2>4, BelowFacts
    <3>2. a <= m
      BY <1>1, <3>1, BelowFacts
    <3> QED BY <1>1, <3>2, ParentFacts
  <2>5. CASE x # a /\ x # b
    <3>1. x # 1 /\ IsBelow(parent[x], a) /\ IsBelow(parent[x], b)
      BY <1>1, <2>2, <2>5, BelowFacts
    <3>2. parent[x] \in Declared /\ parent[x] < x /\ parent[x] \in Nat
      BY <2>2, <3>1, ParentFacts
    <3> QED BY <2>2, <3>1, <3>2
  <2> QED BY <2>3, <2>4, <2>5
<1>3. i = j
  <2>1. DOMAIN machine_list[m] = 1..Len(machine_list[m])
    BY TreeFacts
  <2> QED BY <1>2, <2>1 DEF IInv, TreeInv
<1> QED
  BY <1>3

-----------------------------------------------------------------------------
(* The order of the values.                                                  *)

(* No sub-machine whose noEvent closes the range of its parent has           *)
(* sub-machines of its own; the top-level machine has no such range.         *)
LastSubMachinesAreLeaves ==
    \A m \in Declared : m # TopLevel /\ machine_list[m] # <<>> =>
        machine_list[Last(machine_list[m])] = <<>>

(* Sub-machines of one machine are printed in their order.                   *)
LEMMA SubsAscend ==
    ASSUME IInv, NEW m \in Declared, NEW i \in 1..Len(machine_list[m])
    PROVE  \A j \in 1..Len(machine_list[m]) :
              /\ i <= j => First(machine_list[m][i]) <= First(machine_list[m][j])
              /\ i < j => Behind(machine_list[m][i]) <= First(machine_list[m][j])
<1> DEFINE c(j) == machine_list[m][j]
           Right(j) == /\ i <= j => First(c(i)) <= First(c(j))
                       /\ i < j => Behind(c(i)) <= First(c(j))
           S == {j \in Nat : j \in 1..Len(machine_list[m]) /\ ~Right(j)}
<1>1. /\ Len(machine_list[m]) \in Nat
      /\ \A j \in 1..Len(machine_list[m]) :
            /\ First(c(j)) \in Nat /\ Advance[c(j)] \in Nat /\ Behind(c(j)) = First(c(j)) + Advance[c(j)]
            /\ j # 1 => First(c(j)) = Behind(c(j - 1))
  <2>1. Len(machine_list[m]) \in Nat /\ \A j \in 1..Len(machine_list[m]) : c(j) \in Declared
    BY TreeFacts
  <2>2. \A j \in 1..Len(machine_list[m]) : j # 1 => First(c(j)) = Behind(c(j - 1))
    BY Layout
  <2>3. \A j \in 1..Len(machine_list[m]) : First(c(j)) \in Nat /\ Advance[c(j)] \in Nat
    BY <2>1, Layout
  <2>4. \A j \in 1..Len(machine_list[m]) : Behind(c(j)) = First(c(j)) + Advance[c(j)]
    BY DEF Behind
  <2> QED BY <2>1, <2>2, <2>3, <2>4
<1> HIDE DEF c
<1>2. ASSUME S # {} PROVE FALSE
  <2>1. PICK j \in S : \A k \in S : j <= k
    BY <1>2, LeastNat
  <2>2. CASE j <= i
    BY <1>1, <2>1, <2>2
  <2>3. CASE j > i
    <3>1. j - 1 \in 1..Len(machine_list[m]) /\ j - 1 \in Nat /\ i <= j - 1 /\ j # 1
      BY <1>1, <2>1, <2>3
    <3>2. Right(j - 1)
      BY <2>1, <3>1
    <3>3. First(c(j)) = First(c(j - 1)) + Advance[c(j - 1)] /\ First(c(j)) = Behind(c(j - 1))
      BY <1>1, <2>1, <3>1
    <3>4. First(c(j - 1)) \in Nat /\ Advance[c(j - 1)] \in Nat /\ First(c(i)) \in Nat /\ Behind(c(i)) \in Nat
      <4>1. First(c(i)) \in Nat /\ Advance[c(i)] \in Nat /\ Behind(c(i)) = First(c(i)) + Advance[c(i)]
        BY <1>1
      <4>2. Behind(c(i)) \in Nat
        BY <4>1
      <4> QED BY <1>1, <3>1, <4>1, <4>2
    <3>5. First(c(i)) <= First(c(j))
      BY <3>1, <3>2, <3>3, <3>4
    <3>6. Behind(c(i)) <= First(c(j))
      <4>1. CASE i = j - 1
        BY <3>3, <3>4, <4>1
      <4>2. CASE i < j - 1
        BY <3>2, <3>3, <3>4, <4>2
      <4> QED BY <3>1, <4>1, <4>2
    <3> QED BY <2>1, <3>5, <3>6
  <2> QED BY <2>1, <2>2, <2>3
<1> QED
  BY <1>2 DEF c

(* A machine's enumerators come before what is behind it.                    *)
LEMMA NoBeforeBehind ==
    ASSUME IInv, NEW m \in Declared, m # 1
    PROVE  First(m) <= No(m) /\ No(m) < Behind(m)
<1>1. First(m) \in Nat /\ No(m) = First(m) + numEvents[m] /\ numEvents[m] \in Nat /\ Behind(m) \in Nat
  BY Layout, TreeFacts
<1>2. CASE machine_list[m] = <<>>
  BY <1>1, <1>2, Layout
<1>3. CASE machine_list[m] # <<>>
  <2> DEFINE L == Len(machine_list[m])
  <2>1. 1 \in 1..L /\ L \in 1..L /\ Last(machine_list[m]) = machine_list[m][L] /\ L \in Nat
    BY <1>3, TreeFacts
  <2>2. machine_list[m][1] \in Declared /\ machine_list[m][L] \in Declared
    BY <2>1, TreeFacts
  <2>3. First(machine_list[m][1]) = No(m) + 1 /\ Behind(m) = No(machine_list[m][L]) + 1
    BY <1>3, <2>1, Layout
  <2>4. First(machine_list[m][1]) <= First(machine_list[m][L])
    BY <2>1, SubsAscend
  <2>5. /\ First(machine_list[m][L]) \in Nat /\ numEvents[machine_list[m][L]] \in Nat
        /\ No(machine_list[m][L]) = First(machine_list[m][L]) + numEvents[machine_list[m][L]]
    BY <2>2, Layout, TreeFacts
  <2> QED BY <1>1, <2>3, <2>4, <2>5
<1> QED
  BY <1>2, <1>3

(* A sub-machine's block is inside that of its parent.                       *)
LEMMA SubInside ==
    ASSUME IInv, LastSubMachinesAreLeaves, NEW m \in Declared, NEW i \in 1..Len(machine_list[m])
    PROVE  /\ No(m) < First(machine_list[m][i])
           /\ m # 1 => Behind(machine_list[m][i]) <= Behind(m)
           /\ m = 1 => Behind(machine_list[m][i]) <= EventEnum[m].lastEvent
<1> DEFINE L == Len(machine_list[m])
           c == machine_list[m][i]
           z == machine_list[m][L]
<1>1. machine_list[m] # <<>> /\ L \in Nat
  BY TreeFacts
<1>2. 1 \in 1..L /\ L \in 1..L /\ Last(machine_list[m]) = z /\ i <= L /\ 1 <= i
  BY <1>1, TreeFacts
<1>3. c \in Declared /\ z \in Declared /\ c # 1 /\ z # 1 /\ machine_list[m][1] \in Declared
  BY <1>2, TreeFacts
<1>4. /\ First(c) \in Nat /\ First(z) \in Nat /\ No(m) \in Nat /\ No(z) \in Nat /\ Behind(c) \in Nat /\ Behind(z) \in Nat
      /\ Advance[z] \in Nat /\ First(machine_list[m][1]) \in Nat
  BY <1>3, Layout
<1>5. No(m) < First(machine_list[m][1])
  <2>1. CASE m = 1
    <3>1. First(machine_list[m][1]) = FirstOfSubs /\ FirstOfSubs > numEvents[1] /\ No(1) = 0 + numEvents[1]
      BY <1>1, <2>1, Layout
    <3> QED BY <1>4, <2>1, <3>1, TreeFacts
  <2>2. CASE m # 1
    <3>1. First(machine_list[m][1]) = No(m) + 1
      BY <1>1, <2>2, Layout
    <3> QED BY <1>4, <3>1
  <2> QED BY <2>1, <2>2
<1>6. First(machine_list[m][1]) <= First(c)
  BY <1>2, SubsAscend
<1>7. Behind(c) <= Behind(z)
  <2>1. CASE i = L
    BY <1>4, <2>1
  <2>2. CASE i # L
    <3>1. Behind(c) <= First(z)
      BY <1>2, <2>2, SubsAscend
    <3>2. Behind(z) = First(z) + Advance[z]
      BY DEF Behind
    <3> QED BY <1>4, <3>1, <3>2
  <2> QED BY <2>1, <2>2
<1>8. ASSUME m # 1 PROVE Behind(z) = Behind(m)
  <2>1. machine_list[z] = <<>>
    BY <1>1, <1>2, <1>8 DEF LastSubMachinesAreLeaves, TopLevel
  <2>2. Behind(z) = No(z) + 1
    BY <1>3, <2>1, Layout
  <2>3. Behind(m) = No(z) + 1
    BY <1>1, <1>2, <1>8, Layout
  <2> QED BY <2>2, <2>3
<1>9. ASSUME m = 1 PROVE EventEnum[m].lastEvent = Behind(z)
  BY <1>1, <1>2, <1>9, Layout
<1> QED
  BY <1>4, <1>5, <1>6, <1>7, <1>8, <1>9

(* So is the block of any machine below.                                     *)
LEMMA BelowInside ==
    ASSUME IInv, LastSubMachinesAreLeaves, NEW m \in Declared, NEW d \in Declared, IsBelow(d, m), d # m
    PROVE  /\ No(m) < First(d)
           /\ m # 1 => Behind(d) <= Behind(m)
<1> DEFINE Right(x) == No(m) < First(x) /\ (m # 1 => Behind(x) <= Behind(m))
           S == {x \in Nat : x \in Declared /\ x # m /\ IsBelow(x, m) /\ ~Right(x)}
<1>1. ASSUME S # {} PROVE FALSE
  <2>1. PICK x \in S : \A y \in S : x <= y
    BY <1>1, LeastNat
  <2>2. x # 1 /\ IsBelow(parent[x], m)
    BY <2>1, BelowFacts
  <2> DEFINE p == parent[x]
  <2>3. p \in Declared /\ p < x /\ p \in Nat
    BY <2>1, <2>2, ParentFacts
  <2>4. PICK i \in 1..Len(machine_list[p]) : machine_list[p][i] = x
    BY <2>1, <2>2, PlaceIs
  <2>5. No(p) < First(x) /\ (p # 1 => Behind(x) <= Behind(p))
    BY <2>3, <2>4, SubInside
  <2>6. CASE p = m
    BY <2>1, <2>5, <2>6
  <2>7. CASE p # m
    <3>1. Right(p)
      BY <2>1, <2>2, <2>3, <2>7
    <3>2. p # 1
      BY <2>2, <2>3, <2>7, BelowFacts
    <3>3. First(p) <= No(p)
      BY <2>3, <3>2, NoBeforeBehind
    <3>4. /\ First(p) \in Nat /\ No(p) \in Nat /\ No(m) \in Nat /\ First(x) \in Nat
          /\ Behind(x) \in Nat /\ Behind(p) \in Nat /\ Behind(m) \in Nat
      BY <2>1, <2>3, Layout
    <3> HIDE DEF p
    <3>5. Right(x)
      BY <2>5, <3>1, <3>2, <3>3, <3>4
    <3> QED BY <2>1, <3>5
  <2> QED BY <2>6, <2>7
<1> HIDE DEF Right
<1>2. d \in Nat /\ Right(d)
  BY <1>1, ParentFacts
<1> QED
  BY <1>2 DEF Right

-----------------------------------------------------------------------------
(* Distinct values.                                                          *)

(* All of d's enumerators come before all of e's, or the other way round.    *)
Apart(d, e) == No(d) < First(e) \/ No(e) < First(d)

LEMMA AllApart ==
    ASSUME IInv, LastSubMachinesAreLeaves
    PROVE  \A d, e \in Declared : d # e => Apart(d, e)
<1> DEFINE N == Len(numEvents)
           Right(m) == \A d, e \in Declared : IsBelow(d, m) /\ IsBelow(e, m) /\ d # e => Apart(d, e)
           S == {k \in Nat : N - k \in Declared /\ ~Right(N - k)}
<1>1. Declared = 1..N /\ N \in Nat /\ 1 \in Declared
  BY TreeFacts
<1>2. ASSUME S # {} PROVE FALSE
  <2>1. PICK k \in S : \A j \in S : k <= j
    BY <1>2, LeastNat
  <2> DEFINE m == N - k
  <2>2. m \in Declared /\ m \in Nat
    BY <1>1, <2>1
  <2>3. ASSUME NEW d \in Declared, NEW e \in Declared, IsBelow(d, m), IsBelow(e, m), d # e
        PROVE  Apart(d, e)
    <3>1. CASE d = m
      BY <2>2, <2>3, <3>1, BelowInside DEF Apart
    <3>2. CASE e = m
      BY <2>2, <2>3, <3>2, BelowInside DEF Apart
    <3>3. CASE d # m /\ e # m
      <4>1. PICK i \in 1..Len(machine_list[m]) : IsBelow(d, machine_list[m][i])
        BY <2>2, <2>3, <3>3, SubAbove
      <4>2. PICK j \in 1..Len(machine_list[m]) : IsBelow(e, machine_list[m][j])
        BY <2>2, <2>3, <3>3, SubAbove
      <4> DEFINE a == machine_list[m][i]
                 b == machine_list[m][j]
      <4>3. a \in Declared /\ b \in Declared /\ m < a /\ a # 1 /\ b # 1
        BY <2>2, TreeFacts
      <4>4. CASE i = j
        <5>1. N - a \in Nat /\ N - a < k /\ N - (N - a) = a
          <6>1. a \in 1..N /\ m < a /\ m = N - k /\ k \in Nat
            BY <1>1, <2>1, <4>3
          <6> HIDE DEF a, N
          <6>2. a \in Nat /\ N - a \in Nat /\ N - (N - a) = a
            BY <1>1, <6>1
          <6> QED BY <1>1, <6>1, <6>2
        <5>2. Right(a)
          <6> HIDE DEF Right, a
          <6>1. N - a \notin S
            BY <2>1, <5>1
          <6> QED BY <4>3, <5>1, <6>1
        <5> QED BY <2>3, <4>1, <4>2, <4>4, <5>2
      <4>5. CASE i # j
        <5>1. d # 1 /\ e # 1
          BY <4>1, <4>2, <4>3, BelowFacts, ParentFacts
        <5>2. No(d) < Behind(d) /\ No(e) < Behind(e)
          BY <5>1, NoBeforeBehind
        <5>3. First(a) <= First(d) /\ Behind(d) <= Behind(a)
          <6>1. CASE d = a
            <7>1. First(d) \in Nat /\ Behind(d) \in Nat
              BY Layout
            <7> HIDE DEF a
            <7> QED BY <6>1, <7>1
          <6>2. CASE d # a
            <7>1. No(a) < First(d) /\ Behind(d) <= Behind(a)
              BY <4>1, <4>3, <6>2, BelowInside
            <7>2. First(a) <= No(a) /\ First(a) \in Nat /\ No(a) \in Nat /\ First(d) \in Nat
              BY <4>3, Layout, NoBeforeBehind
            <7> QED BY <7>1, <7>2
          <6> QED BY <6>1, <6>2
        <5>4. First(b) <= First(e) /\ Behind(e) <= Behind(b)
          <6>1. CASE e = b
            <7>1. First(e) \in Nat /\ Behind(e) \in Nat
              BY Layout
            <7> HIDE DEF b
            <7> QED BY <6>1, <7>1
          <6>2. CASE e # b
            <7>1. No(b) < First(e) /\ Behind(e) <= Behind(b)
              BY <4>2, <4>3, <6>2, BelowInside
            <7>2. First(b) <= No(b) /\ First(b) \in Nat /\ No(b) \in Nat /\ First(e) \in Nat
              BY <4>3, Layout, NoBeforeBehind
            <7> QED BY <7>1, <7>2
          <6> QED BY <6>1, <6>2
        <5>5. Behind(a) <= First(b) \/ Behind(b) <= First(a)
          BY <2>2, <4>5, SubsAscend
        <5>6. /\ First(a) \in Nat /\ First(b) \in Nat /\ Behind(a) \in Nat /\ Behind(b) \in Nat
              /\ First(d) \in Nat /\ First(e) \in Nat /\ No(d) \in Nat /\ No(e) \in Nat
              /\ Behind(d) \in Nat /\ Behind(e) \in Nat
          BY <4>3, Layout
        <5> HIDE DEF a, b
        <5> QED BY <5>2, <5>3, <5>4, <5>5, <5>6 DEF Apart
      <4> QED BY <4>4, <4>5
    <3> QED BY <3>1, <3>2, <3>3
  <2>4. Right(m)
    BY <2>3
  <2> QED BY <2>1, <2>4
<1>3. Right(1)
  <2>1. N - 1 \in Nat /\ N - (N - 1) = 1
    BY <1>1
  <2> HIDE DEF Right
  <2> QED BY <1>1, <1>2, <2>1
<1> QED
  BY <1>1, <1>3, AllBelowTop

(* Under the condition on last sub-machines, in trees of any depth, no two   *)
(* events, and no noEvent, have the same value.                              *)
THEOREM EventValuesDiffer == Spec => [](LastSubMachinesAreLeaves => EventValuesAreUnique)
<1>1. IInv => (LastSubMachinesAreLeaves => EventValuesAreUnique)
  <2> SUFFICES ASSUME IInv, LastSubMachinesAreLeaves, NEW m \in Declared, NEW d \in Declared, m # d
               PROVE  Enumerators(m) \cap Enumerators(d) = {}
    BY DEF EventValuesAreUnique
  <2>1. Apart(m, d)
    BY AllApart
  <2>2. First(m) \in Nat /\ No(m) \in Nat /\ First(d) \in Nat /\ No(d) \in Nat
    BY Layout
  <2>3. Enumerators(m) = First(m)..No(m) /\ Enumerators(d) = First(d)..No(d)
    BY DEF Enumerators, First, No
  <2> QED BY <2>1, <2>2, <2>3 DEF Apart
<1> QED
  BY <1>1, Inductive, PTL

-----------------------------------------------------------------------------
(* The way of an event through the finders.                                  *)

Hits(e, k) == {i \in DOMAIN machine_list[k] : InRange(machine_list[k][i], e)}

Onwards(f, e, k) ==
    IF e < EventEnum[k].noEvent \/ Hits(e, k) = {} THEN k ELSE f[machine_list[k][Min(Hits(e, k))]]

LEMMA MinIs ==
    ASSUME NEW S \in SUBSET Nat, S # {}
    PROVE  Min(S) \in S
<1>1. PICK n \in S : \A m \in S : n <= m
  BY LeastNat
<1> QED
  BY <1>1 DEF Min

LEMMA RouteIs ==
    ASSUME IInv, NEW e \in Nat
    PROVE  \E route : /\ \A m : Route(m, e) = route[m]
                      /\ \A k \in Declared : route[k] = Onwards(route, e, k)
<1> DEFINE N == Len(numEvents)
           B == [f \in [Declared -> Declared] |-> [k \in Declared |-> Onwards(f, e, k)]]
           rank == [k \in Declared |-> N - k]
<1>1. Declared = 1..N /\ N \in Nat /\ 1 \in Declared
  BY TreeFacts
<1>2. ASSUME NEW k \in Declared, Hits(e, k) # {}
      PROVE  machine_list[k][Min(Hits(e, k))] \in Declared /\ k < machine_list[k][Min(Hits(e, k))]
  <2>1. DOMAIN machine_list[k] = 1..Len(machine_list[k])
    BY TreeFacts
  <2>2. Hits(e, k) \in SUBSET Nat
    BY <2>1 DEF Hits
  <2>3. Min(Hits(e, k)) \in 1..Len(machine_list[k])
    BY <1>2, <2>1, <2>2, MinIs DEF Hits
  <2> QED BY <2>3, TreeFacts
<1>3. ASSUME NEW f \in [Declared -> Declared], NEW k \in Declared PROVE Onwards(f, e, k) \in Declared
  BY <1>2 DEF Onwards
<1>4. B \in [[Declared -> Declared] -> [Declared -> Declared]]
  BY <1>3
<1>5. rank \in [Declared -> Nat] /\ \A m \in Declared : rank[m] <= N
  BY <1>1
<1>6. Causal(B, Declared, Declared, rank)
  <2> SUFFICES ASSUME NEW f \in [Declared -> Declared], NEW g \in [Declared -> Declared], NEW m \in Declared,
                      \A k \in Declared : rank[k] < rank[m] => f[k] = g[k]
               PROVE  B[f][m] = B[g][m]
    BY DEF Causal
  <2>1. Onwards(f, e, m) = Onwards(g, e, m)
    <3>1. CASE Hits(e, m) = {}
      BY <3>1 DEF Onwards
    <3>2. CASE Hits(e, m) # {}
      <4> DEFINE c == machine_list[m][Min(Hits(e, m))]
      <4>1. c \in Declared /\ m < c
        BY <1>2, <3>2
      <4> HIDE DEF c
      <4>2. rank[c] < rank[m]
        BY <1>1, <4>1
      <4>3. f[c] = g[c]
        BY <4>1, <4>2
      <4> QED BY <4>3 DEF Onwards, c
    <3> QED BY <3>1, <3>2
  <2> QED BY <2>1
<1>7. PICK f \in [Declared -> Declared] : B[f] = f
  <2>0. Declared # {}
    BY <1>1
  <2> HIDE DEF B, rank, N
  <2>1. WellDefined(B, Declared, Declared, rank, N)
    BY <2>0, <1>1, <1>4, <1>5, <1>6 DEF WellDefined
  <2> QED BY <2>1, FixedPoint
<1>8. f = [k \in Declared |-> Onwards(f, e, k)]
  BY <1>7
<1> DEFINE route == CHOOSE route : route = [k \in Declared |-> Onwards(route, e, k)]
<1>9. route = [k \in Declared |-> Onwards(route, e, k)]
  BY <1>8
<1>10. \A m : Route(m, e) = route[m]
  BY DEF Route, Onwards, Hits
<1> HIDE DEF route
<1>11. \A k \in Declared : route[k] = Onwards(route, e, k)
  BY <1>9
<1> QED
  BY <1>10, <1>11

(* A sub-machine's range is its block without the enumerator that ends it.   *)
LEMMA RangeIs ==
    ASSUME IInv, NEW c \in Declared, c # 1, NEW e \in Nat
    PROVE  InRange(c, e) <=> First(c) <= e /\ e < Behind(c) - 1
<1>1. SubFsmIf(c).first_event = First(c)
  BY DEF SubFsmIf, First
<1>2. SubFsmIf(c).last_event = Behind(c) - 1
  <2>1. CASE machine_list[c] = <<>>
    <3>1. SubFsmIf(c).last_event = No(c)
      BY <2>1 DEF SubFsmIf, No
    <3>2. Behind(c) = No(c) + 1 /\ No(c) \in Nat
      BY <2>1, Layout
    <3> QED BY <3>1, <3>2
  <2>2. CASE machine_list[c] # <<>>
    <3>1. SubFsmIf(c).last_event = EventEnum[c].lastEvent
      BY <2>2 DEF SubFsmIf
    <3>2. Last(machine_list[c]) \in Declared
      BY <2>2, TreeFacts
    <3>3. /\ EventEnum[c].lastEvent = No(Last(machine_list[c]))
          /\ Behind(c) = No(Last(machine_list[c])) + 1 /\ No(Last(machine_list[c])) \in Nat
      BY <2>2, <3>2, Layout
    <3> QED BY <3>1, <3>3
  <2> QED BY <2>1, <2>2
<1> QED
  BY <1>1, <1>2 DEF InRange

LEMMA RoutesHome ==
    ASSUME IInv, LastSubMachinesAreLeaves, NEW m \in Declared, NEW e \in OwnEvents(m)
    PROVE  Route(TopLevel, e) = m
<1> DEFINE N == Len(numEvents)
<1>1. Declared = 1..N /\ N \in Nat /\ 1 \in Declared /\ TopLevel = 1
  BY TreeFacts
<1>2. First(m) \in Nat /\ No(m) \in Nat /\ e \in Nat /\ First(m) <= e /\ e < No(m)
  <2>1. First(m) \in Nat /\ No(m) \in Nat
    BY Layout
  <2>2. e \in First(m)..No(m) - 1
    BY DEF OwnEvents, First, No
  <2> QED BY <2>1, <2>2
<1>3. PICK route : /\ \A k : Route(k, e) = route[k]
                   /\ \A k \in Declared : route[k] = Onwards(route, e, k)
  BY <1>2, RouteIs
<1> DEFINE S == {k \in Nat : N - k \in Declared /\ IsBelow(m, N - k) /\ route[N - k] # m}
<1>4. ASSUME S # {} PROVE FALSE
  <2>1. PICK k \in S : \A j \in S : k <= j
    BY <1>4, LeastNat
  <2> DEFINE a == N - k
  <2>2. a \in Declared /\ a \in Nat /\ IsBelow(m, a)
    BY <1>1, <2>1
  <2>3. CASE a = m
    <3>1. e < EventEnum[m].noEvent
      BY <1>2 DEF No
    <3>2. route[m] = m
      BY <1>3, <3>1 DEF Onwards
    <3> QED BY <2>1, <2>3, <3>2
  <2>4. CASE a # m
    <3>1. PICK i \in 1..Len(machine_list[a]) : IsBelow(m, machine_list[a][i])
      BY <2>2, <2>4, SubAbove
    <3> DEFINE c == machine_list[a][i]
    <3>2. c \in Declared /\ a < c /\ c # 1 /\ DOMAIN machine_list[a] = 1..Len(machine_list[a])
      BY <2>2, TreeFacts
    <3>3. m # 1
      BY <3>1, <3>2, BelowFacts, ParentFacts
    <3>4. No(a) < First(m) /\ No(a) \in Nat
      BY <2>2, <2>4, BelowInside, Layout
    <3>5. ~(e < EventEnum[a].noEvent)
      BY <1>2, <3>4 DEF No
    <3>6. First(c) <= First(m) /\ Behind(m) <= Behind(c)
      <4>1. CASE c = m
        BY <4>1, <3>2, Layout
      <4>2. CASE c # m
        <5>1. No(c) < First(m) /\ Behind(m) <= Behind(c)
          BY <3>1, <3>2, <4>2, BelowInside
        <5>2. First(c) <= No(c) /\ First(c) \in Nat /\ No(c) \in Nat
          BY <3>2, Layout, NoBeforeBehind
        <5> QED BY <1>2, <5>1, <5>2
      <4> QED BY <4>1, <4>2
    <3>7. No(m) < Behind(m) /\ Behind(m) \in Nat /\ Behind(c) \in Nat /\ First(c) \in Nat
      BY <3>2, <3>3, Layout, NoBeforeBehind
    <3>8. First(c) <= e /\ e < Behind(c) - 1
      BY <1>2, <3>6, <3>7
    <3>9. Hits(e, a) = {i}
      <4>1. InRange(c, e)
        BY <1>2, <3>2, <3>8, RangeIs
      <4>2. ASSUME NEW j \in 1..Len(machine_list[a]), InRange(machine_list[a][j], e) PROVE j = i
        <5> DEFINE b == machine_list[a][j]
        <5>1. b \in Declared /\ b # 1
          BY <2>2, TreeFacts
        <5>2. First(b) <= e /\ e < Behind(b) - 1
          BY <1>2, <4>2, <5>1, RangeIs
        <5>3. First(b) \in Nat /\ Behind(b) \in Nat
          BY <5>1, Layout
        <5>4. i < j => Behind(c) <= First(b)
          BY <2>2, SubsAscend
        <5>5. j < i => Behind(b) <= First(c)
          BY <2>2, SubsAscend
        <5> HIDE DEF b, c
        <5> QED BY <1>2, <3>7, <3>8, <5>2, <5>3, <5>4, <5>5
      <4> QED BY <3>2, <4>1, <4>2 DEF Hits
    <3>10. Min(Hits(e, a)) = i
      <4>1. i \in Nat
        OBVIOUS
      <4>2. Min({i}) \in {i}
        BY <4>1, MinIs
      <4> QED BY <3>9, <4>2
    <3>11. route[a] = route[c]
      <4>1. Hits(e, a) # {}
        BY <3>9
      <4> QED BY <1>3, <2>2, <3>5, <3>10, <4>1 DEF Onwards
    <3>12. N - c \in Nat /\ N - c < k /\ N - (N - c) = c
      BY <1>1, <2>1, <2>2, <3>2
    <3>13. route[c] = m
      <4> HIDE DEF c
      <4>1. N - c \notin S
        BY <2>1, <3>12
      <4> QED BY <3>1, <3>2, <3>12, <4>1 DEF c
    <3> QED BY <2>1, <3>11, <3>13
  <2> QED BY <2>3, <2>4
<1>5. route[1] = m
  <2>1. N - 1 \in Nat /\ N - (N - 1) = 1
    BY <1>1
  <2>2. IsBelow(m, 1)
    BY AllBelowTop
  <2> QED BY <1>1, <1>4, <2>1, <2>2
<1> QED
  BY <1>1, <1>3, <1>5

(* Under the same condition, an event of any machine, passed to the          *)
(* top-level machine, is led from finder to finder to the machine that       *)
(* declares it.                                                              *)
THEOREM EventsReachTheirMachines == Spec => [](LastSubMachinesAreLeaves => EveryEventReachesItsMachine)
<1>1. IInv => (LastSubMachinesAreLeaves => EveryEventReachesItsMachine)
  BY RoutesHome DEF EveryEventReachesItsMachine
<1> QED
  BY <1>1, Inductive, PTL

-----------------------------------------------------------------------------
(* The listings.                                                             *)

(* One sequence after another: t[i] is what the first i of them make.        *)
Joined(t, seqs, V) ==
    /\ t \in [1..Len(seqs) -> Seq(V)]
    /\ FlattenSeq(seqs) = t[Len(seqs)]
    /\ t[1] = seqs[1]
    /\ \A i \in 1..Len(seqs) : i # 1 => t[i] = t[i - 1] \o seqs[i]

LEMMA FlattenIs ==
    ASSUME NEW V, NEW seqs \in Seq(Seq(V)), Len(seqs) # 0
    PROVE  \E t : Joined(t, seqs, V)
<1> DEFINE L == 1..Len(seqs)
           Value(f, i) == IF i = 1 THEN seqs[i] ELSE f[i - 1] \o seqs[i]
           B == [f \in [L -> Seq(V)] |-> [i \in L |-> Value(f, i)]]
           rank == [i \in L |-> i]
<1>1. Len(seqs) \in Nat /\ (\A i \in L : i # 1 => i - 1 \in L) /\ \A i \in L : seqs[i] \in Seq(V)
  OBVIOUS
<1>2. ASSUME NEW f \in [L -> Seq(V)], NEW i \in L PROVE Value(f, i) \in Seq(V)
  <2>1. i # 1 => f[i - 1] \in Seq(V)
    BY <1>1
  <2>2. seqs[i] \in Seq(V)
    BY <1>1
  <2> HIDE DEF L
  <2>3. CASE i = 1
    BY <2>2, <2>3
  <2>4. CASE i # 1
    <3>1. f[i - 1] \o seqs[i] \in Seq(V)
      BY <2>1, <2>2, <2>4, ConcatProperties
    <3> QED BY <2>4, <3>1
  <2> QED BY <2>3, <2>4
<1>3. B \in [[L -> Seq(V)] -> [L -> Seq(V)]]
  <2> HIDE DEF L, Value
  <2> QED BY <1>2
<1>4. rank \in [L -> Nat] /\ \A i \in L : rank[i] <= Len(seqs)
  BY <1>1
<1>5. Causal(B, L, Seq(V), rank)
  <2> SUFFICES ASSUME NEW f \in [L -> Seq(V)], NEW g \in [L -> Seq(V)], NEW i \in L,
                      \A k \in L : rank[k] < rank[i] => f[k] = g[k]
               PROVE  B[f][i] = B[g][i]
    BY DEF Causal
  <2>1. i # 1 => f[i - 1] = g[i - 1]
    <3>1. i # 1 => i - 1 \in L /\ i - 1 < i
      BY <1>1
    <3> QED BY <3>1
  <2>2. Value(f, i) = Value(g, i)
    BY <2>1
  <2> HIDE DEF Value, L
  <2> QED BY <2>2
<1>6. PICK f \in [L -> Seq(V)] : B[f] = f
  <2>1. Seq(V) # {}
    BY <1>1
  <2> HIDE DEF B, rank, L
  <2>2. WellDefined(B, L, Seq(V), rank, Len(seqs))
    BY <1>1, <1>3, <1>4, <1>5, <2>1 DEF WellDefined
  <2> QED BY <2>2, FixedPoint
<1>7. f = [i \in L |-> Value(f, i)]
  <2> HIDE DEF Value, L
  <2> QED BY <1>6
<1> DEFINE t == CHOOSE t : t = [i \in L |-> Value(t, i)]
<1>8. t = [i \in L |-> Value(t, i)]
  BY <1>7
<1>9. FlattenSeq(seqs) = t[Len(seqs)]
  BY <1>1 DEF FlattenSeq
<1> HIDE DEF t
<1>10. \A i \in L : t[i] = Value(t, i)
  <2> HIDE DEF Value, L
  <2> QED BY <1>8
<1>11. \A i \in L : t[i] \in Seq(V)
  <2> DEFINE S == {i \in Nat : i \in L /\ t[i] \notin Seq(V)}
  <2>1. ASSUME S # {} PROVE FALSE
    <3>1. PICK i \in S : \A j \in S : i <= j
      BY <2>1, LeastNat
    <3>2. CASE i = 1
      BY <1>1, <1>10, <3>1, <3>2
    <3>3. CASE i # 1
      <4>1. i - 1 \in L /\ i - 1 \in Nat /\ i - 1 < i
        BY <1>1, <3>1, <3>3
      <4>2. t[i - 1] \in Seq(V) /\ seqs[i] \in Seq(V)
        BY <1>1, <3>1, <4>1
      <4>3. t[i] = t[i - 1] \o seqs[i]
        BY <1>10, <3>1, <3>3
      <4>4. t[i] \in Seq(V)
        <5> HIDE DEF L
        <5> QED BY <4>2, <4>3, ConcatProperties
      <4> QED BY <3>1, <4>4
    <3> QED BY <3>2, <3>3
  <2>2. L \subseteq Nat
    OBVIOUS
  <2> HIDE DEF L
  <2> QED BY <2>1, <2>2
<1>12. t \in [L -> Seq(V)]
  <2>1. t = [i \in L |-> t[i]]
    <3> HIDE DEF Value, L
    <3> QED BY <1>8, <1>10
  <2> QED BY <1>11, <2>1
<1>13. 1 \in L
  BY <1>1
<1>14. t[1] = seqs[1] /\ \A i \in L : i # 1 => t[i] = t[i - 1] \o seqs[i]
  BY <1>10, <1>13
<1>15. Joined(t, seqs, V)
  BY <1>9, <1>12, <1>14 DEF Joined
<1> QED
  BY <1>15

LEMMA FlattenIsSeq ==
    ASSUME NEW V, NEW seqs \in Seq(Seq(V))
    PROVE  FlattenSeq(seqs) \in Seq(V) /\ (Len(seqs) = 0 => FlattenSeq(seqs) = <<>>)
<1>1. CASE Len(seqs) = 0
  BY <1>1 DEF FlattenSeq
<1>2. CASE Len(seqs) # 0
  <2>1. PICK t : Joined(t, seqs, V)
    BY <1>2, FlattenIs
  <2>2. Len(seqs) \in 1..Len(seqs)
    BY <1>2
  <2> QED BY <1>2, <2>1, <2>2 DEF Joined
<1> QED
  BY <1>1, <1>2

(* The listings of m's sub-machines, if f gives the listing of each machine. *)
OfSubs(f, m) == [i \in DOMAIN machine_list[m] |-> f[machine_list[m][i]]]

SubsListed(f, m, V) == \A i \in 1..Len(machine_list[m]) : f[machine_list[m][i]] \in Seq(V)

LEMMA OfSubsIs ==
    ASSUME IInv, NEW m \in Declared, NEW V, NEW f, SubsListed(f, m, V)
    PROVE  /\ OfSubs(f, m) \in Seq(Seq(V)) /\ Len(OfSubs(f, m)) = Len(machine_list[m])
           /\ \A i \in 1..Len(machine_list[m]) : OfSubs(f, m)[i] = f[machine_list[m][i]]
           /\ FlattenSeq(OfSubs(f, m)) \in Seq(V)
           /\ machine_list[m] = <<>> => FlattenSeq(OfSubs(f, m)) = <<>>
<1> DEFINE n == Len(machine_list[m])
<1>1. n \in Nat /\ DOMAIN machine_list[m] = 1..n
  BY TreeFacts
<1>2. OfSubs(f, m) \in [1..n -> Seq(V)] /\ DOMAIN OfSubs(f, m) = 1..n
  BY <1>1 DEF OfSubs, SubsListed
<1>3. OfSubs(f, m) \in Seq(Seq(V))
  BY <1>1, <1>2
<1>4. Len(OfSubs(f, m)) = n
  BY <1>1, <1>2, <1>3
<1>5. \A i \in 1..n : OfSubs(f, m)[i] = f[machine_list[m][i]]
  BY <1>1 DEF OfSubs
<1>6. machine_list[m] = <<>> => Len(OfSubs(f, m)) = 0
  BY <1>4
<1> QED
  BY <1>3, <1>4, <1>5, <1>6, FlattenIsSeq

(* A recursive listing: what a machine lists itself, then what its           *)
(* sub-machines list.                                                        *)
Lists(f, own, V) ==
    /\ own \in [Declared -> Seq(V)]
    /\ f = [m \in Declared |-> own[m] \o FlattenSeq(OfSubs(f, m))]

LEMMA ListingExists ==
    ASSUME IInv, NEW V, NEW own \in [Declared -> Seq(V)]
    PROVE  \E f : Lists(f, own, V)
<1> DEFINE N == Len(numEvents)
           Value(f, m) == own[m] \o FlattenSeq(OfSubs(f, m))
           B == [f \in [Declared -> Seq(V)] |-> [m \in Declared |-> Value(f, m)]]
           rank == [m \in Declared |-> N - m]
<1>1. Declared = 1..N /\ N \in Nat /\ 1 \in Declared
  BY TreeFacts
<1>2. ASSUME NEW f \in [Declared -> Seq(V)], NEW m \in Declared PROVE Value(f, m) \in Seq(V)
  <2>1. SubsListed(f, m, V)
    BY TreeFacts DEF SubsListed
  <2>2. FlattenSeq(OfSubs(f, m)) \in Seq(V)
    BY <2>1, OfSubsIs
  <2>3. own[m] \in Seq(V)
    OBVIOUS
  <2> QED BY <2>2, <2>3, ConcatProperties
<1>3. B \in [[Declared -> Seq(V)] -> [Declared -> Seq(V)]]
  <2> HIDE DEF Value
  <2> QED BY <1>2
<1>4. rank \in [Declared -> Nat] /\ \A m \in Declared : rank[m] <= N
  BY <1>1
<1>5. Causal(B, Declared, Seq(V), rank)
  <2> SUFFICES ASSUME NEW f \in [Declared -> Seq(V)], NEW g \in [Declared -> Seq(V)], NEW m \in Declared,
                      \A k \in Declared : rank[k] < rank[m] => f[k] = g[k]
               PROVE  B[f][m] = B[g][m]
    BY DEF Causal
  <2>1. ASSUME NEW i \in DOMAIN machine_list[m] PROVE f[machine_list[m][i]] = g[machine_list[m][i]]
    <3>1. machine_list[m][i] \in Declared /\ m < machine_list[m][i]
      BY TreeFacts
    <3>2. rank[machine_list[m][i]] < rank[m]
      BY <1>1, <3>1
    <3> QED BY <3>1, <3>2
  <2>2. OfSubs(f, m) = OfSubs(g, m)
    BY <2>1 DEF OfSubs
  <2>3. Value(f, m) = Value(g, m)
    BY <2>2
  <2> HIDE DEF Value
  <2> QED BY <2>3
<1>6. PICK f \in [Declared -> Seq(V)] : B[f] = f
  <2>1. Seq(V) # {}
    <3>1. <<>> \in Seq(V)
      OBVIOUS
    <3> QED BY <3>1
  <2> HIDE DEF B, rank, N
  <2>2. WellDefined(B, Declared, Seq(V), rank, N)
    BY <1>1, <1>3, <1>4, <1>5, <2>1 DEF WellDefined
  <2> QED BY <2>2, FixedPoint
<1>7. f = [m \in Declared |-> Value(f, m)]
  <2> HIDE DEF Value
  <2> QED BY <1>6
<1> QED
  BY <1>7 DEF Lists

LEMMA ListingIs ==
    ASSUME IInv, NEW V, NEW own, NEW f, Lists(f, own, V)
    PROVE  /\ f \in [Declared -> Seq(V)]
           /\ \A m \in Declared : f[m] = own[m] \o FlattenSeq(OfSubs(f, m))
<1> DEFINE N == Len(numEvents)
           Value(m) == own[m] \o FlattenSeq(OfSubs(f, m))
           S == {k \in Nat : N - k \in Declared /\ f[N - k] \notin Seq(V)}
<1>1. Declared = 1..N /\ N \in Nat /\ 1 \in Declared
  BY TreeFacts
<1>2. f = [m \in Declared |-> Value(m)]
  BY DEF Lists
<1>3. \A m \in Declared : f[m] = Value(m)
  <2> HIDE DEF Value
  <2> QED BY <1>2
<1>4. ASSUME S # {} PROVE FALSE
  <2>1. PICK k \in S : \A j \in S : k <= j
    BY <1>4, LeastNat
  <2> DEFINE m == N - k
  <2>2. m \in Declared
    BY <2>1
  <2>3. ASSUME NEW i \in 1..Len(machine_list[m]) PROVE f[machine_list[m][i]] \in Seq(V)
    <3> DEFINE c == machine_list[m][i]
    <3>1. c \in Declared /\ m < c
      BY <2>2, TreeFacts
    <3>2. N - c \in Nat /\ N - c < k /\ N - (N - c) = c
      <4>1. c \in 1..N /\ m = N - k /\ k \in Nat
        BY <1>1, <2>1, <3>1
      <4> HIDE DEF c, N
      <4>2. c \in Nat /\ N - c \in Nat /\ N - (N - c) = c
        BY <1>1, <4>1
      <4> QED BY <1>1, <3>1, <4>1, <4>2
    <3> HIDE DEF c
    <3>3. N - c \notin S
      BY <2>1, <3>2
    <3> QED BY <3>1, <3>2, <3>3 DEF c
  <2> HIDE DEF m
  <2>4. FlattenSeq(OfSubs(f, m)) \in Seq(V)
    <3>1. SubsListed(f, m, V)
      BY <2>3 DEF SubsListed
    <3> QED BY <2>2, <3>1, OfSubsIs
  <2>5. own[m] \in Seq(V)
    BY <2>2 DEF Lists
  <2>6. f[m] \in Seq(V)
    BY <1>3, <2>2, <2>4, <2>5, ConcatProperties
  <2> QED BY <2>1, <2>6 DEF m
<1>5. \A m \in Declared : f[m] \in Seq(V)
  <2> SUFFICES ASSUME NEW m \in Declared PROVE f[m] \in Seq(V)
    OBVIOUS
  <2>1. N - m \in Nat /\ N - (N - m) = m
    BY <1>1
  <2> HIDE DEF N
  <2> QED BY <1>4, <2>1
<1>6. f \in [Declared -> Seq(V)]
  <2>1. f = [m \in Declared |-> f[m]]
    <3> HIDE DEF Value
    <3> QED BY <1>2, <1>3
  <2> QED BY <1>5, <2>1
<1> QED
  BY <1>3, <1>6

-----------------------------------------------------------------------------
(* The listings of values.                                                   *)

(* The values from a up to, and not with, b.                                 *)
Values(a, b) == [k \in 1..b - a |-> a + k - 1]

LEMMA ValuesSeq ==
    ASSUME NEW a \in Nat, NEW b \in Nat, a <= b
    PROVE  /\ Values(a, b) \in Seq(Nat) /\ Len(Values(a, b)) = b - a
           /\ \A k \in 1..b - a : Values(a, b)[k] = a + k - 1
<1>1. b - a \in Nat /\ \A k \in 1..b - a : a + k - 1 \in Nat
  OBVIOUS
<1>2. Values(a, b) \in [1..b - a -> Nat] /\ DOMAIN Values(a, b) = 1..b - a
  BY <1>1 DEF Values
<1>3. Values(a, b) \in Seq(Nat)
  BY <1>1, <1>2
<1>4. Len(Values(a, b)) = b - a
  BY <1>1, <1>2, <1>3
<1> QED
  BY <1>3, <1>4 DEF Values

Adjacent(a, b, c) == a \in Nat /\ b \in Nat /\ c \in Nat /\ a <= b /\ b <= c

LEMMA ValuesJoin ==
    ASSUME NEW a, NEW b, NEW c, Adjacent(a, b, c)
    PROVE  Values(a, b) \o Values(b, c) = Values(a, c)
<1>0. a \in Nat /\ b \in Nat /\ c \in Nat /\ a <= b /\ b <= c
  BY DEF Adjacent
<1> DEFINE s == Values(a, b)
           t == Values(b, c)
           u == Values(a, c)
<1>1. /\ s \in Seq(Nat) /\ Len(s) = b - a /\ \A k \in 1..b - a : s[k] = a + k - 1
  BY <1>0, ValuesSeq
<1>2. /\ t \in Seq(Nat) /\ Len(t) = c - b /\ \A k \in 1..c - b : t[k] = b + k - 1
  BY <1>0, ValuesSeq
<1>3. /\ u \in Seq(Nat) /\ Len(u) = c - a /\ \A k \in 1..c - a : u[k] = a + k - 1
  <2>1. a <= c
    BY <1>0
  <2> QED BY <1>0, <2>1, ValuesSeq
<1> HIDE DEF s, t, u
<1>4. /\ s \o t \in Seq(Nat) /\ Len(s \o t) = Len(s) + Len(t)
      /\ \A k \in 1..Len(s) + Len(t) : (s \o t)[k] = IF k <= Len(s) THEN s[k] ELSE t[k - Len(s)]
  BY <1>1, <1>2, ConcatProperties
<1>5. Len(s \o t) = Len(u)
  BY <1>0, <1>1, <1>2, <1>3, <1>4
<1>6. ASSUME NEW k \in 1..Len(u) PROVE (s \o t)[k] = u[k]
  <2>1. u[k] = a + k - 1 /\ k \in 1..c - a
    BY <1>3
  <2>2. CASE k <= b - a
    BY <1>0, <1>1, <1>2, <1>4, <2>1, <2>2
  <2>3. CASE k > b - a
    <3>1. k - (b - a) \in 1..c - b
      BY <1>0, <2>1, <2>3
    <3>2. t[k - (b - a)] = b + (k - (b - a)) - 1
      BY <1>2, <3>1
    <3>3. (s \o t)[k] = t[k - (b - a)]
      BY <1>0, <1>1, <1>2, <1>4, <2>1, <2>3
    <3>4. b + (k - (b - a)) - 1 = a + k - 1
      BY <1>0, <2>1
    <3> QED BY <2>1, <3>2, <3>3, <3>4
  <2>4. b - a \in Nat /\ k \in Nat
    BY <1>0, <2>1
  <2>5. k <= b - a \/ k > b - a
    BY <1>0, <2>4
  <2> QED BY <2>2, <2>3, <2>5
<1>7. s \o t = u
  BY <1>3, <1>4, <1>5, <1>6, SeqEqual
<1> QED
  BY <1>7 DEF s, t, u

LEMMA NoValues ==
    ASSUME NEW a \in Nat
    PROVE  Values(a, a) = <<>>
<1>1. Values(a, a) \in Seq(Nat) /\ Len(Values(a, a)) = 0
  BY ValuesSeq
<1> QED
  BY <1>1

LEMMA OneValue ==
    ASSUME NEW a \in Nat
    PROVE  Values(a, a + 1) = <<a>>
<1>1. /\ Values(a, a + 1) \in Seq(Nat) /\ Len(Values(a, a + 1)) = 1
      /\ Values(a, a + 1)[1] = a
  <2> DEFINE b == a + 1
  <2>1. b \in Nat /\ a <= b /\ b - a = 1 /\ a + 1 - 1 = a /\ 1 \in 1..1
    OBVIOUS
  <2> HIDE DEF b
  <2>2. /\ Values(a, b) \in Seq(Nat) /\ Len(Values(a, b)) = b - a
        /\ \A k \in 1..b - a : Values(a, b)[k] = a + k - 1
    BY <2>1, ValuesSeq
  <2>3. Values(a, b)[1] = a
    BY <2>1, <2>2
  <2> QED BY <2>1, <2>2, <2>3 DEF b
<1> QED
  BY <1>1

(* What a machine other than the top level lists: its events and noEvent.    *)
LEMMA OwnValues ==
    ASSUME IInv, NEW m \in Declared
    PROVE  /\ EventEntries(m) = Values(First(m), No(m))
           /\ EventEntries(m) \o NoEventEntry(m) = Values(First(m), No(m) + 1)
           /\ EventEntries(m) \o NoEventEntry(m) \in Seq(Nat)
<1>1. First(m) \in Nat /\ No(m) \in Nat /\ numEvents[m] \in Nat /\ No(m) = First(m) + numEvents[m]
  BY Layout, TreeFacts
<1>2. EventEntries(m) = Values(First(m), No(m))
  <2>1. numEvents[m] = No(m) - First(m)
    BY <1>1
  <2> QED BY <2>1 DEF EventEntries, Values, First
<1>3. NoEventEntry(m) = Values(No(m), No(m) + 1)
  BY <1>1, OneValue DEF NoEventEntry, No
<1>4. First(m) <= No(m) /\ No(m) <= No(m) + 1 /\ No(m) + 1 \in Nat /\ First(m) <= No(m) + 1
  BY <1>1
<1>5. EventEntries(m) \o NoEventEntry(m) = Values(First(m), No(m) + 1)
  <2>1. Adjacent(First(m), No(m), No(m) + 1)
    BY <1>1, <1>4 DEF Adjacent
  <2> QED BY <1>2, <1>3, <2>1, ValuesJoin
<1> QED
  BY <1>1, <1>2, <1>4, <1>5, ValuesSeq

(* Sub-machines whose listings give the values of their blocks, together give*)
(* the values from the first one's to the last one's end.                    *)
LEMMA SubsValues ==
    ASSUME IInv, LastSubMachinesAreLeaves, NEW m \in Declared, machine_list[m] # <<>>, NEW f,
           \A i \in 1..Len(machine_list[m]) :
              f[machine_list[m][i]] = Values(First(machine_list[m][i]), Behind(machine_list[m][i]))
    PROVE  FlattenSeq(OfSubs(f, m)) =
              Values(First(machine_list[m][1]), Behind(Last(machine_list[m])))
<1> DEFINE L == Len(machine_list[m])
           c(i) == machine_list[m][i]
           seqs == OfSubs(f, m)
<1>1. L \in Nat /\ 1 \in 1..L /\ L \in 1..L /\ Last(machine_list[m]) = c(L) /\ \A i \in 1..L : c(i) \in Declared /\ c(i) # 1
  BY TreeFacts
<1>2. \A i \in 1..L : First(c(i)) \in Nat /\ Behind(c(i)) \in Nat
  BY <1>1, Layout
<1>3. \A i \in 1..L : First(c(i)) <= Behind(c(i))
  <2> SUFFICES ASSUME NEW i \in 1..L PROVE First(c(i)) <= Behind(c(i))
    OBVIOUS
  <2>1. Advance[c(i)] \in Nat /\ Behind(c(i)) = First(c(i)) + Advance[c(i)]
    BY <1>1, Layout DEF Behind
  <2> HIDE DEF c
  <2> QED BY <1>2, <2>1
<1>4. \A i \in 1..L : i # 1 => First(c(i)) = Behind(c(i - 1))
  BY Layout
<1>5. \A i \in 1..L : First(c(1)) <= First(c(i))
  <2> SUFFICES ASSUME NEW i \in 1..L PROVE First(c(1)) <= First(c(i))
    OBVIOUS
  <2> QED BY <1>1, SubsAscend
<1>6. \A i \in 1..L : f[c(i)] \in Seq(Nat)
  <2> SUFFICES ASSUME NEW i \in 1..L PROVE f[c(i)] \in Seq(Nat)
    OBVIOUS
  <2> QED BY <1>2, <1>3, ValuesSeq
<1>7. seqs \in Seq(Seq(Nat)) /\ Len(seqs) = L /\ \A i \in 1..L : seqs[i] = f[c(i)]
  <2>1. SubsListed(f, m, Nat)
    BY <1>6 DEF SubsListed
  <2> QED BY <2>1, OfSubsIs
<1>8. PICK t : Joined(t, seqs, Nat)
  <2>1. Len(seqs) # 0
    BY <1>1, <1>7
  <2> HIDE DEF seqs
  <2> QED BY <1>7, <2>1, FlattenIs
<1>9. /\ FlattenSeq(seqs) = t[L] /\ t[1] = seqs[1]
      /\ \A i \in 1..L : i # 1 => t[i] = t[i - 1] \o seqs[i]
  BY <1>7, <1>8 DEF Joined
<1> HIDE DEF seqs
<1> DEFINE S == {i \in Nat : i \in 1..L /\ t[i] # Values(First(c(1)), Behind(c(i)))}
<1>10. \A i \in 1..L : seqs[i] = Values(First(c(i)), Behind(c(i)))
  BY <1>7
<1> HIDE DEF c
<1>11. ASSUME S # {} PROVE FALSE
  <2>1. PICK i \in S : \A j \in S : i <= j
    BY <1>11, LeastNat
  <2>2. i # 1
    BY <1>1, <1>9, <1>10, <2>1
  <2>3. i - 1 \in 1..L /\ i - 1 \in Nat /\ i - 1 < i /\ i \in 1..L
    BY <1>1, <2>1, <2>2
  <2>4. t[i - 1] = Values(First(c(1)), Behind(c(i - 1)))
    BY <2>1, <2>3
  <2>5. seqs[i] = Values(Behind(c(i - 1)), Behind(c(i)))
    BY <1>4, <1>10, <2>2, <2>3
  <2>6. /\ First(c(1)) \in Nat /\ Behind(c(i - 1)) \in Nat /\ Behind(c(i)) \in Nat
        /\ First(c(1)) <= Behind(c(i - 1)) /\ Behind(c(i - 1)) <= Behind(c(i))
    <3>1. First(c(1)) <= First(c(i)) /\ First(c(i)) = Behind(c(i - 1)) /\ First(c(i)) <= Behind(c(i))
      BY <1>3, <1>4, <1>5, <2>2, <2>3
    <3> QED BY <1>1, <1>2, <2>3, <3>1
  <2>7. t[i] = Values(First(c(1)), Behind(c(i)))
    <3>1. Adjacent(First(c(1)), Behind(c(i - 1)), Behind(c(i)))
      BY <2>6 DEF Adjacent
    <3>2. Values(First(c(1)), Behind(c(i - 1))) \o Values(Behind(c(i - 1)), Behind(c(i)))
             = Values(First(c(1)), Behind(c(i)))
      BY <3>1, ValuesJoin
    <3>3. t[i] = t[i - 1] \o seqs[i]
      BY <1>9, <2>2, <2>3
    <3> QED BY <2>4, <2>5, <3>2, <3>3
  <2> QED BY <2>1, <2>7
<1>12. t[L] = Values(First(c(1)), Behind(c(L)))
  BY <1>1, <1>11
<1> QED
  BY <1>1, <1>9, <1>12 DEF c, seqs

(* A sub-machine's listing gives the values of its block.                    *)
LEMMA BlockListed ==
    ASSUME IInv, LastSubMachinesAreLeaves, NEW m \in Declared, m # 1
    PROVE  SubMachineEntries[m] = Values(First(m), Behind(m))
<1> DEFINE N == Len(numEvents)
           own == [d \in Declared |-> EventEntries(d) \o NoEventEntry(d)]
           f == SubMachineEntries
           S == {k \in Nat : N - k \in Declared /\ N - k # 1
                             /\ f[N - k] # Values(First(N - k), Behind(N - k))}
<1>1. Declared = 1..N /\ N \in Nat /\ 1 \in Declared
  BY TreeFacts
<1>2. own \in [Declared -> Seq(Nat)]
  BY OwnValues
<1>3. Lists(f, own, Nat)
  <2>1. PICK g : Lists(g, own, Nat)
    <3> HIDE DEF own
    <3> QED BY <1>2, ListingExists
  <2>2. g = [d \in Declared |-> EventEntries(d) \o NoEventEntry(d) \o FlattenSeq(OfSubs(g, d))]
    BY <2>1 DEF Lists
  <2>3. f = [d \in Declared |-> EventEntries(d) \o NoEventEntry(d) \o FlattenSeq(OfSubs(f, d))]
    BY <2>2 DEF SubMachineEntries, OfSubs
  <2> HIDE DEF f
  <2> QED BY <1>2, <2>3 DEF Lists
<1>4. \A d \in Declared : f[d] = own[d] \o FlattenSeq(OfSubs(f, d))
  <2> HIDE DEF own, f
  <2> QED BY <1>3, ListingIs
<1> HIDE DEF f
<1>5. ASSUME S # {} PROVE FALSE
  <2>1. PICK k \in S : \A j \in S : k <= j
    BY <1>5, LeastNat
  <2> DEFINE d == N - k
  <2>2. d \in Declared /\ d # 1
    BY <2>1
  <2>3. ASSUME NEW i \in 1..Len(machine_list[d])
        PROVE  f[machine_list[d][i]] = Values(First(machine_list[d][i]), Behind(machine_list[d][i]))
    <3> DEFINE c == machine_list[d][i]
    <3>1. c \in Declared /\ d < c /\ c # 1
      BY <2>2, TreeFacts
    <3>2. N - c \in Nat /\ N - c < k /\ N - (N - c) = c
      <4>1. c \in 1..N /\ d = N - k /\ k \in Nat
        BY <1>1, <2>1, <3>1
      <4> HIDE DEF c, N
      <4>2. c \in Nat /\ N - c \in Nat /\ N - (N - c) = c
        BY <1>1, <4>1
      <4> QED BY <1>1, <3>1, <4>1, <4>2
    <3> HIDE DEF c
    <3>3. N - c \notin S
      BY <2>1, <3>2
    <3> QED BY <3>1, <3>2, <3>3 DEF c
  <2> HIDE DEF d
  <2>4. own[d] = Values(First(d), No(d) + 1) /\ f[d] = own[d] \o FlattenSeq(OfSubs(f, d))
    BY <1>4, <2>2, OwnValues
  <2>5. First(d) \in Nat /\ No(d) \in Nat /\ No(d) + 1 \in Nat /\ Behind(d) \in Nat
    BY <2>2, Layout
  <2>6. First(d) <= No(d) + 1
    BY <2>2, <2>5, NoBeforeBehind
  <2>7. f[d] = Values(First(d), Behind(d))
    <3>1. CASE machine_list[d] = <<>>
      <4>1. Len(machine_list[d]) = 0
        BY <3>1
      <4>2. FlattenSeq(OfSubs(f, d)) = <<>>
        <5>1. SubsListed(f, d, Nat)
          BY <4>1 DEF SubsListed
        <5> QED BY <2>2, <3>1, <5>1, OfSubsIs
      <4>3. Behind(d) = No(d) + 1
        BY <2>2, <3>1, Layout
      <4>4. Values(First(d), No(d) + 1) \in Seq(Nat)
        BY <2>5, <2>6, ValuesSeq
      <4>5. Values(First(d), No(d) + 1) \o <<>> = Values(First(d), No(d) + 1)
        BY <4>4, ConcatEmptySeq
      <4> QED BY <2>4, <4>2, <4>3, <4>5
    <3>2. CASE machine_list[d] # <<>>
      <4> DEFINE z == Last(machine_list[d])
      <4>1. z \in Declared /\ machine_list[z] = <<>> /\ z # 1
        BY <2>2, <3>2, TreeFacts DEF LastSubMachinesAreLeaves, TopLevel
      <4>2. Behind(z) = Behind(d)
        BY <2>2, <3>2, <4>1, Layout
      <4>3. First(machine_list[d][1]) = No(d) + 1
        BY <2>2, <3>2, Layout
      <4>4. FlattenSeq(OfSubs(f, d)) = Values(No(d) + 1, Behind(d))
        BY <2>2, <2>3, <3>2, <4>2, <4>3, SubsValues
      <4>5. No(d) + 1 <= Behind(d)
        BY <2>2, <2>5, NoBeforeBehind
      <4>6. Adjacent(First(d), No(d) + 1, Behind(d))
        BY <2>5, <2>6, <4>5 DEF Adjacent
      <4>7. Values(First(d), No(d) + 1) \o Values(No(d) + 1, Behind(d)) = Values(First(d), Behind(d))
        BY <4>6, ValuesJoin
      <4> QED BY <2>4, <4>4, <4>7
    <3> QED BY <3>1, <3>2
  <2> QED BY <2>1, <2>2, <2>7 DEF d
<1>6. f[m] = Values(First(m), Behind(m))
  <2>1. N - m \in Nat /\ N - (N - m) = m
    BY <1>1
  <2> HIDE DEF N
  <2> QED BY <1>5, <2>1
<1> QED
  BY <1>6 DEF f

-----------------------------------------------------------------------------
(* The name table and the cross references.                                  *)

(* All listings of the top level begin alike: all its enumerators up to the  *)
(* first sub-machine's.                                                      *)
LEMMA TopListed ==
    ASSUME IInv
    PROVE  EventEntries(TopLevel) \o CompleteTopLevel = Values(0, FirstOfSubs)
<1>1. TopLevel = 1 /\ 1 \in Declared /\ First(1) = 0 /\ No(1) \in Nat /\ No(1) = 0 + numEvents[1] /\ numEvents[1] \in Nat
      /\ FirstOfSubs \in Nat
  BY TreeFacts, Layout
<1>2. EventEntries(TopLevel) = Values(0, No(1))
  BY <1>1, OwnValues
<1>3. CompleteTopLevel = Values(No(1), FirstOfSubs)
  <2>1. CASE Counted(TopLevel)
    <3>1. CompleteTopLevel = <<No(1)>> \o <<No(1) + 1>>
      BY <1>1, <2>1 DEF CompleteTopLevel, NoEventEntry, No
    <3>2. <<No(1)>> = Values(No(1), No(1) + 1)
      BY <1>1, OneValue
    <3>3. <<No(1) + 1>> = Values(No(1) + 1, No(1) + 2)
      <4> DEFINE n == No(1) + 1
      <4>1. n \in Nat /\ n + 1 = No(1) + 2
        BY <1>1
      <4> HIDE DEF n
      <4>2. <<n>> = Values(n, n + 1)
        BY <4>1, OneValue
      <4> QED BY <4>1, <4>2 DEF n
    <3>4. FirstOfSubs = No(1) + 2
      BY <1>1, <2>1 DEF FirstOfSubs
    <3>5. Adjacent(No(1), No(1) + 1, No(1) + 2)
      BY <1>1 DEF Adjacent
    <3>6. Values(No(1), No(1) + 1) \o Values(No(1) + 1, No(1) + 2) = Values(No(1), No(1) + 2)
      BY <3>5, ValuesJoin
    <3> QED BY <3>1, <3>2, <3>3, <3>4, <3>6
  <2>2. CASE ~Counted(TopLevel)
    <3>1. CompleteTopLevel = <<>> \o <<No(1)>>
      BY <1>1, <2>2 DEF CompleteTopLevel, No
    <3>2. <<>> \o <<No(1)>> = <<No(1)>>
      <4>1. <<No(1)>> \in Seq(Nat)
        BY <1>1
      <4> QED BY <4>1, ConcatEmptySeq
    <3>3. FirstOfSubs = No(1) + 1
      BY <1>1, <2>2 DEF FirstOfSubs
    <3> QED BY <1>1, <3>1, <3>2, <3>3, OneValue
  <2> QED BY <2>1, <2>2
<1>4. Adjacent(0, No(1), FirstOfSubs)
  <2>1. No(1) < FirstOfSubs
    BY <1>1, Layout
  <2> QED BY <1>1, <2>1 DEF Adjacent
<1>5. Values(0, No(1)) \o Values(No(1), FirstOfSubs) = Values(0, FirstOfSubs)
  BY <1>4, ValuesJoin
<1> QED
  BY <1>2, <1>3, <1>5

LEMMA SubMachinesListedIs ==
    ASSUME IInv, LastSubMachinesAreLeaves
    PROVE  /\ machine_list[1] = <<>> => SubMachinesListed = <<>>
           /\ machine_list[1] # <<>> =>
                 /\ SubMachinesListed = Values(FirstOfSubs, EventEnum[1].lastEvent)
                 /\ Adjacent(0, FirstOfSubs, EventEnum[1].lastEvent)
<1>1. TopLevel = 1 /\ 1 \in Declared /\ FirstOfSubs \in Nat
  BY TreeFacts, Layout
<1>2. SubMachinesListed = FlattenSeq(OfSubs(SubMachineEntries, 1))
  BY <1>1 DEF SubMachinesListed, OfSubs
<1>3. \A i \in 1..Len(machine_list[1]) :
         SubMachineEntries[machine_list[1][i]] =
             Values(First(machine_list[1][i]), Behind(machine_list[1][i]))
  <2> SUFFICES ASSUME NEW i \in 1..Len(machine_list[1])
               PROVE  SubMachineEntries[machine_list[1][i]] =
                         Values(First(machine_list[1][i]), Behind(machine_list[1][i]))
    OBVIOUS
  <2>1. machine_list[1][i] \in Declared /\ machine_list[1][i] # 1
    BY <1>1, TreeFacts
  <2> QED BY <2>1, BlockListed
<1>4. CASE machine_list[1] = <<>>
  <2>1. Len(machine_list[1]) = 0
    BY <1>4
  <2>2. SubsListed(SubMachineEntries, 1, Nat)
    BY <2>1 DEF SubsListed
  <2> QED BY <1>1, <1>2, <1>4, <2>2, OfSubsIs
<1>5. CASE machine_list[1] # <<>>
  <2> DEFINE z == Last(machine_list[1])
  <2>1. z \in Declared /\ Len(machine_list[1]) \in 1..Len(machine_list[1]) /\ z = machine_list[1][Len(machine_list[1])]
        /\ 1 \in 1..Len(machine_list[1])
    BY <1>1, <1>5, TreeFacts
  <2>2. EventEnum[1].lastEvent = Behind(z) /\ First(machine_list[1][1]) = FirstOfSubs
    BY <1>1, <1>5, Layout
  <2>3. FlattenSeq(OfSubs(SubMachineEntries, 1)) = Values(First(machine_list[1][1]), Behind(z))
    BY <1>1, <1>3, <1>5, SubsValues
  <2>4. FirstOfSubs <= First(z)
    BY <1>1, <2>1, <2>2, SubsAscend
  <2>5. First(z) \in Nat /\ Advance[z] \in Nat /\ Behind(z) = First(z) + Advance[z] /\ Behind(z) \in Nat
    BY <2>1, Layout DEF Behind
  <2> HIDE DEF z
  <2>6. FirstOfSubs <= Behind(z)
    BY <1>1, <2>4, <2>5
  <2>7. Adjacent(0, FirstOfSubs, Behind(z))
    BY <1>1, <2>5, <2>6 DEF Adjacent
  <2> QED BY <1>2, <1>5, <2>2, <2>3, <2>7
<1> QED
  BY <1>4, <1>5

LEMMA ValuesAreRight ==
    ASSUME NEW b \in Nat
    PROVE  GivesTheValues(Values(0, b))
  BY DEF GivesTheValues, Values

(* The name table gives the values: under the condition on last              *)
(* sub-machines, the name of an event stands at the event's value.           *)
THEOREM NamesGiveValues == Spec => [](LastSubMachinesAreLeaves => NamesMatchValues)
<1>1. IInv => (LastSubMachinesAreLeaves => NamesMatchValues)
  <2> SUFFICES ASSUME IInv, LastSubMachinesAreLeaves PROVE NamesMatchValues
    OBVIOUS
  <2>1. EventEntries(TopLevel) \o CompleteTopLevel = Values(0, FirstOfSubs)
    BY TopListed
  <2>2. FirstOfSubs \in Nat /\ 0 <= FirstOfSubs
    BY Layout
  <2>3. CASE machine_list[1] = <<>>
    <3>1. EventNames = Values(0, FirstOfSubs) \o <<>>
      BY <2>1, <2>3, SubMachinesListedIs DEF EventNames
    <3>2. Values(0, FirstOfSubs) \o <<>> = Values(0, FirstOfSubs)
      <4>1. Values(0, FirstOfSubs) \in Seq(Nat)
        BY <2>2, ValuesSeq
      <4> QED BY <4>1, ConcatEmptySeq
    <3> QED BY <2>2, <3>1, <3>2, ValuesAreRight DEF NamesMatchValues
  <2>4. CASE machine_list[1] # <<>>
    <3> DEFINE e == EventEnum[1].lastEvent
    <3>1. SubMachinesListed = Values(FirstOfSubs, e) /\ Adjacent(0, FirstOfSubs, e)
      BY <2>4, SubMachinesListedIs
    <3>2. Values(0, FirstOfSubs) \o Values(FirstOfSubs, e) = Values(0, e)
      BY <3>1, ValuesJoin
    <3>3. EventNames = Values(0, e)
      BY <2>1, <3>1, <3>2 DEF EventNames
    <3>4. e \in Nat
      BY <3>1 DEF Adjacent
    <3> QED BY <3>3, <3>4, ValuesAreRight DEF NamesMatchValues
  <2> QED BY <2>3, <2>4
<1> QED
  BY <1>1, Inductive, PTL

LEMMA EventXrefIs ==
    ASSUME IInv, LastSubMachinesAreLeaves
    PROVE  GivesTheValues(EventXref)
<1>1. EventEntries(TopLevel) \o CompleteTopLevel = Values(0, FirstOfSubs) /\ TopLevel = 1
  BY TopListed, TreeFacts
<1>2. FirstOfSubs \in Nat /\ 0 <= FirstOfSubs
  BY Layout
<1>3. CASE machine_list[1] = <<>>
  <2>1. EventXref = Values(0, FirstOfSubs) \o <<>>
    BY <1>1, <1>3 DEF EventXref, AnySubMachines
  <2>2. Values(0, FirstOfSubs) \o <<>> = Values(0, FirstOfSubs)
    <3>1. Values(0, FirstOfSubs) \in Seq(Nat)
      BY <1>2, ValuesSeq
    <3> QED BY <3>1, ConcatEmptySeq
  <2> QED BY <1>2, <2>1, <2>2, ValuesAreRight
<1>4. CASE machine_list[1] # <<>>
  <2> DEFINE e == EventEnum[1].lastEvent
  <2>1. SubMachinesListed = Values(FirstOfSubs, e) /\ Adjacent(0, FirstOfSubs, e)
    BY <1>4, SubMachinesListedIs
  <2>2. e \in Nat /\ FirstOfSubs <= e
    BY <2>1 DEF Adjacent
  <2>3. EventXref = Values(0, FirstOfSubs) \o (Values(FirstOfSubs, e) \o <<e>>)
    BY <1>1, <1>4, <2>1 DEF EventXref, AnySubMachines
  <2> HIDE DEF e
  <2>4. <<e>> = Values(e, e + 1)
    BY <2>2, OneValue
  <2>5. Values(FirstOfSubs, e) \o Values(e, e + 1) = Values(FirstOfSubs, e + 1)
    <3>1. Adjacent(FirstOfSubs, e, e + 1)
      BY <1>2, <2>2 DEF Adjacent
    <3> QED BY <3>1, ValuesJoin
  <2>6. Values(0, FirstOfSubs) \o Values(FirstOfSubs, e + 1) = Values(0, e + 1)
    <3>1. Adjacent(0, FirstOfSubs, e + 1)
      BY <1>2, <2>2 DEF Adjacent
    <3> QED BY <3>1, ValuesJoin
  <2>7. EventXref = Values(0, e + 1)
    BY <2>3, <2>4, <2>5, <2>6
  <2>8. e + 1 \in Nat
    BY <2>2
  <2> QED BY <2>7, <2>8, ValuesAreRight
<1> QED
  BY <1>3, <1>4

-----------------------------------------------------------------------------
(* The cross reference of states.                                            *)

Entry == [machine : Declared, index : Nat]

(* The entries of each machine of X stand in s one after another, counted    *)
(* from 0, and there are none of other machines.                             *)
Numbered(s, X) ==
    /\ s \in Seq(Entry)
    /\ \A k \in 1..Len(s) :
          /\ s[k].machine \in X /\ s[k].index <= k - 1
          /\ \A j \in 1..k - 1 : s[j].machine = s[k].machine <=> j >= k - s[k].index

LEMMA NumberedJoin ==
    ASSUME NEW s, NEW t, NEW X, NEW Y, Numbered(s, X), Numbered(t, Y), X \cap Y = {}
    PROVE  Numbered(s \o t, X \cup Y)
<1> DEFINE u == s \o t
           n == Len(s)
           l == Len(t)
<1>1. s \in Seq(Entry) /\ t \in Seq(Entry) /\ n \in Nat /\ l \in Nat
  BY DEF Numbered
<1>2. /\ u \in Seq(Entry) /\ Len(u) = n + l
      /\ \A k \in 1..n + l : u[k] = IF k <= n THEN s[k] ELSE t[k - n]
  BY <1>1, ConcatProperties
<1>3. \A k \in 1..n : s[k].index \in Nat
  <2>1. \A k \in 1..n : s[k] \in Entry
    BY <1>1
  <2> QED BY <2>1 DEF Entry
<1>4. \A k \in 1..l : t[k].index \in Nat
  <2>1. \A k \in 1..l : t[k] \in Entry
    BY <1>1
  <2> QED BY <2>1 DEF Entry
<1>5. /\ \A k \in 1..n : /\ s[k].machine \in X /\ s[k].index <= k - 1
                         /\ \A j \in 1..k - 1 : s[j].machine = s[k].machine <=> j >= k - s[k].index
      /\ \A k \in 1..l : /\ t[k].machine \in Y /\ t[k].index <= k - 1
                         /\ \A j \in 1..k - 1 : t[j].machine = t[k].machine <=> j >= k - t[k].index
  BY DEF Numbered
<1> HIDE DEF u, n, l
<1>6. ASSUME NEW k \in 1..n + l
      PROVE  /\ u[k].machine \in X \cup Y /\ u[k].index <= k - 1
             /\ \A j \in 1..k - 1 : u[j].machine = u[k].machine <=> j >= k - u[k].index
  <2>1. k \in Nat /\ 1 <= k /\ k <= n + l
    BY <1>1
  <2>2. CASE k <= n
    <3>1. k \in 1..n /\ u[k] = s[k]
      BY <1>1, <1>2, <2>1, <2>2
    <3>2. \A j \in 1..k - 1 : u[j] = s[j]
      BY <1>1, <1>2, <2>1, <2>2
    <3> QED BY <1>5, <3>1, <3>2
  <2>3. CASE k > n
    <3> DEFINE i == k - n
    <3>1. i \in 1..l /\ k = n + i /\ i \in Nat
      BY <1>1, <2>1, <2>3
    <3>2. u[k] = t[i]
      BY <1>1, <1>2, <2>1, <2>3
    <3> HIDE DEF i
    <3>3. t[i].machine \in Y /\ t[i].index <= i - 1 /\ t[i].index \in Nat
      BY <1>4, <1>5, <3>1
    <3>4. ASSUME NEW j \in 1..k - 1 PROVE u[j].machine = u[k].machine <=> j >= k - u[k].index
      <4>1. CASE j <= n
        <5>1. j \in 1..n /\ u[j] = s[j]
          BY <1>1, <1>2, <2>1, <4>1
        <5>2. u[j].machine # u[k].machine
          BY <1>5, <3>2, <3>3, <5>1
        <5>3. ~(j >= k - t[i].index)
          BY <1>1, <3>1, <3>3, <4>1
        <5> QED BY <3>2, <5>2, <5>3
      <4>2. CASE j > n
        <5> DEFINE g == j - n
        <5>1. g \in 1..i - 1 /\ j = n + g /\ g \in Nat
          BY <1>1, <2>1, <3>1, <4>2
        <5>2. u[j] = t[g]
          BY <1>1, <1>2, <2>1, <4>2
        <5> HIDE DEF g
        <5>3. t[g].machine = t[i].machine <=> g >= i - t[i].index
          BY <1>5, <3>1, <5>1
        <5>4. (g >= i - t[i].index) <=> (j >= k - t[i].index)
          BY <1>1, <3>1, <3>3, <5>1
        <5> QED BY <3>2, <5>2, <5>3, <5>4
      <4>3. j <= n \/ j > n
        BY <1>1, <2>1
      <4> QED BY <4>1, <4>2, <4>3
    <3>5. u[k].index <= k - 1
      BY <1>1, <3>1, <3>2, <3>3
    <3> QED BY <3>2, <3>3, <3>4, <3>5
  <2> QED BY <1>1, <2>1, <2>2, <2>3
<1>7. \A k \in 1..Len(u) : /\ u[k].machine \in X \cup Y /\ u[k].index <= k - 1
                           /\ \A j \in 1..k - 1 : u[j].machine = u[k].machine <=> j >= k - u[k].index
  BY <1>2, <1>6
<1>8. Numbered(u, X \cup Y)
  BY <1>2, <1>7 DEF Numbered
<1> QED
  BY <1>8 DEF u

LEMMA NumberedIn ==
    ASSUME NEW s, NEW X, NEW Y, Numbered(s, X), X \subseteq Y
    PROVE  Numbered(s, Y)
  BY DEF Numbered

LEMMA OwnStates ==
    ASSUME IInv, NEW m \in Declared
    PROVE  Numbered(StateEntries(m), {m}) /\ StateEntries(m) \in Seq(Entry)
<1> DEFINE n == NumStates[m]
           s == StateEntries(m)
<1>1. n \in Nat
  <2>1. m \in 1..MaxMachines
    <3>1. Declared = 1..Len(numEvents) /\ Len(numEvents) \in Nat /\ MaxMachines \in Nat /\ Len(numEvents) <= MaxMachines
      BY TypeFacts DEF IInv
    <3> QED BY <3>1
  <2> QED BY <2>1, BoundsAssumption
<1>2. s \in [1..n -> Entry] /\ DOMAIN s = 1..n
  <2>1. \A i \in 1..n : [machine |-> m, index |-> i - 1] \in Entry
    BY <1>1 DEF Entry
  <2> QED BY <2>1 DEF StateEntries
<1>3. s \in Seq(Entry)
  BY <1>1, <1>2
<1>4. Len(s) = n
  BY <1>1, <1>2, <1>3
<1>5. \A k \in 1..n : s[k].machine = m /\ s[k].index = k - 1
  BY DEF StateEntries
<1> HIDE DEF s, n
<1>6. ASSUME NEW k \in 1..n
      PROVE  /\ s[k].machine \in {m} /\ s[k].index <= k - 1
             /\ \A j \in 1..k - 1 : s[j].machine = s[k].machine <=> j >= k - s[k].index
  <2>1. \A j \in 1..k - 1 : j \in 1..n /\ j >= k - (k - 1)
    BY <1>1
  <2> QED BY <1>1, <1>5, <2>1
<1>7. Numbered(s, {m})
  BY <1>3, <1>4, <1>6 DEF Numbered
<1> QED
  BY <1>3, <1>7 DEF s

BelowFirst(m, n) == {d \in Declared : \E j \in 1..n : IsBelow(d, machine_list[m][j])}
Below(m) == {d \in Declared : IsBelow(d, m)}

LEMMA SubsNumbered ==
    ASSUME IInv, NEW m \in Declared, NEW f,
           \A i \in 1..Len(machine_list[m]) :
              Numbered(f[machine_list[m][i]], Below(machine_list[m][i]))
    PROVE  Numbered(FlattenSeq(OfSubs(f, m)), Below(m) \ {m})
<1> DEFINE L == Len(machine_list[m])
           c(i) == machine_list[m][i]
           seqs == OfSubs(f, m)
<1>1. L \in Nat /\ \A i \in 1..L : c(i) \in Declared /\ c(i) # 1 /\ m < c(i)
  BY TreeFacts
<1>2. \A i \in 1..L : f[c(i)] \in Seq(Entry)
  BY DEF Numbered
<1>3. /\ seqs \in Seq(Seq(Entry)) /\ Len(seqs) = L /\ \A i \in 1..L : seqs[i] = f[c(i)]
      /\ machine_list[m] = <<>> => FlattenSeq(seqs) = <<>>
  <2>1. SubsListed(f, m, Entry)
    BY <1>2 DEF SubsListed
  <2> QED BY <2>1, OfSubsIs
<1>4. CASE machine_list[m] = <<>>
  <2>1. <<>> \in Seq(Entry) /\ Len(<<>>) = 0
    OBVIOUS
  <2>2. Numbered(<<>>, Below(m) \ {m})
    BY <2>1 DEF Numbered
  <2> QED BY <1>3, <1>4, <2>2
<1>5. CASE machine_list[m] # <<>>
  <2>0. L \in 1..L /\ 1 \in 1..L
    BY <1>5, TreeFacts
  <2>1. PICK t : Joined(t, seqs, Entry)
    <3>1. Len(seqs) # 0
      BY <1>3, <2>0
    <3> HIDE DEF seqs
    <3> QED BY <1>3, <3>1, FlattenIs
  <2>2. /\ FlattenSeq(seqs) = t[L] /\ t[1] = seqs[1]
        /\ \A i \in 1..L : i # 1 => t[i] = t[i - 1] \o seqs[i]
    BY <1>3, <2>1 DEF Joined
  <2> HIDE DEF seqs
  <2>3. \A i \in 1..L : Numbered(seqs[i], Below(c(i)))
    BY <1>3
  <2> DEFINE S == {i \in Nat : i \in 1..L /\ ~Numbered(t[i], BelowFirst(m, i))}
  <2>4. ASSUME S # {} PROVE FALSE
    <3>1. PICK i \in S : \A j \in S : i <= j
      BY <2>4, LeastNat
    <3>2. Numbered(seqs[i], Below(c(i)))
      BY <2>3, <3>1
    <3>3. CASE i = 1
      <4>1. Below(c(1)) \subseteq BelowFirst(m, 1)
        BY DEF Below, BelowFirst
      <4>2. Numbered(t[1], BelowFirst(m, 1))
        BY <2>2, <3>2, <3>3, <4>1, NumberedIn
      <4> QED BY <3>1, <3>3, <4>2
    <3>4. CASE i # 1
      <4>1. i - 1 \in 1..L /\ i - 1 \in Nat /\ i - 1 < i /\ i \in 1..L
        BY <1>1, <3>1, <3>4
      <4>2. Numbered(t[i - 1], BelowFirst(m, i - 1))
        BY <3>1, <4>1
      <4>3. BelowFirst(m, i - 1) \cap Below(c(i)) = {}
        <5> SUFFICES ASSUME NEW d \in Declared, NEW j \in 1..i - 1, IsBelow(d, c(j)), IsBelow(d, c(i)) PROVE FALSE
          BY DEF BelowFirst, Below
        <5>1. j \in 1..L /\ j # i
          BY <1>1, <4>1
        <5> QED BY <4>1, <5>1, OneSubAbove
      <4>4. BelowFirst(m, i - 1) \cup Below(c(i)) \subseteq BelowFirst(m, i)
        <5>1. \A j \in 1..i - 1 : j \in 1..i
          BY <4>1
        <5>2. i \in 1..i
          BY <4>1
        <5> QED BY <5>1, <5>2 DEF BelowFirst, Below
      <4>5. Numbered(t[i - 1] \o seqs[i], BelowFirst(m, i - 1) \cup Below(c(i)))
        BY <3>2, <4>2, <4>3, NumberedJoin
      <4>6. t[i] = t[i - 1] \o seqs[i]
        BY <2>2, <3>4, <4>1
      <4>7. Numbered(t[i], BelowFirst(m, i))
        BY <4>4, <4>5, <4>6, NumberedIn
      <4> QED BY <3>1, <4>7
    <3> QED BY <3>3, <3>4
  <2>5. Numbered(t[L], BelowFirst(m, L))
    BY <1>1, <2>0, <2>4
  <2>6. BelowFirst(m, L) \subseteq Below(m) \ {m}
    <3> SUFFICES ASSUME NEW d \in Declared, NEW j \in 1..L, IsBelow(d, c(j)) PROVE IsBelow(d, m) /\ d # m
      BY DEF BelowFirst, Below
    <3>1. c(j) \in Declared /\ m < c(j) /\ c(j) # 1 /\ parent[c(j)] = m
      BY <1>1, PlaceOf
    <3> HIDE DEF c
    <3>2. c(j) <= d /\ m \in Nat /\ d \in Nat /\ c(j) \in Nat
      BY <3>1, BelowFacts, ParentFacts
    <3>3. IsBelow(c(j), m)
      <4>1. IsBelow(m, m)
        BY BelowFacts
      <4> QED BY <3>1, <4>1, BelowFacts
    <3>4. IsBelow(d, m)
      BY <3>3 DEF IsBelow
    <3> QED BY <3>1, <3>2, <3>4
  <2> QED BY <2>2, <2>5, <2>6, NumberedIn DEF seqs
<1> QED
  BY <1>4, <1>5

LEMMA StatesNumbered ==
    ASSUME IInv, NEW m \in Declared
    PROVE  Numbered(SubMachineStateEntries[m], Below(m))
<1> DEFINE N == Len(numEvents)
           own == [d \in Declared |-> StateEntries(d)]
           f == SubMachineStateEntries
           S == {k \in Nat : N - k \in Declared /\ ~Numbered(f[N - k], Below(N - k))}
<1>1. Declared = 1..N /\ N \in Nat /\ 1 \in Declared
  BY TreeFacts
<1>2. own \in [Declared -> Seq(Entry)]
  BY OwnStates
<1>3. Lists(f, own, Entry)
  <2>1. PICK g : Lists(g, own, Entry)
    <3> HIDE DEF own
    <3> QED BY <1>2, ListingExists
  <2>2. g = [d \in Declared |-> StateEntries(d) \o FlattenSeq(OfSubs(g, d))]
    BY <2>1 DEF Lists
  <2>3. f = [d \in Declared |-> StateEntries(d) \o FlattenSeq(OfSubs(f, d))]
    BY <2>2 DEF SubMachineStateEntries, OfSubs
  <2> HIDE DEF f
  <2> QED BY <1>2, <2>3 DEF Lists
<1>4. \A d \in Declared : f[d] = own[d] \o FlattenSeq(OfSubs(f, d))
  <2> HIDE DEF own, f
  <2> QED BY <1>3, ListingIs
<1> HIDE DEF f
<1>5. ASSUME S # {} PROVE FALSE
  <2>1. PICK k \in S : \A j \in S : k <= j
    BY <1>5, LeastNat
  <2> DEFINE d == N - k
  <2>2. d \in Declared
    BY <2>1
  <2>3. ASSUME NEW i \in 1..Len(machine_list[d])
        PROVE  Numbered(f[machine_list[d][i]], Below(machine_list[d][i]))
    <3> DEFINE c == machine_list[d][i]
    <3>1. c \in Declared /\ d < c
      BY <2>2, TreeFacts
    <3>2. N - c \in Nat /\ N - c < k /\ N - (N - c) = c
      <4>1. c \in 1..N /\ d = N - k /\ k \in Nat
        BY <1>1, <2>1, <3>1
      <4> HIDE DEF c, N
      <4>2. c \in Nat /\ N - c \in Nat /\ N - (N - c) = c
        BY <1>1, <4>1
      <4> QED BY <1>1, <3>1, <4>1, <4>2
    <3> HIDE DEF c
    <3>3. N - c \notin S
      BY <2>1, <3>2
    <3> QED BY <3>1, <3>2, <3>3 DEF c
  <2> HIDE DEF d
  <2>4. Numbered(FlattenSeq(OfSubs(f, d)), Below(d) \ {d})
    BY <2>2, <2>3, SubsNumbered
  <2>5. f[d] = StateEntries(d) \o FlattenSeq(OfSubs(f, d))
    BY <1>4, <2>2
  <2>6. Numbered(StateEntries(d), {d})
    BY <2>2, OwnStates
  <2>7. Numbered(StateEntries(d) \o FlattenSeq(OfSubs(f, d)), {d} \cup (Below(d) \ {d}))
    BY <2>4, <2>6, NumberedJoin
  <2>8. {d} \cup (Below(d) \ {d}) = Below(d)
    BY <2>2, BelowFacts DEF Below
  <2>9. Numbered(f[d], Below(d))
    BY <2>5, <2>7, <2>8
  <2> QED BY <2>1, <2>9 DEF d
<1>6. Numbered(f[m], Below(m))
  <2>1. N - m \in Nat /\ N - (N - m) = m
    BY <1>1
  <2> HIDE DEF N
  <2> QED BY <1>5, <2>1
<1> QED
  BY <1>6 DEF f

LEMMA StateXrefIs ==
    ASSUME IInv, NEW k \in DOMAIN StateXref
    PROVE  StateXref[k].index =
              Cardinality({j \in 1..k - 1 : StateXref[j].machine = StateXref[k].machine})
<1> DEFINE s == StateXref
           x == s[k].index
<1>1. Numbered(s, Below(1))
  BY TreeFacts, StatesNumbered DEF StateXref
<1> HIDE DEF s
<1>2. s \in Seq(Entry) /\ Len(s) \in Nat /\ DOMAIN s = 1..Len(s)
  BY <1>1 DEF Numbered
<1>3. k \in 1..Len(s) /\ s[k] \in Entry
  BY <1>2 DEF s
<1>4. x \in Nat
  BY <1>3 DEF Entry
<1>5. x <= k - 1 /\ \A j \in 1..k - 1 : s[j].machine = s[k].machine <=> j >= k - x
  BY <1>1, <1>3 DEF Numbered
<1> HIDE DEF x
<1>6. {j \in 1..k - 1 : s[j].machine = s[k].machine} = (k - x)..(k - 1)
  <2>1. k \in Nat /\ k - x >= 1
    BY <1>2, <1>3, <1>4, <1>5
  <2>2. \A j : j \in 1..k - 1 /\ j >= k - x <=> j \in (k - x)..(k - 1)
    BY <1>4, <2>1
  <2> QED BY <1>5, <2>2
<1>7. Cardinality((k - x)..(k - 1)) = x
  <2> DEFINE a == k - x
             b == k - 1
  <2>1. a \in Int /\ b \in Int /\ b - a + 1 = x /\ (a > b => x = 0)
    BY <1>2, <1>3, <1>4
  <2> HIDE DEF a, b
  <2>2. Cardinality(a..b) = IF a > b THEN 0 ELSE b - a + 1
    BY <2>1, FS_Interval
  <2> QED BY <2>1, <2>2 DEF a, b
<1> QED
  BY <1>6, <1>7 DEF s, x

(* The cross references count right: under the condition on last             *)
(* sub-machines the event's index is its value, and a state's is, always,    *)
(* the number of states of its machine before it.                            *)
THEOREM XrefGivesValues == Spec => [](LastSubMachinesAreLeaves => XrefMatchesValues)
<1>1. IInv => (LastSubMachinesAreLeaves => XrefMatchesValues)
  <2> SUFFICES ASSUME IInv, LastSubMachinesAreLeaves PROVE XrefMatchesValues
    OBVIOUS
  <2>1. GivesTheValues(EventXref)
    BY EventXrefIs
  <2> QED BY <2>1, StateXrefIs DEF XrefMatchesValues
<1> QED
  BY <1>1, Inductive, PTL

-----------------------------------------------------------------------------
(* Descriptions with two levels of sub-machines.                             *)

LEMMA DepthIs ==
    ASSUME IInv
    PROVE  /\ Depth[1] = 0
           /\ \A m \in Declared : m # 1 => Depth[m] = 1 + Depth[parent[m]]
           /\ \A m \in Declared : Depth[m] \in Nat
<1> DEFINE N == Len(numEvents)
           Value(f, m) == IF m = TopLevel THEN 0 ELSE 1 + f[parent[m]]
           B == [f \in [Declared -> Nat] |-> [m \in Declared |-> Value(f, m)]]
           rank == [m \in Declared |-> m]
<1>1. Declared = 1..N /\ N \in Nat /\ 1 \in Declared /\ TopLevel = 1
  BY TreeFacts
<1>2. ASSUME NEW f \in [Declared -> Nat], NEW m \in Declared PROVE Value(f, m) \in Nat
  BY <1>1, PlaceIs
<1>3. B \in [[Declared -> Nat] -> [Declared -> Nat]]
  <2> HIDE DEF Value
  <2> QED BY <1>2
<1>4. rank \in [Declared -> Nat] /\ \A m \in Declared : rank[m] <= N
  BY <1>1
<1>5. Causal(B, Declared, Nat, rank)
  <2> SUFFICES ASSUME NEW f \in [Declared -> Nat], NEW g \in [Declared -> Nat], NEW m \in Declared,
                      \A k \in Declared : rank[k] < rank[m] => f[k] = g[k]
               PROVE  B[f][m] = B[g][m]
    BY DEF Causal
  <2>1. m # 1 => f[parent[m]] = g[parent[m]]
    BY PlaceIs
  <2>2. Value(f, m) = Value(g, m)
    BY <1>1, <2>1
  <2> HIDE DEF Value
  <2> QED BY <2>2
<1>6. PICK f \in [Declared -> Nat] : B[f] = f
  <2> HIDE DEF B, rank, N
  <2>1. WellDefined(B, Declared, Nat, rank, N)
    BY <1>1, <1>3, <1>4, <1>5 DEF WellDefined
  <2> QED BY <2>1, FixedPoint
<1>7. f = [m \in Declared |-> Value(f, m)]
  <2> HIDE DEF Value
  <2> QED BY <1>6
<1>8. Depth = [m \in Declared |-> Value(Depth, m)]
  BY <1>7 DEF Depth
<1>9. \A m \in Declared : Depth[m] = Value(Depth, m)
  <2> HIDE DEF Value
  <2> QED BY <1>8
<1>10. \A m \in Declared : Depth[m] \in Nat
  <2> DEFINE S == {k \in Nat : k \in Declared /\ Depth[k] \notin Nat}
  <2>1. ASSUME S # {} PROVE FALSE
    <3>1. PICK k \in S : \A j \in S : k <= j
      BY <2>1, LeastNat
    <3>2. k # 1
      BY <1>1, <1>9, <3>1
    <3>3. parent[k] \in Declared /\ parent[k] < k /\ parent[k] \in Nat
      BY <1>1, <3>1, <3>2, PlaceIs
    <3>4. Depth[parent[k]] \in Nat
      BY <3>1, <3>3
    <3>5. Depth[k] = 1 + Depth[parent[k]]
      BY <1>1, <1>9, <3>1, <3>2
    <3> QED BY <3>1, <3>4, <3>5
  <2> QED BY <1>1, <2>1
<1> QED
  BY <1>1, <1>9, <1>10

(* Only the top level and its own sub-machines have sub-machines.            *)
TwoLevels ==
    \A m \in Declared \ {TopLevel} : machine_list[m] # <<>> => parent[m] = TopLevel

LEMMA TwoLevelsSuffice ==
    ASSUME IInv, TwoLevels
    PROVE  LastSubMachinesAreLeaves
<1> SUFFICES ASSUME NEW m \in Declared, m # TopLevel, machine_list[m] # <<>>
             PROVE  machine_list[Last(machine_list[m])] = <<>>
  BY DEF LastSubMachinesAreLeaves
<1> DEFINE z == Last(machine_list[m])
<1>1. Len(machine_list[m]) \in 1..Len(machine_list[m]) /\ z = machine_list[m][Len(machine_list[m])]
      /\ z \in Declared /\ z # 1 /\ TopLevel = 1
  BY TreeFacts
<1>2. parent[z] = m
  BY <1>1, PlaceOf
<1> QED
  BY <1>1, <1>2 DEF TwoLevels

LEMMA TwoLevelsKept ==
    ASSUME MaxDepth <= 2, IInv, TwoLevels, [Next]_vars
    PROVE  TwoLevels'
<1>1. CASE UNCHANGED vars
  BY <1>1 DEF vars, TwoLevels, Declared
<1>2. ASSUME NEW p \in Declared, NEW k \in 1..MaxEvents, NEW r \in Returns, DeclareSubMachine(p, k, r)
      PROVE  TwoLevels'
  <2> DEFINE q == Len(numEvents) + 1
  <2>1. /\ Declared' = Declared \cup {q} /\ q \notin Declared
        /\ \A m \in Declared : parent'[m] = parent[m]
        /\ \A m \in Declared : m # p => machine_list'[m] = machine_list[m]
        /\ machine_list'[q] = <<>>
    BY <1>2, Grown
  <2>2. p # 1 => parent[p] = 1
    <3> SUFFICES ASSUME p # 1, parent[p] # 1 PROVE FALSE
      OBVIOUS
    <3>1. parent[p] \in Declared
      BY PlaceIs
    <3> DEFINE g == parent[parent[p]]
    <3>2. g \in Declared
      BY <3>1, PlaceIs
    <3>3. Depth[p] = 1 + Depth[parent[p]] /\ Depth[parent[p]] = 1 + Depth[g] /\ Depth[g] \in Nat
      BY <3>1, <3>2, DepthIs
    <3>4. Depth[p] < MaxDepth /\ MaxDepth \in Nat
      BY <1>2, BoundsAssumption DEF DeclareSubMachine
    <3> QED BY <3>3, <3>4
  <2> HIDE DEF q
  <2>3. TopLevel = 1
    BY TreeFacts
  <2> QED BY <2>1, <2>2, <2>3 DEF TwoLevels
<1> QED
  BY <1>1, <1>2 DEF Next

(* If sub-machines are nested no deeper than two levels, the condition holds *)
(* of every description, and with it all that rests on it: the values are    *)
(* distinct, every event is led to its machine, and the name table and the   *)
(* cross references agree with the values.                                   *)
THEOREM TwoLevelsAreRight ==
    ASSUME MaxDepth <= 2
    PROVE  Spec => [](/\ EventValuesAreUnique /\ EveryEventReachesItsMachine
                      /\ NamesMatchValues /\ XrefMatchesValues)
<1>1. Init => TwoLevels
  <2> SUFFICES ASSUME Init PROVE TwoLevels
    OBVIOUS
  <2>1. Declared = {1}
    <3>1. PICK k \in 1..MaxEvents : numEvents = <<k>>
      BY DEF Init
    <3> QED BY <3>1 DEF Declared
  <2> QED BY <2>1 DEF TwoLevels, TopLevel
<1>2. IInv /\ TwoLevels /\ [Next]_vars => TwoLevels'
  BY TwoLevelsKept
<1>3. IInv /\ TwoLevels => LastSubMachinesAreLeaves
  BY TwoLevelsSuffice
<1>4. Spec => []TwoLevels
  BY <1>1, <1>2, Inductive, PTL DEF Spec
<1>5. Spec => [](IInv /\ TwoLevels)
  BY <1>4, Inductive, PTL
<1>6. Spec => []LastSubMachinesAreLeaves
  BY <1>3, <1>5, PTL
<1> QED
  BY <1>6, EventValuesDiffer, EventsReachTheirMachines, NamesGiveValues, XrefGivesValues, PTL
=============================================================================
