------------------------ MODULE FteWorkerQueueLemmas ------------------------
(***************************************************************************)
(* What the operators of FteWorkerTaskManager compute: a queue without     *)
(* some of its tasks, the memory of a set of tasks, and _drain_queue; and  *)
(* the inductive invariant, in the form a drain starts from and leaves.    *)
(***************************************************************************)
EXTENDS FteWorkerTaskManager, FiniteSetTheorems, WellFoundedInduction, TLAPS

-----------------------------------------------------------------------------
(* Sequences.  What a recursive function computes is shown by looking at   *)
(* the least argument for which it does not.                               *)

Distinct(q) == \A i, j \in DOMAIN q : q[i] = q[j] => i = j

LEMMA LeastNat ==
    ASSUME NEW B, B \subseteq Nat, B # {}
    PROVE  \E n \in B : \A m \in Nat : m < n => m \notin B
<1>1. \E n \in B : \A m \in B : ~(<<m, n>> \in OpToRel(<, Nat))
  BY NatLessThanWellFounded, WFMin
<1> QED BY <1>1 DEF OpToRel

(* f is the function kept of Removed(q, S), up to n.                       *)
Keeps(f, n, q, S, T) ==
    /\ f \in [0 .. n -> Seq(T)]
    /\ f[0] = <<>>
    /\ \A i \in 1 .. n : f[i] = IF q[i] \in S THEN f[i - 1] ELSE Append(f[i - 1], q[i])

LEMMA KeepsExists ==
    ASSUME NEW T, NEW q \in Seq(T), NEW S
    PROVE  \E f : Keeps(f, Len(q), q, S, T)
<1> DEFINE B == {n \in Nat : n <= Len(q) /\ ~\E f : Keeps(f, n, q, S, T)}
<1>1. SUFFICES ASSUME B # {} PROVE FALSE
  <2>1. Len(q) \in Nat /\ Len(q) <= Len(q)
    OBVIOUS
  <2> QED BY <2>1
<1>2. PICK n \in B : \A m \in Nat : m < n => m \notin B
  BY <1>1, LeastNat
<1>3. CASE n = 0
  <2>1. Keeps([i \in 0 .. 0 |-> <<>>], 0, q, S, T)
    BY DEF Keeps
  <2> QED BY <1>2, <1>3, <2>1
<1>4. CASE n # 0
  <2>1. n - 1 \in Nat /\ n - 1 < n /\ n \in 1 .. Len(q) /\ q[n] \in T
    BY <1>2, <1>4
  <2>2. PICK f : Keeps(f, n - 1, q, S, T)
    BY <1>2, <2>1
  <2> DEFINE x == IF q[n] \in S THEN f[n - 1] ELSE Append(f[n - 1], q[n])
             g == [i \in 0 .. n |-> IF i = n THEN x ELSE f[i]]
  <2>3. x \in Seq(T)
    BY <2>1, <2>2 DEF Keeps
  <2>4. Keeps(g, n, q, S, T)
    <3> HIDE DEF x
    <3>1. g \in [0 .. n -> Seq(T)] /\ g[0] = <<>>
      BY <2>1, <2>2, <2>3 DEF Keeps
    <3>2. ASSUME NEW i \in 1 .. n PROVE g[i] = IF q[i] \in S THEN g[i - 1] ELSE Append(g[i - 1], q[i])
      <4>1. i - 1 \in 0 .. n - 1 /\ g[i - 1] = f[i - 1]
        BY <2>1, <2>2
      <4>2. CASE i = n
        BY <2>1, <4>1, <4>2 DEF x
      <4>3. CASE i # n
        <5>1. i \in 1 .. n - 1 /\ g[i] = f[i]
          BY <4>3, <2>1
        <5> QED BY <2>2, <4>1, <5>1 DEF Keeps
      <4> QED BY <4>2, <4>3
    <3> QED BY <3>1, <3>2 DEF Keeps
  <2> QED BY <1>2, <2>4
<1> QED BY <1>3, <1>4

LEMMA RemovedKeeps ==
    ASSUME NEW T, NEW q \in Seq(T), NEW S
    PROVE  \E f : Keeps(f, Len(q), q, S, T) /\ Removed(q, S) = f[Len(q)]
<1> DEFINE R(g) == [i \in 0 .. Len(q) |->
                      IF i = 0 THEN <<>> ELSE IF q[i] \in S THEN g[i - 1] ELSE Append(g[i - 1], q[i])]
           k == CHOOSE g : g = R(g)
<1>1. \E f : Keeps(f, Len(q), q, S, T)
  BY KeepsExists
<1>2. PICK f : Keeps(f, Len(q), q, S, T)
  BY <1>1
<1>3. f = R(f)
  <2>1. DOMAIN f = 0 .. Len(q) /\ f = [i \in 0 .. Len(q) |-> f[i]] /\ Len(q) \in Nat
    BY <1>2 DEF Keeps
  <2>2. ASSUME NEW i \in 0 .. Len(q) PROVE f[i] = R(f)[i]
    <3>1. i = 0 \/ i \in 1 .. Len(q)
      BY <2>1
    <3> QED BY <1>2, <3>1 DEF Keeps
  <2> HIDE DEF R
  <2>3. R(f) = [i \in 0 .. Len(q) |-> R(f)[i]]
    BY DEF R
  <2> QED BY <2>1, <2>2, <2>3
<1>4. k = R(k)
  BY <1>3, Zenon
<1>5. Removed(q, S) = k[Len(q)]
  BY Zenon DEF Removed
<1> HIDE DEF k
<1>6. /\ Len(q) \in Nat /\ k[0] = <<>>
      /\ \A i \in 1 .. Len(q) : k[i] = IF q[i] \in S THEN k[i - 1] ELSE Append(k[i - 1], q[i])
  <2>1. /\ Len(q) \in Nat /\ R(k)[0] = <<>>
        /\ \A i \in 1 .. Len(q) : R(k)[i] = IF q[i] \in S THEN k[i - 1] ELSE Append(k[i - 1], q[i])
    OBVIOUS
  <2> HIDE DEF R
  <2> QED BY <1>4, <2>1
<1>7. k[Len(q)] = f[Len(q)]
  <2> DEFINE B == {i \in Nat : i <= Len(q) /\ k[i] # f[i]}
  <2>1. ASSUME B # {} PROVE FALSE
    <3>1. PICK n \in B : \A m \in Nat : m < n => m \notin B
      BY <2>1, LeastNat
    <3>2. CASE n = 0
      BY <1>2, <1>6, <3>1, <3>2 DEF Keeps
    <3>3. CASE n # 0
      <4>1. n - 1 \in Nat /\ n - 1 < n /\ n \in 1 .. Len(q) /\ n - 1 <= Len(q)
        BY <1>6, <3>1, <3>3
      <4>2. k[n - 1] = f[n - 1]
        BY <3>1, <4>1
      <4>3. f[n] = IF q[n] \in S THEN f[n - 1] ELSE Append(f[n - 1], q[n])
        BY <1>2, <4>1 DEF Keeps
      <4> QED BY <1>6, <3>1, <4>1, <4>2, <4>3
    <3> QED BY <3>2, <3>3
  <2> QED BY <1>6, <2>1
<1> QED BY <1>2, <1>5, <1>6, <1>7

(* Removed(q, S) has the elements of q that are not in S.                  *)
LEMMA RemovedSet ==
    ASSUME NEW T, NEW q \in Seq(T), NEW S
    PROVE  /\ Removed(q, S) \in Seq(T)
           /\ Range(Removed(q, S)) = Range(q) \ S
           /\ Distinct(q) => Distinct(Removed(q, S))
<1>1. PICK f : Keeps(f, Len(q), q, S, T) /\ Removed(q, S) = f[Len(q)]
  BY RemovedKeeps
<1> DEFINE First(n) == {q[j] : j \in 1 .. n}
           Right(n) == /\ Range(f[n]) = First(n) \ S
                       /\ Distinct(q) => Distinct(f[n])
           B == {n \in Nat : n <= Len(q) /\ ~Right(n)}
<1>2. ASSUME B # {} PROVE FALSE
  <2>1. PICK n \in B : \A m \in Nat : m < n => m \notin B
    <3> HIDE DEF Right
    <3> QED BY <1>2, LeastNat
  <2>2. CASE n = 0
    <3>1. f[0] = <<>> /\ First(0) = {}
      BY <1>1 DEF Keeps
    <3>2. Right(0)
      BY <3>1 DEF Range, Distinct
    <3> QED BY <2>1, <2>2, <3>2
  <2>3. CASE n # 0
    <3>1. n - 1 \in Nat /\ n - 1 < n /\ n \in 1 .. Len(q) /\ n - 1 <= Len(q) /\ n - 1 \in 0 .. Len(q) /\ q[n] \in T
      BY <2>1, <2>3
    <3>2. Right(n - 1)
      BY <2>1, <3>1, SMTT(30)
    <3>3. f[n - 1] \in Seq(T) /\ f[n] = IF q[n] \in S THEN f[n - 1] ELSE Append(f[n - 1], q[n])
      BY <1>1, <3>1 DEF Keeps
    <3>4. First(n) = First(n - 1) \cup {q[n]}
      <4>1. \A j : j \in 1 .. n <=> j \in 1 .. n - 1 \/ j = n
        BY <3>1
      <4> QED BY <4>1
    <3>5. CASE q[n] \in S
      BY <3>2, <3>3, <3>4, <3>5, <2>1
    <3>6. CASE q[n] \notin S
      <4> DEFINE p == f[n - 1]
                 r == Append(p, q[n])
      <4>1. /\ p \in Seq(T) /\ f[n] = r /\ Len(p) \in Nat /\ DOMAIN r = 1 .. Len(p) + 1 /\ DOMAIN p = 1 .. Len(p)
            /\ r[Len(p) + 1] = q[n] /\ \A i \in 1 .. Len(p) : r[i] = p[i]
        BY <3>3, <3>6, <3>1
      <4> HIDE DEF r, p
      <4>2. Range(r) = Range(p) \cup {q[n]}
        <5>1. \A i \in DOMAIN r : i \in DOMAIN p \/ i = Len(p) + 1
          BY <4>1
        <5>2. \A i \in DOMAIN p : i \in DOMAIN r
          BY <4>1
        <5>3. Len(p) + 1 \in DOMAIN r
          BY <4>1
        <5> QED BY <4>1, <5>1, <5>2, <5>3 DEF Range
      <4>3. ASSUME Distinct(q) PROVE Distinct(r)
        <5>1. q[n] \notin Range(p)
          <6>1. ASSUME q[n] \in First(n - 1) PROVE FALSE
            <7>1. PICK j \in 1 .. n - 1 : q[j] = q[n]
              BY <6>1
            <7>2. j \in DOMAIN q /\ n \in DOMAIN q /\ j # n
              BY <3>1, <7>1
            <7> QED BY <4>3, <7>1, <7>2 DEF Distinct
          <6> QED BY <3>2, <6>1 DEF p
        <5>2. Distinct(p)
          BY <3>2, <4>3 DEF p
        <5>3. \A i \in DOMAIN p : r[i] = p[i] /\ p[i] # q[n]
          BY <4>1, <5>1 DEF Range
        <5>4. \A i \in DOMAIN r : i \in DOMAIN p \/ i = Len(p) + 1
          BY <4>1
        <5> QED BY <4>1, <5>2, <5>3, <5>4 DEF Distinct
      <4>4. Right(n)
        BY <3>2, <3>4, <3>6, <4>1, <4>2, <4>3 DEF p
      <4> QED BY <2>1, <4>4
    <3> QED BY <3>5, <3>6
  <2> QED BY <2>2, <2>3
<1>3. Right(Len(q))
  <2>1. Len(q) \in Nat /\ Len(q) <= Len(q)
    OBVIOUS
  <2> QED BY <1>2, <2>1
<1>4. First(Len(q)) = Range(q)
  BY DEF Range
<1>5. f[Len(q)] \in Seq(T)
  BY <1>1 DEF Keeps
<1> QED BY <1>1, <1>3, <1>4, <1>5

LEMMA AppendHead ==
    ASSUME NEW T, NEW p \in Seq(T), NEW y \in T
    PROVE  Append(p, y) # <<>> /\ Head(Append(p, y)) = IF p = <<>> THEN y ELSE Head(p)
<1> DEFINE r == Append(p, y)
<1>1. /\ r \in Seq(T) /\ Len(r) = Len(p) + 1 /\ Len(p) \in Nat
      /\ r[Len(p) + 1] = y /\ \A i \in 1 .. Len(p) : r[i] = p[i]
  OBVIOUS
<1> HIDE DEF r
<1>2. r # <<>> /\ Head(r) = r[1]
  BY <1>1
<1>3. CASE p = <<>>
  <2>1. Len(p) = 0
    BY <1>3
  <2> QED BY <1>1, <1>2, <1>3, <2>1 DEF r
<1>4. CASE p # <<>>
  <2>1. 1 \in 1 .. Len(p) /\ Head(p) = p[1]
    BY <1>4
  <2> QED BY <1>1, <1>2, <1>4, <2>1 DEF r
<1> QED BY <1>3, <1>4

(* The head of q stays the head, unless it is the one that is removed.     *)
LEMMA RemovedHead ==
    ASSUME NEW T, NEW q \in Seq(T), NEW x, Removed(q, {x}) # <<>>, Head(q) # x
    PROVE  q # <<>> /\ Head(Removed(q, {x})) = Head(q)
<1>1. PICK f : Keeps(f, Len(q), q, {x}, T) /\ Removed(q, {x}) = f[Len(q)]
  BY RemovedKeeps
<1>2. Len(q) \in Nat /\ f[0] = <<>>
  BY <1>1 DEF Keeps
<1>3. Len(q) # 0
  BY <1>1, <1>2
<1>4. q # <<>> /\ Head(q) = q[1] /\ q[1] \in T /\ 1 \in 1 .. Len(q)
  BY <1>2, <1>3
<1>5. f[1] # <<>> /\ Head(f[1]) = q[1]
  <2>1. f[1] = IF q[1] \in {x} THEN f[1 - 1] ELSE Append(f[1 - 1], q[1])
    BY <1>1, <1>4 DEF Keeps
  <2>2. f[1] = Append(<<>>, q[1]) /\ <<>> \in Seq(T)
    <3>1. 1 - 1 = 0 /\ q[1] \notin {x} /\ <<>> \in Seq(T)
      BY <1>4
    <3> QED BY <1>2, <2>1, <3>1
  <2> QED BY <1>4, <2>2, AppendHead
<1> DEFINE Bad(n) == ~(f[n] # <<>> /\ Head(f[n]) = q[1])
           B == {n \in Nat : 1 <= n /\ n <= Len(q) /\ Bad(n)}
<1>6. ASSUME B # {} PROVE FALSE
  <2>1. PICK n \in B : \A m \in Nat : m < n => m \notin B
    <3> HIDE DEF Bad
    <3> QED BY <1>6, LeastNat
  <2>2. n # 1
    BY <1>5, <2>1
  <2>3. n - 1 \in Nat /\ n - 1 < n /\ 1 <= n - 1 /\ n - 1 <= Len(q) /\ n \in 1 .. Len(q) /\ n - 1 \in 0 .. Len(q)
    BY <1>2, <2>1, <2>2
  <2>4. ~Bad(n - 1)
    <3> HIDE DEF Bad
    <3> QED BY <2>1, <2>3
  <2>5. f[n - 1] \in Seq(T) /\ q[n] \in T /\ f[n] = IF q[n] \in {x} THEN f[n - 1] ELSE Append(f[n - 1], q[n])
    <3> HIDE DEF B
    <3>1. f[n - 1] \in Seq(T)
      BY <1>1, <2>3 DEF Keeps
    <3>2. q[n] \in T
      BY <2>3
    <3>3. f[n] = IF q[n] \in {x} THEN f[n - 1] ELSE Append(f[n - 1], q[n])
      BY <1>1, <2>3 DEF Keeps
    <3> QED BY <3>1, <3>2, <3>3
  <2>6. Head(Append(f[n - 1], q[n])) = Head(f[n - 1]) /\ Append(f[n - 1], q[n]) # <<>>
    <3>1. PICK p : p = f[n - 1]
      OBVIOUS
    <3>2. p \in Seq(T) /\ p # <<>> /\ q[n] \in T
      BY <2>4, <2>5, <3>1
    <3> QED BY ONLY <3>1, <3>2, AppendHead
  <2> QED BY <2>1, <2>4, <2>5, <2>6
<1>7. ~Bad(Len(q))
  <2>1. 1 <= Len(q) /\ Len(q) <= Len(q)
    BY <1>2, <1>3
  <2> HIDE DEF Bad
  <2> QED BY <1>2, <1>6, <2>1
<1> QED BY <1>1, <1>4, <1>7

-----------------------------------------------------------------------------
(* Sums.                                                                   *)

Pick(s) == CHOOSE x \in s : TRUE

(* g adds up the memory of a set, one element at a time.                   *)
AddsUp(g, n) ==
    \A s \in SUBSET Tasks : Cardinality(s) <= n =>
        g[s] = IF s = {} THEN 0 ELSE Memory[Pick(s)] + g[s \ {Pick(s)}]

LEMMA PickIn == ASSUME NEW s, s # {} PROVE Pick(s) \in s
BY DEF Pick

LEMMA SmallerSet ==
    ASSUME NEW s \in SUBSET Tasks, NEW x \in s
    PROVE  /\ Cardinality(s) \in Nat /\ Cardinality(s \ {x}) \in Nat
           /\ Cardinality(s \ {x}) = Cardinality(s) - 1
           /\ s \ {x} \in SUBSET Tasks
<1>1. IsFiniteSet(s) /\ IsFiniteSet(s \ {x})
  BY LimitsAssumption, FS_Subset
<1> QED BY <1>1, FS_CardinalityType, FS_RemoveElement

LEMMA AddsUpExists ==
    \E g \in [SUBSET Tasks -> Nat] : AddsUp(g, Cardinality(Tasks))
<1> DEFINE Good(n) == \E g \in [SUBSET Tasks -> Nat] : AddsUp(g, n)
           B == {n \in Nat : ~Good(n)}
<1>1. Cardinality(Tasks) \in Nat
  BY LimitsAssumption, FS_CardinalityType
<1>2. ASSUME B # {} PROVE FALSE
  <2>1. PICK n \in B : \A m \in Nat : m < n => m \notin B
    <3> HIDE DEF Good
    <3> QED BY <1>2, LeastNat
  <2>2. CASE n = 0
    <3> DEFINE g == [s \in SUBSET Tasks |-> 0]
    <3>1. ASSUME NEW s \in SUBSET Tasks, Cardinality(s) <= 0 PROVE s = {}
      <4>1. IsFiniteSet(s)
        BY LimitsAssumption, FS_Subset
      <4> QED BY <3>1, <4>1, FS_CardinalityType, FS_EmptySet
    <3>2. AddsUp(g, 0)
      BY <3>1 DEF AddsUp
    <3>3. g \in [SUBSET Tasks -> Nat]
      OBVIOUS
    <3> QED BY <2>1, <2>2, <3>2, <3>3
  <2>3. CASE n # 0
    <3>1. n - 1 \in Nat /\ n - 1 < n
      BY <2>1, <2>3
    <3>2. PICK h \in [SUBSET Tasks -> Nat] : AddsUp(h, n - 1)
      BY <2>1, <3>1
    <3> DEFINE Next1(s) == IF s = {} THEN 0 ELSE Memory[Pick(s)] + h[s \ {Pick(s)}]
               g == [s \in SUBSET Tasks |-> IF Cardinality(s) = n THEN Next1(s) ELSE h[s]]
    <3>3. ASSUME NEW s \in SUBSET Tasks PROVE Next1(s) \in Nat
      <4>1. CASE s = {}
        BY <4>1
      <4>2. CASE s # {}
        <5>1. Pick(s) \in Tasks /\ s \ {Pick(s)} \in SUBSET Tasks
          BY <4>2, PickIn
        <5>2. Memory[Pick(s)] \in Nat /\ h[s \ {Pick(s)}] \in Nat
          BY <5>1, LimitsAssumption
        <5> QED BY <4>2, <5>2
      <4> QED BY <4>1, <4>2
    <3>4. g \in [SUBSET Tasks -> Nat]
      <4> HIDE DEF Next1
      <4> QED BY <3>3
    <3>5. ASSUME NEW s \in SUBSET Tasks, Cardinality(s) <= n
          PROVE  g[s] = IF s = {} THEN 0 ELSE Memory[Pick(s)] + g[s \ {Pick(s)}]
      <4>1. Cardinality(s) \in Nat
        BY LimitsAssumption, FS_Subset, FS_CardinalityType
      <4>2. g[s] = Next1(s)
        <5>1. CASE Cardinality(s) = n
          BY <5>1
        <5>2. CASE Cardinality(s) # n
          <6>1. Cardinality(s) <= n - 1
            BY <3>5, <4>1, <5>2, <2>1
          <6> QED BY <3>2, <5>2, <6>1 DEF AddsUp
        <5> QED BY <5>1, <5>2
      <4>3. CASE s = {}
        BY <4>2, <4>3
      <4>4. CASE s # {}
        <5> DEFINE p == Pick(s)
        <5>1. p \in s
          BY <4>4, PickIn
        <5>2. Cardinality(s \ {p}) # n /\ s \ {p} \in SUBSET Tasks
          <6> HIDE DEF p
          <6> QED BY <3>5, <4>1, <5>1, <2>1, SmallerSet
        <5>3. g[s \ {p}] = h[s \ {p}]
          BY <5>2
        <5> HIDE DEF g
        <5> QED BY <4>2, <4>4, <5>3
      <4> QED BY <4>3, <4>4
    <3>6. AddsUp(g, n)
      <4> HIDE DEF g
      <4> QED BY <3>5 DEF AddsUp
    <3> HIDE DEF g
    <3> QED BY <2>1, <3>4, <3>6
  <2> QED BY <2>2, <2>3
<1>3. Good(Cardinality(Tasks))
  <2> HIDE DEF Good
  <2> QED BY <1>1, <1>2
<1> QED BY <1>3

(* The function MemoryOf(S) iterates.                                      *)
Is(f, S) == f = [s \in SUBSET S |-> IF s = {} THEN 0 ELSE Memory[Pick(s)] + f[s \ {Pick(s)}]]
Iterated(S) == CHOOSE f : Is(f, S)

LEMMA MemoryIterates == ASSUME NEW S PROVE MemoryOf(S) = Iterated(S)[S]
BY Zenon DEF MemoryOf, MapThenSumSet, MapThenFoldSet, Iterated, Is, Pick

LEMMA MemoryIs ==
    ASSUME NEW g \in [SUBSET Tasks -> Nat], AddsUp(g, Cardinality(Tasks)), NEW S \in SUBSET Tasks
    PROVE  MemoryOf(S) = g[S]
<1> DEFINE r == [s \in SUBSET S |-> g[s]]
<1>1. ASSUME NEW s \in SUBSET Tasks
      PROVE  g[s] = IF s = {} THEN 0 ELSE Memory[Pick(s)] + g[s \ {Pick(s)}]
  <2>1. Cardinality(s) <= Cardinality(Tasks)
    BY LimitsAssumption, FS_Subset
  <2> QED BY <2>1 DEF AddsUp
<1>2. Is(r, S)
  <2>1. ASSUME NEW s \in SUBSET S
        PROVE  r[s] = IF s = {} THEN 0 ELSE Memory[Pick(s)] + r[s \ {Pick(s)}]
    <3>1. s \ {Pick(s)} \in SUBSET S /\ s \in SUBSET Tasks
      OBVIOUS
    <3>2. r[s \ {Pick(s)}] = g[s \ {Pick(s)}] /\ r[s] = g[s]
      BY <3>1
    <3> HIDE DEF r
    <3> QED BY <1>1, <3>1, <3>2
  <2>2. r = [s \in SUBSET S |-> r[s]]
    OBVIOUS
  <2>3. [s \in SUBSET S |-> r[s]]
          = [s \in SUBSET S |-> IF s = {} THEN 0 ELSE Memory[Pick(s)] + r[s \ {Pick(s)}]]
    <3> HIDE DEF r
    <3> QED BY <2>1, Zenon
  <2> HIDE DEF r
  <2> QED BY <2>2, <2>3, Zenon DEF Is
<1>3. Is(Iterated(S), S)
  <2> HIDE DEF r
  <2> QED BY <1>2, Zenon DEF Iterated
<1> DEFINE it == Iterated(S)
<1>4. ASSUME NEW s \in SUBSET S
      PROVE  it[s] = IF s = {} THEN 0 ELSE Memory[Pick(s)] + it[s \ {Pick(s)}]
  <2>1. it = [s1 \in SUBSET S |-> IF s1 = {} THEN 0 ELSE Memory[Pick(s1)] + it[s1 \ {Pick(s1)}]]
    BY <1>3, Zenon DEF Is
  <2> HIDE DEF it
  <2> DEFINE R(s1) == IF s1 = {} THEN 0 ELSE Memory[Pick(s1)] + it[s1 \ {Pick(s1)}]
  <2>2. it = [s1 \in SUBSET S |-> R(s1)]
    BY <2>1, Zenon
  <2>3. it[s] = R(s)
    <3> HIDE DEF R
    <3> QED BY <2>2
  <2> QED BY <2>3, Zenon
<1> HIDE DEF it
<1> DEFINE B == {n \in Nat : \E s \in SUBSET S : Cardinality(s) = n /\ it[s] # g[s]}
<1>5. ASSUME B # {} PROVE FALSE
  <2>1. PICK n \in B : \A m \in Nat : m < n => m \notin B
    BY <1>5, LeastNat
  <2>2. PICK s \in SUBSET S : Cardinality(s) = n /\ it[s] # g[s]
    BY <2>1
  <2>3. s # {}
    <3>1. s = {} => it[s] = 0 /\ g[s] = 0
      BY <1>1, <1>4
    <3> QED BY <2>2, <3>1
  <2>4. Pick(s) \in s
    BY <2>3, PickIn
  <2>5. PICK p : p = Pick(s)
    OBVIOUS
  <2>6. /\ Cardinality(s \ {p}) \in Nat /\ Cardinality(s \ {p}) < n
        /\ s \ {p} \in SUBSET S
    BY <2>2, <2>4, <2>5, <2>1, SmallerSet
  <2>7. it[s \ {p}] = g[s \ {p}]
    BY <2>1, <2>6
  <2>8. it[s] = Memory[p] + it[s \ {p}] /\ g[s] = Memory[p] + g[s \ {p}]
    BY <1>1, <1>4, <2>3, <2>5
  <2> QED BY <2>2, <2>7, <2>8
<1>6. it[S] = g[S]
  <2>1. Cardinality(S) \in Nat
    BY LimitsAssumption, FS_Subset, FS_CardinalityType
  <2> QED BY <1>5, <2>1
<1> QED BY <1>6, MemoryIterates DEF it

(* What Fits needs of the sum.                                             *)
LEMMA MemoryOfType == ASSUME NEW S \in SUBSET Tasks PROVE MemoryOf(S) \in Nat
<1>1. PICK g \in [SUBSET Tasks -> Nat] : AddsUp(g, Cardinality(Tasks))
  BY AddsUpExists
<1> QED BY <1>1, MemoryIs

LEMMA MemoryOfNothing == MemoryOf({}) = 0
<1>1. PICK g \in [SUBSET Tasks -> Nat] : AddsUp(g, Cardinality(Tasks))
  BY AddsUpExists
<1>2. Cardinality({}) <= Cardinality(Tasks)
  BY LimitsAssumption, FS_EmptySet, FS_CardinalityType
<1>3. g[{}] = 0
  BY <1>1, <1>2 DEF AddsUp
<1> QED BY <1>1, <1>3, MemoryIs

LEMMA MemoryOfPick ==
    ASSUME NEW S \in SUBSET Tasks, S # {}
    PROVE  MemoryOf(S) = Memory[Pick(S)] + MemoryOf(S \ {Pick(S)})
<1>1. PICK g \in [SUBSET Tasks -> Nat] : AddsUp(g, Cardinality(Tasks))
  BY AddsUpExists
<1>2. Cardinality(S) <= Cardinality(Tasks)
  BY LimitsAssumption, FS_Subset
<1>3. g[S] = Memory[Pick(S)] + g[S \ {Pick(S)}]
  BY <1>1, <1>2 DEF AddsUp
<1>4. MemoryOf(S) = g[S] /\ MemoryOf(S \ {Pick(S)}) = g[S \ {Pick(S)}]
  BY <1>1, MemoryIs
<1> QED BY <1>3, <1>4

(* Any element can be taken out first.                                     *)
LEMMA MemoryOfRemove ==
    ASSUME NEW S \in SUBSET Tasks, NEW x \in S
    PROVE  MemoryOf(S) = Memory[x] + MemoryOf(S \ {x})
<1> DEFINE Bad(s) == \E y \in s : MemoryOf(s) # Memory[y] + MemoryOf(s \ {y})
           B == {n \in Nat : \E s \in SUBSET Tasks : Cardinality(s) = n /\ Bad(s)}
<1>1. ASSUME B # {} PROVE FALSE
  <2>1. PICK n \in B : \A m \in Nat : m < n => m \notin B
    <3> HIDE DEF Bad
    <3> QED BY <1>1, LeastNat
  <2>2. PICK s, y : /\ s \in SUBSET Tasks /\ Cardinality(s) = n
                    /\ y \in s /\ MemoryOf(s) # Memory[y] + MemoryOf(s \ {y})
    BY <2>1
  <2>3. PICK p : p = Pick(s)
    OBVIOUS
  <2>4. p \in s /\ MemoryOf(s) = Memory[p] + MemoryOf(s \ {p})
    BY <2>2, <2>3, PickIn, MemoryOfPick
  <2>5. p # y
    BY <2>2, <2>4
  <2>6. /\ Cardinality(s \ {p}) \in Nat /\ Cardinality(s \ {p}) < n /\ s \ {p} \in SUBSET Tasks
        /\ Cardinality(s \ {y}) \in Nat /\ Cardinality(s \ {y}) < n /\ s \ {y} \in SUBSET Tasks
    BY <2>1, <2>2, <2>4, SmallerSet
  <2>7. ~Bad(s \ {p}) /\ ~Bad(s \ {y})
    <3> HIDE DEF Bad
    <3> QED BY <2>1, <2>6
  <2>8. MemoryOf(s \ {p}) = Memory[y] + MemoryOf((s \ {p}) \ {y})
    BY <2>2, <2>5, <2>7
  <2>9. MemoryOf(s \ {y}) = Memory[p] + MemoryOf((s \ {y}) \ {p})
    BY <2>4, <2>5, <2>7
  <2>10. (s \ {p}) \ {y} = (s \ {y}) \ {p}
    OBVIOUS
  <2>11. Memory[p] \in Nat /\ Memory[y] \in Nat /\ MemoryOf((s \ {y}) \ {p}) \in Nat
    BY <2>2, <2>4, LimitsAssumption, MemoryOfType
  <2> QED BY <2>2, <2>4, <2>8, <2>9, <2>10, <2>11
<1>2. Cardinality(S) \in Nat
  BY LimitsAssumption, FS_Subset, FS_CardinalityType
<1>3. ~Bad(S)
  <2> HIDE DEF Bad
  <2> QED BY <1>1, <1>2
<1> QED BY <1>3

LEMMA MemoryOfMonotone ==
    ASSUME NEW S \in SUBSET Tasks, NEW R \in SUBSET S
    PROVE  MemoryOf(R) <= MemoryOf(S)
<1> DEFINE Bad(s) == \E t \in SUBSET s : ~(MemoryOf(t) <= MemoryOf(s))
           B == {n \in Nat : \E s \in SUBSET Tasks : Cardinality(s) = n /\ Bad(s)}
<1>1. ASSUME B # {} PROVE FALSE
  <2>1. PICK n \in B : \A m \in Nat : m < n => m \notin B
    <3> HIDE DEF Bad
    <3> QED BY <1>1, LeastNat
  <2>2. PICK s, t : /\ s \in SUBSET Tasks /\ Cardinality(s) = n
                    /\ t \in SUBSET s /\ ~(MemoryOf(t) <= MemoryOf(s))
    BY <2>1
  <2>3. MemoryOf(s) \in Nat /\ MemoryOf(t) \in Nat
    BY <2>2, MemoryOfType
  <2>4. PICK x : x \in s /\ x \notin t
    BY <2>2, <2>3
  <2>5. /\ Cardinality(s \ {x}) \in Nat /\ Cardinality(s \ {x}) < n /\ s \ {x} \in SUBSET Tasks
    BY <2>1, <2>2, <2>4, SmallerSet
  <2>6. ~Bad(s \ {x})
    <3> HIDE DEF Bad
    <3> QED BY <2>1, <2>5
  <2>7. MemoryOf(t) <= MemoryOf(s \ {x})
    BY <2>2, <2>4, <2>6
  <2>8. MemoryOf(s) = Memory[x] + MemoryOf(s \ {x})
    BY <2>2, <2>4, MemoryOfRemove
  <2>9. Memory[x] \in Nat /\ MemoryOf(s \ {x}) \in Nat
    BY <2>2, <2>4, <2>5, LimitsAssumption, MemoryOfType
  <2> QED BY <2>2, <2>3, <2>7, <2>8, <2>9
<1>2. Cardinality(S) \in Nat
  BY LimitsAssumption, FS_Subset, FS_CardinalityType
<1>3. ~Bad(S)
  <2> HIDE DEF Bad
  <2> QED BY <1>1, <1>2
<1> QED BY <1>3

(* What fits still fits with less.                                         *)
LEMMA FitsMonotone ==
    ASSUME NEW S \in SUBSET Tasks, NEW R \in SUBSET S, Fits(S)
    PROVE  Fits(R)
<1>1. IsFiniteSet(S) /\ IsFiniteSet(R)
  BY LimitsAssumption, FS_Subset
<1>2. /\ Cardinality(R) \in Nat /\ Cardinality(S) \in Nat
      /\ Cardinality(R) <= Cardinality(S)
  BY <1>1, FS_Subset, FS_CardinalityType
<1>3. MemoryOf(R) \in Nat /\ MemoryOf(S) \in Nat /\ MemoryOf(R) <= MemoryOf(S)
  BY MemoryOfType, MemoryOfMonotone
<1> QED BY <1>2, <1>3, LimitsAssumption DEF Fits

LEMMA NothingFits == Fits({})
BY MemoryOfNothing, FS_EmptySet, LimitsAssumption DEF Fits

-----------------------------------------------------------------------------
(* The inductive invariant.                                                *)

Futures == {"none", "waiting", "running", "cancelling", "ended", "called"}

TypeOK ==
    /\ tasks \in SUBSET Tasks
    /\ state \in [Tasks -> States \cup {NoStatus}]
    /\ future \in [Tasks -> Futures]
    /\ native \in SUBSET (Tasks \X Nat)
    /\ unwinding \in SUBSET (Tasks \X Nat)
    /\ running \in SUBSET Tasks
    /\ queued \in Seq(Tasks)
    /\ dropped \in Seq(Tasks)
    /\ cache \in [Tasks -> States \cup {NoStatus}]
    /\ publishing \in SUBSET (Tasks \X Nat \X States)
    /\ shut \in BOOLEAN
    /\ creates \in [Tasks -> Nat]
    /\ withdrawn \in SUBSET Tasks
    /\ undrained \in BOOLEAN

(* A task's state and its coroutine go together.                           *)
Life(k) ==
    /\ k \notin tasks => future[k] = "none"
    /\ k \in tasks =>
          /\ creates[k] >= 1
          /\ state[k] = "RUNNING" <=> future[k] \in {"waiting", "running"}
          /\ state[k] = "QUEUED" => future[k] = "none"
    /\ creates[k] >= 1 => state[k] \in States

LifeOK == \A k \in Tasks : Life(k)

(* The queue, as a set; after shutdown it stays empty.                     *)
QueueOK ==
    /\ Distinct(queued)
    /\ withdrawn \subseteq {k \in tasks : state[k] = "QUEUED"}
    /\ Range(queued) = {k \in tasks : state[k] = "QUEUED"} \ withdrawn
    /\ shut => Range(queued) = {}

(* A forgotten coroutine is of an earlier creation than the task.          *)
UnwindingOK ==
    \A k \in Tasks, n \in Nat : <<k, n>> \in unwinding =>
        n <= creates[k] /\ (k \in tasks => n < creates[k])

(* Only a native execution publishes, and a task that has not begun or has *)
(* ended by itself has none.                                               *)
NativeOK ==
    /\ \A k \in Tasks, n \in Nat : <<k, n>> \in native => n <= creates[k]
    /\ \A k \in Tasks, n \in Nat, s \in States : <<k, n, s>> \in publishing => <<k, n>> \in native
    /\ \A k \in tasks :
          future[k] = "waiting" \/ state[k] \in {"QUEUED", "FINISHED", "FAILED"} =>
              <<k, creates[k]>> \notin native

DroppedOK == \A k \in Range(dropped) : k \notin tasks

HoldsSlot == \A k \in tasks : state[k] = "RUNNING" /\ creates[k] = 1 => k \in running

Inv ==
    /\ TypeOK /\ LifeOK /\ QueueOK /\ UnwindingOK /\ NativeOK /\ DroppedOK
    /\ Fits(running) /\ HoldsSlot /\ SlotsComeBack /\ NoIdleQueue /\ FinishedIsVisible

-----------------------------------------------------------------------------
(* _drain_queue.                                                           *)

LEMMA Suffix ==
    ASSUME NEW q \in Seq(Tasks), Distinct(q), NEW n \in 0 .. Len(q)
    PROVE  LET r == SubSeq(q, n + 1, Len(q)) IN
           /\ r \in Seq(Tasks) /\ Distinct(r)
           /\ Range(r) = Range(q) \ {q[i] : i \in 1 .. n}
           /\ r # <<>> => n < Len(q) /\ Head(r) = q[n + 1]
<1> DEFINE r == SubSeq(q, n + 1, Len(q))
<1>1. /\ r \in Seq(Tasks) /\ Len(r) = Len(q) - n /\ DOMAIN r = 1 .. Len(r)
      /\ \A i \in 1 .. Len(q) - n : r[i] = q[n + i]
  OBVIOUS
<1>2. Len(q) \in Nat /\ DOMAIN q = 1 .. Len(q)
  OBVIOUS
<1> HIDE DEF r
<1>3. ASSUME r # <<>> PROVE n < Len(q) /\ Head(r) = q[n + 1]
  <2>1. Len(r) > 0 /\ Head(r) = r[1]
    BY <1>1, <1>3
  <2>2. n < Len(q) /\ 1 \in 1 .. Len(q) - n
    BY <1>1, <1>2, <2>1
  <2> QED BY <1>1, <2>1, <2>2
<1>4. ASSUME NEW i \in DOMAIN r, NEW j \in DOMAIN r, r[i] = r[j] PROVE i = j
  <2>1. i \in 1 .. Len(q) - n /\ j \in 1 .. Len(q) - n
    BY <1>1
  <2>2. n + i \in DOMAIN q /\ n + j \in DOMAIN q
    BY <1>2, <2>1
  <2>3. q[n + i] = q[n + j]
    BY <1>1, <1>4, <2>1
  <2>4. n + i = n + j
    BY <2>2, <2>3, Zenon DEF Distinct
  <2> QED BY <2>1, <2>4
<1>5. ASSUME NEW k \in Range(r) PROVE k \in Range(q) \ {q[i] : i \in 1 .. n}
  <2>1. PICK i \in 1 .. Len(q) - n : k = q[n + i]
    BY <1>1, <1>5 DEF Range
  <2>2. n + i \in 1 .. Len(q) /\ n + i \notin 1 .. n
    BY <1>2, <2>1
  <2> QED BY <1>2, <2>1, <2>2 DEF Range, Distinct
<1>6. ASSUME NEW k \in Range(q) \ {q[i] : i \in 1 .. n} PROVE k \in Range(r)
  <2>1. PICK i \in 1 .. Len(q) : k = q[i]
    BY <1>2, <1>6 DEF Range
  <2>2. i \notin 1 .. n
    BY <1>6, <2>1
  <2>3. i - n \in 1 .. Len(q) - n /\ n + (i - n) = i
    BY <1>2, <2>1, <2>2
  <2>4. r[i - n] = k
    BY <1>1, <2>1, <2>3
  <2>5. i - n \in DOMAIN r
    BY <1>1, <2>3
  <2> QED BY <2>4, <2>5 DEF Range
<1>7. Range(r) = Range(q) \ {q[i] : i \in 1 .. n}
  BY <1>5, <1>6
<1>8. Distinct(r)
  BY <1>4, Zenon DEF Distinct
<1> QED BY <1>1, <1>3, <1>7, <1>8 DEF r

LEMMA Drained ==
    ASSUME NEW ts \in SUBSET Tasks, NEW st \in [Tasks -> States \cup {NoStatus}],
           NEW fut \in [Tasks -> Futures], NEW run \in SUBSET Tasks,
           NEW q \in Seq(Tasks), Distinct(q), Range(q) \subseteq {k \in ts : st[k] = "QUEUED"},
           shut => Range(q) = {}, Fits(run), DrainQueue(ts, st, fut, run, q)
    PROVE  \E S \in SUBSET Range(q) :
              /\ state' = Update(st, S, "RUNNING")
              /\ future' = Update(fut, S, "waiting")
              /\ running' = run \cup S
              /\ Fits(running')
              /\ queued' \in Seq(Tasks) /\ Distinct(queued') /\ Range(queued') = Range(q) \ S
              /\ queued' # <<>> => ~Fits(running' \cup {Head(queued')})
<1>1. CASE shut
  <2>1. queued' = <<>> /\ running' = run /\ future' = fut /\ state' = st
    BY <1>1 DEF DrainQueue
  <2>2. state' = Update(st, {}, "RUNNING") /\ future' = Update(fut, {}, "waiting")
    BY <2>1 DEF Update
  <2>3. queued' \in Seq(Tasks) /\ Distinct(queued') /\ Range(queued') = {}
    BY <2>1 DEF Distinct, Range
  <2> QED BY <1>1, <2>1, <2>2, <2>3
<1>2. CASE ~shut
  <2> DEFINE First(n) == {q[i] : i \in 1 .. n}
             Taken(n) == {k \in First(n) : k \in ts /\ st[k] \notin Terminal}
  <2>1. PICK n \in 0 .. Len(q) :
           /\ Taken(n) # {} => Fits(run \cup Taken(n))
           /\ n < Len(q) => ~Fits(run \cup Taken(n) \cup {q[n + 1]})
           /\ queued' = SubSeq(q, n + 1, Len(q))
           /\ running' = run \cup Taken(n)
           /\ future' = Update(fut, Taken(n), "waiting")
           /\ state' = Update(st, Taken(n), "RUNNING")
    BY <1>2 DEF DrainQueue
  <2>2. First(n) \subseteq Range(q)
    BY DEF Range
  <2>3. Taken(n) = First(n)
    <3>1. \A k \in Range(q) : k \in ts /\ st[k] \notin Terminal
      BY DEF Terminal
    <3> HIDE DEF First
    <3> QED BY <2>2, <3>1
  <2>4. /\ queued' \in Seq(Tasks) /\ Distinct(queued') /\ Range(queued') = Range(q) \ First(n)
        /\ queued' # <<>> => n < Len(q) /\ Head(queued') = q[n + 1]
    BY <2>1, Suffix
  <2> HIDE DEF First, Taken
  <2>5. Fits(run \cup First(n))
    <3>1. CASE First(n) = {}
      <4>1. run \cup First(n) = run
        BY <3>1
      <4> QED BY <4>1
    <3> QED BY <2>1, <2>3, <3>1
  <2> QED BY <2>1, <2>2, <2>3, <2>4, <2>5
<1> QED BY <1>1, <1>2

(* What a drain leaves.                                                    *)
DrainedOK ==
    /\ state' \in [Tasks -> States \cup {NoStatus}] /\ future' \in [Tasks -> Futures]
    /\ running' \in SUBSET Tasks /\ queued' \in Seq(Tasks)
    /\ withdrawn' \in SUBSET Tasks /\ undrained' \in BOOLEAN
    /\ LifeOK' /\ QueueOK' /\ Fits(running)' /\ HoldsSlot' /\ SlotsComeBack' /\ NoIdleQueue'
    /\ \A k \in tasks' :
          future'[k] = "waiting" \/ state'[k] \in {"QUEUED", "FINISHED", "FAILED"} =>
              <<k, creates'[k]>> \notin native'

(* The tasks ts, states st, coroutines fut, slots run, queue q and         *)
(* withdrawn tasks wd that a drain may start from.                         *)
Drainable(ts, st, fut, run, q, wd) ==
    /\ ts \in SUBSET Tasks /\ st \in [Tasks -> States \cup {NoStatus}]
    /\ fut \in [Tasks -> Futures] /\ run \in SUBSET Tasks /\ Fits(run)
    /\ q \in Seq(Tasks) /\ Distinct(q) /\ Range(q) = {k \in ts : st[k] = "QUEUED"} \ wd
    /\ wd \subseteq {k \in ts : st[k] = "QUEUED"}
    /\ shut => Range(q) = {}
    /\ \A k \in Tasks \ ts : fut[k] = "none"
    /\ \A k \in ts :
          /\ creates[k] >= 1
          /\ st[k] = "RUNNING" <=> fut[k] \in {"waiting", "running"}
          /\ st[k] = "QUEUED" => fut[k] = "none"
    /\ \A k \in Tasks : creates[k] >= 1 => st[k] \in States
    /\ \A k \in ts : fut[k] = "waiting" \/ st[k] \in {"QUEUED", "FINISHED", "FAILED"} =>
          <<k, creates[k]>> \notin native
    /\ \A k \in ts : st[k] = "RUNNING" /\ creates[k] = 1 => k \in run
    /\ \A k \in run : fut[k] \notin {"none", "called"}

LEMMA DrainKeeps ==
    ASSUME NEW ts, NEW st, NEW fut, NEW run, NEW q, UNCHANGED <<native, shut, creates>>, tasks' = ts,
           Drainable(ts, st, fut, run, q, withdrawn'), DrainQueue(ts, st, fut, run, q)
    PROVE  DrainedOK
<1> USE DEF Drainable
<1>1. (shut => Range(q) = {}) /\ undrained' = FALSE
  BY DEF DrainQueue
<1>2. PICK S \in SUBSET Range(q) :
              /\ state' = Update(st, S, "RUNNING")
              /\ future' = Update(fut, S, "waiting")
              /\ running' = run \cup S
              /\ Fits(running')
              /\ queued' \in Seq(Tasks) /\ Distinct(queued') /\ Range(queued') = Range(q) \ S
              /\ queued' # <<>> => ~Fits(running' \cup {Head(queued')})
  BY <1>1, Drained
<1>3. S \subseteq ts /\ S \subseteq Tasks /\ \A k \in S : st[k] = "QUEUED"
  BY <1>2
<1>4. /\ state' \in [Tasks -> States \cup {NoStatus}] /\ future' \in [Tasks -> Futures]
      /\ running' \in SUBSET Tasks
      /\ \A k \in Tasks : /\ state'[k] = IF k \in S THEN "RUNNING" ELSE st[k]
                          /\ future'[k] = IF k \in S THEN "waiting" ELSE fut[k]
  BY <1>2, <1>3 DEF Update, States, Futures
<1>5. QueueOK'
  <2>1. Range(queued') = {k \in tasks' : state'[k] = "QUEUED"} \ withdrawn'
    BY <1>2, <1>3, <1>4
  <2>2. withdrawn' \subseteq {k \in tasks' : state'[k] = "QUEUED"}
    BY <1>2, <1>3, <1>4
  <2>3. shut' => Range(queued') = {}
    BY <1>1, <1>2
  <2> QED BY <1>2, <2>1, <2>2, <2>3 DEF QueueOK, Distinct, Range
<1>6. LifeOK'
  <2>1. SUFFICES ASSUME NEW k \in Tasks PROVE Life(k)'
    BY DEF LifeOK
  <2>2. shut' = shut /\ creates'[k] = creates[k]
    OBVIOUS
  <2>3. CASE k \in S
    <3>1. ~shut /\ k \in ts /\ state'[k] = "RUNNING" /\ future'[k] = "waiting"
      BY <1>1, <1>2, <1>3, <1>4, <2>3
    <3> QED BY <2>2, <3>1 DEF Life, States
  <2>4. CASE k \notin S
    <3>1. state'[k] = st[k] /\ future'[k] = fut[k]
      BY <1>4, <2>4
    <3> QED BY <2>2, <3>1 DEF Life
  <2> QED BY <2>3, <2>4
<1>7. HoldsSlot'
  BY <1>2, <1>3, <1>4 DEF HoldsSlot
<1>8. SlotsComeBack'
  BY <1>2, <1>3, <1>4 DEF SlotsComeBack
<1>9. NoIdleQueue' /\ Fits(running)'
  BY <1>2 DEF NoIdleQueue
<1>10. \A k \in tasks' :
          future'[k] = "waiting" \/ state'[k] \in {"QUEUED", "FINISHED", "FAILED"} =>
              <<k, creates'[k]>> \notin native'
  BY <1>3, <1>4
<1> QED BY <1>1, <1>2, <1>4, <1>5, <1>6, <1>7, <1>8, <1>9, <1>10 DEF DrainedOK

=============================================================================
