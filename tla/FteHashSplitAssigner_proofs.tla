--------------------- MODULE FteHashSplitAssigner_proofs ---------------------
(***************************************************************************)
(* HashSplitAssigner for every number of source partitions and of tasks,    *)
(* every set of sources and splits and every sequence of assign calls.      *)
(*                                                                         *)
(* First the ranges that make_hash_task_partition_mapping computes: they    *)
(* cover the source partitions without overlap, none is empty and no two    *)
(* differ in size by more than one.  Then the assigner: what a partition's   *)
(* descriptor holds is a function of the splits given and of the sources    *)
(* completed.                                                               *)
(***************************************************************************)
EXTENDS FteHashSplitAssigner, FiniteSetTheorems, WellFoundedInduction, TLAPS

PartSet ==
    [of : SUBSET Nat, copies : [Ids -> Nat], ready : BOOLEAN, noMore : SUBSET Sources,
     seals : Nat, rejected : BOOLEAN]

(* What a partition holds when the splits G have been given and the sources  *)
(* C are complete.                                                          *)
Holds(p, G, C) ==
    /\ p \in PartSet
    /\ p.noMore = C
    /\ p.seals = IF C = Sources THEN 1 ELSE 0
    /\ ~p.rejected
    /\ \A t \in Ids : p.copies[t] = IF t \in G /\ Takes(p, t) THEN 1 ELSE 0

IInv ==
    /\ count \in Nat \ {0} /\ taskCount \in Nat
    /\ given \subseteq Ids /\ completed \subseteq Sources
    /\ parts = <<>> => given = {} /\ completed = {}
    /\ parts # <<>> => /\ parts \in Seq(PartSet) /\ Len(parts) = SourceTaskCount
                       /\ \A i \in DOMAIN parts : parts[i].of = Ordered[i] /\ Holds(parts[i], given, completed)

-----------------------------------------------------------------------------
(* Integer division.                                                        *)

(* The least element of a set of naturals, for induction.                   *)
LEMMA LeastNat ==
    ASSUME NEW B, B \subseteq Nat, B # {}
    PROVE  \E n \in B : \A m \in Nat : m < n => m \notin B
<1>1. \E n \in B : \A m \in B : ~(<<m, n>> \in OpToRel(<, Nat))
  BY NatLessThanWellFounded, WFMin
<1> QED BY <1>1 DEF OpToRel

(* The quotient of // lies within one divisor of the dividend.              *)
LEMMA Div ==
    ASSUME NEW x \in Nat, NEW k \in Nat \ {0}
    PROVE  x \div k \in Nat /\ k * (x \div k) <= x /\ x < k * (x \div k) + k
OBVIOUS

(* Dividing an inequality by a positive number, rounded.                    *)
LEMMA Cancel ==
    ASSUME NEW k \in Nat \ {0}, NEW a \in Int, NEW b \in Int, k * a < k * b + k
    PROVE  a <= b
<1>1. ASSUME a >= b + 1 PROVE FALSE
  <2>1. k * a >= k * (b + 1)
    BY <1>1
  <2>2. k * (b + 1) = k * b + k
    OBVIOUS
  <2>3. k * a \in Int /\ k * b \in Int
    OBVIOUS
  <2> QED BY <2>1, <2>2, <2>3
<1> QED BY <1>1

-----------------------------------------------------------------------------
(* The ranges of make_hash_task_partition_mapping.                          *)

(* part_start of task t.                                                    *)
Start(t) == (t * count) \div SourceTaskCount

(* source_task_count after its default and its cap.                         *)
LEMMA TaskCountIs ==
    ASSUME count \in Nat \ {0}, taskCount \in Nat
    PROVE  /\ SourceTaskCount \in Nat \ {0} /\ SourceTaskCount <= count
           /\ SourceTaskCount = IF taskCount \in 1 .. count THEN taskCount ELSE count
BY DEF SourceTaskCount

(* The ranges start at the first source partition, end at the last, and are
   as long as the average, rounded down or up. *)
LEMMA Starts ==
    ASSUME count \in Nat \ {0}, taskCount \in Nat
    PROVE  /\ \A t \in Nat : Start(t) \in Nat
           /\ Start(0) = 0 /\ Start(SourceTaskCount) = count
           /\ \A t, u \in Nat : t <= u => Start(t) <= Start(u)
           /\ count \div SourceTaskCount \in Nat \ {0}
           /\ \A t \in Nat : /\ Start(t) + (count \div SourceTaskCount) <= Start(t + 1)
                             /\ Start(t + 1) <= Start(t) + (count \div SourceTaskCount) + 1
<1> DEFINE k == SourceTaskCount
           d == count \div k
<1>1. k \in Nat \ {0} /\ k <= count
  BY TaskCountIs
<1> HIDE DEF k
<1>2. \A t \in Nat : t * count \in Nat /\ (t + 1) * count = t * count + count
  OBVIOUS
<1>3. \A t \in Nat : Start(t) \in Nat /\ k * Start(t) <= t * count /\ t * count < k * Start(t) + k
  BY <1>1, <1>2, Div DEF Start, k
<1>4. d \in Nat /\ k * d <= count /\ count < k * d + k
  BY <1>1, Div
<1> HIDE DEF d
<1>5. d # 0
  BY <1>1, <1>4
<1>6. Start(0) = 0
  <2>1. 0 * count = 0 /\ k * Start(0) <= 0 * count /\ Start(0) \in Nat
    BY <1>3
  <2> QED BY <1>1, <2>1
<1>7. Start(k) = count
  <2>1. k * Start(k) <= k * count /\ k * count < k * Start(k) + k /\ Start(k) \in Nat
    BY <1>1, <1>3
  <2>2. count <= Start(k)
    BY <1>1, <2>1, Cancel
  <2>3. k * Start(k) < k * count + k
    BY <1>1, <2>1
  <2>4. Start(k) <= count
    BY <1>1, <2>1, <2>3, Cancel
  <2> QED BY <2>1, <2>2, <2>4
<1>8. ASSUME NEW t \in Nat, NEW u \in Nat, t <= u PROVE Start(t) <= Start(u)
  <2>1. t * count <= u * count
    BY <1>8
  <2>2. k * Start(t) < k * Start(u) + k
    <3> DEFINE x == t * count
               y == u * count
               a == k * Start(t)
               b == k * Start(u)
    <3>1. a <= x /\ x <= y /\ y < b + k
      BY <1>3, <2>1
    <3>2. a \in Int /\ b \in Int /\ x \in Int /\ y \in Int
      BY <1>1, <1>2, <1>3
    <3> HIDE DEF a, b, x, y
    <3>3. a < b + k
      BY <1>1, <3>1, <3>2
    <3> QED BY <3>3 DEF a, b
  <2> QED BY <1>1, <1>3, <2>2, Cancel
<1>9. ASSUME NEW t \in Nat PROVE Start(t) + d <= Start(t + 1) /\ Start(t + 1) <= Start(t) + d + 1
  <2> DEFINE a == Start(t)
             b == Start(t + 1)
             x == t * count
  <2>1. a \in Nat /\ k * a <= x /\ x < k * a + k
    BY <1>3
  <2>2. b \in Nat /\ k * b <= x + count /\ x + count < k * b + k
    BY <1>2, <1>3
  <2>3. x \in Nat
    BY <1>2
  <2> HIDE DEF a, b, x
  <2>4. k * (a + d) = k * a + k * d /\ k * (a + d + 1) = k * a + k * d + k
    BY <1>1, <1>4, <2>1
  <2>5. k * a \in Nat /\ k * b \in Nat /\ k * d \in Nat
    BY <1>1, <1>4, <2>1, <2>2
  <2>6. k * (a + d) < k * b + k
    BY <1>1, <1>4, <2>1, <2>2, <2>3, <2>4, <2>5
  <2>7. k * b < k * (a + d + 1) + k
    BY <1>1, <1>4, <2>1, <2>2, <2>3, <2>4, <2>5
  <2>8. a + d <= b
    BY <1>1, <1>4, <2>1, <2>2, <2>6, Cancel
  <2>9. b <= a + d + 1
    BY <1>1, <1>4, <2>1, <2>2, <2>7, Cancel
  <2> QED BY <2>8, <2>9 DEF a, b
<1> QED BY <1>3, <1>4, <1>5, <1>6, <1>7, <1>8, <1>9 DEF k, d

(* Every source partition is in the range of one task.                      *)
LEMMA RangesCover ==
    ASSUME count \in Nat \ {0}, taskCount \in Nat, NEW n \in 0 .. count - 1
    PROVE  \E t \in 0 .. SourceTaskCount - 1 :
              n \in SourcePartitions(t) /\ \A u \in 0 .. SourceTaskCount - 1 : n \in SourcePartitions(u) => u = t
<1> DEFINE k == SourceTaskCount
           B == {t \in Nat : n < Start(t)}
<1>1. k \in Nat \ {0}
  BY TaskCountIs
<1>2. /\ \A t \in Nat : Start(t) \in Nat
      /\ Start(0) = 0 /\ Start(k) = count /\ \A t, u \in Nat : t <= u => Start(t) <= Start(u)
  BY Starts
<1>3. \A t \in Nat : SourcePartitions(t) = Start(t) .. Start(t + 1) - 1
  BY DEF SourcePartitions, Start
<1> HIDE DEF k
<1>4. k \in B
  BY <1>1, <1>2
<1>5. PICK m \in B : \A l \in Nat : l < m => l \notin B
  BY <1>4, LeastNat
<1>6. m # 0 /\ m - 1 \in Nat /\ m - 1 \notin B /\ m <= k
  BY <1>1, <1>2, <1>4, <1>5
<1>7. /\ m - 1 \in 0 .. k - 1 /\ n \in SourcePartitions(m - 1)
      /\ Start(m - 1) <= n /\ n < Start(m)
  <2>1. m \in Nat /\ Start(m - 1) \in Nat /\ Start(m) \in Nat /\ m - 1 \in 0 .. k - 1 /\ (m - 1) + 1 = m
    BY <1>1, <1>2, <1>6
  <2>2. Start(m - 1) <= n /\ n < Start(m)
    BY <1>6, <2>1
  <2>3. SourcePartitions(m - 1) = Start(m - 1) .. Start(m) - 1
    BY <1>3, <1>6, <2>1
  <2> QED BY <2>1, <2>2, <2>3
<1>8. ASSUME NEW u \in 0 .. k - 1, n \in SourcePartitions(u) PROVE u = m - 1
  <2>1. Start(u) <= n /\ n < Start(u + 1)
    <3>1. u \in Nat /\ u + 1 \in Nat /\ Start(u) \in Nat /\ Start(u + 1) \in Nat
      BY <1>1, <1>2
    <3>2. n \in Start(u) .. Start(u + 1) - 1
      BY <1>3, <1>8, <3>1
    <3> QED BY <3>1, <3>2
  <2>2. ~(u + 1 <= m - 1)
    BY <1>2, <1>6, <1>7, <2>1
  <2>3. ~(m <= u)
    BY <1>2, <1>6, <1>7, <2>1
  <2> QED BY <1>6, <2>2, <2>3
<1> QED BY <1>7, <1>8 DEF k

TaskRanges == {SourcePartitions(t) : t \in 0 .. SourceTaskCount - 1}

(* A range and its first source partition.                                  *)
LEMMA RangeIs ==
    ASSUME count \in Nat \ {0}, taskCount \in Nat, NEW t \in 0 .. SourceTaskCount - 1
    PROVE  /\ SourcePartitions(t) = Start(t) .. Start(t + 1) - 1
           /\ Start(t) \in SourcePartitions(t) /\ Start(t) \in 0 .. count - 1
           /\ Min(SourcePartitions(t)) = Start(t)
           /\ Cardinality(SourcePartitions(t)) \in {count \div SourceTaskCount, (count \div SourceTaskCount) + 1}
           /\ SourcePartitions(t) \subseteq Nat
<1> DEFINE k == SourceTaskCount
           d == count \div k
           a == Start(t)
           b == Start(t + 1)
<1>1. k \in Nat \ {0} /\ t \in Nat /\ t + 1 \in Nat /\ t + 1 <= k
  BY TaskCountIs
<1>2. a \in Nat /\ b \in Nat /\ b <= count /\ d \in Nat \ {0} /\ a + d <= b /\ b <= a + d + 1
  BY <1>1, Starts
<1>3. SourcePartitions(t) = a .. b - 1
  BY DEF SourcePartitions, Start
<1> HIDE DEF k, d, a, b
<1>4. Cardinality(a .. b - 1) = b - a
  BY <1>2, FS_Interval
<1>5. b - a = d \/ b - a = d + 1
  BY <1>2
<1>6. a \in a .. b - 1 /\ a \in 0 .. count - 1 /\ a .. b - 1 \subseteq Nat
  BY <1>2
<1>7. Min(a .. b - 1) = a
  <2>1. \A y \in a .. b - 1 : a =< y
    BY <1>2
  <2>2. \A x \in a .. b - 1 : (\A y \in a .. b - 1 : x =< y) => x = a
    BY <1>2, <1>6
  <2> DEFINE S == a .. b - 1
  <2>3. a \in S /\ (\A y \in S : a =< y) /\ \A x \in S : (\A y \in S : x =< y) => x = a
    BY <1>6, <2>1, <2>2
  <2> HIDE DEF S
  <2>4. Min(S) = a
    BY <2>3, Zenon DEF Min
  <2> QED BY <2>4 DEF S
<1> QED BY <1>3, <1>4, <1>5, <1>6, <1>7 DEF k, d, a, b

(* The task partitions are the ranges, in some order.                       *)
LEMMA OrderedIs ==
    ASSUME count \in Nat \ {0}, taskCount \in Nat
    PROVE  Ordered \in Bijection(1 .. SourceTaskCount, TaskRanges)
<1> DEFINE k == SourceTaskCount
           q == [i \in 1 .. k |-> SourcePartitions(i - 1)]
           Inc(f) == \A i, j \in DOMAIN f : i < j => Min(f[i]) < Min(f[j])
<1>1. k \in Nat \ {0} /\ \A i \in 1 .. k : i - 1 \in 0 .. k - 1
  BY TaskCountIs
<1>2. Uncovered = {}
  BY RangesCover DEF Uncovered
<1>3. Groups \ {{}} = TaskRanges
  <2>1. \A t \in 0 .. k - 1 : SourcePartitions(t) # {}
    BY RangeIs
  <2> QED BY <1>2, <2>1 DEF Groups, TaskRanges
<1>4. q \in [1 .. k -> TaskRanges]
  BY <1>1 DEF TaskRanges
<1>5. ASSUME NEW i \in 1 .. k, NEW j \in 1 .. k, q[i] = q[j] PROVE i = j
  <2>1. i - 1 \in 0 .. k - 1 /\ j - 1 \in 0 .. k - 1 /\ SourcePartitions(i - 1) = SourcePartitions(j - 1)
    BY <1>1, <1>5
  <2>2. Start(i - 1) \in SourcePartitions(i - 1) /\ Start(i - 1) \in 0 .. count - 1
    BY <2>1, RangeIs
  <2>3. PICK t \in 0 .. k - 1 : \A u \in 0 .. k - 1 : Start(i - 1) \in SourcePartitions(u) => u = t
    BY <2>2, RangesCover
  <2>4. i - 1 = j - 1
    BY <2>1, <2>2, <2>3
  <2> QED BY <2>4
<1>6. ASSUME NEW r \in TaskRanges PROVE \E i \in 1 .. k : q[i] = r
  <2>1. PICK t \in 0 .. k - 1 : r = SourcePartitions(t)
    BY DEF TaskRanges
  <2>2. t + 1 \in 1 .. k /\ (t + 1) - 1 = t
    BY <1>1
  <2>3. q[t + 1] = r
    BY <2>1, <2>2
  <2> QED BY <2>2, <2>3
<1>7. q \in Bijection(1 .. k, TaskRanges)
  <2> HIDE DEF q
  <2> QED BY <1>4, <1>5, <1>6 DEF Bijection, Injection, IsInjective, Surjection
<1>8. Cardinality(TaskRanges) = k
  <2>1. IsFiniteSet(1 .. k) /\ Cardinality(1 .. k) = k
    BY <1>1, FS_Interval
  <2>2. ExistsBijection(1 .. k, TaskRanges)
    BY <1>7 DEF ExistsBijection
  <2> QED BY <2>1, <2>2, FS_Bijection
<1>9. Inc(q)
  <2> SUFFICES ASSUME NEW i \in 1 .. k, NEW j \in 1 .. k, i < j PROVE Min(q[i]) < Min(q[j])
    OBVIOUS
  <2>1. Min(q[i]) = Start(i - 1) /\ Min(q[j]) = Start(j - 1)
    BY <1>1, RangeIs
  <2>2. i - 1 \in Nat /\ j - 1 \in Nat /\ (i - 1) + 1 = i /\ i <= j - 1
    BY <1>1
  <2>3. Start(i - 1) < Start(i) /\ Start(i) <= Start(j - 1) /\ Start(i - 1) \in Nat /\ Start(i) \in Nat /\ Start(j - 1) \in Nat
    <3>1. /\ \A t \in Nat : Start(t) \in Nat
          /\ \A t, u \in Nat : t <= u => Start(t) <= Start(u)
          /\ count \div k \in Nat \ {0}
          /\ \A t \in Nat : Start(t) + (count \div k) <= Start(t + 1)
      BY Starts
    <3> DEFINE d == count \div k
    <3> HIDE DEF d
    <3>2. d \in Nat \ {0} /\ Start(i - 1) + d <= Start(i)
      BY <2>2, <3>1 DEF d
    <3>3. Start(i - 1) \in Nat /\ Start(i) \in Nat /\ Start(j - 1) \in Nat /\ Start(i) <= Start(j - 1)
      <4>1. (\A t \in Nat : Start(t) \in Nat) /\ \A t, u \in Nat : t <= u => Start(t) <= Start(u)
        BY <3>1
      <4>2. i \in Nat /\ i - 1 \in Nat /\ j - 1 \in Nat /\ i <= j - 1
        BY <1>1, <2>2
      <4> QED BY ONLY <4>1, <4>2
    <3>4. Start(i - 1) < Start(i)
      BY <3>2, <3>3
    <3> QED BY <3>3, <3>4
  <2> QED BY <2>1, <2>3
<1>10. Ordered = CHOOSE f \in Bijection(1 .. k, TaskRanges) : Inc(f)
  BY <1>3, <1>8 DEF Ordered
<1> HIDE DEF q, Inc, k
<1> QED BY <1>7, <1>9, <1>10, Zenon DEF k

(* The mapping of make_hash_task_partition_mapping.                         *)
LEMMA OrderedBalanced ==
    ASSUME count \in Nat \ {0}, taskCount \in Nat
    PROVE  /\ \A n \in 0 .. count - 1 : Cardinality({i \in 1 .. SourceTaskCount : n \in Ordered[i]}) = 1
           /\ \A i \in 1 .. SourceTaskCount :
                 /\ Ordered[i] \subseteq Nat
                 /\ Cardinality(Ordered[i]) \in {count \div SourceTaskCount, (count \div SourceTaskCount) + 1}
<1> DEFINE k == SourceTaskCount
           q == Ordered
<1>1. /\ q \in [1 .. k -> TaskRanges] /\ \A i, j \in 1 .. k : q[i] = q[j] => i = j
      /\ \A r \in TaskRanges : \E i \in 1 .. k : q[i] = r
  BY OrderedIs DEF Bijection, Injection, IsInjective, Surjection
<1> HIDE DEF q
<1>2. ASSUME NEW n \in 0 .. count - 1 PROVE Cardinality({i \in 1 .. k : n \in q[i]}) = 1
  <2>1. PICK t \in 0 .. k - 1 : n \in SourcePartitions(t) /\ \A u \in 0 .. k - 1 : n \in SourcePartitions(u) => u = t
    BY RangesCover
  <2>2. PICK i \in 1 .. k : q[i] = SourcePartitions(t)
    BY <1>1 DEF TaskRanges
  <2>3. \A j \in 1 .. k : n \in q[j] => j = i
    BY <1>1, <2>1, <2>2 DEF TaskRanges
  <2>4. {j \in 1 .. k : n \in q[j]} = {i}
    BY <2>1, <2>2, <2>3
  <2> QED BY <2>4, FS_Singleton
<1>3. ASSUME NEW i \in 1 .. k PROVE q[i] \subseteq Nat /\ Cardinality(q[i]) \in {count \div k, (count \div k) + 1}
  <2>1. PICK t \in 0 .. k - 1 : q[i] = SourcePartitions(t)
    BY <1>1 DEF TaskRanges
  <2> QED BY <2>1, RangeIs
<1> QED BY <1>2, <1>3 DEF q

-----------------------------------------------------------------------------
(* The invariant.                                                           *)

(* The assigner before its first call.                                      *)
LEMMA InitIInv ==
    ASSUME SplitsWellFormed, Init
    PROVE  IInv
BY DEF Init, IInv, SplitsWellFormed

(* A partition of the first call, before its splits.                        *)
LEMMA NewHolds ==
    ASSUME SplitsWellFormed, count \in Nat \ {0}, taskCount \in Nat, NEW i \in 1 .. SourceTaskCount
    PROVE  NewPartition(i).of = Ordered[i] /\ Holds(NewPartition(i), {}, {})
<1>1. Ordered[i] \in SUBSET Nat
  BY OrderedBalanced
<1> DEFINE q == NewPartition(i)
<1>2. /\ q \in PartSet /\ q.of = Ordered[i] /\ q.noMore = {} /\ q.seals = 0 /\ q.rejected = FALSE
      /\ \A t \in Ids : q.copies[t] = 0
  BY <1>1 DEF NewPartition, PartSet
<1> HIDE DEF q
<1>3. Sources # {}
  BY DEF SplitsWellFormed
<1> QED BY <1>2, <1>3 DEF Holds, q

(* The splits of one call that a partition takes, as in the loop of assign. *)
Got(p, new) == {s \in new : Takes(p, s)}

Fresh(new, source) == new \subseteq {s \in Ids \ given : Splits[s].source = source}

(* One call for one partition: it gets its splits, the source is closed if
   it ends, and the partition is sealed if that was the last one. *)
LEMMA CallHolds ==
    ASSUME SplitsWellFormed, NEW p, Holds(p, given, completed), completed \subseteq Sources,
           NEW source \in Sources, source \notin completed,
           NEW new, Fresh(new, source),
           NEW done, done = completed \/ done = completed \cup {source}
    PROVE  /\ Closed(WithSplits(p, Got(p, new)), source, done).of = p.of
           /\ Holds(Closed(WithSplits(p, Got(p, new)), source, done), given \cup new, done)
<1> DEFINE c == [s \in Ids |-> IF s \in Got(p, new) THEN p.copies[s] + 1 ELSE p.copies[s]]
           r == p.rejected \/ \E s \in Got(p, new) : Splits[s].source \in p.noMore
           a == p.ready \/ \E s \in Got(p, new) : Splits[s].source \in PartitionedSources
           w == [p EXCEPT !.copies = c, !.rejected = r, !.ready = a]
           n == IF source \in done THEN p.noMore \cup {source} ELSE p.noMore
           k == IF Sources \subseteq done THEN p.seals + 1 ELSE p.seals
           q == Closed(w, source, done)
<1>1. p \in PartSet
  BY DEF Holds
<1>2. c \in [Ids -> Nat] /\ r \in BOOLEAN /\ a \in BOOLEAN
  BY <1>1 DEF PartSet
<1>3. ~r
  BY DEF Holds, Got, Fresh
<1>4. \A t \in Ids : c[t] = IF t \in given \cup new /\ Takes(p, t) THEN 1 ELSE 0
  BY DEF Holds, Got, Fresh
<1>5. n = done
  BY DEF Holds
<1>6. k = IF done = Sources THEN 1 ELSE 0
  BY DEF Holds
<1>7. WithSplits(p, Got(p, new)) = w
  BY Zenon DEF WithSplits
<1> HIDE DEF c, r, a
<1>8. /\ w \in PartSet /\ w.of = p.of /\ w.copies = c /\ w.rejected = r
      /\ w.noMore = p.noMore /\ w.seals = p.seals
  BY <1>1, <1>2 DEF PartSet
<1> HIDE DEF w
<1>9. q = [w EXCEPT !.noMore = n, !.seals = k]
  BY <1>8 DEF Closed
<1>10. n \in SUBSET Sources /\ k \in Nat
  BY <1>1 DEF PartSet
<1> HIDE DEF n, k, q
<1>11. /\ q \in PartSet /\ q.of = p.of /\ q.copies = c /\ q.rejected = r /\ q.noMore = n /\ q.seals = k
  BY <1>8, <1>9, <1>10 DEF PartSet
<1>12. \A t : Takes(q, t) <=> Takes(p, t)
  BY <1>11 DEF Takes
<1>13. q.of = p.of /\ Holds(q, given \cup new, done)
  BY <1>3, <1>4, <1>5, <1>6, <1>11, <1>12 DEF Holds
<1> QED BY <1>7, <1>13 DEF q

(* The mapping is fixed when the assigner is made.                          *)
LEMMA MappingFixed ==
    ASSUME count' = count, taskCount' = taskCount
    PROVE  SourceTaskCount' = SourceTaskCount /\ Ordered' = Ordered
<1>1. SourceTaskCount' = SourceTaskCount
  BY DEF SourceTaskCount
<1>2. \A t : SourcePartitions(t)' = SourcePartitions(t)
  BY <1>1, Zenon DEF SourcePartitions
<1>3. Uncovered' = Uncovered
  BY <1>1, <1>2, Zenon DEF Uncovered
<1>4. Groups' = Groups
  BY <1>1, <1>2, <1>3, Zenon DEF Groups
<1>5. Ordered' = Ordered
  BY <1>4, Zenon DEF Ordered
<1> QED BY <1>1, <1>5

(* A call of assign keeps the invariant.                                    *)
LEMMA NextIInv ==
    ASSUME SplitsWellFormed, IInv, [Next]_vars
    PROVE  IInv'
<1>1. CASE UNCHANGED vars
  <2>1. /\ parts' = parts /\ given' = given /\ completed' = completed /\ count' = count /\ taskCount' = taskCount
        /\ SourceTaskCount' = SourceTaskCount /\ Ordered' = Ordered
    BY <1>1, MappingFixed DEF vars
  <2> QED BY <2>1 DEF IInv, Holds, Takes
<1>2. CASE Next
  <2>1. PICK source \in Sources, last \in BOOLEAN :
           \E new \in SUBSET {s \in Ids \ given : Splits[s].source = source} : Assign(source, new, last)
    BY <1>2, Zenon DEF Next
  <2>2. PICK new \in SUBSET {s \in Ids \ given : Splits[s].source = source} : Assign(source, new, last)
    BY <2>1
  <2> DEFINE done == IF last THEN completed \cup {source} ELSE completed
             ps == IF parts = <<>> THEN [i \in DOMAIN Ordered |-> NewPartition(i)] ELSE parts
             Call(p) == Closed(WithSplits(p, Got(p, new)), source, done)
  <2>3. /\ source \notin completed /\ parts' = [i \in DOMAIN ps |-> Call(ps[i])]
        /\ completed' = done /\ given' = given \cup new /\ count' = count /\ taskCount' = taskCount
    BY <2>2 DEF Assign, Got
  <2>4. /\ count \in Nat \ {0} /\ taskCount \in Nat /\ given \subseteq Ids /\ completed \subseteq Sources
        /\ SourceTaskCount \in Nat \ {0} /\ SourceTaskCount' = SourceTaskCount /\ Ordered' = Ordered
    BY <2>3, TaskCountIs, MappingFixed DEF IInv
  <2>5. done \subseteq Sources /\ (done = completed \/ done = completed \cup {source})
    BY <2>4
  <2>6. /\ DOMAIN ps = 1 .. SourceTaskCount
        /\ \A i \in 1 .. SourceTaskCount : ps[i].of = Ordered[i] /\ Holds(ps[i], given, completed)
    <3>1. CASE parts = <<>>
      <4>1. DOMAIN Ordered = 1 .. SourceTaskCount
        BY <2>4, OrderedIs DEF Bijection, Injection
      <4>2. given = {} /\ completed = {}
        BY <3>1 DEF IInv
      <4>3. ps = [i \in 1 .. SourceTaskCount |-> NewPartition(i)]
        BY <3>1, <4>1
      <4> HIDE DEF ps
      <4>4. ASSUME NEW i \in 1 .. SourceTaskCount
            PROVE  ps[i].of = Ordered[i] /\ Holds(ps[i], given, completed)
        <5>1. NewPartition(i).of = Ordered[i] /\ Holds(NewPartition(i), {}, {})
          BY <2>4, NewHolds
        <5>2. ps[i] = NewPartition(i)
          BY <4>3
        <5> QED BY <4>2, <5>1, <5>2
      <4> QED BY <4>3, <4>4
    <3>2. CASE parts # <<>>
      BY <3>2 DEF IInv
    <3> QED BY <3>1, <3>2
  <2> HIDE DEF ps, done
  <2>7. ASSUME NEW i \in 1 .. SourceTaskCount
        PROVE  Call(ps[i]).of = Ordered[i] /\ Holds(Call(ps[i]), given \cup new, done)
    <3>1. ps[i].of = Ordered[i] /\ Holds(ps[i], given, completed)
      BY <2>6
    <3>2. Fresh(new, source) /\ completed \subseteq Sources
      BY <2>4 DEF Fresh
    <3>3. source \notin completed
      BY <2>3
    <3>4. Call(ps[i]).of = ps[i].of /\ Holds(Call(ps[i]), given \cup new, done)
      BY <2>5, <3>1, <3>2, <3>3, CallHolds
    <3> QED BY <3>1, <3>4
  <2>8. /\ parts' = [i \in 1 .. SourceTaskCount |-> Call(ps[i])]
    BY <2>3, <2>6
  <2> HIDE DEF Call
  <2>9. /\ parts' \in Seq(PartSet) /\ Len(parts') = SourceTaskCount /\ DOMAIN parts' = 1 .. SourceTaskCount
        /\ \A i \in 1 .. SourceTaskCount : parts'[i].of = Ordered[i] /\ Holds(parts'[i], given', completed')
    <3>1. \A i \in 1 .. SourceTaskCount : Call(ps[i]) \in PartSet
      BY <2>7 DEF Holds
    <3>2. parts' \in Seq(PartSet) /\ Len(parts') = SourceTaskCount /\ DOMAIN parts' = 1 .. SourceTaskCount
      BY <2>4, <2>8, <3>1
    <3>3. \A i \in 1 .. SourceTaskCount : parts'[i] = Call(ps[i])
      BY <2>8
    <3> QED BY <2>3, <2>7, <3>2, <3>3
  <2>10. parts' # <<>> /\ given' \subseteq Ids /\ completed' \subseteq Sources
    BY <2>3, <2>4, <2>5, <2>9
  <2>11. \A i \in DOMAIN parts' : Holds(parts[i], given, completed)'
    BY <2>9 DEF Holds, Takes
  <2> QED BY <2>3, <2>4, <2>9, <2>10, <2>11 DEF IInv
<1> QED BY <1>1, <1>2

(* The invariant holds in every reachable state.                            *)
LEMMA SpecIInv ==
    ASSUME SplitsWellFormed
    PROVE  Spec => []IInv
<1>1. Init => IInv
  BY InitIInv
<1>2. IInv /\ [Next]_vars => IInv'
  BY NextIInv
<1> QED BY <1>1, <1>2, PTL DEF Spec

-----------------------------------------------------------------------------
(* The theorems.                                                            *)

(* HashSplitAssigner.assign: a split of a partitioned source is once in the
   partition of its hash bucket and nowhere else, one of a replicated source
   once in every partition. *)
THEOREM BucketsMeet ==
    ASSUME SplitsWellFormed
    PROVE  Spec => []EverySplitDelivered
<1>1. IInv => EverySplitDelivered
  <2> SUFFICES ASSUME IInv, NEW s \in given
               PROVE  IF Splits[s].source \in ReplicatedSources
                      THEN \A i \in DOMAIN parts : parts[i].copies[s] = 1
                      ELSE \A i \in DOMAIN parts :
                              parts[i].copies[s] = IF Splits[s].partition \in parts[i].of THEN 1 ELSE 0
    BY DEF EverySplitDelivered
  <2>1. s \in Ids /\ parts # <<>>
    BY DEF IInv
  <2>2. \A i \in DOMAIN parts : parts[i].copies[s] = IF Takes(parts[i], s) THEN 1 ELSE 0
    BY <2>1 DEF IInv, Holds
  <2> QED BY <2>2 DEF Takes
<1> QED BY <1>1, SpecIInv, PTL

(* Every task partition, one without a split too, is sealed once, when the
   last source has ended, and its descriptor refuses no split. *)
THEOREM AllSealedAtTheEnd ==
    ASSUME SplitsWellFormed
    PROVE  Spec => []SealedAtTheEnd
<1>1. IInv => SealedAtTheEnd
  <2> SUFFICES ASSUME IInv, NEW i \in DOMAIN parts
               PROVE  parts[i].seals = (IF completed = Sources THEN 1 ELSE 0) /\ ~parts[i].rejected
    BY DEF SealedAtTheEnd
  <2>1. parts # <<>>
    OBVIOUS
  <2> QED BY <2>1 DEF IInv, Holds
<1> QED BY <1>1, SpecIInv, PTL

(* make_hash_task_partition_mapping and _create_task_partitions: whatever the
   number of source partitions and of tasks asked for, each source partition
   has one task partition, there are as many task partitions as asked for,
   capped, and their sizes differ by at most one. *)
THEOREM MappingAlwaysBalanced ==
    ASSUME SplitsWellFormed
    PROVE  Spec => []MappingBalanced
<1>1. IInv => MappingBalanced
  <2> SUFFICES ASSUME IInv, parts # <<>>
               PROVE  /\ \A n \in 0 .. count - 1 : Cardinality({i \in DOMAIN parts : n \in parts[i].of}) = 1
                      /\ Len(parts) = IF taskCount \in 1 .. count THEN taskCount ELSE count
                      /\ \A i, j \in DOMAIN parts : Cardinality(parts[i].of) - Cardinality(parts[j].of) <= 1
    BY DEF MappingBalanced
  <2> DEFINE k == SourceTaskCount
             d == count \div k
  <2>1. count \in Nat \ {0} /\ taskCount \in Nat
    BY DEF IInv
  <2>2. Len(parts) = k /\ DOMAIN parts = 1 .. k /\ \A i \in 1 .. k : parts[i].of = Ordered[i]
    BY DEF IInv
  <2>3. k = IF taskCount \in 1 .. count THEN taskCount ELSE count
    BY <2>1, TaskCountIs
  <2>4. ASSUME NEW n \in 0 .. count - 1 PROVE Cardinality({i \in DOMAIN parts : n \in parts[i].of}) = 1
    <3>1. {i \in DOMAIN parts : n \in parts[i].of} = {i \in 1 .. k : n \in Ordered[i]}
      BY <2>2
    <3>2. Cardinality({i \in 1 .. k : n \in Ordered[i]}) = 1
      BY <2>1, OrderedBalanced
    <3> QED BY <3>1, <3>2
  <2>5. d \in Nat
    BY <2>1, Starts
  <2>6. \A i \in 1 .. k : Cardinality(Ordered[i]) = d \/ Cardinality(Ordered[i]) = d + 1
    BY <2>1, OrderedBalanced
  <2> HIDE DEF k, d
  <2>7. \A i, j \in DOMAIN parts : Cardinality(parts[i].of) - Cardinality(parts[j].of) <= 1
    BY <2>2, <2>5, <2>6
  <2> QED BY <2>2, <2>3, <2>4, <2>7
<1> QED BY <1>1, SpecIInv, PTL

=============================================================================
