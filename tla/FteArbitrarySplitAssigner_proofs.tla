------------------- MODULE FteArbitrarySplitAssigner_proofs -------------------
(***************************************************************************)
(* ArbitrarySplitAssigner for every set of sources and splits, every target  *)
(* size and split limit and every sequence of assign calls.                 *)
(*                                                                         *)
(* The invariant says of a partition what its flags imply while sources are  *)
(* still open (Good), and of all partitions that the splits given so far     *)
(* have been delivered (Delivered).  It is kept by one turn of the placing   *)
(* loop, hence by the loop, by the replication to every partition and by     *)
(* the finish.                                                              *)
(***************************************************************************)
EXTENDS FteArbitrarySplitAssigner, WellFoundedInduction, TLAPS

Hosts == {NoHost} \cup UNION {Range(Splits[s].addresses) : s \in Ids}

PartSet ==
    [host : Hosts, remote : BOOLEAN, bytes : Nat, count : Nat, full : BOOLEAN, open : BOOLEAN,
     copies : [Ids -> Nat], noMore : SUBSET Sources, seals : Nat, rejected : BOOLEAN]

(* What a partition's descriptor has been told when the sources C are        *)
(* complete.                                                                *)
Told(p, C) ==
    /\ p.open <=> ~p.full
    /\ p.noMore = (ReplicatedSources \cap C) \cup (IF p.full THEN PartitionedSources ELSE {})
    /\ p.seals = IF p.full /\ ReplicatedSources \subseteq C THEN 1 ELSE 0
    /\ ~p.rejected

Kept(p) == p.count > 1 => p.bytes <= Target /\ p.count <= MaxTaskSplits

OwnHost(p) ==
    \A s \in Ids :
        Splits[s].source \in PartitionedSources /\ p.copies[s] > 0 =>
            /\ Splits[s].addresses # <<>> => p.host \in Range(Splits[s].addresses)
            /\ p.remote = Splits[s].remote

Good(p, C) == Told(p, C) /\ Kept(p) /\ OwnHost(p)

Once(ps, t) ==
    IF Splits[t].source \in ReplicatedSources
    THEN \A i \in DOMAIN ps : ps[i].copies[t] = 1
    ELSE \E i \in DOMAIN ps : ps[i].copies[t] = 1 /\ \A j \in DOMAIN ps \ {i} : ps[j].copies[t] = 0

Delivered(ps, G) ==
    /\ \A t \in Ids \ G : \A i \in DOMAIN ps : ps[i].copies[t] = 0
    /\ \A t \in G : Once(ps, t)

(* The partitions within a call, the splits G placed and the sources C       *)
(* complete.                                                                *)
Mid(ps, G, C) ==
    /\ ps \in Seq(PartSet)
    /\ \A i \in DOMAIN ps : Good(ps[i], C)
    /\ Delivered(ps, G)

(* The partitions when all sources are complete.                            *)
Over(ps, G) ==
    /\ ps \in Seq(PartSet)
    /\ \A i \in DOMAIN ps : /\ ps[i].noMore = Sources /\ ps[i].seals = 1 /\ ~ps[i].rejected
                            /\ Kept(ps[i]) /\ OwnHost(ps[i])
    /\ Delivered(ps, G)

IInv ==
    /\ given \subseteq Ids /\ completed \subseteq Sources /\ finished \in BOOLEAN
    /\ ~finished => Mid(parts, given, completed)
    /\ finished => Over(parts, given)
    /\ parts # <<>> /\ ~finished => PartitionedSources # {}

-----------------------------------------------------------------------------
(* The least element of a set of naturals, for induction.                   *)
LEMMA LeastNat ==
    ASSUME NEW B, B \subseteq Nat, B # {}
    PROVE  \E n \in B : \A m \in Nat : m < n => m \notin B
<1>1. \E n \in B : \A m \in B : ~(<<m, n>> \in OpToRel(<, Nat))
  BY NatLessThanWellFounded, WFMin
<1> QED BY <1>1 DEF OpToRel

(* Min of a set of naturals is one of them.                                 *)
LEMMA MinIn ==
    ASSUME NEW B, B \subseteq Nat, B # {}
    PROVE  Min(B) \in B
<1>1. PICK n \in B : \A m \in Nat : m < n => m \notin B
  BY LeastNat
<1>2. \A y \in B : n =< y
  BY <1>1
<1> QED BY <1>2, Zenon DEF Min

-----------------------------------------------------------------------------
(* Placement.                                                              *)

(* The rank of an address is a size, or -1.                                 *)
LEMMA RankInt ==
    ASSUME NEW ps \in Seq(PartSet), NEW a
    PROVE  Rank(ps, a) \in Int /\ Rank(ps, a) >= -1
<1> DEFINE flex == OpenFor(ps, a, TRUE)
           rigid == OpenFor(ps, a, FALSE)
           bytes(open) == IF open = {} THEN 0 ELSE ps[Min(open)].bytes
<1>1. ASSUME NEW remote PROVE bytes(OpenFor(ps, a, remote)) \in Nat
  <2> DEFINE S == OpenFor(ps, a, remote)
  <2>1. S \subseteq DOMAIN ps /\ DOMAIN ps \subseteq Nat
    BY DEF OpenFor
  <2>2. CASE S = {}
    BY <2>2
  <2>3. CASE S # {}
    <3> HIDE DEF S
    <3>1. Min(S) \in S
      BY <2>1, <2>3, MinIn
    <3>2. ps[Min(S)] \in PartSet
      BY <3>1, <2>1
    <3>3. ps[Min(S)].bytes \in Nat
      BY <3>2 DEF PartSet
    <3> QED BY <2>3, <3>3 DEF S
  <2> QED BY <2>2, <2>3
<1>2. bytes(flex) \in Nat /\ bytes(rigid) \in Nat
  BY <1>1
<1>3. Rank(ps, a) = IF flex \cup rigid = {} THEN -1 ELSE bytes(flex) + bytes(rigid)
  BY Zenon DEF Rank
<1> HIDE DEF flex, rigid, bytes
<1> QED BY <1>2, <1>3

(* _node_requirements names a host of the split, if it has one.             *)
LEMMA HostOfOwn ==
    ASSUME SplitsWellFormed, NEW ps \in Seq(PartSet), NEW s \in Ids
    PROVE  /\ HostOf(ps, s) \in Hosts
           /\ Splits[s].addresses # <<>> => HostOf(ps, s) \in Range(Splits[s].addresses)
<1> DEFINE ad == Splits[s].addresses
           least == {k \in DOMAIN ad : \A j \in DOMAIN ad : Rank(ps, ad[k]) <= Rank(ps, ad[j])}
<1>1. ad \in Seq(Range(ad))
  BY DEF SplitsWellFormed
<1>2. HostOf(ps, s) = IF ad = <<>> THEN NoHost ELSE ad[Min(least)]
  BY Zenon DEF HostOf
<1>3. CASE ad = <<>>
  BY <1>2, <1>3 DEF Hosts
<1>4. CASE ad # <<>>
  <2>1. DOMAIN ad \subseteq Nat /\ 1 \in DOMAIN ad
    BY <1>1, <1>4
  <2> DEFINE B == {Rank(ps, ad[k]) + 1 : k \in DOMAIN ad}
  <2>2. B \subseteq Nat /\ B # {}
    BY <2>1, RankInt
  <2>3. PICK n \in B : \A m \in Nat : m < n => m \notin B
    BY <2>2, LeastNat
  <2>4. PICK k \in DOMAIN ad : n = Rank(ps, ad[k]) + 1
    OBVIOUS
  <2>5. ASSUME NEW j \in DOMAIN ad PROVE Rank(ps, ad[k]) <= Rank(ps, ad[j])
    <3>1. Rank(ps, ad[j]) + 1 \in B /\ Rank(ps, ad[j]) + 1 \in Nat
      BY <2>2
    <3>2. Rank(ps, ad[j]) \in Int /\ Rank(ps, ad[k]) \in Int
      BY RankInt
    <3> HIDE DEF B, ad
    <3> QED BY <3>1, <3>2, <2>3, <2>4
  <2>6. k \in least
    BY <2>5
  <2>7. least \subseteq Nat
    BY <2>1
  <2> HIDE DEF least
  <2>8. Min(least) \in least
    BY <2>6, <2>7, MinIn
  <2>9. Min(least) \in DOMAIN ad
    BY <2>8 DEF least
  <2>10. ad[Min(least)] \in Range(ad)
    BY <2>9 DEF Range
  <2>11. ad[Min(least)] \in Hosts
    BY <2>10 DEF Hosts
  <2> QED BY <1>2, <1>4, <2>10, <2>11
<1> QED BY <1>3, <1>4

-----------------------------------------------------------------------------
(* The fields of the records the operators build.                           *)

(* Filled changes the flags, the closed sources and the seals only.         *)
LEMMA FilledFields ==
    ASSUME NEW p \in PartSet
    PROVE  LET q == Filled(p) IN
           /\ q \in PartSet /\ q.host = p.host /\ q.remote = p.remote /\ q.bytes = p.bytes /\ q.count = p.count
           /\ q.full = TRUE /\ q.open = FALSE /\ q.noMore = p.noMore \cup PartitionedSources
           /\ q.seals = (IF ReplicatedSources \subseteq completed THEN p.seals + 1 ELSE p.seals)
           /\ q.rejected = p.rejected /\ q.copies = p.copies
<1> DEFINE n == p.noMore \cup PartitionedSources
           k == IF ReplicatedSources \subseteq completed THEN p.seals + 1 ELSE p.seals
           q == [p EXCEPT !.full = TRUE, !.open = FALSE, !.noMore = n, !.seals = k]
<1>1. n \in SUBSET Sources /\ k \in Nat
  BY DEF PartSet, Sources
<1>2. Filled(p) = q
  BY DEF Filled
<1> HIDE DEF n, k
<1>3. /\ q.host = p.host /\ q.remote = p.remote /\ q.bytes = p.bytes /\ q.count = p.count
      /\ q.full = TRUE /\ q.open = FALSE /\ q.noMore = n /\ q.seals = k
      /\ q.rejected = p.rejected /\ q.copies = p.copies
  BY DEF PartSet
<1>4. q \in PartSet
  BY <1>1 DEF PartSet
<1> QED BY <1>2, <1>3, <1>4 DEF n, k

(* WithSplits adds one copy of each split, or refuses it.                   *)
LEMMA WithSplitsFields ==
    ASSUME NEW p \in PartSet, NEW S
    PROVE  LET q == WithSplits(p, S) IN
           /\ q \in PartSet /\ q.host = p.host /\ q.remote = p.remote /\ q.bytes = p.bytes /\ q.count = p.count
           /\ q.full = p.full /\ q.open = p.open /\ q.noMore = p.noMore /\ q.seals = p.seals
           /\ q.rejected = (p.rejected \/ \E s \in S : Splits[s].source \in p.noMore)
           /\ \A t \in Ids : q.copies[t] = IF t \in S THEN p.copies[t] + 1 ELSE p.copies[t]
<1> DEFINE c == [s \in Ids |-> IF s \in S THEN p.copies[s] + 1 ELSE p.copies[s]]
           r == p.rejected \/ \E s \in S : Splits[s].source \in p.noMore
           q == [p EXCEPT !.copies = c, !.rejected = r]
<1>1. c \in [Ids -> Nat] /\ r \in BOOLEAN
  BY DEF PartSet
<1>2. WithSplits(p, S) = q
  BY DEF WithSplits
<1>3. \A t \in Ids : c[t] = IF t \in S THEN p.copies[t] + 1 ELSE p.copies[t]
  OBVIOUS
<1> HIDE DEF c, r
<1>4. /\ q.host = p.host /\ q.remote = p.remote /\ q.bytes = p.bytes /\ q.count = p.count
      /\ q.full = p.full /\ q.open = p.open /\ q.noMore = p.noMore /\ q.seals = p.seals
      /\ q.rejected = r /\ q.copies = c
  BY DEF PartSet
<1>5. q \in PartSet
  BY <1>1 DEF PartSet
<1> QED BY <1>2, <1>3, <1>4, <1>5 DEF r

(* Taking adds one split, its size and one to the count.                   *)
LEMMA TakingFields ==
    ASSUME SplitsWellFormed, NEW p \in PartSet, NEW s \in Ids
    PROVE  LET q == Taking(p, s) IN
           /\ q \in PartSet /\ q.host = p.host /\ q.remote = p.remote
           /\ q.bytes = p.bytes + Splits[s].size /\ q.count = p.count + 1
           /\ q.full = p.full /\ q.open = p.open /\ q.noMore = p.noMore /\ q.seals = p.seals
           /\ q.rejected = (p.rejected \/ Splits[s].source \in p.noMore)
           /\ \A t \in Ids : q.copies[t] = IF t = s THEN p.copies[t] + 1 ELSE p.copies[t]
<1> DEFINE w == WithSplits(p, {s})
<1>1. /\ w \in PartSet /\ w.host = p.host /\ w.remote = p.remote /\ w.bytes = p.bytes /\ w.count = p.count
      /\ w.full = p.full /\ w.open = p.open /\ w.noMore = p.noMore /\ w.seals = p.seals
      /\ w.rejected = (p.rejected \/ Splits[s].source \in p.noMore)
      /\ \A t \in Ids : w.copies[t] = IF t = s THEN p.copies[t] + 1 ELSE p.copies[t]
  BY WithSplitsFields
<1>2. Splits[s].size \in Nat
  BY DEF SplitsWellFormed
<1>3. Taking(p, s) = [w EXCEPT !.bytes = @ + Splits[s].size, !.count = @ + 1]
  BY DEF Taking
<1> HIDE DEF w
<1> DEFINE b == w.bytes + Splits[s].size
           c == w.count + 1
           q == [w EXCEPT !.bytes = b, !.count = c]
<1>4. b \in Nat /\ c \in Nat
  BY <1>1, <1>2 DEF PartSet
<1>5. Taking(p, s) = q
  BY <1>3
<1>6. b = p.bytes + Splits[s].size /\ c = p.count + 1
  BY <1>1
<1> HIDE DEF b, c
<1>7. /\ q.host = w.host /\ q.remote = w.remote /\ q.bytes = b /\ q.count = c
      /\ q.full = w.full /\ q.open = w.open /\ q.noMore = w.noMore /\ q.seals = w.seals
      /\ q.rejected = w.rejected /\ q.copies = w.copies
  BY <1>1 DEF PartSet
<1>8. q \in PartSet
  BY <1>1, <1>4 DEF PartSet
<1> HIDE DEF q
<1> QED BY <1>1, <1>5, <1>6, <1>7, <1>8

-----------------------------------------------------------------------------
(* One turn of the loop.                                                    *)

(* qs is ps with split s in partition i, which was p before, an open one it
   fits or a new one; another partition may have been filled. *)
Placed(ps, qs, s, i, p) ==
    /\ qs \in Seq(PartSet) /\ p \in PartSet
    /\ i \in DOMAIN qs /\ DOMAIN ps \subseteq DOMAIN qs /\ DOMAIN qs \subseteq DOMAIN ps \cup {i}
    /\ p.host = HostOf(ps, s) /\ p.remote = Splits[s].remote
    /\ \/ i \in DOMAIN ps /\ p = ps[i] /\ p.open /\ ~Overflows(p, s)
       \/ i \notin DOMAIN ps /\ p = NewPartition(HostOf(ps, s), Splits[s].remote, completed)
    /\ qs[i] = Taking(p, s)
    /\ \A j \in DOMAIN ps \ {i} : qs[j] = ps[j] \/ (ps[j].open /\ qs[j] = Filled(ps[j]))

(* What one turn of the loop of _assign_partitioned_splits does.            *)
LEMMA PlaceIs ==
    ASSUME SplitsWellFormed, NEW ps \in Seq(PartSet), NEW s \in Ids
    PROVE  \E i, p : Placed(ps, Place(ps, s), s, i, p)
<1> DEFINE host == HostOf(ps, s)
           remote == Splits[s].remote
           open == OpenFor(ps, host, remote)
           fits == {j \in open : ~Overflows(ps[j], s)}
           qs == [j \in DOMAIN ps |-> IF j \in open \ fits THEN Filled(ps[j]) ELSE ps[j]]
           new == NewPartition(host, remote, completed)
           rs == IF fits = {} THEN Append(qs, new) ELSE qs
           i == IF fits = {} THEN Len(rs) ELSE Min(fits)
<1>1. host \in Hosts /\ remote \in BOOLEAN
  BY HostOfOwn DEF SplitsWellFormed
<1>2. Place(ps, s) = [rs EXCEPT ![i] = Taking(rs[i], s)]
  BY Zenon DEF Place
<1>3. /\ fits \subseteq open /\ open \subseteq DOMAIN ps /\ DOMAIN ps \subseteq Nat
      /\ \A j \in open : ps[j].open /\ ps[j].host = host /\ ps[j].remote = remote
  BY DEF OpenFor
<1>4. \A j \in fits : ~Overflows(ps[j], s)
  OBVIOUS
<1> HIDE DEF host, remote, open, fits
<1>5. new \in PartSet /\ new.host = host /\ new.remote = remote
  BY ONLY <1>1 DEF NewPartition, PartSet, Sources
<1> HIDE DEF new
<1>6. /\ qs \in Seq(PartSet) /\ DOMAIN qs = DOMAIN ps /\ Len(qs) = Len(ps)
      /\ \A j \in DOMAIN ps : qs[j] = IF j \in open \ fits THEN Filled(ps[j]) ELSE ps[j]
  <2>1. \A j \in DOMAIN ps : ps[j] \in PartSet
    OBVIOUS
  <2>2. \A j \in DOMAIN ps : Filled(ps[j]) \in PartSet
    BY <2>1, FilledFields
  <2>3. DOMAIN ps = 1 .. Len(ps) /\ Len(ps) \in Nat
    OBVIOUS
  <2> QED BY <2>1, <2>2, <2>3
<1> HIDE DEF qs
<1>7. CASE fits = {}
  <2>1. rs = Append(qs, new) /\ i = Len(rs)
    BY <1>7
  <2> HIDE DEF rs, i
  <2>2. /\ rs \in Seq(PartSet) /\ i = Len(ps) + 1 /\ DOMAIN rs = 1 .. i /\ rs[i] = new
        /\ \A j \in DOMAIN ps : rs[j] = qs[j]
        /\ DOMAIN ps = 1 .. Len(ps) /\ Len(ps) \in Nat
    BY <1>5, <1>6, <2>1
  <2>3. Taking(new, s) \in PartSet
    BY <1>5, TakingFields
  <2>4. /\ Place(ps, s) \in Seq(PartSet) /\ DOMAIN Place(ps, s) = 1 .. i /\ Place(ps, s)[i] = Taking(new, s)
        /\ \A j \in DOMAIN ps : Place(ps, s)[j] = qs[j]
    BY <1>2, <2>2, <2>3
  <2>5. Placed(ps, Place(ps, s), s, i, new)
    BY <1>3, <1>5, <1>6, <2>2, <2>4 DEF Placed, new, host, remote
  <2> QED BY <2>5
<1>8. CASE fits # {}
  <2>1. rs = qs /\ i = Min(fits)
    BY <1>8
  <2>2. i \in fits
    BY <1>3, <1>8, <2>1, MinIn
  <2> HIDE DEF rs, i
  <2>3. i \in DOMAIN ps /\ qs[i] = ps[i] /\ ps[i] \in PartSet
    BY <2>2, <1>3, <1>6
  <2>4. Taking(ps[i], s) \in PartSet
    BY <2>3, TakingFields
  <2>5. /\ Place(ps, s) \in Seq(PartSet) /\ DOMAIN Place(ps, s) = DOMAIN ps /\ Place(ps, s)[i] = Taking(ps[i], s)
        /\ \A j \in DOMAIN ps \ {i} : Place(ps, s)[j] = qs[j]
    BY <1>2, <1>6, <2>1, <2>3, <2>4
  <2>6. Placed(ps, Place(ps, s), s, i, ps[i])
    BY <1>3, <1>4, <1>6, <2>2, <2>3, <2>5 DEF Placed, host, remote
  <2> QED BY <2>6
<1> QED BY <1>7, <1>8

(* A partition that is filled: its partitioned sources are closed, and it is
   sealed if no replicated splits may come. *)
LEMMA FilledGood ==
    ASSUME SplitsWellFormed, NEW p \in PartSet, Good(p, completed), p.open
    PROVE  Good(Filled(p), completed)
<1> DEFINE q == Filled(p)
<1>1. /\ q \in PartSet /\ q.host = p.host /\ q.remote = p.remote /\ q.bytes = p.bytes /\ q.count = p.count
      /\ q.full = TRUE /\ q.open = FALSE /\ q.noMore = p.noMore \cup PartitionedSources
      /\ q.seals = (IF ReplicatedSources \subseteq completed THEN p.seals + 1 ELSE p.seals)
      /\ q.rejected = p.rejected /\ q.copies = p.copies
  BY FilledFields, Zenon
<1> HIDE DEF q
<1>2. ~p.full
  BY DEF Good, Told
<1>3. q.seals = IF q.full /\ ReplicatedSources \subseteq completed THEN 1 ELSE 0
  BY <1>1, <1>2 DEF Good, Told
<1>4. q.noMore = (ReplicatedSources \cap completed) \cup (IF q.full THEN PartitionedSources ELSE {})
  BY <1>1, <1>2 DEF Good, Told
<1>5. Told(q, completed)
  BY <1>1, <1>3, <1>4 DEF Good, Told
<1>6. Kept(q) /\ OwnHost(q)
  BY <1>1 DEF Good, Kept, OwnHost
<1> QED BY <1>5, <1>6 DEF Good, q

(* A new partition is told which replicated sources are complete.           *)
LEMMA NewGood ==
    ASSUME SplitsWellFormed, NEW host \in Hosts, NEW remote \in BOOLEAN
    PROVE  Good(NewPartition(host, remote, completed), completed)
<1> DEFINE q == NewPartition(host, remote, completed)
<1>1. /\ q.count = 0 /\ q.full = FALSE /\ q.open = TRUE /\ q.noMore = ReplicatedSources \cap completed
      /\ q.seals = 0 /\ q.rejected = FALSE
      /\ \A t \in Ids : q.copies[t] = IF t \in ReplicatedSplits THEN 1 ELSE 0
  BY DEF NewPartition
<1> HIDE DEF q
<1>2. Told(q, completed) /\ Kept(q)
  BY <1>1 DEF Told, Kept
<1>3. OwnHost(q)
  BY <1>1 DEF OwnHost, SplitsWellFormed, ReplicatedSplits
<1> QED BY <1>2, <1>3 DEF Good, q

(* An open partition takes a split it has room for, or its first one, of a
   source that has not been closed. *)
LEMMA TakingGood ==
    ASSUME SplitsWellFormed, NEW p \in PartSet, NEW s \in Ids, Good(p, completed), p.open,
           Splits[s].source \in PartitionedSources,
           p.count = 0 \/ ~Overflows(p, s),
           Splits[s].addresses # <<>> => p.host \in Range(Splits[s].addresses),
           p.remote = Splits[s].remote
    PROVE  Good(Taking(p, s), completed)
<1> DEFINE q == Taking(p, s)
<1>1. Splits[s].source \notin p.noMore
  BY DEF Good, Told, SplitsWellFormed
<1>2. Told(q, completed)
  <2>1. /\ q.full = p.full /\ q.open = p.open /\ q.noMore = p.noMore /\ q.seals = p.seals
        /\ q.rejected = (p.rejected \/ Splits[s].source \in p.noMore)
    BY TakingFields, Zenon
  <2> HIDE DEF q
  <2> QED BY <1>1, <2>1 DEF Good, Told
<1>3. Kept(q)
  <2>1. q.count = p.count + 1 /\ q.bytes = p.bytes + Splits[s].size
    BY TakingFields
  <2>2. p.count \in Nat /\ p.bytes \in Nat /\ Splits[s].size \in Nat /\ Target \in Nat /\ MaxTaskSplits \in Nat
    BY DEF PartSet, SplitsWellFormed
  <2> HIDE DEF q
  <2> QED BY <2>1, <2>2 DEF Kept, Overflows
<1>4. OwnHost(q)
  <2>1. q.host = p.host /\ q.remote = p.remote
    BY TakingFields
  <2>2. \A t \in Ids : t # s => q.copies[t] = p.copies[t]
    BY TakingFields
  <2> HIDE DEF q
  <2> QED BY <2>1, <2>2 DEF Good, OwnHost
<1> QED BY <1>2, <1>3, <1>4 DEF Good

(* One turn of the loop delivers its split and leaves the others where they
   are; a new partition gets the replicated splits of earlier calls. *)
LEMMA PlaceKeeps ==
    ASSUME SplitsWellFormed, NEW ps, NEW G, given \subseteq G, G \subseteq Ids,
           \A t \in G \ given : Splits[t].source \in PartitionedSources,
           Mid(ps, G, completed), NEW s \in Ids \ G, Splits[s].source \in PartitionedSources
    PROVE  Mid(Place(ps, s), G \cup {s}, completed)
<1> DEFINE qs == Place(ps, s)
<1>1. ps \in Seq(PartSet) /\ (\A j \in DOMAIN ps : ps[j] \in PartSet /\ Good(ps[j], completed)) /\ Delivered(ps, G)
  BY DEF Mid
<1>2. PICK i, p : Placed(ps, qs, s, i, p)
  BY <1>1, PlaceIs
<1> HIDE DEF qs
<1>3. /\ HostOf(ps, s) \in Hosts /\ Splits[s].remote \in BOOLEAN
      /\ Splits[s].addresses # <<>> => HostOf(ps, s) \in Range(Splits[s].addresses)
  BY <1>1, HostOfOwn DEF SplitsWellFormed
<1>4. /\ p \in PartSet /\ Good(p, completed) /\ p.open
      /\ p.count = 0 \/ ~Overflows(p, s)
      /\ \A t \in Ids : p.copies[t] = IF i \in DOMAIN ps THEN ps[i].copies[t]
                                      ELSE IF t \in ReplicatedSplits THEN 1 ELSE 0
  <2>1. CASE i \in DOMAIN ps
    BY <1>1, <1>2, <2>1 DEF Placed
  <2>2. CASE i \notin DOMAIN ps
    <3>1. p = NewPartition(HostOf(ps, s), Splits[s].remote, completed) /\ p \in PartSet
      BY <1>2, <2>2 DEF Placed
    <3>2. Good(p, completed)
      BY <1>3, <3>1, NewGood
    <3>3. p.open /\ p.count = 0 /\ \A t \in Ids : p.copies[t] = IF t \in ReplicatedSplits THEN 1 ELSE 0
      BY <3>1 DEF NewPartition
    <3> QED BY <2>2, <3>1, <3>2, <3>3
  <2> QED BY <2>1, <2>2
<1>5. /\ qs \in Seq(PartSet) /\ i \in DOMAIN qs /\ DOMAIN ps \subseteq DOMAIN qs /\ DOMAIN qs \subseteq DOMAIN ps \cup {i}
      /\ qs[i] = Taking(p, s) /\ p.host = HostOf(ps, s) /\ p.remote = Splits[s].remote
      /\ \A j \in DOMAIN ps \ {i} : qs[j] = ps[j] \/ (ps[j].open /\ qs[j] = Filled(ps[j]))
  BY <1>2 DEF Placed
<1>6. Good(qs[i], completed)
  BY <1>3, <1>4, <1>5, TakingGood
<1>7. ASSUME NEW j \in DOMAIN ps \ {i} PROVE Good(qs[j], completed) /\ qs[j].copies = ps[j].copies
  <2>1. CASE qs[j] = ps[j]
    BY <1>1, <2>1
  <2>2. CASE ps[j].open /\ qs[j] = Filled(ps[j])
    <3>1. Good(qs[j], completed)
      BY <1>1, <2>2, FilledGood
    <3>2. Filled(ps[j]).copies = ps[j].copies
      BY <1>1, FilledFields, Zenon
    <3> QED BY <2>2, <3>1, <3>2
  <2> QED BY <1>5, <2>1, <2>2
<1>8. \A t \in Ids : qs[i].copies[t] = IF t = s THEN p.copies[t] + 1 ELSE p.copies[t]
  <2>1. \A t \in Ids : Taking(p, s).copies[t] = IF t = s THEN p.copies[t] + 1 ELSE p.copies[t]
    <3>1. s \in Ids
      OBVIOUS
    <3>2. p \in PartSet
      BY <1>4
    <3> QED BY ONLY SplitsWellFormed, <3>1, <3>2, TakingFields
  <2> QED BY <1>5, <2>1
<1>9. s \notin ReplicatedSplits /\ p.copies[s] = 0
  BY <1>1, <1>4 DEF Delivered, ReplicatedSplits
<1>10. ASSUME NEW t \in Ids \ (G \cup {s}), NEW j \in DOMAIN qs PROVE qs[j].copies[t] = 0
  <2>1. t \notin ReplicatedSplits /\ \A k \in DOMAIN ps : ps[k].copies[t] = 0
    BY <1>1 DEF Delivered, ReplicatedSplits
  <2> QED BY <1>4, <1>5, <1>7, <1>8, <2>1
<1>11. Once(qs, s)
  <2>1. qs[i].copies[s] = 1
    BY <1>8, <1>9
  <2>2. \A j \in DOMAIN qs \ {i} : qs[j].copies[s] = 0
    BY <1>1, <1>5, <1>7 DEF Delivered
  <2>3. Splits[s].source \notin ReplicatedSources
    BY DEF SplitsWellFormed
  <2> QED BY <1>5, <2>1, <2>2, <2>3 DEF Once
<1>12. ASSUME NEW t \in G PROVE Once(qs, t)
  <2>1. t # s /\ t \in Ids /\ Once(ps, t)
    BY <1>1 DEF Delivered
  <2>2. CASE Splits[t].source \in ReplicatedSources
    <3>1. t \in ReplicatedSplits /\ \A j \in DOMAIN ps : ps[j].copies[t] = 1
      BY <2>1, <2>2 DEF Once, ReplicatedSplits, SplitsWellFormed
    <3>2. \A j \in DOMAIN qs : qs[j].copies[t] = 1
      BY <1>4, <1>5, <1>7, <1>8, <2>1, <3>1
    <3> QED BY <2>2, <3>2 DEF Once
  <2>3. CASE Splits[t].source \notin ReplicatedSources
    <3>1. t \notin ReplicatedSplits
      BY <2>3 DEF ReplicatedSplits
    <3>2. PICK k \in DOMAIN ps : ps[k].copies[t] = 1 /\ \A j \in DOMAIN ps \ {k} : ps[j].copies[t] = 0
      BY <2>1, <2>3 DEF Once
    <3>3. qs[k].copies[t] = 1 /\ k \in DOMAIN qs
      BY <1>4, <1>5, <1>7, <1>8, <2>1, <3>2
    <3>4. \A j \in DOMAIN qs \ {k} : qs[j].copies[t] = 0
      BY <1>4, <1>5, <1>7, <1>8, <2>1, <3>1, <3>2
    <3> QED BY <2>3, <3>3, <3>4 DEF Once
  <2> QED BY <2>2, <2>3
<1>13. Delivered(qs, G \cup {s})
  BY <1>10, <1>11, <1>12 DEF Delivered
<1>14. \A j \in DOMAIN qs : Good(qs[j], completed)
  BY <1>5, <1>6, <1>7
<1> QED BY <1>5, <1>13, <1>14 DEF Mid, qs

-----------------------------------------------------------------------------
(* The loop.                                                                *)

(* The partitions after each turn exist ...                                 *)
LEMMA AfterExists ==
    ASSUME NEW batch, NEW n \in Nat
    PROVE  \E f : f = [k \in 0 .. n |-> IF k = 0 THEN parts ELSE Place(f[k - 1], batch[k])]
<1> DEFINE Is(f, m) == f = [k \in 0 .. m |-> IF k = 0 THEN parts ELSE Place(f[k - 1], batch[k])]
           Ok(m) == \E f : Is(f, m)
           B == {m \in Nat : ~Ok(m)}
<1> HIDE DEF Ok
<1>1. ASSUME B # {} PROVE FALSE
  <2>1. PICK m \in B : \A l \in Nat : l < m => l \notin B
    BY <1>1, LeastNat
  <2>2. CASE m = 0
    <3> DEFINE g == [k \in 0 .. 0 |-> parts]
    <3>1. \A k \in 0 .. 0 : k = 0 /\ g[k] = parts
      OBVIOUS
    <3>2. g = [k \in 0 .. 0 |-> g[k]]
      OBVIOUS
    <3> HIDE DEF g
    <3>3. Is(g, 0)
      BY <3>1, <3>2
    <3>4. Ok(0)
      BY <3>3, Zenon DEF Ok
    <3> QED BY <2>2, <3>4
  <2>3. CASE m # 0
    <3>1. m - 1 \in Nat /\ Ok(m - 1)
      BY <2>1, <2>3
    <3>2. PICK f : Is(f, m - 1)
      BY <3>1, Zenon DEF Ok
    <3> DEFINE g == [k \in 0 .. m |-> IF k = m THEN Place(f[m - 1], batch[m]) ELSE f[k]]
    <3>3. /\ DOMAIN f = 0 .. m - 1
          /\ \A k \in 0 .. m - 1 : f[k] = IF k = 0 THEN parts ELSE Place(f[k - 1], batch[k])
      BY <3>2, Zenon
    <3>4. ASSUME NEW k \in 0 .. m PROVE g[k] = IF k = 0 THEN parts ELSE Place(g[k - 1], batch[k])
      <4>1. CASE k = m
        <5>1. g[m] = Place(f[m - 1], batch[m]) /\ g[m - 1] = f[m - 1]
          BY <3>1
        <5> HIDE DEF g
        <5> QED BY <2>3, <4>1, <5>1
      <4>2. CASE k # m
        <5>1. k \in 0 .. m - 1 /\ g[k] = f[k] /\ (k # 0 => g[k - 1] = f[k - 1])
          BY <4>2
        <5> HIDE DEF g
        <5> QED BY <3>3, <5>1
      <4> QED BY <4>1, <4>2
    <3>5. g = [k \in 0 .. m |-> g[k]]
      OBVIOUS
    <3> HIDE DEF g
    <3>6. Is(g, m)
      BY <3>4, <3>5
    <3>7. Ok(m)
      BY <3>6, Zenon DEF Ok
    <3> QED BY <3>7
  <2> QED BY <2>2, <2>3
<1>2. Ok(n)
  BY <1>1
<1> QED BY <1>2, Zenon DEF Ok

(* ... and each holds what has been placed up to it: the splits of a batch
   are delivered. *)
LEMMA PlaceAllKeeps ==
    ASSUME SplitsWellFormed, given \subseteq Ids, Mid(parts, given, completed),
           NEW source \in PartitionedSources, NEW n \in Nat,
           NEW batch \in Injection(1 .. n, {s \in Ids \ given : Splits[s].source = source})
    PROVE  Mid(PlaceAll(batch), given \cup Range(batch), completed)
<1> DEFINE R(g) == [k \in 0 .. Len(batch) |-> IF k = 0 THEN parts ELSE Place(g[k - 1], batch[k])]
           f == CHOOSE g : g = R(g)
           At(k) == {batch[j] : j \in 1 .. k}
<1>1. /\ batch \in [1 .. n -> {s \in Ids \ given : Splits[s].source = source}]
      /\ \A j, k \in 1 .. n : batch[j] = batch[k] => j = k
  BY DEF Injection, IsInjective
<1>2. Len(batch) = n /\ DOMAIN batch = 1 .. n
  BY <1>1
<1>3. \E g : g = R(g)
  BY <1>2, AfterExists, Zenon
<1>4. f = R(f)
  BY <1>3, Zenon
<1>5. PlaceAll(batch) = f[Len(batch)]
  BY Zenon DEF PlaceAll
<1> HIDE DEF f
<1>6. f[0] = parts /\ \A k \in 1 .. n : f[k] = Place(f[k - 1], batch[k])
  <2>1. R(f)[0] = parts /\ \A k \in 1 .. n : R(f)[k] = Place(f[k - 1], batch[k])
    BY <1>2
  <2> HIDE DEF R
  <2> QED BY <1>4, <2>1
<1> HIDE DEF R
<1> DEFINE Ok(k) == Mid(f[k], given \cup At(k), completed)
           B == {k \in Nat : k <= n /\ ~Ok(k)}
<1> HIDE DEF Ok
<1>7. ASSUME B # {} PROVE FALSE
  <2>1. PICK k \in B : \A m \in Nat : m < k => m \notin B
    BY <1>7, LeastNat
  <2>2. CASE k = 0
    <3>1. At(0) = {}
      OBVIOUS
    <3>2. given \cup At(0) = given
      BY <3>1
    <3>3. Ok(0)
      BY <1>6, <3>2, Zenon DEF Ok
    <3> QED BY <2>2, <3>3
  <2>3. CASE k # 0
    <3>1. k \in 1 .. n /\ k - 1 \in Nat /\ k - 1 < k
      BY <2>1, <2>3
    <3>2. Mid(f[k - 1], given \cup At(k - 1), completed)
      <4>1. Ok(k - 1)
        BY <2>1, <3>1
      <4> QED BY <4>1, Zenon DEF Ok
    <3>3. /\ batch[k] \in Ids \ (given \cup At(k - 1)) /\ Splits[batch[k]].source \in PartitionedSources
          /\ given \cup At(k - 1) \subseteq Ids
          /\ \A t \in (given \cup At(k - 1)) \ given : Splits[t].source \in PartitionedSources
      <4>1. \A j \in 1 .. n : batch[j] \in Ids \ given /\ Splits[batch[j]].source \in PartitionedSources
        BY <1>1
      <4>2. \A j \in 1 .. k - 1 : j \in 1 .. n /\ j # k
        BY <3>1
      <4>3. \A j \in 1 .. k - 1 : batch[j] # batch[k]
        BY <1>1, <3>1, <4>2
      <4> QED BY <3>1, <4>1, <4>2, <4>3
    <3>4. (given \cup At(k - 1)) \cup {batch[k]} = given \cup At(k)
      <4>1. At(k) = At(k - 1) \cup {batch[k]}
        BY <3>1
      <4> QED BY <4>1
    <3> HIDE DEF At
    <3>5. Mid(Place(f[k - 1], batch[k]), (given \cup At(k - 1)) \cup {batch[k]}, completed)
      BY <3>2, <3>3, PlaceKeeps
    <3>6. Ok(k)
      BY <1>6, <3>1, <3>4, <3>5 DEF Ok
    <3> QED BY <3>6
  <2> QED BY <2>2, <2>3
<1>8. Mid(f[n], given \cup At(n), completed)
  <2>1. Ok(n)
    BY <1>7
  <2> QED BY <2>1, Zenon DEF Ok
<1>9. At(n) = Range(batch)
  BY <1>2 DEF Range
<1> QED BY <1>2, <1>5, <1>8, <1>9

-----------------------------------------------------------------------------
(* Replication and the finish.                                              *)

(* A partition that gets new splits of a replicated source, which may end.  *)
Replicated(p, source, new, done) ==
    [WithSplits(p, new) EXCEPT
        !.noMore = IF source \in done THEN @ \cup {source} ELSE @,
        !.seals = IF WithSplits(p, new).full /\ ReplicatedSources \subseteq done THEN @ + 1 ELSE @]

SplitsOf(new, source) == \A s \in new : s \in Ids /\ Splits[s].source = source

Grown(p, q, new, done) ==
    /\ q \in PartSet /\ Good(q, done)
    /\ \A t \in Ids : q.copies[t] = IF t \in new THEN p.copies[t] + 1 ELSE p.copies[t]

(* It holds one more copy of each, and is sealed if it was waiting for the  *)
(* last replicated source.                                                  *)
LEMMA ReplicatedGood ==
    ASSUME SplitsWellFormed, NEW p \in PartSet, Good(p, completed),
           NEW source \in ReplicatedSources, source \notin completed,
           NEW new, SplitsOf(new, source),
           NEW done, done = completed \/ done = completed \cup {source}
    PROVE  Grown(p, Replicated(p, source, new, done), new, done)
<1> DEFINE w == WithSplits(p, new)
           n == IF source \in done THEN w.noMore \cup {source} ELSE w.noMore
           k == IF w.full /\ ReplicatedSources \subseteq done THEN w.seals + 1 ELSE w.seals
           q == [w EXCEPT !.noMore = n, !.seals = k]
<1>1. /\ w \in PartSet /\ w.host = p.host /\ w.remote = p.remote /\ w.bytes = p.bytes /\ w.count = p.count
      /\ w.full = p.full /\ w.open = p.open /\ w.noMore = p.noMore /\ w.seals = p.seals
      /\ w.rejected = (p.rejected \/ \E s \in new : Splits[s].source \in p.noMore)
      /\ \A t \in Ids : w.copies[t] = IF t \in new THEN p.copies[t] + 1 ELSE p.copies[t]
  BY ONLY p \in PartSet, WithSplitsFields
<1>2. Replicated(p, source, new, done) = q
  BY DEF Replicated
<1> HIDE DEF w
<1>3. n \in SUBSET Sources /\ k \in Nat
  BY <1>1 DEF PartSet, Sources
<1>4. source \notin PartitionedSources /\ source \notin p.noMore
  BY DEF Good, Told, SplitsWellFormed
<1>5. n = (ReplicatedSources \cap done) \cup (IF p.full THEN PartitionedSources ELSE {})
  BY <1>1, <1>4 DEF Good, Told
<1>6. k = IF p.full /\ ReplicatedSources \subseteq done THEN 1 ELSE 0
  BY <1>1 DEF Good, Told
<1>7. ~w.rejected
  BY <1>1, <1>4 DEF Good, Told, SplitsOf
<1> HIDE DEF n, k
<1>8. /\ q.host = w.host /\ q.remote = w.remote /\ q.bytes = w.bytes /\ q.count = w.count
      /\ q.full = w.full /\ q.open = w.open /\ q.noMore = n /\ q.seals = k
      /\ q.rejected = w.rejected /\ q.copies = w.copies
  BY <1>1 DEF PartSet
<1>9. q \in PartSet
  BY <1>1, <1>3 DEF PartSet
<1> HIDE DEF q
<1>10. Told(q, done)
  BY <1>1, <1>5, <1>6, <1>7, <1>8 DEF Good, Told
<1>11. Kept(q)
  BY <1>1, <1>8 DEF Good, Kept
<1>12. OwnHost(q)
  <2>1. \A t \in Ids : Splits[t].source \in PartitionedSources => q.copies[t] = p.copies[t]
    BY <1>1, <1>4, <1>8 DEF SplitsOf
  <2>2. q.host = p.host /\ q.remote = p.remote
    BY <1>1, <1>8
  <2> QED BY <2>1, <2>2 DEF Good, OwnHost
<1>13. \A t \in Ids : q.copies[t] = IF t \in new THEN p.copies[t] + 1 ELSE p.copies[t]
  BY <1>1, <1>8
<1> QED BY <1>2, <1>9, <1>10, <1>11, <1>12, <1>13 DEF Good, Grown

(* _assign_replicated_splits delivers to every partition, and seals the full
   ones when the last replicated source ends. *)
LEMMA ReplicateKeeps ==
    ASSUME SplitsWellFormed, Mid(parts, given, completed), given \subseteq Ids,
           NEW source \in ReplicatedSources, source \notin completed,
           NEW new, \A s \in new : s \in Ids \ given /\ Splits[s].source = source,
           NEW done, done = completed \/ done = completed \cup {source}
    PROVE  /\ Mid(Replicate(source, new, done), given \cup new, done)
           /\ Replicate(source, new, done) # <<>> => parts # <<>>
<1> DEFINE qs == Replicate(source, new, done)
<1>1. parts \in Seq(PartSet) /\ (\A i \in DOMAIN parts : parts[i] \in PartSet /\ Good(parts[i], completed)) /\ Delivered(parts, given)
  BY DEF Mid
<1>2. DOMAIN qs = DOMAIN parts /\ \A i \in DOMAIN parts : qs[i] = Replicated(parts[i], source, new, done)
  BY DEF Replicate, Replicated
<1>3. qs = [i \in DOMAIN parts |-> qs[i]]
  BY DEF Replicate
<1> HIDE DEF qs
<1>4. ASSUME NEW i \in DOMAIN parts
      PROVE  /\ qs[i] \in PartSet /\ Good(qs[i], done)
             /\ \A t \in Ids : qs[i].copies[t] = IF t \in new THEN parts[i].copies[t] + 1 ELSE parts[i].copies[t]
  <2>1. parts[i] \in PartSet /\ Good(parts[i], completed) /\ qs[i] = Replicated(parts[i], source, new, done)
    BY <1>1, <1>2
  <2>2. SplitsOf(new, source)
    BY DEF SplitsOf
  <2>3. Grown(parts[i], qs[i], new, done)
    BY <2>1, <2>2, ReplicatedGood
  <2> QED BY <2>3 DEF Grown
<1>5. qs \in Seq(PartSet)
  <2>1. DOMAIN parts = 1 .. Len(parts) /\ Len(parts) \in Nat
    BY <1>1
  <2> QED BY <1>3, <1>4, <2>1
<1>6. ASSUME NEW t \in Ids \ (given \cup new), NEW i \in DOMAIN qs PROVE qs[i].copies[t] = 0
  BY <1>1, <1>2, <1>4 DEF Delivered
<1>7. ASSUME NEW t \in new PROVE Once(qs, t)
  <2>1. t \in Ids /\ t \notin given /\ Splits[t].source \in ReplicatedSources
    OBVIOUS
  <2>2. \A i \in DOMAIN parts : qs[i].copies[t] = 1
    BY <1>1, <1>4, <2>1 DEF Delivered
  <2> QED BY <1>2, <2>1, <2>2 DEF Once
<1>8. ASSUME NEW t \in given PROVE Once(qs, t)
  <2>1. t \in Ids /\ t \notin new
    OBVIOUS
  <2>2. \A i \in DOMAIN parts : qs[i].copies[t] = parts[i].copies[t]
    BY <1>4, <2>1
  <2>3. Once(parts, t)
    BY <1>1 DEF Delivered
  <2> QED BY <1>2, <2>2, <2>3 DEF Once
<1>9. Delivered(qs, given \cup new)
  BY <1>6, <1>7, <1>8 DEF Delivered
<1>10. qs # <<>> => parts # <<>>
  BY <1>1, <1>2, <1>5
<1> QED BY <1>2, <1>4, <1>5, <1>9, <1>10 DEF Mid, qs

(* The open partitions are closed and sealed when the last source ends; those
   that are full have been. *)
LEMMA FinishKeeps ==
    ASSUME SplitsWellFormed, NEW ps, NEW new, new \subseteq Ids, NEW done, Sources \subseteq done,
           given \subseteq Ids, Mid(ps, given \cup new, done)
    PROVE  Over(FinishedParts(ps, new), given \cup new)
<1> DEFINE G == given \cup new
           qs == FinishedParts(ps, new)
<1>1. ps \in Seq(PartSet) /\ (\A i \in DOMAIN ps : ps[i] \in PartSet /\ Good(ps[i], done)) /\ Delivered(ps, G)
  BY DEF Mid
<1>2. CASE ps = <<>>
  <2>1. \A t \in G : Splits[t].source \in ReplicatedSources
    BY <1>1, <1>2 DEF Delivered, Once
  <2> DEFINE c == [s \in Ids |-> IF s \in new \cup ReplicatedSplits THEN 1 ELSE 0]
             new0 == NewPartition(NoHost, TRUE, Sources)
             q == [new0 EXCEPT !.open = FALSE, !.noMore = Sources, !.seals = 1, !.copies = c]
  <2>2. qs = <<q>>
    BY <1>2, Zenon DEF FinishedParts
  <2>3. c \in [Ids -> Nat] /\ \A t \in Ids : c[t] = IF t \in G THEN 1 ELSE 0
    BY <2>1 DEF ReplicatedSplits
  <2> HIDE DEF c
  <2>4. new0 \in PartSet /\ new0.count = 0 /\ new0.rejected = FALSE
    BY DEF NewPartition, PartSet, Hosts, Sources
  <2> HIDE DEF new0
  <2>5. /\ q.noMore = Sources /\ q.seals = 1 /\ ~q.rejected /\ q.count = 0
        /\ \A t \in Ids : q.copies[t] = IF t \in G THEN 1 ELSE 0
    BY <2>3, <2>4 DEF PartSet
  <2>6. q \in PartSet
    BY <2>3, <2>4 DEF PartSet
  <2> HIDE DEF q, qs
  <2>7. qs \in Seq(PartSet) /\ DOMAIN qs = {1} /\ qs[1] = q
    BY <2>2, <2>6
  <2>8. Kept(q) /\ OwnHost(q)
    BY <2>1, <2>5 DEF Kept, OwnHost, SplitsWellFormed
  <2>9. Delivered(qs, G)
    BY <2>1, <2>5, <2>7 DEF Delivered, Once
  <2> QED BY <2>5, <2>7, <2>8, <2>9 DEF Over, qs
<1>3. CASE ps # <<>>
  <2> DEFINE Done(p) == [p EXCEPT !.open = FALSE, !.noMore = @ \cup PartitionedSources, !.seals = @ + 1]
  <2>1. qs = [i \in DOMAIN ps |-> IF ps[i].open THEN Done(ps[i]) ELSE ps[i]]
    BY <1>3, Zenon DEF FinishedParts
  <2>2. ASSUME NEW i \in DOMAIN ps
        PROVE  /\ qs[i] \in PartSet /\ qs[i].noMore = Sources /\ qs[i].seals = 1 /\ ~qs[i].rejected
               /\ Kept(qs[i]) /\ OwnHost(qs[i]) /\ qs[i].copies = ps[i].copies
    <3> DEFINE p == ps[i]
    <3>1. p \in PartSet /\ Told(p, done) /\ Kept(p) /\ OwnHost(p)
      BY <1>1 DEF Good
    <3>2. qs[i] = IF p.open THEN Done(p) ELSE p
      BY <2>1
    <3> HIDE DEF p, qs
    <3>3. CASE p.open
      <4> DEFINE n == p.noMore \cup PartitionedSources
                 k == p.seals + 1
                 q == [p EXCEPT !.open = FALSE, !.noMore = n, !.seals = k]
      <4>1. n = Sources /\ k = 1
        BY <3>1, <3>3 DEF Told, Sources
      <4>2. qs[i] = q
        BY <3>2, <3>3
      <4> HIDE DEF n, k
      <4>3. /\ q.host = p.host /\ q.remote = p.remote /\ q.bytes = p.bytes /\ q.count = p.count
            /\ q.noMore = n /\ q.seals = k /\ q.rejected = p.rejected /\ q.copies = p.copies
        BY <3>1 DEF PartSet
      <4>4. q \in PartSet
        BY <3>1, <4>1 DEF PartSet
      <4> HIDE DEF q
      <4>5. Kept(q) /\ OwnHost(q)
        BY <3>1, <4>3 DEF Kept, OwnHost
      <4>6. ~p.rejected
        BY <3>1 DEF Told
      <4> QED BY <4>1, <4>2, <4>3, <4>4, <4>5, <4>6 DEF p
    <3>4. CASE ~p.open
      <4>1. p.noMore = Sources /\ p.seals = 1 /\ ~p.rejected
        BY <3>1, <3>4 DEF Told, Sources
      <4> QED BY <3>1, <3>2, <3>4, <4>1 DEF p
    <3> QED BY <3>3, <3>4
  <2>3. DOMAIN qs = DOMAIN ps /\ qs = [i \in DOMAIN ps |-> qs[i]]
    BY <2>1
  <2> HIDE DEF qs
  <2>4. qs \in Seq(PartSet)
    <3>1. DOMAIN ps = 1 .. Len(ps) /\ Len(ps) \in Nat
      BY <1>1
    <3> QED BY <2>2, <2>3, <3>1
  <2>5. Delivered(qs, G)
    BY <1>1, <2>2, <2>3 DEF Delivered, Once
  <2> QED BY <2>2, <2>3, <2>4, <2>5 DEF Over, qs
<1> QED BY <1>2, <1>3

-----------------------------------------------------------------------------
(* The invariant.                                                           *)

(* No partition, no split.                                                  *)
LEMMA InitIInv ==
    ASSUME SplitsWellFormed, Init
    PROVE  IInv
<1>1. parts \in Seq(PartSet) /\ DOMAIN parts = {}
  BY DEF Init
<1>2. Mid(parts, given, completed)
  BY <1>1 DEF Init, Mid, Delivered
<1> QED BY <1>2 DEF Init, IInv

(* A call of assign keeps the invariant: the loop or the replication, then   *)
(* the finish if it was the last source.                                    *)
LEMMA NextIInv ==
    ASSUME SplitsWellFormed, IInv, [Next]_vars
    PROVE  IInv'
<1>1. CASE UNCHANGED vars
  BY <1>1 DEF vars, IInv, Mid, Over, Delivered, Once
<1>2. CASE Next
  <2>1. PICK source \in Sources, last \in BOOLEAN, n \in 0 .. MaxBatch :
          \E batch \in Injection(1 .. n, {s \in Ids \ given : Splits[s].source = source}) :
             Assign(source, batch, last)
    BY <1>2, Zenon DEF Next
  <2>2. PICK batch \in Injection(1 .. n, {s \in Ids \ given : Splits[s].source = source}) : Assign(source, batch, last)
    BY <2>1
  <2> DEFINE new == Range(batch)
             done == IF last THEN completed \cup {source} ELSE completed
             ps == IF source \in ReplicatedSources THEN Replicate(source, new, done) ELSE PlaceAll(batch)
             all == Sources \subseteq done
  <2>3. /\ ~finished /\ source \notin completed
        /\ parts' = (IF all THEN FinishedParts(ps, new) ELSE ps)
        /\ completed' = done /\ given' = given \cup new /\ finished' = all
    BY <2>2, Zenon DEF Assign
  <2>4. /\ given \subseteq Ids /\ completed \subseteq Sources
        /\ Mid(parts, given, completed) /\ (parts # <<>> => PartitionedSources # {})
    BY <2>3 DEF IInv
  <2>5. \A s \in new : s \in Ids \ given /\ Splits[s].source = source
    BY DEF Injection, Range
  <2>6. n \in Nat
    BY DEF SplitsWellFormed
  <2>7. done \subseteq Sources /\ (done = completed \/ done = completed \cup {source})
    BY <2>4
  <2> HIDE DEF new
  <2>8. Mid(ps, given \cup new, done) /\ (ps # <<>> => PartitionedSources # {})
    <3>1. CASE source \in ReplicatedSources
      <4>1. ps = Replicate(source, new, done)
        BY <3>1
      <4> HIDE DEF ps, done
      <4> QED BY <2>3, <2>4, <2>5, <2>7, <3>1, <4>1, ReplicateKeeps
    <3>2. CASE source \notin ReplicatedSources
      <4>1. ps = PlaceAll(batch) /\ source \in PartitionedSources
        BY <3>2 DEF Sources
      <4>2. Mid(PlaceAll(batch), given \cup new, completed)
        BY <2>4, <2>6, <4>1, PlaceAllKeeps DEF new
      <4>3. ReplicatedSources \cap done = ReplicatedSources \cap completed
            /\ (ReplicatedSources \subseteq done <=> ReplicatedSources \subseteq completed)
        BY <2>7, <3>2
      <4> HIDE DEF ps, done
      <4>4. \A p : Good(p, completed) => Good(p, done)
        BY <4>3 DEF Good, Told
      <4> QED BY <4>1, <4>2, <4>4 DEF Mid
    <3> QED BY <3>1, <3>2
  <2> HIDE DEF ps, done
  <2>9. given' \subseteq Ids /\ completed' \subseteq Sources /\ finished' \in BOOLEAN
    BY <2>3, <2>4, <2>5, <2>7
  <2>10. CASE all
    <3>1. new \subseteq Ids
      BY <2>5
    <3>2. Over(FinishedParts(ps, new), given \cup new)
      BY <2>4, <2>8, <2>10, <3>1, FinishKeeps
    <3>3. finished' /\ Over(parts, given)'
      BY <2>3, <2>10, <3>2 DEF Over, Delivered, Once
    <3> QED BY <2>9, <3>3 DEF IInv
  <2>11. CASE ~all
    <3>1. ~finished' /\ Mid(parts, given, completed)' /\ (parts' # <<>> => PartitionedSources # {})
      BY <2>3, <2>8, <2>11 DEF Mid, Delivered, Once
    <3> QED BY <2>9, <3>1 DEF IInv
  <2> QED BY <2>10, <2>11
<1> QED BY <1>1, <1>2

(* The invariant holds in every reachable state.                            *)
LEMMA SpecIInv ==
    ASSUME SplitsWellFormed
    PROVE  Spec => []IInv
<1>1. Init => IInv
  BY InitIInv
<1>2. IInv /\ [Next]_vars => IInv'
  BY NextIInv
<1> QED BY <1>1, <1>2, PTL DEF Spec

-----------------------------------------------------------------------------
(* The theorems.                                                            *)

(* ArbitrarySplitAssigner.assign loses no split and hands none out twice: a
   split of a partitioned source is in one partition, once, and one of a
   replicated source is once in every partition. *)
THEOREM SplitsDeliveredOnce ==
    ASSUME SplitsWellFormed
    PROVE  Spec => []EverySplitDelivered
<1>1. IInv => EverySplitDelivered
  BY DEF IInv, Mid, Over, Delivered, Once, EverySplitDelivered
<1> QED BY <1>1, SpecIInv, PTL

(* A partition is sealed once, when and only when every source is closed for
   it, at the latest at the finish, and no descriptor refuses a split. *)
THEOREM PartitionsSealedInTime ==
    ASSUME SplitsWellFormed
    PROVE  Spec => []SealedInTime
<1>1. IInv => SealedInTime
  <2> SUFFICES ASSUME IInv, NEW i \in DOMAIN parts
               PROVE  /\ parts[i].seals = IF parts[i].noMore = Sources THEN 1 ELSE 0
                      /\ finished => parts[i].seals = 1
                      /\ ~parts[i].rejected
    BY DEF SealedInTime
  <2>1. CASE finished
    BY <2>1 DEF IInv, Over
  <2>2. CASE ~finished
    <3>1. Told(parts[i], completed)
      BY <2>2 DEF IInv, Mid, Good
    <3>2. PartitionedSources # {} /\ PartitionedSources \cap ReplicatedSources = {}
      BY <2>2 DEF IInv, SplitsWellFormed
    <3>3. parts[i].noMore = Sources <=> parts[i].full /\ ReplicatedSources \subseteq completed
      BY <3>1, <3>2 DEF Told, Sources
    <3> QED BY <2>2, <3>1, <3>3 DEF Told
  <2> QED BY <2>1, <2>2 DEF IInv
<1> QED BY <1>1, SpecIInv, PTL

(* The overflow test of _assign_partitioned_splits keeps every partition of
   more than one split to the target size and to max_task_split_count. *)
THEOREM TargetKept ==
    ASSUME SplitsWellFormed
    PROVE  Spec => []PartitionsKeepToTarget
<1>1. IInv => PartitionsKeepToTarget
  BY DEF IInv, Mid, Over, Good, Kept, PartitionsKeepToTarget
<1> QED BY <1>1, SpecIInv, PTL

(* _node_requirements and the open partitions it selects: a split is placed
   on one of its own hosts, with splits of the same accessibility only. *)
THEOREM OwnHostKept ==
    ASSUME SplitsWellFormed
    PROVE  Spec => []PlacedOnOwnHost
<1>1. IInv => PlacedOnOwnHost
  BY DEF IInv, Mid, Over, Good, OwnHost, PlacedOnOwnHost
<1> QED BY <1>1, SpecIInv, PTL

=============================================================================
