--------------------- MODULE FteSchedulerRegistry_proofs ---------------------
(***************************************************************************)
(* The admission pump strands no capacity, for any queries, classes, slots *)
(* and number of tasks.                                                    *)
(*                                                                         *)
(* NoStrandedCapacity is not inductive as it stands: the speculative pass  *)
(* comes after the others, for the queries the round began with.  A query  *)
(* registered since is not among them, so a speculative task of its own    *)
(* has to be covered by something else; DrainComing says so.               *)
(***************************************************************************)
EXTENDS FteSchedulerRegistry, FiniteSetTheorems, TLAPS

TypeOK ==
    /\ schedulers \in [Queries -> {"NONE", "RUNNING", "FAILED", "CLOSING"}]
    /\ running \in BOOLEAN /\ dirty \in BOOLEAN
    /\ phase \in {"turn", "passes", "speculative"}
    /\ todo \in Seq(Queries \X Classes) /\ order \in Seq(Queries)
    /\ pulses \in [Queries -> SUBSET Classes] /\ fresh \in [Queries -> SUBSET Classes]
    /\ want \in [Queries -> [Classes -> Nat]] /\ reserved \in [Queries -> [Classes -> Nat]]
    /\ held \in [Queries -> Int] /\ free \in Int
    /\ requests \in Nat

(* Only a task that waits has a reservation.                               *)
ReservedAreWanted == \A q \in Queries, c \in Classes : reserved[q][c] <= want[q][c]

(* Between its rounds the leader has nothing left to do.                   *)
NothingLeft == phase = "turn" => todo = <<>>

(* A scheduler handles one split event at a time.                          *)
OneFresh == \A q \in Queries : \A c, d \in fresh[q] : c = d

(* A query that is not registered has no tasks.                            *)
NoneWaits == \A q \in Queries, c \in Classes : schedulers[q] = "NONE" => want[q][c] = 0

(* A drain that comes to tasks of (q, c).                                  *)
Comes(q, c) ==
    \/ requests > 0
    \/ running /\ dirty
    \/ c \in pulses[q]
    \/ c \in fresh[q]
    \/ reserved[q][c] > 0
    \/ running /\ <<q, c>> \in Range(todo)
    \/ running /\ phase = "passes" /\ c = "SPECULATIVE" /\ q \in Range(order)
    \/ c = "SPECULATIVE" /\ (StandardPending \/ Live # Active)

DrainComing == \A q \in Active, c \in Classes : Startable(q, c) => Comes(q, c)

Inv ==
    /\ TypeOK
    /\ ReservedAreWanted
    /\ NothingLeft
    /\ OneFresh
    /\ NoneWaits
    /\ DrainComing

-----------------------------------------------------------------------------
(* Sequences.                                                              *)

LEMMA EmptySet == \A s : s = <<>> => Range(s) = {}
BY DEF Range

LEMMA TailSet ==
    ASSUME NEW T, NEW q \in Seq(T), q # <<>>
    PROVE  /\ Head(q) \in T /\ Tail(q) \in Seq(T) /\ Head(q) \in Range(q)
           /\ Range(q) = {Head(q)} \cup Range(Tail(q))
<1> DEFINE r == Tail(q)
<1>1. /\ r \in Seq(T) /\ Head(q) \in T /\ Len(q) \in Nat \ {0} /\ Len(r) = Len(q) - 1 /\ q[1] = Head(q)
      /\ \A i \in 1 .. Len(r) : r[i] = q[i + 1]
  OBVIOUS
<1> HIDE DEF r
<1>2. /\ DOMAIN r = 1 .. Len(q) - 1 /\ DOMAIN q = 1 .. Len(q) /\ 1 \in DOMAIN q
      /\ \A i \in DOMAIN r : i + 1 \in DOMAIN q /\ r[i] = q[i + 1]
      /\ \A i \in DOMAIN q : i = 1 \/ (i - 1 \in DOMAIN r /\ r[i - 1] = q[i])
  BY <1>1
<1>3. \A x : x \in Range(q) <=> x = Head(q) \/ x \in Range(r)
  <2> TAKE x
  <2>1. ASSUME x \in Range(q) PROVE x = Head(q) \/ x \in Range(r)
    <3>1. PICK i \in DOMAIN q : q[i] = x
      BY <2>1 DEF Range
    <3>2. i = 1 \/ (i - 1 \in DOMAIN r /\ r[i - 1] = x)
      BY <1>2, <3>1
    <3> QED BY <1>1, <3>1, <3>2 DEF Range
  <2>2. ASSUME x \in Range(r) PROVE x \in Range(q)
    <3>1. PICK i \in DOMAIN r : r[i] = x
      BY <2>2 DEF Range
    <3>2. i + 1 \in DOMAIN q /\ q[i + 1] = x
      BY <1>2, <3>1
    <3> QED BY <3>2 DEF Range
  <2>3. Head(q) \in Range(q)
    BY <1>1, <1>2 DEF Range
  <2> QED BY <2>1, <2>2, <2>3
<1> QED BY <1>1, <1>3 DEF r

LEMMA ConcatSet ==
    ASSUME NEW T, NEW s \in Seq(T), NEW t \in Seq(T)
    PROVE  /\ s \o t \in Seq(T)
           /\ \A x : x \in Range(s) \/ x \in Range(t) => x \in Range(s \o t)
<1>1. ASSUME NEW x \in Range(s) PROVE x \in Range(s \o t)
  <2>1. PICK i \in 1 .. Len(s) : x = s[i]
    BY <1>1 DEF Range
  <2>2. i \in 1 .. Len(s \o t) /\ (s \o t)[i] = x
    BY <2>1
  <2> QED BY <2>2 DEF Range
<1>2. ASSUME NEW x \in Range(t) PROVE x \in Range(s \o t)
  <2>1. PICK i \in 1 .. Len(t) : x = t[i]
    BY <1>2 DEF Range
  <2>2. Len(s) + i \in 1 .. Len(s \o t) /\ (s \o t)[Len(s) + i] = x
    BY <2>1
  <2> QED BY <2>2 DEF Range
<1> QED BY <1>1, <1>2

(* A pass visits every query of the round, once its class exists.          *)
LEMMA PassVisits ==
    ASSUME NEW ids \in Seq(Queries), NEW c \in Classes
    PROVE  /\ Pass(ids, c) \in Seq(Queries \X Classes)
           /\ \A q \in Range(ids) : <<q, c>> \in Range(Pass(ids, c))
<1>1. Pass(ids, c) = [i \in 1 .. Len(ids) |-> <<ids[i], c>>]
  BY DEF Pass
<1>2. Len(ids) \in Nat /\ \A i \in 1 .. Len(ids) : ids[i] \in Queries
  OBVIOUS
<1>3. Pass(ids, c) \in Seq(Queries \X Classes)
  BY <1>1, <1>2
<1>4. ASSUME NEW q \in Range(ids) PROVE <<q, c>> \in Range(Pass(ids, c))
  <2>1. PICK i \in 1 .. Len(ids) : q = ids[i]
    BY DEF Range
  <2>2. i \in DOMAIN Pass(ids, c) /\ Pass(ids, c)[i] = <<q, c>>
    BY <1>1, <2>1
  <2> QED BY <2>2 DEF Range
<1> QED BY <1>3, <1>4

LEMMA PassType ==
    ASSUME NEW ids \in Seq(Queries), NEW c PROVE Pass(ids, c) \in Seq(Queries \X Classes)
<1>1. CASE c \in Classes
  BY <1>1, PassVisits
<1>2. CASE c \notin Classes
  <2>1. Pass(ids, c) = <<>>
    BY <1>2 DEF Pass
  <2> QED BY <2>1
<1> QED BY <1>1, <1>2

(* The round goes through all the queries that are registered.             *)
LEMMA OrderIsLive ==
    ASSUME NEW ids \in OrderedQueryIds
    PROVE  ids \in Seq(Queries) /\ Range(ids) = Live
<1> DEFINE n == Cardinality(Live)
<1>1. IsFiniteSet(Live) /\ Live \subseteq Queries
  BY QueriesAssumption, FS_Subset DEF Live
<1>2. n \in Nat
  BY <1>1, FS_CardinalityType
<1>3. ids \in [1 .. n -> Live] /\ \A i, j \in 1 .. n : i # j => ids[i] # ids[j]
  BY DEF OrderedQueryIds, Orders, Injection, IsInjective
<1>4. ids \in Injection(1 .. n, Live)
  BY <1>3 DEF Injection, IsInjective
<1>5. Cardinality(1 .. n) = n
  BY <1>2, FS_Interval
<1>6. ids \in Surjection(1 .. n, Live)
  BY <1>1, <1>4, <1>5, FS_Injection
<1>7. \A q \in Live : \E i \in 1 .. n : ids[i] = q
  BY <1>6 DEF Surjection
<1> QED BY <1>1, <1>2, <1>3, <1>7 DEF Range

-----------------------------------------------------------------------------
(* The pump.                                                               *)

LEMMA InitInv == Init => Inv
<1> SUFFICES ASSUME Init PROVE Inv
  OBVIOUS
<1>1. TypeOK
  <2>1. todo \in Seq(Queries \X Classes) /\ order \in Seq(Queries)
    BY DEF Init
  <2>2. /\ want \in [Queries -> [Classes -> Nat]] /\ reserved \in [Queries -> [Classes -> Nat]]
        /\ held \in [Queries -> Int] /\ free \in Int /\ requests \in Nat
    BY CapacityAssumption DEF Init
  <2>3. pulses \in [Queries -> SUBSET Classes] /\ fresh \in [Queries -> SUBSET Classes]
    BY DEF Init
  <2> QED BY <2>1, <2>2, <2>3 DEF Init, TypeOK
<1>2. ReservedAreWanted /\ NothingLeft /\ OneFresh /\ NoneWaits
  BY DEF Init, ReservedAreWanted, NothingLeft, OneFresh, NoneWaits
<1>3. DrainComing
  BY DEF Init, DrainComing, Active
<1> QED BY <1>1, <1>2, <1>3 DEF Inv

(* A drain that has been requested comes to every task.                    *)
LEMMA RequestedComes == requests' > 0 => DrainComing'
BY DEF DrainComing, Comes

LEMMA RequestDrainInv == ASSUME Inv, RequestDrain PROVE Inv'
<1>1. TypeOK' /\ running' /\ dirty'
  BY DEF Inv, TypeOK, RequestDrain, queueVars, workVars
<1>2. (ReservedAreWanted /\ NothingLeft /\ OneFresh /\ NoneWaits)'
  BY DEF Inv, RequestDrain, queueVars, workVars, ReservedAreWanted, NothingLeft, OneFresh, NoneWaits
<1>3. DrainComing'
  BY <1>1 DEF DrainComing, Comes
<1> QED BY <1>1, <1>2, <1>3 DEF Inv

LEMMA PumpTurnInv == ASSUME Inv, PumpTurn PROVE Inv'
<1>1. /\ UNCHANGED <<schedulers, queueVars, workVars, requests>>
      /\ running /\ phase = "turn" /\ todo = <<>>
  BY DEF PumpTurn, Inv, NothingLeft
<1>2. Active' = Active /\ Live' = Live /\ Active \subseteq Live /\ StandardPending' = StandardPending
  BY <1>1 DEF Active, Live, StandardPending, workVars
<1>3. \A q, c : Startable(q, c)' <=> Startable(q, c)
  BY <1>1 DEF Startable, Waiting, workVars
<1>4. (ReservedAreWanted /\ OneFresh /\ NoneWaits)'
  BY <1>1 DEF Inv, queueVars, workVars, ReservedAreWanted, OneFresh, NoneWaits
<1>5. CASE ~dirty
  <2>1. running' = FALSE /\ UNCHANGED <<dirty, phase, todo, order>>
    BY <1>5 DEF PumpTurn
  <2>2. TypeOK' /\ NothingLeft'
    BY <1>1, <2>1 DEF Inv, TypeOK, NothingLeft, queueVars, workVars
  <2>3. ASSUME NEW q, NEW c, Comes(q, c) PROVE Comes(q, c)'
    BY <1>1, <1>2, <1>5, <2>1, <2>3, EmptySet DEF Comes, queueVars, workVars
  <2>4. DrainComing'
    BY <1>2, <1>3, <2>3 DEF Inv, DrainComing
  <2> QED BY <1>4, <2>2, <2>4 DEF Inv
<1>6. CASE dirty
  <2>1. /\ dirty' = FALSE /\ phase' = "passes" /\ running' = running /\ order' \in OrderedQueryIds
        /\ todo' = Pass(order', "EAGER_SPECULATIVE") \o Pass(order', "STANDARD")
    BY <1>6 DEF PumpTurn
  <2>2. order' \in Seq(Queries) /\ Range(order') = Live
    BY <2>1, OrderIsLive
  <2>3. todo' \in Seq(Queries \X Classes)
    BY <2>1, <2>2, PassType, ConcatSet
  <2>4. ASSUME NEW q \in Active, NEW c \in Classes, c # "SPECULATIVE" PROVE <<q, c>> \in Range(todo')
    <3>1. c = "EAGER_SPECULATIVE" \/ c = "STANDARD"
      BY <2>4, ClassesAssumption
    <3>2. <<q, c>> \in Range(Pass(order', c))
      BY <1>2, <2>2, PassVisits
    <3> QED BY <2>1, <2>2, <3>1, <3>2, PassType, ConcatSet
  <2>5. TypeOK'
    BY <1>1, <2>1, <2>2, <2>3 DEF Inv, TypeOK, queueVars, workVars
  <2>6. NothingLeft'
    BY <2>1 DEF NothingLeft
  <2>7. \A q \in Active, c \in Classes : Comes(q, c)'
    BY <1>1, <1>2, <2>1, <2>2, <2>4 DEF Comes
  <2>8. DrainComing'
    BY <1>2, <2>7 DEF DrainComing
  <2> QED BY <1>4, <2>5, <2>6, <2>8 DEF Inv
<1> QED BY <1>5, <1>6

LEMMA EndOfPassInv == ASSUME Inv, EndOfPass PROVE Inv'
<1>1. /\ UNCHANGED <<schedulers, running, dirty, queueVars, workVars, requests>>
      /\ phase \in {"passes", "speculative"} /\ todo = <<>>
  BY DEF EndOfPass
<1>2. Active' = Active /\ Live' = Live /\ Active \subseteq Live /\ StandardPending' = StandardPending
  BY <1>1 DEF Active, Live, StandardPending, workVars
<1>3. \A q, c : Startable(q, c)' <=> Startable(q, c)
  BY <1>1 DEF Startable, Waiting, workVars
<1>4. (ReservedAreWanted /\ OneFresh /\ NoneWaits)'
  BY <1>1 DEF Inv, queueVars, workVars, ReservedAreWanted, OneFresh, NoneWaits
<1>5. CASE phase = "passes" /\ ~StandardPending
  <2>1. phase' = "speculative" /\ todo' = Pass(order, "SPECULATIVE") /\ order' = order
    BY <1>5 DEF EndOfPass
  <2>2. todo' \in Seq(Queries \X Classes)
    BY <2>1, PassType DEF Inv, TypeOK
  <2>3. TypeOK' /\ NothingLeft'
    BY <1>1, <2>1, <2>2 DEF Inv, TypeOK, NothingLeft, queueVars, workVars
  <2>4. ASSUME NEW q \in Queries, NEW c \in Classes, Comes(q, c) PROVE Comes(q, c)'
    <3>1. CASE c = "SPECULATIVE" /\ q \in Range(order)
      <4>1. <<q, c>> \in Range(todo')
        BY <2>1, <3>1, PassVisits DEF Inv, TypeOK
      <4> QED BY <1>1, <1>2, <2>4, <4>1, EmptySet DEF Comes, queueVars, workVars
    <3>2. CASE ~(c = "SPECULATIVE" /\ q \in Range(order))
      BY <1>1, <1>2, <2>4, <3>2, EmptySet DEF Comes, queueVars, workVars
    <3> QED BY <3>1, <3>2
  <2>5. DrainComing'
    BY <1>2, <1>3, <2>4 DEF Inv, DrainComing, Active
  <2> QED BY <1>4, <2>3, <2>5 DEF Inv
<1>6. CASE ~(phase = "passes" /\ ~StandardPending)
  <2>1. phase' = "turn" /\ order' = <<>> /\ todo' = todo
    BY <1>6 DEF EndOfPass
  <2>2. TypeOK' /\ NothingLeft'
    BY <1>1, <2>1 DEF Inv, TypeOK, NothingLeft, queueVars, workVars
  <2>3. ASSUME NEW q, NEW c, Comes(q, c) PROVE Comes(q, c)'
    BY <1>1, <1>2, <1>6, <2>1, <2>3, EmptySet DEF Comes, queueVars, workVars
  <2>4. DrainComing'
    BY <1>2, <1>3, <2>3 DEF Inv, DrainComing
  <2> QED BY <1>4, <2>2, <2>4 DEF Inv
<1> QED BY <1>5, <1>6

-----------------------------------------------------------------------------
(* The queries' schedulers.                                                *)

(* What a drain of (q, c) does, with or without a reservation: it leaves   *)
(* nothing startable, or a reservation whose event is queued.              *)
Drained(q, c) ==
    /\ want' = want
    /\ held' \in [Queries -> Int] /\ free' \in Int /\ free' <= free
    /\ reserved' \in [Queries -> [Classes -> Nat]] /\ ReservedAreWanted'
    /\ \A p \in Queries, d \in Classes : reserved'[p][d] >= reserved[p][d]
    /\ Startable(q, c)' => reserved'[q][c] > 0

LEMMA AcquireDrains ==
    ASSUME Inv, NEW q \in Queries, NEW c \in Classes, NEW n \in Nat, n > 0, Acquire(q, c, n)
    PROVE  Drained(q, c)
<1>1. /\ reserved[q][c] \in Nat /\ want[q][c] \in Nat /\ reserved[q][c] + n \in Nat
      /\ reserved[q][c] + n <= want[q][c]
  BY DEF Inv, TypeOK, Acquire, Waiting
<1>2. /\ reserved' = [reserved EXCEPT ![q][c] = reserved[q][c] + n]
      /\ held' = [held EXCEPT ![q] = held[q] + n]
      /\ free' = free - n /\ want' = want
  BY DEF Acquire
<1>3. held' \in [Queries -> Int] /\ free' \in Int /\ free' <= free
  BY <1>2 DEF Inv, TypeOK
<1>4. reserved' \in [Queries -> [Classes -> Nat]]
  BY <1>1, <1>2 DEF Inv, TypeOK
<1>5. \A p \in Queries, d \in Classes :
         reserved'[p][d] = IF p = q /\ d = c THEN reserved[q][c] + n ELSE reserved[p][d]
  BY <1>1, <1>2, SMTT(30) DEF Inv, TypeOK
<1>6. \A p \in Queries, d \in Classes : reserved[p][d] \in Nat /\ reserved[p][d] <= want[p][d]
  BY DEF Inv, TypeOK, ReservedAreWanted
<1>7. ReservedAreWanted'
  BY <1>1, <1>2, <1>5, <1>6 DEF ReservedAreWanted
<1>8. \A p \in Queries, d \in Classes : reserved'[p][d] >= reserved[p][d]
  BY <1>1, <1>5, <1>6
<1>9. reserved'[q][c] > 0
  BY <1>1, <1>5
<1> QED BY <1>2, <1>3, <1>4, <1>7, <1>8, <1>9 DEF Drained

LEMMA NothingDrained ==
    ASSUME Inv, NEW q \in Queries, NEW c \in Classes, ~Startable(q, c), UNCHANGED workVars
    PROVE  Drained(q, c)
<1>1. ~Startable(q, c)'
  BY DEF Startable, Waiting, workVars
<1>2. \A p \in Queries, d \in Classes : reserved[p][d] \in Nat
  BY DEF Inv, TypeOK
<1>3. ReservedAreWanted'
  BY DEF Inv, ReservedAreWanted, workVars
<1> QED BY <1>1, <1>2, <1>3 DEF Drained, Inv, TypeOK, workVars

LEMMA HandlePulseDrains ==
    ASSUME Inv, NEW q \in Queries, NEW c \in Classes, HandlePulse(q, c) PROVE Drained(q, c)
<1>1. CASE \E n \in 1 .. Slots : Acquire(q, c, n)
  BY <1>1, CapacityAssumption, AcquireDrains
<1>2. CASE ~Startable(q, c) /\ UNCHANGED workVars
  BY <1>2, NothingDrained
<1> QED BY <1>1, <1>2 DEF HandlePulse

(* Tasks that are not drained keep what comes to them.                     *)
LEMMA DrainedKeeps ==
    ASSUME Inv, NEW q \in Queries, NEW c \in Classes, Drained(q, c),
           UNCHANGED <<schedulers, running, dirty, phase, order, requests>>,
           \A p \in Queries, d \in Classes : p # q \/ d # c =>
               /\ d \in pulses[p] => d \in pulses'[p]
               /\ d \in fresh[p] => d \in fresh'[p]
               /\ <<p, d>> \in Range(todo) => <<p, d>> \in Range(todo')
    PROVE  DrainComing' /\ NoneWaits'
<1>1. Active' = Active /\ Live' = Live /\ StandardPending' = StandardPending /\ Active \subseteq Queries
  BY DEF Active, Live, StandardPending, Drained
<1>2. NoneWaits'
  BY DEF Inv, NoneWaits, Drained
<1>3. ASSUME NEW p \in Active, NEW d \in Classes, Startable(p, d)' PROVE Comes(p, d)'
  <2>1. CASE p = q /\ d = c
    BY <1>3, <2>1 DEF Drained, Comes
  <2>2. CASE p # q \/ d # c
    <3>1. /\ want[p][d] \in Nat /\ reserved[p][d] \in Nat /\ reserved'[p][d] \in Nat
          /\ reserved'[p][d] >= reserved[p][d] /\ free \in Int /\ free' \in Int /\ free' <= free
          /\ want'[p][d] = want[p][d]
      BY <1>1 DEF Inv, TypeOK, Drained
    <3>2. Startable(p, d)
      BY <1>3, <3>1 DEF Startable, Waiting
    <3>3. Comes(p, d)
      BY <1>3, <3>2 DEF Inv, DrainComing
    <3>4. reserved[p][d] > 0 => reserved'[p][d] > 0
      BY <3>1
    <3> QED BY <1>1, <2>2, <3>3, <3>4 DEF Comes
  <2> QED BY <2>1, <2>2
<1> QED BY <1>1, <1>2, <1>3 DEF DrainComing

LEMMA VisitQueryInv == ASSUME Inv, VisitQuery PROVE Inv'
<1>1. PICK q, c : q = Head(todo)[1] /\ c = Head(todo)[2]
  OBVIOUS
<1>2. /\ todo # <<>> /\ todo' = Tail(todo) /\ todo \in Seq(Queries \X Classes)
      /\ UNCHANGED <<schedulers, running, dirty, phase, order, fresh, arrived, requests>>
  BY DEF VisitQuery, Inv, TypeOK
<1>3. /\ todo' \in Seq(Queries \X Classes) /\ Head(todo) \in Queries \X Classes
      /\ Range(todo) = {Head(todo)} \cup Range(todo')
  BY <1>2, TailSet
<1>4. q \in Queries /\ c \in Classes /\ Head(todo) = <<q, c>>
  BY <1>1, <1>3
<1>5. \A p, d : p # q \/ d # c => (<<p, d>> \in Range(todo) => <<p, d>> \in Range(todo'))
  BY <1>3, <1>4
<1>6. NothingLeft' /\ OneFresh'
  BY <1>2 DEF Inv, NothingLeft, OneFresh
<1>7. CASE q \notin Active /\ UNCHANGED <<pulses, workVars>>
  <2>1. Active' = Active /\ Live' = Live /\ StandardPending' = StandardPending
    BY <1>2, <1>7 DEF Active, Live, StandardPending, workVars
  <2>2. \A p \in Active, d \in Classes : Startable(p, d)' => Startable(p, d)
    BY <1>7 DEF Startable, Waiting, workVars
  <2>3. ASSUME NEW p \in Active, NEW d \in Classes, Comes(p, d) PROVE Comes(p, d)'
    BY <1>2, <1>5, <1>7, <2>1, <2>3 DEF Comes, workVars
  <2>4. DrainComing'
    BY <2>1, <2>2, <2>3 DEF Inv, DrainComing
  <2>5. TypeOK' /\ ReservedAreWanted' /\ NoneWaits'
    BY <1>2, <1>3, <1>7 DEF Inv, TypeOK, ReservedAreWanted, NoneWaits, workVars
  <2> QED BY <1>6, <2>4, <2>5 DEF Inv
<1>8. CASE HandlePulse(q, c) /\ pulses' = [pulses EXCEPT ![q] = @ \ {c}]
  <2>1. Drained(q, c)
    BY <1>4, <1>8, HandlePulseDrains
  <2>2. /\ pulses' \in [Queries -> SUBSET Classes]
        /\ \A p \in Queries, d \in Classes : p # q \/ d # c => (d \in pulses[p] => d \in pulses'[p])
    BY <1>8 DEF Inv, TypeOK
  <2>3. DrainComing' /\ NoneWaits'
    BY <1>2, <1>4, <1>5, <2>1, <2>2, DrainedKeeps
  <2>4. TypeOK'
    BY <1>2, <1>3, <2>1, <2>2 DEF Inv, TypeOK, Drained
  <2> QED BY <1>6, <2>1, <2>3, <2>4 DEF Inv, Drained
<1>9. CASE pulses' = [pulses EXCEPT ![q] = @ \cup {c}] /\ UNCHANGED workVars
  <2>1. /\ pulses' \in [Queries -> SUBSET Classes] /\ c \in pulses'[q]
        /\ \A p \in Queries, d \in Classes : d \in pulses[p] => d \in pulses'[p]
    BY <1>4, <1>9 DEF Inv, TypeOK
  <2>2. Active' = Active /\ Live' = Live /\ StandardPending' = StandardPending /\ Active \subseteq Queries
    BY <1>2, <1>9 DEF Active, Live, StandardPending, workVars
  <2>3. \A p \in Active, d \in Classes : Startable(p, d)' => Startable(p, d)
    BY <1>9 DEF Startable, Waiting, workVars
  <2>4. ASSUME NEW p \in Active, NEW d \in Classes, Comes(p, d) PROVE Comes(p, d)'
    <3>1. CASE p = q /\ d = c
      BY <2>1, <3>1 DEF Comes
    <3>2. CASE p # q \/ d # c
      BY <1>2, <1>5, <1>9, <2>1, <2>2, <2>4, <3>2 DEF Comes, workVars
    <3> QED BY <3>1, <3>2
  <2>5. DrainComing'
    BY <2>2, <2>3, <2>4 DEF Inv, DrainComing
  <2>6. TypeOK' /\ ReservedAreWanted' /\ NoneWaits'
    BY <1>2, <1>3, <1>9, <2>1 DEF Inv, TypeOK, ReservedAreWanted, NoneWaits, workVars
  <2> QED BY <1>6, <2>5, <2>6 DEF Inv
<1> QED BY <1>1, <1>7, <1>8, <1>9 DEF VisitQuery

LEMMA DrainPulseInv ==
    ASSUME Inv, NEW q \in Queries, NEW c \in Classes, DrainPulse(q, c) PROVE Inv'
<1>1. /\ pulses' = [pulses EXCEPT ![q] = @ \ {c}]
      /\ UNCHANGED <<schedulers, running, dirty, phase, todo, order, fresh, arrived, requests>>
  BY DEF DrainPulse
<1>2. /\ pulses' \in [Queries -> SUBSET Classes]
      /\ \A p \in Queries, d \in Classes : p # q \/ d # c => (d \in pulses[p] => d \in pulses'[p])
  BY <1>1 DEF Inv, TypeOK
<1>3. NothingLeft' /\ OneFresh'
  BY <1>1 DEF Inv, NothingLeft, OneFresh
<1>4. CASE q \in Active
  <2>1. Drained(q, c)
    BY <1>4, HandlePulseDrains DEF DrainPulse
  <2>2. DrainComing' /\ NoneWaits'
    BY <1>1, <1>2, <2>1, DrainedKeeps
  <2>3. TypeOK'
    BY <1>1, <1>2, <2>1 DEF Inv, TypeOK, Drained
  <2> QED BY <1>3, <2>1, <2>2, <2>3 DEF Inv, Drained
<1>5. CASE q \notin Active
  <2>1. UNCHANGED workVars
    BY <1>5 DEF DrainPulse
  <2>2. Active' = Active /\ Live' = Live /\ StandardPending' = StandardPending /\ Active \subseteq Queries
    BY <1>1, <2>1 DEF Active, Live, StandardPending, workVars
  <2>3. \A p \in Active, d \in Classes : Startable(p, d)' => Startable(p, d)
    BY <2>1 DEF Startable, Waiting, workVars
  <2>4. ASSUME NEW p \in Active, NEW d \in Classes, Comes(p, d) PROVE Comes(p, d)'
    BY <1>1, <1>2, <1>5, <2>1, <2>2, <2>4 DEF Comes, workVars
  <2>5. DrainComing'
    BY <2>2, <2>3, <2>4 DEF Inv, DrainComing
  <2>6. TypeOK' /\ ReservedAreWanted' /\ NoneWaits'
    BY <1>1, <1>2, <2>1 DEF Inv, TypeOK, ReservedAreWanted, NoneWaits, workVars
  <2> QED BY <1>3, <2>5, <2>6 DEF Inv
<1> QED BY <1>4, <1>5

LEMMA TryNewWorkInv ==
    ASSUME Inv, NEW q \in Queries, NEW c \in Classes, TryNewWork(q, c) PROVE Inv'
<1>1. /\ c \in fresh[q] /\ fresh' = [fresh EXCEPT ![q] = {}]
      /\ UNCHANGED <<schedulers, running, dirty, phase, todo, order, pulses, arrived, requests>>
  BY DEF TryNewWork
<1>2. /\ fresh' \in [Queries -> SUBSET Classes] /\ OneFresh'
      /\ \A p \in Queries, d \in Classes : p # q \/ d # c => (d \in fresh[p] => d \in fresh'[p])
  BY <1>1 DEF Inv, TypeOK, OneFresh
<1>3. NothingLeft'
  BY <1>1 DEF Inv, NothingLeft
<1>4. CASE q \in Active
  <2>1. Drained(q, c)
    <3>1. CASE Acquire(q, c, 1)
      BY <3>1, AcquireDrains
    <3>2. CASE ~Startable(q, c) /\ UNCHANGED workVars
      BY <3>2, NothingDrained
    <3> QED BY <1>4, <3>1, <3>2 DEF TryNewWork
  <2>2. DrainComing' /\ NoneWaits'
    BY <1>1, <1>2, <2>1, DrainedKeeps
  <2>3. TypeOK'
    BY <1>1, <1>2, <2>1 DEF Inv, TypeOK, Drained
  <2> QED BY <1>2, <1>3, <2>1, <2>2, <2>3 DEF Inv, Drained
<1>5. CASE q \notin Active
  <2>1. UNCHANGED workVars
    BY <1>5 DEF TryNewWork
  <2>2. Active' = Active /\ Live' = Live /\ StandardPending' = StandardPending /\ Active \subseteq Queries
    BY <1>1, <2>1 DEF Active, Live, StandardPending, workVars
  <2>3. \A p \in Active, d \in Classes : Startable(p, d)' => Startable(p, d)
    BY <2>1 DEF Startable, Waiting, workVars
  <2>4. ASSUME NEW p \in Active, NEW d \in Classes, Comes(p, d) PROVE Comes(p, d)'
    BY <1>1, <1>2, <1>5, <2>1, <2>2, <2>4 DEF Comes, workVars
  <2>5. DrainComing'
    BY <2>2, <2>3, <2>4 DEF Inv, DrainComing
  <2>6. TypeOK' /\ ReservedAreWanted' /\ NoneWaits'
    BY <1>1, <1>2, <2>1 DEF Inv, TypeOK, ReservedAreWanted, NoneWaits, workVars
  <2> QED BY <1>2, <1>3, <2>5, <2>6 DEF Inv
<1> QED BY <1>4, <1>5

LEMMA ReservationCompletedInv ==
    ASSUME Inv, NEW q \in Queries, NEW c \in Classes, ReservationCompleted(q, c) PROVE Inv'
<1>1. /\ q \in Active /\ reserved[q][c] > 0
      /\ reserved' = [reserved EXCEPT ![q][c] = reserved[q][c] - 1]
      /\ want' = [want EXCEPT ![q][c] = want[q][c] - 1]
      /\ requests' = requests + 1
      /\ UNCHANGED <<schedulers, pumpVars, queueVars, held, free>>
  BY DEF ReservationCompleted
<1>2. \A p \in Queries, d \in Classes :
         want[p][d] \in Nat /\ reserved[p][d] \in Nat /\ reserved[p][d] <= want[p][d]
  BY DEF Inv, TypeOK, ReservedAreWanted
<1>3. reserved[q][c] - 1 \in Nat /\ want[q][c] - 1 \in Nat
  BY <1>1, <1>2
<1>4. reserved' \in [Queries -> [Classes -> Nat]] /\ want' \in [Queries -> [Classes -> Nat]]
  BY <1>1, <1>3 DEF Inv, TypeOK
<1>5. requests' \in Nat /\ requests' > 0
  BY <1>1 DEF Inv, TypeOK
<1>6. TypeOK'
  BY <1>1, <1>4, <1>5 DEF Inv, TypeOK, pumpVars, queueVars
<1>7. \A p \in Queries, d \in Classes :
         /\ reserved'[p][d] = IF p = q /\ d = c THEN reserved[q][c] - 1 ELSE reserved[p][d]
         /\ want'[p][d] = IF p = q /\ d = c THEN want[q][c] - 1 ELSE want[p][d]
  BY <1>1 DEF Inv, TypeOK
<1>8. ReservedAreWanted'
  BY <1>2, <1>7 DEF ReservedAreWanted
<1>9. NoneWaits'
  BY <1>1, <1>7 DEF Inv, NoneWaits, Active
<1>10. NothingLeft' /\ OneFresh'
  BY <1>1 DEF Inv, NothingLeft, OneFresh, pumpVars, queueVars
<1> QED BY <1>5, <1>6, <1>8, <1>9, <1>10, RequestedComes DEF Inv

-----------------------------------------------------------------------------
(* The queries.                                                            *)

LEMMA GetOrCreateInv == ASSUME Inv, NEW q \in Queries, GetOrCreate(q) PROVE Inv'
<1>1. /\ schedulers[q] = "NONE" /\ schedulers' = [schedulers EXCEPT ![q] = "RUNNING"]
      /\ UNCHANGED <<pumpVars, queueVars, workVars, requests>>
  BY DEF GetOrCreate
<1>2. TypeOK'
  BY <1>1 DEF Inv, TypeOK, pumpVars, queueVars, workVars
<1>3. (ReservedAreWanted /\ NothingLeft /\ OneFresh /\ NoneWaits)'
  BY <1>1 DEF Inv, TypeOK, pumpVars, queueVars, workVars, ReservedAreWanted, NothingLeft, OneFresh, NoneWaits
<1>4. /\ Active' = Active \cup {q} /\ (Live # Active => Live' # Active')
      /\ (StandardPending => StandardPending')
  <2>1. Active' = Active \cup {q} /\ Live' = Live \cup {q} /\ q \notin Live /\ Active \subseteq Live
    BY <1>1 DEF Active, Live, Inv, TypeOK
  <2>2. StandardPending => StandardPending'
    BY <1>1, <2>1 DEF StandardPending, workVars
  <2> QED BY <2>1, <2>2
<1>5. ASSUME NEW p \in Active', NEW c \in Classes, Startable(p, c)' PROVE Comes(p, c)'
  <2>1. CASE p = q
    <3>1. want[q][c] = 0 /\ reserved[q][c] \in Nat
      BY <1>1 DEF Inv, TypeOK, NoneWaits
    <3> QED BY <1>1, <1>5, <2>1, <3>1 DEF Startable, Waiting, workVars
  <2>2. CASE p # q
    <3>1. p \in Active /\ Startable(p, c)
      BY <1>1, <1>4, <1>5, <2>2 DEF Startable, Waiting, workVars
    <3>2. Comes(p, c)
      BY <3>1 DEF Inv, DrainComing
    <3> QED BY <1>1, <1>4, <3>2 DEF Comes, pumpVars, queueVars, workVars
  <2> QED BY <2>1, <2>2
<1> QED BY <1>2, <1>3, <1>5 DEF Inv, DrainComing

LEMMA AddWorkInv == ASSUME Inv, NEW q \in Queries, NEW c \in Classes, AddWork(q, c) PROVE Inv'
<1>1. /\ q \in Active /\ fresh[q] = {}
      /\ want' = [want EXCEPT ![q][c] = want[q][c] + 1]
      /\ fresh' = [fresh EXCEPT ![q] = {c}]
      /\ UNCHANGED <<schedulers, pumpVars, pulses, reserved, held, free, requests>>
  BY DEF AddWork
<1>2. want[q][c] \in Nat /\ want[q][c] + 1 \in Nat
  BY DEF Inv, TypeOK
<1>3. want' \in [Queries -> [Classes -> Nat]] /\ fresh' \in [Queries -> SUBSET Classes]
  BY <1>1, <1>2 DEF Inv, TypeOK
<1>4. TypeOK'
  BY <1>1, <1>3 DEF Inv, TypeOK, pumpVars
<1>5. \A p \in Queries, d \in Classes :
         /\ want'[p][d] = IF p = q /\ d = c THEN want[q][c] + 1 ELSE want[p][d]
         /\ want[p][d] \in Nat /\ reserved[p][d] \in Nat /\ reserved[p][d] <= want[p][d]
  BY <1>1 DEF Inv, TypeOK, ReservedAreWanted
<1>6. ReservedAreWanted'
  BY <1>1, <1>2, <1>5 DEF ReservedAreWanted
<1>7. NothingLeft' /\ OneFresh'
  BY <1>1 DEF Inv, TypeOK, NothingLeft, OneFresh, pumpVars
<1>8. NoneWaits'
  BY <1>1, <1>5 DEF Inv, NoneWaits, Active
<1>9. Active' = Active /\ Live' = Live /\ Active \subseteq Queries
  BY <1>1 DEF Active, Live
<1>10. StandardPending => StandardPending'
  BY <1>2, <1>5, <1>9 DEF StandardPending
<1>11. ASSUME NEW p \in Active', NEW d \in Classes, Startable(p, d)' PROVE Comes(p, d)'
  <2>1. CASE p = q /\ d = c
    BY <1>1, <2>1 DEF Comes, Inv, TypeOK
  <2>2. CASE p # q \/ d # c
    <3>1. Startable(p, d)
      BY <1>1, <1>5, <1>9, <1>11, <2>2 DEF Startable, Waiting
    <3>2. Comes(p, d)
      BY <1>9, <3>1 DEF Inv, DrainComing
    <3>3. d \in fresh[p] => d \in fresh'[p]
      BY <1>1, <1>9 DEF Inv, TypeOK
    <3> QED BY <1>1, <1>9, <1>10, <3>2, <3>3 DEF Comes, pumpVars
  <2> QED BY <2>1, <2>2
<1> QED BY <1>4, <1>6, <1>7, <1>8, <1>11 DEF Inv, DrainComing

LEMMA TaskEndsInv == ASSUME Inv, NEW q \in Queries, TaskEnds(q) PROVE Inv'
<1>1. /\ held' = [held EXCEPT ![q] = held[q] - 1] /\ free' = free + 1 /\ requests' = requests + 1
      /\ UNCHANGED <<schedulers, pumpVars, queueVars, want, reserved>>
  BY DEF TaskEnds
<1>2. requests' \in Nat /\ requests' > 0 /\ free' \in Int /\ held' \in [Queries -> Int]
  BY <1>1 DEF Inv, TypeOK
<1>3. TypeOK'
  BY <1>1, <1>2 DEF Inv, TypeOK, pumpVars, queueVars
<1>4. (ReservedAreWanted /\ NothingLeft /\ OneFresh /\ NoneWaits)'
  BY <1>1 DEF Inv, pumpVars, queueVars, ReservedAreWanted, NothingLeft, OneFresh, NoneWaits
<1> QED BY <1>2, <1>3, <1>4, RequestedComes DEF Inv

(* A query that fails or closes holds the speculative tasks of the others  *)
(* back until it is dropped, and its own no longer count.                  *)
LEMMA EndingKeeps ==
    ASSUME Inv, NEW q \in Queries, NEW s \in {"FAILED", "CLOSING"},
           schedulers' = [schedulers EXCEPT ![q] = s],
           UNCHANGED <<pumpVars, want, free, requests>>,
           \A p \in Queries : p # q =>
               pulses'[p] = pulses[p] /\ fresh'[p] = fresh[p] /\ reserved'[p] = reserved[p]
    PROVE  DrainComing'
<1>1. Active' = Active \ {q} /\ q \in Live' /\ Active \subseteq Queries
  BY DEF Active, Live, Inv, TypeOK
<1>2. ASSUME NEW p \in Active', NEW c \in Classes, Startable(p, c)' PROVE Comes(p, c)'
  <2>1. p # q /\ p \in Active /\ p \in Queries
    BY <1>1
  <2>2. Startable(p, c)
    BY <1>2, <2>1 DEF Startable, Waiting
  <2>3. Comes(p, c)
    BY <2>1, <2>2 DEF Inv, DrainComing
  <2> QED BY <1>1, <2>1, <2>3 DEF Comes, pumpVars
<1> QED BY <1>2 DEF DrainComing

LEMMA FailQueryInv == ASSUME Inv, NEW q \in Queries, FailQuery(q) PROVE Inv'
<1>1. /\ schedulers' = [schedulers EXCEPT ![q] = "FAILED"]
      /\ pulses' = [pulses EXCEPT ![q] = {}] /\ fresh' = [fresh EXCEPT ![q] = {}]
      /\ reserved' = [reserved EXCEPT ![q] = [c \in Classes |-> 0]]
      /\ UNCHANGED <<pumpVars, arrived, want, held, free, requests>>
  BY DEF FailQuery
<1>2. /\ schedulers' \in [Queries -> {"NONE", "RUNNING", "FAILED", "CLOSING"}]
      /\ pulses' \in [Queries -> SUBSET Classes] /\ fresh' \in [Queries -> SUBSET Classes]
  BY <1>1 DEF Inv, TypeOK
<1>3. reserved' \in [Queries -> [Classes -> Nat]]
  BY <1>1 DEF Inv, TypeOK
<1>4. TypeOK'
  BY <1>1, <1>2, <1>3 DEF Inv, TypeOK, pumpVars
<1>5. \A p \in Queries, c \in Classes :
         /\ want[p][c] \in Nat /\ reserved[p][c] <= want[p][c]
         /\ reserved'[p][c] = IF p = q THEN 0 ELSE reserved[p][c]
  BY <1>1 DEF Inv, TypeOK, ReservedAreWanted
<1>6. ReservedAreWanted'
  BY <1>1, <1>5 DEF ReservedAreWanted
<1>7. (NothingLeft /\ OneFresh /\ NoneWaits)'
  BY <1>1, SMTT(30) DEF Inv, TypeOK, pumpVars, NothingLeft, OneFresh, NoneWaits
<1>8. \A p \in Queries : p # q =>
         pulses'[p] = pulses[p] /\ fresh'[p] = fresh[p] /\ reserved'[p] = reserved[p]
  BY <1>1 DEF Inv, TypeOK
<1>9. DrainComing'
  BY <1>1, <1>8, EndingKeeps
<1> QED BY <1>4, <1>6, <1>7, <1>9 DEF Inv

LEMMA QuiesceQueryInv == ASSUME Inv, NEW q \in Queries, QuiesceQuery(q) PROVE Inv'
<1>1. /\ schedulers[q] # "NONE" /\ schedulers' = [schedulers EXCEPT ![q] = "CLOSING"]
      /\ UNCHANGED <<pumpVars, queueVars, workVars, requests>>
  BY DEF QuiesceQuery
<1>2. TypeOK'
  BY <1>1 DEF Inv, TypeOK, pumpVars, queueVars, workVars
<1>3. (ReservedAreWanted /\ NothingLeft /\ OneFresh /\ NoneWaits)'
  BY <1>1, SMTT(30) DEF Inv, TypeOK, pumpVars, queueVars, workVars, ReservedAreWanted, NothingLeft, OneFresh, NoneWaits
<1>4. DrainComing'
  BY <1>1, EndingKeeps DEF queueVars, workVars
<1> QED BY <1>2, <1>3, <1>4 DEF Inv

LEMMA DropQueryInv == ASSUME Inv, NEW q \in Queries, DropQuery(q) PROVE Inv'
<1>1. /\ schedulers' = [schedulers EXCEPT ![q] = "NONE"]
      /\ pulses' = [pulses EXCEPT ![q] = {}]
      /\ want' = [want EXCEPT ![q] = [c \in Classes |-> 0]]
      /\ reserved' = [reserved EXCEPT ![q] = [c \in Classes |-> 0]]
      /\ held' = [held EXCEPT ![q] = 0] /\ free' = free + held[q] /\ requests' = requests + 1
      /\ UNCHANGED <<running, dirty, phase, todo, order, fresh, arrived>>
  BY DEF DropQuery
<1>2. requests' \in Nat /\ requests' > 0 /\ free' \in Int /\ held' \in [Queries -> Int]
  BY <1>1 DEF Inv, TypeOK
<1>3. /\ schedulers' \in [Queries -> {"NONE", "RUNNING", "FAILED", "CLOSING"}]
      /\ pulses' \in [Queries -> SUBSET Classes]
  BY <1>1 DEF Inv, TypeOK
<1>4. reserved' \in [Queries -> [Classes -> Nat]] /\ want' \in [Queries -> [Classes -> Nat]]
  BY <1>1 DEF Inv, TypeOK
<1>5. TypeOK'
  BY <1>1, <1>2, <1>3, <1>4 DEF Inv, TypeOK
<1>6. \A p \in Queries, c \in Classes :
         /\ want[p][c] \in Nat /\ reserved[p][c] <= want[p][c]
         /\ want'[p][c] = IF p = q THEN 0 ELSE want[p][c]
         /\ reserved'[p][c] = IF p = q THEN 0 ELSE reserved[p][c]
  BY <1>1 DEF Inv, TypeOK, ReservedAreWanted
<1>7. ReservedAreWanted'
  BY <1>6 DEF ReservedAreWanted
<1>8. NoneWaits'
  BY <1>1, <1>6 DEF Inv, TypeOK, NoneWaits
<1>9. NothingLeft' /\ OneFresh'
  BY <1>1 DEF Inv, NothingLeft, OneFresh
<1> QED BY <1>2, <1>5, <1>7, <1>8, <1>9, RequestedComes DEF Inv

-----------------------------------------------------------------------------
LEMMA NextInv == Inv /\ [Next]_vars => Inv'
<1> SUFFICES ASSUME Inv, [Next]_vars PROVE Inv'
  OBVIOUS
<1>1. CASE RequestDrain
  BY <1>1, RequestDrainInv
<1>2. CASE LeaderStep
  BY <1>2, PumpTurnInv, VisitQueryInv, EndOfPassInv DEF LeaderStep
<1>3. ASSUME NEW q \in Queries,
             \/ GetOrCreate(q) \/ TaskEnds(q) \/ FailQuery(q) \/ QuiesceQuery(q) \/ DropQuery(q)
      PROVE  Inv'
  BY <1>3, GetOrCreateInv, TaskEndsInv, FailQueryInv, QuiesceQueryInv, DropQueryInv
<1>4. ASSUME NEW q \in Queries, NEW c \in Classes,
             \/ AddWork(q, c) \/ DrainPulse(q, c) \/ TryNewWork(q, c) \/ ReservationCompleted(q, c)
      PROVE  Inv'
  BY <1>4, AddWorkInv, DrainPulseInv, TryNewWorkInv, ReservationCompletedInv
<1>5. CASE UNCHANGED vars
  <2>1. TypeOK'
    BY <1>5 DEF Inv, TypeOK, vars, pumpVars, queueVars, workVars
  <2>2. (ReservedAreWanted /\ NothingLeft /\ OneFresh /\ NoneWaits)'
    BY <1>5 DEF Inv, ReservedAreWanted, NothingLeft, OneFresh, NoneWaits,
                vars, pumpVars, queueVars, workVars
  <2>3. Active' = Active /\ Live' = Live /\ StandardPending' = StandardPending
    BY <1>5 DEF Active, Live, StandardPending, vars, workVars
  <2>4. DrainComing'
    BY <1>5, <2>3 DEF Inv, DrainComing, Startable, Waiting, Comes, vars, pumpVars, queueVars, workVars
  <2> QED BY <2>1, <2>2, <2>4 DEF Inv
<1> QED BY <1>1, <1>2, <1>3, <1>4, <1>5 DEF Next, HandleEvent

(* Whenever a slot is free while a running query has a pending task, a     *)
(* drain is on its way to it: the dirty bit of run_pending_drain and the   *)
(* order of its passes lose no wake-up.                                    *)
THEOREM NoStrandedCapacityAlways == Spec => []NoStrandedCapacity
<1>1. Inv => NoStrandedCapacity
  <2> SUFFICES ASSUME Inv, NEW q \in Active, NEW c \in Classes, Startable(q, c)
               PROVE  \/ requests > 0
                      \/ running /\ dirty
                      \/ c \in pulses[q] \cup fresh[q]
                      \/ reserved[q][c] > 0
                      \/ running /\ InRound(q, c)
                      \/ c = "SPECULATIVE" /\ (StandardPending \/ Live # Active)
    BY DEF NoStrandedCapacity
  <2>1. Comes(q, c)
    BY DEF Inv, DrainComing
  <2>2. <<q, c>> \in Range(todo) => \E i \in DOMAIN todo : todo[i] = <<q, c>>
    BY DEF Range
  <2> QED BY <2>1, <2>2 DEF Comes, InRound
<1> QED BY <1>1, InitInv, NextInv, PTL DEF Spec

=============================================================================
