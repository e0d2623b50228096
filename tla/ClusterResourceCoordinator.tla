--------------------- MODULE ClusterResourceCoordinator ---------------------
(***************************************************************************)
(* The shares of the cluster that queries run in:                          *)
(* ClusterQueryResourceCoordinator of duckdb/runners/ray/                  *)
(* cluster_resource_coordinator.py, with the operations of the driver that *)
(* drive it (_register_query_resources, _maintain_query_resources_once,    *)
(* _release_query_resources and _synchronize_query_allocations).  The      *)
(* driver runs each of them under _query_resource_lock, so each is a step. *)
(*                                                                         *)
(* The driver registers every query with weight 1 and priority 0, so the   *)
(* queries are served in the order of their registration.  A rebalance     *)
(* gives every allocation the new generation, and the driver reads them    *)
(* all before it gives up the lock: a generation is not kept.              *)
(***************************************************************************)
EXTENDS ResourceVectors

CONSTANTS
    Queries,
    Actors,         \* actor_bundles of a query's demand, a sequence of vectors
    Tasks,          \* task_bundles
    Capacities,     \* the node capacities that Ray may report: node -> vector
    None

(* What the module that instantiates this one assumes of its constants.    *)
DemandsWellFormed ==
    /\ \A q \in Queries : Range(Actors[q]) \cup Range(Tasks[q]) \subseteq Vectors
    /\ \A c \in Capacities : /\ DOMAIN c \subseteq Nat /\ Range(c) \subseteq Vectors
                             /\ \E n \in DOMAIN c : FitsWithin(Vec(1, 1), c[n])

VARIABLES
    nodes,          \* _nodes
    order,          \* the keys of _queries, in the order of their sequence
    desired,        \* demand.desired of each
    observed,       \* observed_usage of each
    placed,         \* actor_placements of each: the nodes of its actor bundles
    lost,           \* the queries with actor_placement_lost
    share,          \* node_allocations of each
    state,          \* state of each
    used,           \* usage that the query's resource manager reports
    open,           \* the queries whose manager admits tasks
    submitted       \* the queries that have been planned: an id is used once

vars == <<nodes, order, desired, observed, placed, lost, share, state, used, open, submitted>>

Registered == Range(order)
SumOf(bundles) == FoldLeft(Plus, Zero, bundles)
Minimum(q) == Plus(SumOf(Actors[q]), SumOf(Tasks[q]))
InTurn(Step(_, _), first, seq) == FoldLeft(LAMBDA acc, x : With(acc, LAMBDA a : Step(a, x)), first, seq)
TotalOf(f) == Total(LAMBDA n : f[n], DOMAIN f)

-----------------------------------------------------------------------------
(* Placement.                                                              *)

(* _place_bundle: best fit by heap; None when no node has room.             *)
PlaceBundle(v, room) ==
    LET candidates == {n \in DOMAIN room : FitsWithin(v, room[n])}
    IN IF candidates = {} THEN None ELSE MinBy(candidates, LAMBDA n : <<room[n].heap_bytes - v.heap_bytes, n>>)

(* One bundle after the other, until one has no place.                      *)
PlaceNext(acc, v) ==
    With(PlaceBundle(v, acc.room), LAMBDA n :
        IF ~acc.ok \/ n = None THEN [acc EXCEPT !.ok = FALSE]
        ELSE [ok |-> TRUE, room |-> [acc.room EXCEPT ![n] = Minus(@, v)], at |-> Append(acc.at, n)])
PlaceBundles(bundles, room) == InTurn(PlaceNext, [ok |-> TRUE, room |-> room, at |-> <<>>], bundles)

(* What bundles at those nodes take of each node.                           *)
Taken(bundles, at, N) == [n \in N |-> SumOf(SelectSeq([i \in DOMAIN at |-> IF at[i] = n THEN bundles[i] ELSE Zero],
                                                      LAMBDA v : v # Zero))]
PlusNodes(f, g) == [n \in DOMAIN f |-> Plus(f[n], g[n])]
MinusNodes(f, g) == [n \in DOMAIN f |-> Minus(f[n], g[n])]

(* _place_divisible: each dimension by itself, the emptiest node first.     *)
PlaceDivisible(v, room) ==
    LET before(n, f) == {m \in DOMAIN room : room[m][f] > room[n][f] \/ (room[m][f] = room[n][f] /\ m < n)}
        part(n, f) == Min({room[n][f], Positive(v[f] - MapThenSumSet(LAMBDA m : room[m][f], before(n, f)))})
    IN [n \in DOMAIN room |-> Vec(part(n, "heap_bytes"), part(n, "object_store_bytes"))]

-----------------------------------------------------------------------------
(* _weighted_drf_extras: what the admitted queries, a sequence, get of the  *)
(* capacity that their minimums leave.                                     *)

(* allocation_at a level, the rational l[1] / l[2] in units of Share.        *)
AtLevel(l, rooms, total) ==
    [q \in DOMAIN rooms |->
        LET dominant == Share(rooms[q], total)
            scaled(f) == IF l[1] >= l[2] * dominant THEN rooms[q][f] ELSE (rooms[q][f] * l[1]) \div (l[2] * dominant)
        IN IF dominant = 0 THEN Zero ELSE Vec(scaled("heap_bytes"), scaled("object_store_bytes"))]

(* The bisection ends just below the first level that is not feasible: an   *)
(* allocation only changes at a level where a byte count becomes whole.    *)
HighestFeasible(rooms, extra, total) ==
    LET less(l, m) == l[1] * m[2] < m[1] * l[2]
        levels == {<<0, 1>>} \cup UNION {{<<k * Share(rooms[q], total), rooms[q][f]>> : k \in 1..rooms[q][f]} :
                                         <<q, f>> \in {p \in (DOMAIN rooms) \X (DOMAIN Zero) : rooms[p[1]][p[2]] > 0}}
        highest(F) == CHOOSE l \in F : \A m \in F : ~less(l, m)
    IN With(levels, LAMBDA L : With({l \in L : FitsWithin(TotalOf(AtLevel(l, rooms, total)), extra)}, LAMBDA F :
            AtLevel(highest({l \in F : \A m \in L \ F : less(l, m)}), rooms, total)))

(* The bytes that flooring left go to the lowest dominant share first.      *)
WithTail(given, rooms, extra, total, admitted, f) ==
    LET left == extra[f] - TotalOf(given)[f]
        wants(q) == rooms[q][f] - given[q][f]
        rank(q) == <<Share(Plus(Minimum(q), given[q]), total), CHOOSE i \in DOMAIN admitted : admitted[i] = q>>
        before(q) == {p \in DOMAIN rooms : LexLess(rank(p), rank(q))}
        more(q) == Min({wants(q), Positive(left - MapThenSumSet(wants, before(q)))})
    IN [q \in DOMAIN rooms |-> [given[q] EXCEPT ![f] = @ + more(q)]]

(* Mutant: what the bisection leaves is not given out.                      *)
ExtrasNoTail(admitted, desires, extra, total) ==
    With([q \in Range(admitted) |-> Minus(desires[q], Minimum(q))], LAMBDA rooms :
        IF extra = Zero \/ \A q \in DOMAIN rooms : rooms[q] = Zero THEN [q \in DOMAIN rooms |-> Zero]
        ELSE HighestFeasible(rooms, extra, total))

Extras(admitted, desires, extra, total) ==
    With([q \in Range(admitted) |-> Minus(desires[q], Minimum(q))], LAMBDA rooms :
        IF extra = Zero \/ \A q \in DOMAIN rooms : rooms[q] = Zero THEN [q \in DOMAIN rooms |-> Zero]
        ELSE With(HighestFeasible(rooms, extra, total), LAMBDA given :
             With(WithTail(given, rooms, extra, total, admitted, "heap_bytes"), LAMBDA heap :
                  WithTail(heap, rooms, extra, total, admitted, "object_store_bytes"))))

-----------------------------------------------------------------------------
(* _rebalance_locked, of a record of the variables it starts from.          *)

(* The placements of actors come first: a query whose placement no longer   *)
(* fits has lost it for good.                                              *)
(* Mutant: the room of the actors stays available.                          *)
PinQueryForgetsRoom(S, acc, q) ==
    With(MinusNodes(acc.room, Taken(Actors[q], S.placed[q], DOMAIN acc.room)), LAMBDA room :
        IF q \in S.lost \/ S.placed[q] = <<>> THEN acc
        ELSE IF Range(S.placed[q]) \subseteq DOMAIN room /\ \A n \in DOMAIN room : FitsWithin(Zero, room[n])
             THEN [acc EXCEPT !.pinned = @ \cup {q}]
             ELSE [acc EXCEPT !.lost = @ \cup {q}])

(* Mutant: actors are placed anew on every rebalance.                       *)
PinQueryMigrates(S, acc, q) ==
    With(MinusNodes(acc.room, Taken(Actors[q], S.placed[q], DOMAIN acc.room)), LAMBDA room :
        IF q \in S.lost \/ S.placed[q] = <<>> THEN acc
        ELSE IF Range(S.placed[q]) \subseteq DOMAIN room /\ \A n \in DOMAIN room : FitsWithin(Zero, room[n])
             THEN [acc EXCEPT !.room = room, !.pinned = @ \cup {q}]
             ELSE acc)

PinQuery(S, acc, q) ==
    With(MinusNodes(acc.room, Taken(Actors[q], S.placed[q], DOMAIN acc.room)), LAMBDA room :
        IF q \in S.lost \/ S.placed[q] = <<>> THEN acc
        ELSE IF Range(S.placed[q]) \subseteq DOMAIN room /\ \A n \in DOMAIN room : FitsWithin(Zero, room[n])
             THEN [acc EXCEPT !.room = room, !.pinned = @ \cup {q}]
             ELSE [acc EXCEPT !.lost = @ \cup {q}])
Pin(S) ==
    InTurn(LAMBDA acc, q : PinQuery(S, acc, q), [room |-> S.nodes, pinned |-> {}, lost |-> S.lost], S.order)

(* Then the minimum of each query, all of it or nothing.  The actors of a    *)
(* query that is refused for its tasks keep the nodes tried for them.      *)
AdmitQuery(S, P, acc, q) ==
    LET N == DOMAIN acc.room
        isPinned == q \in P.pinned
        share_(at, tasks) == PlusNodes(Taken(Actors[q], at, N), Taken(Tasks[q], tasks, N))
    IN With(PlaceBundles(IF isPinned THEN <<>> ELSE Actors[q], acc.room), LAMBDA actors :
       With(PlaceBundles(Tasks[q], actors.room), LAMBDA tasks :
       With(IF isPinned THEN S.placed[q] ELSE actors.at, LAMBDA at :
            IF q \in P.lost \/ ~actors.ok THEN acc
            ELSE IF ~tasks.ok
            THEN [acc EXCEPT !.placed[q] = at, !.share[q] = share_(IF isPinned THEN at ELSE <<>>, <<>>)]
            ELSE [room |-> tasks.room, admitted |-> Append(acc.admitted, q),
                  placed |-> [acc.placed EXCEPT ![q] = at], share |-> [acc.share EXCEPT ![q] = share_(at, tasks.at)]])))
Admit(S, P) ==
    InTurn(LAMBDA acc, q : AdmitQuery(S, P, acc, q),
           [room |-> P.room, admitted |-> <<>>, placed |-> [q \in Range(S.order) |-> <<>>],
            share |-> [q \in Range(S.order) |-> [n \in DOMAIN S.nodes |-> Zero]]], S.order)

(* Then the extras of the admitted queries, onto the nodes.                  *)
GiveExtra(extras, acc, q) ==
    With(PlaceDivisible(extras[q], acc.room), LAMBDA parts :
        [room |-> MinusNodes(acc.room, parts), share |-> [acc.share EXCEPT ![q] = PlusNodes(@, parts)]])
GiveExtras(S, A) ==
    With(Extras(A.admitted, S.desired, TotalOf(A.room), TotalOf(S.nodes)), LAMBDA extras :
        InTurn(LAMBDA acc, q : GiveExtra(extras, acc, q), [room |-> A.room, share |-> A.share], A.admitted))

(* Mutant: a query that has its actors counts as running.                   *)
OutcomePinnedRuns(S, P, A, share_) ==
    [S EXCEPT !.placed = A.placed, !.lost = P.lost] @@
    [share |-> share_,
     state |-> [q \in Range(S.order) |->
                 IF q \in P.lost THEN "ACTOR_PLACEMENT_LOST"
                 ELSE IF ~FitsWithin(S.observed[q], TotalOf(share_[q])) THEN "ALLOCATION_DEBT"
                 ELSE IF q \in P.pinned \cup Range(A.admitted) THEN "RUNNING"
                 ELSE "PENDING_RESOURCES"]]

Outcome(S, P, A, share_) ==
    [S EXCEPT !.placed = A.placed, !.lost = P.lost] @@
    [share |-> share_,
     state |-> [q \in Range(S.order) |->
                 IF q \in P.lost THEN "ACTOR_PLACEMENT_LOST"
                 ELSE IF ~FitsWithin(S.observed[q], TotalOf(share_[q])) THEN "ALLOCATION_DEBT"
                 ELSE IF q \in Range(A.admitted) THEN "RUNNING"
                 ELSE "PENDING_RESOURCES"]]
RebalanceOf(S) ==
    With(Pin(S), LAMBDA P : With(Admit(S, P), LAMBDA A : With(GiveExtras(S, A), LAMBDA G : Outcome(S, P, A, G.share))))
Rebalance(S) == With(S, RebalanceOf)

-----------------------------------------------------------------------------
(* The operations of the driver.                                           *)

Current ==
    [nodes |-> nodes, order |-> order, desired |-> desired, observed |-> observed, placed |-> placed, lost |-> lost]
OnNodes(S, c) == [S EXCEPT !.nodes = c]
Adding(S, q) ==
    [S EXCEPT !.order = Append(@, q), !.desired = @ @@ (q :> TotalOf(S.nodes)), !.observed = @ @@ (q :> Zero),
              !.placed = @ @@ (q :> <<>>)]
Removing(S, q) ==
    LET left == Range(S.order) \ {q}
    IN [S EXCEPT !.order = SelectSeq(@, LAMBDA p : p # q), !.desired = Restrict(@, left),
                 !.observed = Restrict(@, left), !.placed = Restrict(@, left), !.lost = @ \ {q}]

(* What the next rebalance starts from, when the last one ended in R.        *)
After(R) == Restrict(R, DOMAIN Current)

(* The coordinator ends in R, and _synchronize_query_allocations publishes   *)
(* it: update_allocation opens or closes admission, and a query that has   *)
(* lost its placement is cancelled.                                        *)
Publish(R) ==
    LET moved == {q \in Range(R.order) \cap Registered : placed[q] # <<>> /\ R.placed[q] # placed[q]}
    IN /\ nodes' = R.nodes /\ order' = R.order /\ desired' = R.desired /\ observed' = R.observed
       /\ placed' = R.placed /\ lost' = R.lost /\ share' = R.share /\ state' = R.state
       /\ open' = {q \in Range(R.order) \ moved : R.state[q] = "RUNNING"}
       /\ used' = [q \in Range(R.order) |-> IF q \notin Registered \/ q \in moved THEN Zero ELSE used[q]]

(* _register_query_resources: with the capacity just read, a query whose     *)
(* minimum exceeds the cluster is refused, and one whose minimum has no    *)
(* place now is taken back.                                                *)
Register(q, c) ==
    /\ q \notin submitted
    /\ submitted' = submitted \cup {q}
    /\ \E R \in {Rebalance(OnNodes(Current, c))} :
        IF ~FitsWithin(Minimum(q), TotalOf(c)) THEN Publish(R)
        ELSE \E added \in {Rebalance(Adding(After(R), q))} :
                \/ /\ added.state[q] = "RUNNING"
                   /\ Publish(added)
                \/ /\ added.state[q] # "RUNNING"
                   /\ \E back \in {Rebalance(Removing(After(added), q))} : Publish(back)

(* _maintain_query_resources_once: the capacity that Ray reports, or the     *)
(* last one known, and then the usage that the managers report.            *)
Maintain(c) ==
    /\ UNCHANGED submitted
    /\ \E R \in {Rebalance(OnNodes(Current, c))} :
        LET usage == [q \in Registered |-> IF q \in R.lost \ lost THEN Zero ELSE used[q]]
        IN \E R2 \in {Rebalance([After(R) EXCEPT !.observed = usage])} : Publish(R2)

(* _release_query_resources.                                                *)
Release(q) ==
    /\ q \in Registered
    /\ UNCHANGED submitted
    /\ \E R \in {Rebalance(Removing(Current, q))} : Publish(R)

(* The tasks of an open query take all of its share, or end.                 *)
Use(q) ==
    /\ q \in open
    /\ used' = [used EXCEPT ![q] = TotalOf(share[q])]
    /\ UNCHANGED <<nodes, order, desired, observed, placed, lost, share, state, open, submitted>>

EndTasks(q) ==
    /\ q \in Registered
    /\ used' = [used EXCEPT ![q] = IF q \in lost THEN Zero ELSE SumOf(Actors[q])]
    /\ UNCHANGED <<nodes, order, desired, observed, placed, lost, share, state, open, submitted>>

Init ==
    /\ nodes \in Capacities
    /\ order = <<>> /\ desired = <<>> /\ observed = <<>> /\ placed = <<>> /\ lost = {}
    /\ share = <<>> /\ state = <<>> /\ used = <<>> /\ open = {} /\ submitted = {}

Next ==
    \/ \E c \in Capacities : Maintain(c) \/ \E q \in Queries : Register(q, c)
    \/ \E q \in Queries : Release(q) \/ Use(q) \/ EndTasks(q)

Spec == Init /\ [][Next]_vars

-----------------------------------------------------------------------------
(* Properties.                                                             *)

(* The shares of the queries on a node never exceed what the node has, with *)
(* the actors, the tasks and the extras of all of them together.           *)
NodesNotOversubscribed ==
    \A n \in DOMAIN nodes : FitsWithin(Total(LAMBDA q : share[q][n], Registered), nodes[n])

(* A query that admits tasks has a node for every actor and room for its     *)
(* whole minimum, and no more than it asked for.                           *)
OpenQueriesHaveMinimum ==
    \A q \in open :
        /\ Len(placed[q]) = Len(Actors[q])
        /\ \A n \in DOMAIN nodes : FitsWithin(Taken(Actors[q], placed[q], DOMAIN nodes)[n], share[q][n])
        /\ FitsWithin(Minimum(q), TotalOf(share[q]))
        /\ FitsWithin(TotalOf(share[q]), desired[q])

(* Nothing is left idle in a dimension while an admitted query could use it. *)
WorkConserving ==
    LET given == Total(LAMBDA q : TotalOf(share[q]), Registered)
    IN \A q \in open, f \in DOMAIN Zero : given[f] < TotalOf(nodes)[f] => TotalOf(share[q])[f] = desired[q][f]

(* The actors of a query are never moved: a placement that was published     *)
(* stays as it is until it is lost, and a loss is never undone.            *)
ActorsStayPut ==
    [][\A q \in Registered : q \in Range(order') =>
        /\ q \in lost => q \in lost' /\ q \notin open'
        /\ placed'[q] = placed[q] \/ (q \in lost' /\ q \notin open')]_vars

=============================================================================
