------------------------ MODULE QueryResourceManager ------------------------
(***************************************************************************)
(* The leases of one query: QueryResourceManager of duckdb/runners/ray/    *)
(* query_resource_manager.py, with the callers that drive it: the driver's *)
(* admission pumps, the FTE scheduler's descriptor probes behind the       *)
(* submission window, and the tasks that hold the leases.                  *)
(*                                                                         *)
(* A task lease is named by its attempt: an attempt has one lease at a     *)
(* time, and only an attempt whose lease was abandoned before it was       *)
(* submitted, and so never produced a block, is leased again.  A           *)
(* continuation credit is named by the attempt that owns it.               *)
(***************************************************************************)
EXTENDS QueryExecutionGraph

CONSTANTS
    Attempts,       \* task attempts
    StageOf,        \* the stage of each
    ParentOf,       \* the FTE attempt that a UDF attempt runs inside, or None
    Upstream,       \* attempts whose output an FTE attempt reads to its end
    Retained,       \* retained_input_bytes of each attempt's request
    Consumes,       \* the blocks a UDF attempt takes as input
    Blocks,         \* output blocks
    ProducerOf,     \* the attempt that produces each
    SizeOf,         \* size_bytes of each
    Histories,      \* the sequences of allocations the coordinator may publish
    SinkStages,     \* the FTE stages that are write sinks
    RatioInverse,   \* 1 / reservation_ratio
    MaxFailures,    \* bound: tasks that fail or are cancelled
    MaxAbandons,    \* bound: leases given up before submission
    Cancels,        \* bound: whether the query may be cancelled
    None

ASSUME AttemptAssumption ==
    /\ \A a \in Attempts : /\ StageOf[a] \in Stages
                           /\ Retained[a] \in 0..StageSpec[StageOf[a]].per_task.object_store_bytes
    /\ \A b \in Blocks : ProducerOf[b] \in Attempts /\ SizeOf[b] \in Nat \ {0}
    /\ RatioInverse \in Nat \ {0}

VARIABLES
    leases,         \* _task_leases: attempt -> node, actor_index, liveness
    credits,        \* _continuation_credits, by the attempt that owns them
    byBorrower,     \* _continuation_credit_by_borrower
    slots,          \* _active_actor_slots and _queued_actor_slot_leases: the
                    \* attempts of each actor slot, the active one first
    terminal,       \* _terminal_attempts
    waiting,        \* keys of _waiting_task_inputs, in insertion order
    livenessTask,   \* _active_liveness_task_lease_id
    started,        \* _started_stage_ids
    outputs,        \* _output_leases: block -> state, credit
    waitingOut,     \* keys of _waiting_output_blocks, in insertion order
    terminalOut,    \* _terminal_output_blocks
    livenessOut,    \* _active_liveness_output_lease_id
    runnable, ready, completed,     \* the stages that are
    consumerWaits,  \* _external_consumer_waiting
    cancelled,      \* _cancelled
    open,           \* _allocation_admission_open
    closing,        \* _query_resource_closing_queries holds the query
    allocations,    \* the allocations that the coordinator publishes, in order
    gen,            \* index of the one in force
    news,           \* who has not yet seen the latest admission epoch
    queryFailed,    \* the FTE scheduler has failed the query
    broken,         \* FTE attempts that failed, or had a child fail
    failures, abandons

taskVars == <<leases, credits, byBorrower, slots, terminal, waiting, livenessTask, started>>
outputVars == <<outputs, waitingOut, terminalOut, livenessOut>>
stageVars == <<runnable, ready, completed>>
queryVars == <<consumerWaits, cancelled, open, closing, allocations, gen>>
envVars == <<queryFailed, broken, failures, abandons>>
vars == <<taskVars, outputVars, stageVars, queryVars, news, envVars>>

FteStages == {s \in Stages : StageSpec[s].backend = "ray_worker"}
FteAttempts == {a \in Attempts : StageOf[a] \in FteStages}
SpecOf(a) == StageSpec[StageOf[a]]
Children(a) == {c \in Attempts : ParentOf[c] = a}
BlocksOf(a) == {b \in Blocks : ProducerOf[b] = a}

(* _publish_change_locked: both driver pumps are signalled, and no stage's  *)
(* recorded denial is of the current epoch any more.                       *)
Listeners == {"task", "output"} \cup FteStages
Publish == news' = Listeners

-----------------------------------------------------------------------------
(* The allocation in force.                                                *)

Allocation == allocations[gen]
Nodes == DOMAIN Allocation.nodes
Capacity(n) == Allocation.nodes[n]
Limit == Total(Capacity, Nodes)
PlacementsOf(s) == {p \in Allocation.placements : p.stage = s}

Active == DOMAIN leases
ActiveOf(s) == {a \in Active : StageOf[a] = s}

(* retained input plus output window of one attempt.                        *)
Resources(a) == [SpecOf(a).per_task EXCEPT !.object_store_bytes = Retained[a]]

(* Mutant: the output window is not committed.                              *)
AttemptCommitmentNoWindow(a) == Resources(a)

AttemptCommitment(a) == [Resources(a) EXCEPT !.object_store_bytes = @ + SpecOf(a).window]

-----------------------------------------------------------------------------
(* Usage.                                                                  *)

Bytes(B) == MapThenSumSet(LAMBDA b : SizeOf[b], B)
OfCredit(c) == {b \in DOMAIN outputs : outputs[b].credit = c}
Idle(c) == credits[c].borrower \notin Active

(* _borrowed_task_usage_locked: what the borrower adds to its credit.       *)
BorrowedUsage(a, c) ==
    LET store == Retained[a] + Max({SpecOf(a).window, Bytes(OfCredit(c))})
    IN PositiveDifference([Resources(a) EXCEPT !.object_store_bytes = store], credits[c].resources)

IdleExcess(c) == Vec(0, Positive(Bytes(OfCredit(c)) - credits[c].resources.object_store_bytes))

(* _live_output_bytes_for_task_locked.                                      *)
LiveOutput(a) ==
    IF a \in DOMAIN byBorrower THEN Bytes(OfCredit(byBorrower[a]))
    ELSE Bytes({b \in DOMAIN outputs : ProducerOf[b] = a})

TaskUsage(a) ==
    IF a \in DOMAIN byBorrower THEN BorrowedUsage(a, byBorrower[a])
    ELSE [Resources(a) EXCEPT !.object_store_bytes = @ + Max({SpecOf(a).window, LiveOutput(a)})]

(* Blocks that neither a live task nor a credit accounts for.               *)
Uncovered(B) ==
    Bytes({b \in B : outputs[b].credit \notin DOMAIN credits /\ ProducerOf[b] \notin Active})

(* _uncovered_inactive_output_bytes_locked for the query or for a node.     *)
UncoveredBytes(B) ==
    Uncovered(B) + MapThenSumSet(LAMBDA c : IdleExcess(c).object_store_bytes,
                                 {c \in DOMAIN credits : Idle(c) /\ OfCredit(c) \cap B # {}})

ResidentUsage(P) == Total(LAMBDA p : StageSpec[p.stage].resident, P)

Usage(P, C, A, store) ==
    Plus(Plus(ResidentUsage(P), Total(LAMBDA c : credits[c].resources, C)),
         Plus(Total(TaskUsage, A), Vec(0, store)))

QueryUsage == Usage(Allocation.placements, DOMAIN credits, Active, UncoveredBytes(DOMAIN outputs))

NodeUsage(n) ==
    Usage({p \in Allocation.placements : p.node = n},
          {c \in DOMAIN credits : credits[c].node = n},
          {a \in Active : leases[a].node = n},
          UncoveredBytes({b \in DOMAIN outputs : outputs[b].node = n}))

(* _continuation_output_excess_by_stage_locked: an idle credit covers the   *)
(* blocks of its stages in topological order.                              *)
StageExcess(s) ==
    LET of(c, S) == Bytes({b \in OfCredit(c) : StageOf[ProducerOf[b]] \in S})
        before == {t \in Stages : Rank(t) < Rank(s)}
        left(c) == Positive(credits[c].resources.object_store_bytes - of(c, before))
    IN MapThenSumSet(LAMBDA c : Positive(of(c, {s}) - left(c)), {c \in DOMAIN credits : Idle(c)})

StageUsage(s) ==
    Usage(PlacementsOf(s),
          {c \in DOMAIN credits : credits[c].reserve = s},
          ActiveOf(s),
          Uncovered({b \in DOMAIN outputs : StageOf[ProducerOf[b]] = s}) + StageExcess(s))

-----------------------------------------------------------------------------
(* Soft limits: each live stage is guaranteed a share of every dimension,   *)
(* and what no share covers is a pool for all.                             *)

PendingOf(s) == {a \in Range(waiting) : StageOf[a] = s}

LiveDemand(f, asking) ==
    {s \in (runnable \cup {asking}) \ completed :
        /\ \/ s = asking \/ PendingOf(s) # {} \/ ActiveOf(s) # {}
           \/ /\ f = "object_store_bytes"
              /\ \E b \in DOMAIN outputs \cup Range(waitingOut) : StageOf[ProducerOf[b]] = s
        /\ Commitment(s)[f] > 0}

(* _dimension_reservation_stage_ids_locked: an FTE request also counts the  *)
(* UDF stages that live FTE stages still have to reach.                    *)
SharingStages(f, asking) ==
    LET live == LiveDemand(f, asking)
        continuations == UNION {ReachableUdf(p) : p \in live \cap FteStages} \ completed
    IN IF asking \in FteStages THEN live \cup {s \in continuations : Commitment(s)[f] > 0} ELSE live

(* _stage_dimension_maximum_locked.                                         *)
StageMaximum(s, f) ==
    LET bounds == {Limit[g] \div Commitment(s)[g] : g \in {h \in DOMAIN Zero : Commitment(s)[h] > 0}}
                  \cup (IF StageSpec[s].backend = "ray_actor" THEN {StageSpec[s].actors}
                        ELSE IF StageSpec[s].concurrency = None THEN {} ELSE {StageSpec[s].concurrency})
    IN IF bounds = {} THEN Limit[f] ELSE Commitment(s)[f] * Min(bounds)

(* _stage_soft_block_reason_locked in one dimension, for amount > 0: the     *)
(* share that each of the stages D is guaranteed, and whether the amount   *)
(* goes beyond the share of s and what the pool has left.                  *)
SharesOf(f, D, minimum) ==
    LET share(t) == IF minimum <= Limit[f]
                    THEN Commitment(t)[f] + (Limit[f] - minimum) \div (RatioInverse * Cardinality(D))
                    ELSE (Limit[f] * Commitment(t)[f]) \div (RatioInverse * minimum)
    IN [t \in D |-> Min({share(t), StageMaximum(t, f)})]
OverShare(s, amount, limit, reserved, used) ==
    LET pool == Positive(limit - SumFunction(reserved))
        borrowed == MapThenSumSet(LAMBDA t : Positive(used[t] - reserved[t]), DOMAIN used)
    IN /\ used[s] + amount > reserved[s]
       /\ borrowed + amount - Positive(reserved[s] - used[s]) > pool
OverSoftLimitAmong(s, f, amount, D) ==
    OverShare(s, amount, Limit[f], SharesOf(f, D, MapThenSumSet(LAMBDA t : Commitment(t)[f], D)),
              [t \in D |-> StageUsage(t)[f]])
OverSoftLimit(s, f, amount) == OverSoftLimitAmong(s, f, amount, SharingStages(f, s))

OverSoftLimits(s, v) == \E f \in DOMAIN v : v[f] > 0 /\ OverSoftLimit(s, f, v[f])

-----------------------------------------------------------------------------
(* Continuations: what admission keeps back so that a producer can drain.   *)

(* _continuation_credit_template_locked.                                    *)
CreditStages(s) ==
    IF s \in FteStages THEN {t \in ReachableUdf(s) \ completed : StageSpec[t].backend = "ray_task"} ELSE {}
CreditResources(s) == ComponentMax({Commitment(t) : t \in CreditStages(s)})
ReservationStage(s) == MinBy(CreditStages(s), LAMBDA t : <<-Share(Commitment(t), Limit), Rank(t)>>)

Reservation(id, v, nodes) == [id |-> id, resources |-> v, nodes |-> nodes]

(* _downstream_reservations_locked.                                         *)
DownstreamReservations(s) ==
    LET reachable == Reachable(s) \ completed
        inactive(S) == {t \in S \ completed : ActiveOf(t) = {} /\ Commitment(t) # Zero}
        actors == {t \in reachable : StageSpec[t].backend = "ray_actor"}
        afterActor == {t \in reachable : StageSpec[s].backend = "ray_actor" \/ \E c \in actors : t \in Reachable(c)}
        fte == inactive(SeparateSlotStages(s))
        freeNodes(t) == {p.node : p \in {q \in PlacementsOf(t) : slots[<<t, q.index>>] = <<>>}}
    IN {Reservation("fte", ComponentMax({Commitment(u) : u \in fte}), Nodes) : t \in fte}
       \cup {Reservation(t, Commitment(t), Nodes) : t \in {u \in inactive(afterActor) : StageSpec[u].backend = "ray_task"}}
       \cup {Reservation(t, Commitment(t), freeNodes(t)) : t \in inactive(actors)}

(* _remaining_preserves_downstream_locked: the reservations can all be      *)
(* placed in what remains.                                                 *)
PreservesDownstream(remaining, R) ==
    \E at \in [R -> DOMAIN remaining] :
        /\ \A r \in R : at[r] \in r.nodes
        /\ \A n \in DOMAIN remaining : FitsWithin(Total(LAMBDA r : r.resources, {r \in R : at[r] = n}), remaining[n])

(* The increase in usage when attempt a borrows the idle credit c.           *)
BorrowIncrease(a, c) == PositiveDifference(BorrowedUsage(a, c), IdleExcess(c))

(* _available_continuation_credit_locked: None when there is no candidate.   *)
CreditFor(a, n) ==
    LET s == StageOf[a]
        candidates == {c \in DOMAIN credits :
            /\ ContinuationParents(s) # {}
            /\ credits[c].active /\ credits[c].borrower = None
            /\ s \in credits[c].eligible
            /\ FitsWithin(Commitment(s), credits[c].resources)
            /\ n \in {None, credits[c].node}
            /\ credits[c].node \in Nodes}
        exceeded(c) == Cardinality(ExceededDimensions(Plus(QueryUsage, BorrowIncrease(a, c)), Limit))
                       + Cardinality(ExceededDimensions(Plus(NodeUsage(credits[c].node), BorrowIncrease(a, c)),
                                                        Capacity(credits[c].node)))
        key(c) == LET v == BorrowIncrease(a, c)
                  IN <<exceeded(c), Share(v, Limit), v.heap_bytes, v.object_store_bytes>>
    IN IF candidates = {} THEN None ELSE MinBy(candidates, key)

-----------------------------------------------------------------------------
(* Task admission: _normal_task_block_reason_locked.  A verdict is fatal,   *)
(* wait, soft (blocked by a soft limit only) or grant; the last two carry  *)
(* the plan of the grant.                                                  *)

Refusal(a, verdict) == [attempt |-> a, verdict |-> verdict, plan |-> None]

FreeActors(s) == {p \in PlacementsOf(s) : Len(slots[<<s, p.index>>]) < StageSpec[s].prefetch}

(* _select_task_node_locked and _select_task_and_credit_nodes_locked: the   *)
(* <<task node, credit node>> pairs with room for the task, for its new    *)
(* credit and for the reservations, and what each pair leaves.             *)
NodesWithoutDebt == {n \in Nodes : FitsWithin(NodeUsage(n), Capacity(n))}
Proposed(at, need, credit, n) ==
    Plus(IF n = at[1] THEN need ELSE Zero, IF n = at[2] THEN credit ELSE Zero)
RoomLeft(at, need, credit) ==
    [n \in NodesWithoutDebt |-> Minus(Capacity(n), Plus(NodeUsage(n), Proposed(at, need, credit, n)))]
FeasiblePlacements(pairs, need, credit, R) ==
    {at \in pairs :
        /\ {at[1], at[2]} \subseteq NodesWithoutDebt
        /\ \A n \in {at[1], at[2]} : FitsWithin(Plus(NodeUsage(n), Proposed(at, need, credit, n)), Capacity(n))
        /\ PreservesDownstream(RoomLeft(at, need, credit), R)}
BestPlacement(F, need, credit) ==
    MinBy(F, LAMBDA at : LET left == RoomLeft(at, need, credit)[at[1]]
                         IN <<left.heap_bytes, left.object_store_bytes, at[1], at[2]>>)

(* Whether the request has to wait for query-wide capacity.                 *)
NoQueryCapacity(need, credit, R) ==
    LET after == Plus(QueryUsage, Plus(need, credit))
    IN \/ ~FitsWithin(QueryUsage, Limit)
       \/ ~FitsWithin(after, Limit)
       \/ ~FitsWithin(Plus(after, Total(LAMBDA r : r.resources, R)), Limit)

(* The stage would run ahead of a consumer that has not started.            *)
AheadOfConsumer(s) == ActiveOf(s) # {} /\ (DirectDownstream(s) \cap runnable) \ (started \cup completed) # {}

Plan(a, n, at, borrowed) ==
    LET s == StageOf[a]
        free == {p \in FreeActors(s) : p.node = at[1]}
        best == MinBy(free, LAMBDA p : <<Len(slots[<<s, p.index>>]), p.index>>)
    IN [node |-> at[1], borrow |-> borrowed,
        actor |-> IF StageSpec[s].backend = "ray_actor" THEN best.index ELSE None,
        creditNode |-> IF CreditStages(s) = {} THEN None ELSE at[2]]

(* The verdict on a request of need and credit that can go to any of pairs,  *)
(* of which those in feasible have the room.                               *)
VerdictAmong(a, n, borrowed, need, credit, R, pairs, feasible) ==
    LET s == StageOf[a]
        soft == AheadOfConsumer(s) \/ (borrowed = None /\ OverSoftLimits(s, AttemptCommitment(a)))
    IN IF NoQueryCapacity(need, credit, R) THEN Refusal(a, "wait")
       ELSE IF pairs = {} THEN Refusal(a, "fatal")
       ELSE IF feasible = {} THEN Refusal(a, "wait")
       ELSE [attempt |-> a, verdict |-> IF soft THEN "soft" ELSE "grant",
             plan |-> Plan(a, n, BestPlacement(feasible, need, credit), borrowed)]
VerdictOn(a, n, borrowed, need, credit, R, pairs) ==
    VerdictAmong(a, n, borrowed, need, credit, R, pairs, FeasiblePlacements(pairs, need, credit, R))

(* The nodes where the task can run, and its new credit be held.            *)
Pairs(s, n, borrowed, need, credit) ==
    LET allowed == IF borrowed # None THEN {credits[borrowed].node}
                   ELSE IF StageSpec[s].backend = "ray_actor" THEN {p.node : p \in FreeActors(s)} ELSE Nodes
        taskNodes == {m \in Nodes \cap allowed : n \in {None, m} /\ FitsWithin(need, Capacity(m))}
        creditNodes == {m \in Nodes : FitsWithin(credit, Capacity(m))}
    IN {at \in taskNodes \X Nodes : IF CreditStages(s) = {} THEN at[1] = at[2] ELSE at[2] \in creditNodes}

NeedOf(a, borrowed) == IF borrowed = None THEN AttemptCommitment(a) ELSE BorrowIncrease(a, borrowed)
VerdictFor(a, n, borrowed, need, credit) ==
    VerdictOn(a, n, borrowed, need, credit, DownstreamReservations(StageOf[a]),
              Pairs(StageOf[a], n, borrowed, need, credit))
VerdictBorrowing(a, n, borrowed) == VerdictFor(a, n, borrowed, NeedOf(a, borrowed), CreditResources(StageOf[a]))
PlacedVerdict(a, n) == VerdictBorrowing(a, n, CreditFor(a, n))

(* The stages count as runnable when they are in run: a descriptor makes its *)
(* stage runnable before it is evaluated.                                  *)
Evaluate(a, n, run) ==
    LET s == StageOf[a]
        full == StageSpec[s].concurrency # None /\ Cardinality(ActiveOf(s)) >= StageSpec[s].concurrency
    IN IF cancelled THEN Refusal(a, "fatal")
       ELSE IF ~open THEN Refusal(a, "wait")
       ELSE IF s \in completed THEN Refusal(a, "fatal")
       ELSE IF s \notin run \/ s \notin ready THEN Refusal(a, "wait")
       ELSE IF a \in terminal \cup Active THEN Refusal(a, "fatal")
       ELSE IF full \/ (StageSpec[s].backend = "ray_actor" /\ FreeActors(s) = {}) THEN Refusal(a, "wait")
       ELSE IF ~FitsWithin(AttemptCommitment(a), Limit) THEN Refusal(a, "fatal")
       ELSE PlacedVerdict(a, n)

-----------------------------------------------------------------------------
(* Arbitration: _select_waiting_task_evaluation_locked over a set of         *)
(* evaluations, with the attempts in registration order.                   *)

Position(a, queue) == CHOOSE i \in DOMAIN queue : queue[i] = a
WaitingRank(a, queue) == <<ReverseRank(StageOf[a]), Cardinality(ActiveOf(StageOf[a])), Position(a, queue)>>
FirstOf(E, queue) == MinBy(E, LAMBDA e : WaitingRank(e.attempt, queue))

Evaluations == {Evaluate(a, None, runnable) : a \in Range(waiting)}
Of(E, verdict) == {e \in E : e.verdict = verdict}

Selected(E, queue) ==
    LET soft == Of(E, "soft")
        starving == {e \in soft : PendingOf(StageOf[e.attempt]) # {} /\ ActiveOf(StageOf[e.attempt]) = {}}
    IN IF Of(E, "grant") # {} THEN FirstOf(Of(E, "grant"), queue)
       ELSE IF starving # {} THEN FirstOf(starving, queue)
       ELSE IF soft # {} THEN FirstOf(soft, queue)
       ELSE None

(* A soft-blocked task is admitted all the same when nothing else can keep   *)
(* the query going.                                                        *)
LivenessTaskAllowed == livenessTask = None /\ (Active = {} \/ consumerWaits)
Admits(e) == e # None /\ (e.verdict = "grant" \/ LivenessTaskAllowed)
IsSelected(own, E, queue) == own = Selected(E, queue) /\ Admits(own)

-----------------------------------------------------------------------------
(* The life of a lease.                                                     *)

Without(f, x) == Restrict(f, DOMAIN f \ {x})
Drop(queue, x) == SelectSeq(queue, LAMBDA y : y # x)

NewCredit(s, plan) ==
    [eligible |-> CreditStages(s), reserve |-> ReservationStage(s), node |-> plan.creditNode,
     resources |-> CreditResources(s), active |-> TRUE, borrower |-> None]

(* _grant_task_locked.                                                      *)
Grant(a, plan, liveness) ==
    LET s == StageOf[a]
        slot == <<s, plan.actor>>
    IN /\ leases' = leases @@ (a :> [node |-> plan.node, actor |-> plan.actor])
       /\ slots' = IF plan.actor = None THEN slots ELSE [slots EXCEPT ![slot] = Append(@, a)]
       /\ credits' = IF plan.creditNode # None THEN credits @@ (a :> NewCredit(s, plan))
                     ELSE IF plan.borrow # None THEN [credits EXCEPT ![plan.borrow].borrower = a]
                     ELSE credits
       /\ byBorrower' = IF plan.borrow = None THEN byBorrower ELSE byBorrower @@ (a :> plan.borrow)
       /\ waiting' = Drop(waiting, a)
       /\ started' = started \cup {s}
       /\ livenessTask' = IF liveness THEN a ELSE livenessTask
       /\ Publish
       /\ UNCHANGED terminal

(* Mutant: a credit is kept until the blocks are released.                  *)
HandedOffWhenReleased(a, O) == \A b \in DOMAIN O : ProducerOf[b] # a

(* _maybe_return_continuation_credit_locked for attempt a, when the leases   *)
(* of attempts L and the outputs O are left.                               *)
HandedOff(a, O) == \A b \in DOMAIN O : ProducerOf[b] = a => O[b].state \in {"downstream_input", "external_consumer"}
Returns(a, L, O) == a \in DOMAIN byBorrower /\ a \notin L /\ HandedOff(a, O)
CreditsAfterReturn(a, L, O) ==
    LET c == byBorrower[a]
    IN IF ~Returns(a, L, O) THEN credits
       ELSE IF credits[c].active THEN [credits EXCEPT ![c].borrower = None]
       ELSE Without(credits, c)

(* Mutant: the index of the borrowers is not cleared.                       *)
BorrowersNeverReturn(a, L, O) == byBorrower

BorrowersAfterReturn(a, L, O) == IF Returns(a, L, O) THEN Without(byBorrower, a) ELSE byBorrower

(* _delete_continuation_credit_locked, or later when the borrower returns it. *)
CreditsAfterParent(a, C) ==
    IF a \notin DOMAIN C THEN C
    ELSE IF C[a].borrower = None THEN Without(C, a)
    ELSE [C EXCEPT ![a].active = FALSE]

(* Mutant: the lease that leaves is taken for the owner of its slot.        *)
EndLeasePopsOwner(a, O, final) ==
    LET L == Active \ {a}
        slot == <<StageOf[a], leases[a].actor>>
    IN /\ leases' = Without(leases, a)
       /\ slots' = IF leases[a].actor = None THEN slots ELSE [slots EXCEPT ![slot] = Tail(@)]
       /\ credits' = CreditsAfterParent(a, CreditsAfterReturn(a, L, O))
       /\ byBorrower' = BorrowersAfterReturn(a, L, O)
       /\ terminal' = IF final THEN terminal \cup {a} ELSE terminal
       /\ livenessTask' = IF livenessTask = a THEN None ELSE livenessTask
       /\ Publish
       /\ UNCHANGED <<waiting, started>>

(* _on_task_lease_removed_locked and its callers: the next attempt in the    *)
(* actor slot becomes its owner.                                           *)
EndLease(a, O, final) ==
    LET L == Active \ {a}
        slot == <<StageOf[a], leases[a].actor>>
    IN /\ leases' = Without(leases, a)
       /\ slots' = IF leases[a].actor = None THEN slots ELSE [slots EXCEPT ![slot] = Drop(@, a)]
       /\ credits' = CreditsAfterParent(a, CreditsAfterReturn(a, L, O))
       /\ byBorrower' = BorrowersAfterReturn(a, L, O)
       /\ terminal' = IF final THEN terminal \cup {a} ELSE terminal
       /\ livenessTask' = IF livenessTask = a THEN None ELSE livenessTask
       /\ Publish
       /\ UNCHANGED <<waiting, started>>

(* An output lease moves on or goes: its producer may return its credit.     *)
OutputMoved(b, O) ==
    LET a == ProducerOf[b]
    IN /\ credits' = CreditsAfterReturn(a, Active, O)
       /\ byBorrower' = BorrowersAfterReturn(a, Active, O)
       /\ Publish
       /\ UNCHANGED <<leases, slots, terminal, waiting, livenessTask, started>>

-----------------------------------------------------------------------------
(* Task requests.                                                          *)

Doomed(a) == ParentOf[a] \in broken \cup terminal
Known(a) == a \in Active \cup terminal \cup Range(waiting)

(* A partition is ready with its first split: of an attempt that reads the   *)
(* output of others, once one of them has ended.                           *)
CanSubmit(a) ==
    /\ a \in FteAttempts /\ ~Known(a)
    /\ Upstream[a] = {} \/ (Upstream[a] \cap terminal) \ broken # {}
    /\ ~cancelled /\ ~closing /\ ~queryFailed

(* task_eligible_node_ids of an FTE stage: the nodes where the task fits     *)
(* beside the resident actors, its own continuation and the reservations.  *)
BaseRoom ==
    LET resident(n) == ResidentUsage({p \in Allocation.placements : p.node = n})
    IN [n \in {m \in Nodes : FitsWithin(resident(m), Capacity(m))} |-> Minus(Capacity(n), resident(n))]
EligibleNodes(s) ==
    LET asked(n, m, k) == Proposed(<<n, m>>, Commitment(s), CreditResources(s), k)
        fits(n, m) == /\ \A k \in DOMAIN BaseRoom : FitsWithin(asked(n, m, k), BaseRoom[k])
                      /\ PreservesDownstream([k \in DOMAIN BaseRoom |-> Minus(BaseRoom[k], asked(n, m, k))],
                                             DownstreamReservations(s))
    IN IF ~open THEN {} ELSE {n \in DOMAIN BaseRoom : \E m \in DOMAIN BaseRoom : fits(n, m)}

(* FteWorkerPlacementManager.acquire raises before it asks the manager, and  *)
(* the scheduler's handler of the failed reservation fails the query.      *)
AcquireRaises(a) ==
    /\ CanSubmit(a)
    /\ EligibleNodes(StageOf[a]) = {}
    /\ queryFailed' = TRUE
    /\ UNCHANGED <<taskVars, outputVars, stageVars, queryVars, news, broken, failures, abandons>>

(* The single admission probe of a stage, for a worker on node n: acquire,   *)
(* admit_fte_partition_submission, try_acquire_task_descriptor and         *)
(* resolve_fte_partition_submission.  A denial closes the window of the    *)
(* stage until the next change.                                            *)
Probe(a, n) ==
    LET s == StageOf[a]
        run == runnable \cup ({s} \ completed)
        seen == IF run = runnable THEN news ELSE Listeners
    IN /\ CanSubmit(a)
       /\ s \in news
       /\ n \in EligibleNodes(s)
       /\ runnable' = run
       /\ \E own \in {Evaluate(a, n, run)} :
            \E granted \in {IsSelected(own, Evaluations \cup {own}, Append(waiting, a))} :
                \/ /\ granted
                   /\ Grant(a, own.plan, own.verdict = "soft")
                   /\ UNCHANGED queryFailed
                \/ /\ ~granted
                   /\ news' = IF own.verdict = "fatal" THEN seen ELSE seen \ {s}
                   /\ queryFailed' = (queryFailed \/ own.verdict = "fatal")
                   /\ UNCHANGED taskVars
       /\ UNCHANGED <<outputVars, ready, completed, queryVars, broken, failures, abandons>>

(* note_task_waiting, for a nested task whose inputs have been handed over.  *)
NoteTaskWaiting(a) ==
    /\ a \notin FteAttempts /\ ~Known(a) /\ ~closing /\ ~cancelled
    /\ ParentOf[a] \in Active \ broken
    /\ \A b \in Consumes[a] : b \in DOMAIN outputs /\ outputs[b].state = "downstream_input"
    /\ waiting' = Append(waiting, a)
    /\ runnable' = runnable \cup ({StageOf[a]} \ completed)
    /\ Publish
    /\ UNCHANGED <<leases, credits, byBorrower, slots, terminal, livenessTask, started>>
    /\ UNCHANGED <<outputVars, ready, completed, queryVars, envVars>>

(* A request that is refused for good takes its FTE attempt with it.         *)
RefuseTask(a) ==
    /\ waiting' = Drop(waiting, a)
    /\ broken' = broken \cup {ParentOf[a]}
    /\ Publish
    /\ UNCHANGED <<leases, credits, byBorrower, slots, terminal, livenessTask, started>>

(* One run of _run_query_task_admission_pump: try_acquire_next_queued_task    *)
(* resolves at most one waiter, and a grant schedules the next run.        *)
TaskPump ==
    /\ "task" \in news
    /\ \E E \in {Evaluations} : \E chosen \in {Selected(E, waiting)} :
        IF Of(E, "fatal") # {} THEN RefuseTask(FirstOf(Of(E, "fatal"), waiting).attempt)
        ELSE /\ UNCHANGED broken
             /\ \/ /\ Admits(chosen)
                   /\ Grant(chosen.attempt, chosen.plan, chosen.verdict = "soft")
                \/ /\ ~Admits(chosen)
                   /\ news' = news \ {"task"}
                   /\ UNCHANGED taskVars
    /\ UNCHANGED <<outputVars, stageVars, queryVars, queryFailed, failures, abandons>>

(* cancel_query_task_lease_request before the grant: remove_task_waiter and  *)
(* mark_task_attempt_terminal.                                             *)
CancelWaitingTask(a) ==
    /\ a \in Range(waiting) /\ Doomed(a)
    /\ waiting' = Drop(waiting, a)
    /\ terminal' = terminal \cup {a}
    /\ Publish
    /\ UNCHANGED <<leases, credits, byBorrower, slots, livenessTask, started>>
    /\ UNCHANGED <<outputVars, stageVars, queryVars, envVars>>

-----------------------------------------------------------------------------
(* Tasks.                                                                  *)

(* Only the owner of an actor slot runs, the others are prefetched.          *)
Running(a) == a \in Active /\ (leases[a].actor # None => Head(slots[<<StageOf[a], leases[a].actor>>]) = a)

(* release_task_lease of a nested task whose blocks have all been granted.   *)
EndTask(a) ==
    /\ Running(a) /\ a \notin FteAttempts
    /\ BlocksOf(a) \subseteq DOMAIN outputs \cup terminalOut
    /\ EndLease(a, outputs, TRUE)
    /\ UNCHANGED <<outputVars, stageVars, queryVars, envVars>>

(* A task fails, or is cancelled with the FTE attempt it belongs to.         *)
FailTask(a) ==
    LET due == Doomed(a) \/ a \in broken
    IN /\ a \in Active
       /\ due \/ failures < MaxFailures
       /\ EndLease(a, outputs, TRUE)
       /\ failures' = IF due THEN failures ELSE failures + 1
       /\ broken' = broken \cup {IF a \in FteAttempts THEN a ELSE ParentOf[a]}
       /\ UNCHANGED <<outputVars, stageVars, queryVars, queryFailed, abandons>>

(* abandon_task_lease: the attempt was not submitted and may be leased again. *)
Abandon(a) ==
    /\ a \in Active \cap FteAttempts /\ abandons < MaxAbandons
    /\ \A c \in Children(a) : ~Known(c)
    /\ EndLease(a, outputs, FALSE)
    /\ abandons' = abandons + 1
    /\ UNCHANGED <<outputVars, stageVars, queryVars, queryFailed, broken, failures>>

(* finish_task_with_outputs: the output window becomes the output leases.    *)
FinishWithOutputs(a) ==
    LET made == [b \in BlocksOf(a) |-> [state |-> "stage_queue", credit |-> None, node |-> leases[a].node]]
    IN /\ a \in (Active \cap FteAttempts) \ broken /\ Bytes(BlocksOf(a)) <= SpecOf(a).window
       /\ Upstream[a] \subseteq terminal \ broken
       /\ \A c \in Children(a) : c \in terminal /\ BlocksOf(c) \subseteq terminalOut
       /\ outputs' = outputs @@ made
       /\ EndLease(a, outputs @@ made, TRUE)
       /\ UNCHANGED <<waitingOut, terminalOut, livenessOut, stageVars, queryVars, envVars>>

-----------------------------------------------------------------------------
(* Output blocks.                                                          *)

(* _normal_output_block_reason_locked: unlike a task, a block of a running   *)
(* task is admitted while the allocation is paused.                        *)
OutputVerdict(b) ==
    LET a == ProducerOf[b]
        live == LiveOutput(a)
        grown == Vec(0, Max({SpecOf(a).window, live + SizeOf[b]}) - Max({SpecOf(a).window, live}))
    IN IF cancelled \/ b \in terminalOut \/ a \notin Active \/ b \in DOMAIN outputs
          \/ SizeOf[b] > Limit.object_store_bytes THEN "fatal"
       ELSE IF grown = Zero THEN "grant"
       ELSE IF ~FitsWithin(Plus(QueryUsage, grown), Limit) THEN "wait"
       ELSE IF leases[a].node \notin Nodes THEN "fatal"
       ELSE IF ~FitsWithin(Plus(NodeUsage(leases[a].node), grown), Capacity(leases[a].node)) THEN "wait"
       ELSE IF OverSoftLimits(StageOf[a], grown) THEN "soft" ELSE "grant"

(* _output_consumer_starving_locked.                                        *)
ConsumerStarving(s) ==
    consumerWaits \/ (DirectDownstream(s) # {} /\ \A t \in DirectDownstream(s) : ActiveOf(t) = {})

(* note_output_waiting: a running task asks for its next block.              *)
NoteOutputWaiting(b) ==
    LET a == ProducerOf[b]
    IN /\ Running(a) /\ a \notin FteAttempts /\ ~closing
       /\ b \notin DOMAIN outputs \cup terminalOut
       /\ BlocksOf(a) \cap Range(waitingOut) = {}
       /\ waitingOut' = Append(waitingOut, b)
       /\ Publish
       /\ UNCHANGED <<taskVars, outputs, terminalOut, livenessOut, stageVars, queryVars, envVars>>

(* _grant_output_block_locked, in stage_queue.                              *)
GrantOutput(b, liveness) ==
    LET a == ProducerOf[b]
        credit == IF a \in DOMAIN byBorrower THEN byBorrower[a] ELSE None
    IN /\ outputs' = outputs @@ (b :> [state |-> "stage_queue", credit |-> credit, node |-> leases[a].node])
       /\ waitingOut' = Drop(waitingOut, b)
       /\ livenessOut' = IF liveness THEN b ELSE livenessOut
       /\ Publish
       /\ UNCHANGED terminalOut

RefuseOutput(b) ==
    /\ waitingOut' = Drop(waitingOut, b)
    /\ broken' = broken \cup {ParentOf[ProducerOf[b]]}
    /\ Publish
    /\ UNCHANGED <<outputs, terminalOut, livenessOut>>

(* One run of _run_query_output_admission_pump with                        *)
(* try_acquire_next_queued_output_block.                                   *)
OutputPump ==
    LET first(S) == MinBy(S, LAMBDA b : <<ReverseRank(StageOf[ProducerOf[b]]), Position(b, waitingOut)>>)
        escapes(soft) == soft # {} /\ livenessOut = None /\ ConsumerStarving(StageOf[ProducerOf[first(soft)]])
    IN /\ "output" \in news
       /\ \E verdict \in {[b \in Range(waitingOut) |-> OutputVerdict(b)]} :
            LET of(v) == {b \in DOMAIN verdict : verdict[b] = v}
            IN \/ /\ of("fatal") # {}
                  /\ RefuseOutput(first(of("fatal")))
               \/ /\ of("fatal") = {} /\ of("grant") # {}
                  /\ GrantOutput(first(of("grant")), FALSE)
                  /\ UNCHANGED broken
               \/ /\ of("fatal") \cup of("grant") = {} /\ escapes(of("soft"))
                  /\ GrantOutput(first(of("soft")), TRUE)
                  /\ UNCHANGED broken
               \/ /\ of("fatal") \cup of("grant") = {} /\ ~escapes(of("soft"))
                  /\ news' = news \ {"output"}
                  /\ UNCHANGED <<outputVars, broken>>
       /\ UNCHANGED <<taskVars, stageVars, queryVars, queryFailed, failures, abandons>>

(* transition_output_block to downstream_input, and on to external_consumer  *)
(* for a result partition: the block no longer holds the liveness escape,  *)
(* nor its producer's borrowed credit.                                     *)
HandOff(b) ==
    LET to == IF ProducerOf[b] \in FteAttempts THEN "external_consumer" ELSE "downstream_input"
    IN /\ b \in DOMAIN outputs /\ outputs[b].state = "stage_queue"
       /\ outputs' = [outputs EXCEPT ![b].state = to]
       /\ livenessOut' = IF livenessOut = b THEN None ELSE livenessOut
       /\ OutputMoved(b, [outputs EXCEPT ![b].state = to])
       /\ UNCHANGED <<waitingOut, terminalOut, stageVars, queryVars, envVars>>

(* A block goes when its consumers have ended, when it has left the query,   *)
(* or with the FTE attempt it was made in.                                 *)
Consumed(b) ==
    LET consumers == {c \in Attempts : b \in Consumes[c]}
    IN \/ Doomed(ProducerOf[b])
       \/ outputs[b].state # "stage_queue" /\ consumers \subseteq terminal

(* release_output_block.                                                    *)
ReleaseOutput(b) ==
    /\ b \in DOMAIN outputs /\ Consumed(b)
    /\ outputs' = Without(outputs, b)
    /\ terminalOut' = terminalOut \cup {b}
    /\ livenessOut' = IF livenessOut = b THEN None ELSE livenessOut
    /\ OutputMoved(b, Without(outputs, b))
    /\ UNCHANGED <<waitingOut, stageVars, queryVars, envVars>>

(* cancel_query_output_block_lease_request before the grant.                 *)
CancelWaitingOutput(b) ==
    /\ b \in Range(waitingOut) /\ (Doomed(ProducerOf[b]) \/ ProducerOf[b] \in terminal)
    /\ waitingOut' = Drop(waitingOut, b)
    /\ terminalOut' = terminalOut \cup {b}
    /\ Publish
    /\ UNCHANGED <<taskVars, outputs, livenessOut, stageVars, queryVars, envVars>>

-----------------------------------------------------------------------------
(* Stages and the query.                                                   *)

(* Mutant: no change is published.                                          *)
SetActorsReadySilently ==
    /\ ready # Stages /\ ~cancelled
    /\ ready' = Stages
    /\ UNCHANGED <<taskVars, outputVars, runnable, completed, queryVars, news, envVars>>

(* set_stage_actor_ready, once the actors of the query are up.               *)
SetActorsReady ==
    /\ ready # Stages /\ ~cancelled
    /\ ready' = Stages
    /\ Publish
    /\ UNCHANGED <<taskVars, outputVars, runnable, completed, queryVars, envVars>>

(* _sync_write_sink_stage_for_fragment: update_stage_state with what the     *)
(* partitions of the sink say.                                             *)
SyncWriteSink(s) ==
    LET all == {a \in Attempts : StageOf[a] = s}
    IN \E hasInput \in BOOLEAN :
        /\ s \in SinkStages /\ ~closing
        /\ all \subseteq terminal => ~hasInput
        /\ ActiveOf(s) # {} => hasInput
        /\ runnable' = IF hasInput THEN runnable \cup {s} ELSE runnable \ {s}
        /\ completed' = IF all \subseteq terminal THEN completed \cup {s} ELSE completed \ {s}
        /\ <<runnable', completed'>> # <<runnable, completed>>
        /\ Publish
        /\ UNCHANGED <<taskVars, outputVars, ready, queryVars, envVars>>

(* set_external_consumer_waiting by get_next_partition, and again when the   *)
(* stream yields a result, ends or fails.                                  *)
SetExternalConsumerWaiting(waits) ==
    /\ consumerWaits # waits
    /\ consumerWaits' = waits
    /\ Publish
    /\ UNCHANGED <<taskVars, outputVars, stageVars, cancelled, open, closing, allocations, gen, envVars>>

GetNextPartition == ~closing /\ SetExternalConsumerWaiting(TRUE)

NextPartitionReturns ==
    /\ \/ \E b \in DOMAIN outputs : ProducerOf[b] \in FteAttempts /\ outputs[b].state = "stage_queue"
       \/ queryFailed \/ closing \/ FteAttempts \subseteq terminal
    /\ SetExternalConsumerWaiting(FALSE)

(* update_allocation by the driver's _synchronize_query_allocations.         *)
UpdateAllocation ==
    /\ gen < Len(allocations) /\ ~cancelled
    /\ gen' = gen + 1
    /\ open' = allocations[gen + 1].open
    /\ Publish
    /\ UNCHANGED <<taskVars, outputVars, stageVars, consumerWaits, cancelled, closing, allocations, envVars>>

(* _close_query_resource_admission: close_admission, and every waiting       *)
(* request is resolved.                                                    *)
CloseAdmission ==
    /\ ~closing
    /\ Cancels \/ queryFailed \/ FteAttempts \subseteq terminal
    /\ closing' = TRUE
    /\ open' = FALSE
    /\ waiting' = <<>> /\ waitingOut' = <<>>
    /\ Publish
    /\ UNCHANGED <<leases, credits, byBorrower, slots, terminal, livenessTask, started>>
    /\ UNCHANGED <<outputs, terminalOut, livenessOut, stageVars, consumerWaits, cancelled, allocations, gen, envVars>>

(* cancel.                                                                 *)
Cancel ==
    /\ closing /\ ~cancelled
    /\ cancelled' = TRUE
    /\ open' = FALSE
    /\ terminal' = terminal \cup Active
    /\ leases' = <<>> /\ credits' = <<>> /\ byBorrower' = <<>>
    /\ slots' = [slot \in DOMAIN slots |-> <<>>]
    /\ waiting' = <<>> /\ livenessTask' = None
    /\ outputs' = <<>> /\ waitingOut' = <<>> /\ livenessOut' = None
    /\ Publish
    /\ UNCHANGED <<started, terminalOut, stageVars, consumerWaits, closing, allocations, gen, envVars>>

-----------------------------------------------------------------------------
(* The specification.                                                      *)

Init ==
    /\ leases = <<>> /\ credits = <<>> /\ byBorrower = <<>>
    /\ allocations \in Histories
    /\ slots = [slot \in {<<p.stage, p.index>> : p \in UNION {allocations[i].placements : i \in DOMAIN allocations}} |-> <<>>]
    /\ terminal = {} /\ waiting = <<>> /\ livenessTask = None /\ started = {}
    /\ outputs = <<>> /\ waitingOut = <<>> /\ terminalOut = {} /\ livenessOut = None
    /\ runnable = {s \in Stages : StageSpec[s].inputs = {}}
    /\ ready = {s \in Stages : StageSpec[s].backend # "ray_actor"}
    /\ completed = {}
    /\ consumerWaits = FALSE /\ cancelled = FALSE /\ open = TRUE /\ closing = FALSE
    /\ gen = 1
    /\ news = Listeners
    /\ queryFailed = FALSE /\ broken = {} /\ failures = 0 /\ abandons = 0

ProbeStage(s) == \E a \in FteAttempts : StageOf[a] = s /\ (AcquireRaises(a) \/ \E n \in Nodes : Probe(a, n))

Next ==
    \/ \E s \in FteStages : ProbeStage(s) \/ SyncWriteSink(s)
    \/ TaskPump \/ OutputPump
    \/ \E a \in Attempts :
        \/ NoteTaskWaiting(a) \/ CancelWaitingTask(a) \/ EndTask(a) \/ FailTask(a)
        \/ Abandon(a) \/ FinishWithOutputs(a)
    \/ \E b \in Blocks : NoteOutputWaiting(b) \/ HandOff(b) \/ ReleaseOutput(b) \/ CancelWaitingOutput(b)
    \/ SetActorsReady \/ GetNextPartition \/ NextPartitionReturns
    \/ UpdateAllocation \/ CloseAdmission \/ Cancel

Behaviour == Init /\ [][Next]_vars

(* The pumps and the scheduler run when they are signalled, and a task that  *)
(* has what it needs goes on.  Failures, cancellation and what the client  *)
(* does are never owed, but that it goes on to read its results.  The      *)
(* first three say that a signal does not stay up for ever.  This is the   *)
(* weak fairness of the pump or probe that serves it, since a run of it    *)
(* lowers the signal or grants a request, and TLC need not look for the    *)
(* steps that are enabled.                                                 *)
ProbeDue(s) == \E a \in FteAttempts : StageOf[a] = s /\ CanSubmit(a) /\ (s \in news \/ EligibleNodes(s) = {})

TasksGoOn ==
    \/ SetActorsReady \/ UpdateAllocation \/ (queryFailed /\ CloseAdmission)
    \/ \E a \in Attempts :
        \/ NoteTaskWaiting(a) \/ CancelWaitingTask(a) \/ EndTask(a) \/ FinishWithOutputs(a)
        \/ (Doomed(a) \/ a \in broken) /\ FailTask(a)
    \/ \E b \in Blocks : NoteOutputWaiting(b) \/ HandOff(b) \/ ReleaseOutput(b) \/ CancelWaitingOutput(b)

Fairness ==
    /\ []<>("task" \notin news)
    /\ []<>("output" \notin news)
    /\ \A s \in FteStages : []<>~ProbeDue(s)
    /\ WF_vars(TasksGoOn)
    /\ WF_vars(GetNextPartition \/ NextPartitionReturns)

FairBehaviour == Behaviour /\ Fairness

-----------------------------------------------------------------------------
(* Properties.                                                             *)

(* The indexes agree with the leases, so that none of the manager's          *)
(* RuntimeErrors about an inconsistent index can be raised: an actor slot  *)
(* holds its live leases and at most prefetch of them, a credit lives as   *)
(* long as its parent or its borrower, and the two records of who borrows  *)
(* it are one.                                                             *)
OwnershipConsistent ==
    /\ \A slot \in DOMAIN slots :
        /\ IsInjective(slots[slot]) /\ Len(slots[slot]) <= StageSpec[slot[1]].prefetch
        /\ Range(slots[slot]) = {a \in Active : <<StageOf[a], leases[a].actor>> = slot}
    /\ \A c \in DOMAIN credits :
        /\ credits[c].active <=> c \in Active
        /\ credits[c].active \/ credits[c].borrower # None
    /\ byBorrower = [a \in {credits[c].borrower : c \in DOMAIN credits} \ {None} |->
                        CHOOSE c \in DOMAIN credits : credits[c].borrower = a]
    /\ \A a \in DOMAIN byBorrower : a \in Active => leases[a].node = credits[byBorrower[a]].node
    /\ Active \cap (terminal \cup Range(waiting)) = {}

(* Whatever is granted, handed off, returned or released, the usage of the   *)
(* query and of each node rises only as far as the allocation; above it,   *)
(* in debt, it never rises.                                                *)
UsageStaysWithin ==
    gen' = gen => /\ FitsWithin(QueryUsage', ComponentMax({QueryUsage, Limit}))
                  /\ \A n \in Nodes : FitsWithin(NodeUsage(n)', ComponentMax({NodeUsage(n), Capacity(n)}))
UsageWithinAllocation == [][UsageStaysWithin]_vars

(* A pump that is not signalled has nothing to grant, and a stage whose      *)
(* window is shut would still be denied on some node: no change that makes *)
(* a request admissible goes unpublished.                                  *)
DenialsStayValid ==
    LET admits(a, n) == \E own \in {Evaluate(a, n, runnable)} :
                            IsSelected(own, Evaluations \cup {own}, Append(waiting, a))
    IN /\ "task" \in news \/ ~Admits(Selected(Evaluations, waiting))
       /\ "output" \in news \/ \A b \in Range(waitingOut) : OutputVerdict(b) \in {"wait", "soft"}
       /\ \A a \in FteAttempts : CanSubmit(a) /\ StageOf[a] \notin news
            => \E n \in EligibleNodes(StageOf[a]) : ~admits(a, n)

(* With an allocation that is enough, every task of the query runs and      *)
(* ends, in whatever order the stages are served.  One bundle more than    *)
(* the minimum that build_query_demand asks for is enough (Leases.cfg);    *)
(* the minimum itself is not (LeaseMinimum.cfg).                           *)
AttemptsEnd ==
    /\ \A a \in FteAttempts : <>(a \in terminal \/ closing)
    /\ \A a \in Attempts : a \in Range(waiting) ~> (a \notin Range(waiting))
    /\ \A a \in Attempts : a \in Active ~> (a \notin Active \/ closing)

(* A paused allocation stops admission without failing the query.            *)
PauseNeverFails == [][~open /\ ~closing => queryFailed' = queryFailed]_vars

=============================================================================
