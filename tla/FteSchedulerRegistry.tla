------------------------ MODULE FteSchedulerRegistry ------------------------
(***************************************************************************)
(* The admission pump: FteSchedulerRegistry.run_pending_drain of           *)
(* duckdb/runners/fte/fte_scheduler.py with the round that                 *)
(* request_fte_pending_task_drain of ray/fte_fragment_scheduler.py gives   *)
(* it.  Whoever frees capacity requests a drain.  The first to ask is the  *)
(* leader and goes round the queries; the others only set the dirty bit.   *)
(*                                                                         *)
(* The pump never enters a query.  It enqueues a pulse, a                  *)
(* ResourceAdmissionChanged of one class, with the query's scheduler       *)
(* (module FteQueryScheduler).  Its drainer, the leader or, with           *)
(* OtherDrainers, another thread that gets to the pulse later, reserves a  *)
(* worker for pending tasks.  A reservation is an event in the same queue, *)
(* and its handler starts the attempt and requests the next drain.         *)
(* Cluster capacity is a number of slots.                                  *)
(***************************************************************************)
EXTENDS Integers, Sequences, FiniteSets, Functions

CONSTANTS
    Queries,            \* query ids; numbers, for their order
    Classes,            \* execution classes of the work there is
    Slots,              \* tasks the cluster can run
    MaxTasks,           \* bound: tasks that arrive
    MaxRequests,        \* bound: requests out when a query is created
    OtherDrainers       \* the queries whose scheduler other threads drain too

ASSUME QueriesAssumption == Queries \subseteq Nat /\ IsFiniteSet(Queries)
ASSUME ClassesAssumption == Classes \subseteq {"EAGER_SPECULATIVE", "STANDARD", "SPECULATIVE"}
ASSUME CapacityAssumption == Slots \in Nat /\ MaxTasks \in Nat /\ MaxRequests \in Nat

NoQuery == -1

VARIABLES
    schedulers,     \* _schedulers and _FTE_CLOSING_QUERIES: each query's state
    cursor,         \* _pending_drain_cursor_query_id
    running,        \* _pending_drain_running
    dirty,          \* _pending_drain_dirty
    phase,          \* where the leader is in its round
    todo,           \* the <<query, class>> pulses left in this pass
    order,          \* the round's query ids
    pulses,         \* classes whose pulse is in each query's queue
    fresh,          \* classes of new tasks whose own event is being handled
    want,           \* tasks that wait for an attempt, by query and class
    reserved,       \* those whose reservation completed: its event is queued
    held,           \* slots each query has
    free,           \* slots nobody has
    arrived,        \* number of tasks so far
    requests        \* threads about to call run_pending_drain

pumpVars == <<cursor, running, dirty, phase, todo, order>>
workVars == <<want, reserved, held, free>>
queueVars == <<pulses, fresh, arrived>>
vars == <<schedulers, pumpVars, queueVars, workVars, requests>>

Live == {q \in Queries : schedulers[q] # "NONE"}
Active == {q \in Queries : schedulers[q] = "RUNNING"}
StandardPending == "STANDARD" \in Classes /\ \E q \in Active : want[q]["STANDARD"] > 0

Init ==
    /\ schedulers = [q \in Queries |-> "NONE"]
    /\ cursor = NoQuery
    /\ running = FALSE
    /\ dirty = FALSE
    /\ phase = "turn"
    /\ todo = <<>>
    /\ order = <<>>
    /\ pulses = [q \in Queries |-> {}]
    /\ fresh = [q \in Queries |-> {}]
    /\ want = [q \in Queries |-> [c \in Classes |-> 0]]
    /\ reserved = [q \in Queries |-> [c \in Classes |-> 0]]
    /\ held = [q \in Queries |-> 0]
    /\ free = Slots
    /\ arrived = 0
    /\ requests = 0

-----------------------------------------------------------------------------
(* The orders in which a set can be taken.                                 *)
Orders(S) == Injection(1 .. Cardinality(S), S)

(* ordered_pending_drain_query_ids: sorted, starting after the query that  *)
(* made progress last.                                                     *)
Before(p, q) ==
    IF cursor \in Live /\ (p > cursor) # (q > cursor) THEN p > cursor ELSE p < q

OrderedQueryIds ==
    {ids \in Orders(Live) : \A i, j \in DOMAIN ids : i < j => Before(ids[i], ids[j])}

Pass(ids, c) == IF c \in Classes THEN [i \in DOMAIN ids |-> <<ids[i], c>>] ELSE <<>>

(* run_pending_drain: the request sets the dirty bit; a leader exists or   *)
(* the caller becomes it.                                                  *)
RequestDrain ==
    /\ requests > 0
    /\ requests' = requests - 1
    /\ dirty' = TRUE
    /\ running' = TRUE
    /\ UNCHANGED <<schedulers, cursor, phase, todo, order, queueVars, workVars>>

(* Mutant: the leader clears the dirty bit when its round is over. *)
EndOfPassClearsDirty ==
    /\ phase \in {"passes", "speculative"}
    /\ todo = <<>>
    /\ IF phase = "passes" /\ ~StandardPending
       THEN phase' = "speculative" /\ todo' = Pass(order, "SPECULATIVE") /\ UNCHANGED <<dirty, order>>
       ELSE phase' = "turn" /\ order' = <<>> /\ dirty' = FALSE /\ UNCHANGED todo
    /\ UNCHANGED <<schedulers, cursor, running, queueVars, workVars, requests>>

(* The leader looks at the dirty bit: idle, or another round, which goes   *)
(* through the queries for eager and then for standard tasks.              *)
PumpTurn ==
    /\ running /\ phase = "turn"
    /\ IF ~dirty
       THEN running' = FALSE /\ UNCHANGED <<dirty, phase, todo, order>>
       ELSE /\ dirty' = FALSE
            /\ phase' = "passes"
            /\ order' \in OrderedQueryIds
            /\ todo' = Pass(order', "EAGER_SPECULATIVE") \o Pass(order', "STANDARD")
            /\ UNCHANGED running
    /\ UNCHANGED <<schedulers, cursor, queueVars, workVars, requests>>

(* Mutant: speculative work is put off to another round, again and again. *)
EndOfPassYields ==
    /\ phase \in {"passes", "speculative"}
    /\ todo = <<>>
    /\ phase' = "turn" /\ order' = <<>>
    /\ dirty' = (dirty \/ ~StandardPending)
    /\ UNCHANGED <<schedulers, cursor, running, todo, queueVars, workVars, requests>>

(* Speculative work gets its pass when no standard work is pending.        *)
EndOfPass ==
    /\ phase \in {"passes", "speculative"}
    /\ todo = <<>>
    /\ IF phase = "passes" /\ ~StandardPending
       THEN phase' = "speculative" /\ todo' = Pass(order, "SPECULATIVE") /\ UNCHANGED order
       ELSE phase' = "turn" /\ order' = <<>> /\ UNCHANGED todo
    /\ UNCHANGED <<schedulers, cursor, running, dirty, queueVars, workVars, requests>>

Waiting(q, c) == want[q][c] - reserved[q][c]
Startable(q, c) == Waiting(q, c) > 0 /\ free > 0

(* acquire, for n tasks: takes slots and moves the cursor.                 *)
Acquire(q, c, n) ==
    /\ n <= Waiting(q, c) /\ n <= free
    /\ reserved' = [reserved EXCEPT ![q][c] = @ + n]
    /\ held' = [held EXCEPT ![q] = @ + n]
    /\ free' = free - n
    /\ cursor' = q
    /\ UNCHANGED want

(* _drain_fte_pending_tasks of one query and class stops after the first   *)
(* fragment with a reservation; that may be one task or all of them.       *)
HandlePulse(q, c) ==
    \/ \E n \in 1 .. Slots : Acquire(q, c, n)
    \/ ~Startable(q, c) /\ UNCHANGED <<cursor, workVars>>

(* drain_query of the round: skipped when the query is gone, closing or    *)
(* failed; the leader drains the scheduler unless another thread is at it. *)
VisitQuery ==
    /\ todo # <<>>
    /\ todo' = Tail(todo)
    /\ LET q == Head(todo)[1]
           c == Head(todo)[2] IN
       \/ /\ q \notin Active
          /\ UNCHANGED <<cursor, pulses, workVars>>
       \/ /\ q \in Active
          /\ HandlePulse(q, c)
          /\ pulses' = [pulses EXCEPT ![q] = @ \ {c}]
       \/ /\ q \in Active
          /\ q \in OtherDrainers
          /\ pulses' = [pulses EXCEPT ![q] = @ \cup {c}]
          /\ UNCHANGED <<cursor, workVars>>
    /\ UNCHANGED <<schedulers, running, dirty, phase, order, fresh, arrived, requests>>

(* The other thread gets to a queued pulse; a closing query ignores it.    *)
DrainPulse(q, c) ==
    /\ c \in pulses[q]
    /\ pulses' = [pulses EXCEPT ![q] = @ \ {c}]
    /\ IF q \in Active THEN HandlePulse(q, c) ELSE UNCHANGED <<cursor, workVars>>
    /\ UNCHANGED <<schedulers, running, dirty, phase, todo, order, fresh, arrived, requests>>

(* _handles_for_worker_reservation_completed_event: the attempt starts and *)
(* a drain is requested.                                                   *)
ReservationCompleted(q, c) ==
    /\ q \in Active
    /\ reserved[q][c] > 0
    /\ reserved' = [reserved EXCEPT ![q][c] = @ - 1]
    /\ want' = [want EXCEPT ![q][c] = @ - 1]
    /\ requests' = requests + 1
    /\ UNCHANGED <<schedulers, pumpVars, queueVars, held, free>>

-----------------------------------------------------------------------------
(* The queries.                                                            *)

GetOrCreate(q) ==
    /\ schedulers[q] = "NONE"
    /\ requests < MaxRequests
    /\ schedulers' = [schedulers EXCEPT ![q] = "RUNNING"]
    /\ UNCHANGED <<pumpVars, queueVars, workVars, requests>>

(* A split event makes a task pending ...                                  *)
AddWork(q, c) ==
    /\ q \in Active
    /\ arrived < MaxTasks
    /\ fresh[q] = {}
    /\ arrived' = arrived + 1
    /\ want' = [want EXCEPT ![q][c] = @ + 1]
    /\ fresh' = [fresh EXCEPT ![q] = {c}]
    /\ UNCHANGED <<schedulers, pumpVars, pulses, reserved, held, free, requests>>

(* ... and tries to reserve for it before its handler returns.             *)
TryNewWork(q, c) ==
    /\ c \in fresh[q]
    /\ fresh' = [fresh EXCEPT ![q] = {}]
    /\ \/ q \in Active /\ Acquire(q, c, 1)
       \/ ~(q \in Active /\ Startable(q, c)) /\ UNCHANGED <<cursor, workVars>>
    /\ UNCHANGED <<schedulers, running, dirty, phase, todo, order, pulses, arrived, requests>>

Running(q) == held[q] - FoldFunction(+, 0, reserved[q])

(* The terminal status of a task is handled: its slot is released and a    *)
(* drain requested.                                                        *)
TaskEnds(q) ==
    /\ q \in Active
    /\ Running(q) > 0
    /\ held' = [held EXCEPT ![q] = @ - 1]
    /\ free' = free + 1
    /\ requests' = requests + 1
    /\ UNCHANGED <<schedulers, pumpVars, queueVars, want, reserved>>

(* An exception in a handler fails the query; its events are dropped.      *)
FailQuery(q) ==
    /\ q \in Active
    /\ schedulers' = [schedulers EXCEPT ![q] = "FAILED"]
    /\ pulses' = [pulses EXCEPT ![q] = {}]
    /\ fresh' = [fresh EXCEPT ![q] = {}]
    /\ reserved' = [reserved EXCEPT ![q] = [c \in Classes |-> 0]]
    /\ UNCHANGED <<pumpVars, arrived, want, held, free, requests>>

(* _drop_fte_registry_for_query first closes the query and waits for the   *)
(* operations it has under way ...                                         *)
QuiesceQuery(q) ==
    /\ schedulers[q] \in {"RUNNING", "FAILED"}
    /\ schedulers' = [schedulers EXCEPT ![q] = "CLOSING"]
    /\ UNCHANGED <<pumpVars, queueVars, workVars, requests>>

(* ... then releases all the query has and requests a drain.               *)
DropQuery(q) ==
    /\ schedulers[q] = "CLOSING"
    /\ fresh[q] = {}
    /\ schedulers' = [schedulers EXCEPT ![q] = "NONE"]
    /\ cursor' = IF cursor = q THEN NoQuery ELSE cursor
    /\ pulses' = [pulses EXCEPT ![q] = {}]
    /\ want' = [want EXCEPT ![q] = [c \in Classes |-> 0]]
    /\ reserved' = [reserved EXCEPT ![q] = [c \in Classes |-> 0]]
    /\ held' = [held EXCEPT ![q] = 0]
    /\ free' = free + held[q]
    /\ requests' = requests + 1
    /\ UNCHANGED <<running, dirty, phase, todo, order, fresh, arrived>>

LeaderStep == PumpTurn \/ VisitQuery \/ EndOfPass

(* A query's scheduler handles the event of a task, not of the pump.       *)
HandleEvent(q) == \E c \in Classes : TryNewWork(q, c) \/ ReservationCompleted(q, c)

Next ==
    \/ RequestDrain
    \/ LeaderStep
    \/ \E q \in Queries :
          \/ GetOrCreate(q)
          \/ HandleEvent(q)
          \/ TaskEnds(q)
          \/ FailQuery(q)
          \/ QuiesceQuery(q)
          \/ DropQuery(q)
          \/ \E c \in Classes : AddWork(q, c) \/ DrainPulse(q, c)

Spec == Init /\ [][Next]_vars

(* Threads go on, tasks end, and the driver drops a query that failed.     *)
Fairness ==
    /\ WF_vars(RequestDrain)
    /\ WF_vars(LeaderStep)
    /\ \A q \in Queries :
          /\ WF_vars(HandleEvent(q))
          /\ WF_vars(TaskEnds(q))
          /\ WF_vars((schedulers[q] = "FAILED" /\ QuiesceQuery(q)) \/ DropQuery(q))
    /\ \A q \in OtherDrainers, c \in Classes : WF_vars(DrainPulse(q, c))

FairSpec == Spec /\ Fairness

-----------------------------------------------------------------------------
(* Properties.                                                             *)

(* What comes next in the leader's round can still start a task of (q, c). *)
InRound(q, c) ==
    \/ \E i \in DOMAIN todo : todo[i] = <<q, c>>
    \/ phase = "passes" /\ c = "SPECULATIVE"

(* No capacity is stranded ("cannot strand capacity", the comment of       *)
(* _drop_fte_registry_for_query): when a slot is free while a running      *)
(* query has a pending task, a drain is on its way: requested, about to be *)
(* requested, in the leader's round or in the query's queue, where the     *)
(* event of a completed reservation asks for the next one.  Speculative    *)
(* tasks may wait for standard ones and for a failed query to be dropped.  *)
NoStrandedCapacity ==
    \A q \in Active, c \in Classes :
        Startable(q, c) =>
            \/ requests > 0
            \/ running /\ dirty
            \/ c \in pulses[q] \cup fresh[q]
            \/ reserved[q][c] > 0
            \/ running /\ InRound(q, c)
            \/ c = "SPECULATIVE" /\ (StandardPending \/ Live # Active)

(* Every task that waits gets its attempt, unless its query ends first:    *)
(* with the last of the tasks there are (MaxTasks), no task of the query   *)
(* waits any more.                                                         *)
PendingTaskStarts ==
    \A q \in Queries :
        (\E c \in Classes : want[q][c] > 0) ~> (\A c \in Classes : want[q][c] = 0) \/ q \notin Active
=============================================================================
