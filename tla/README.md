# TLA+ models of Vane's distributed execution

Vane runs a DuckDB query on a Ray cluster with fault-tolerant execution (FTE, under
`src/duckdb/runners/`). A query is cut into fragments, a fragment into task
partitions, and a partition is run by one attempt after another until one succeeds.
User-defined functions (UDFs) run as Ray tasks and actors beside the attempts. This
project models the parts in which scheduling, failures, data delivery and resource
leases meet. TLC checks the models on small instances; TLAPS proves the invariants
of the FTE core for every size.

## 1. The system

| Component | State | Operations | What is hard about it |
|---|---|---|---|
| Task partition, fragment execution (`fte/fte_execution.py`) | attempts, budget, readiness, class, seal, selected attempt | apply an assignment, schedule, start, fail, finish, revoke, lose a worker | two locks; a status, a reservation or a worker loss between two critical sections |
| Query scheduler (`fte/fte_scheduler.py`) | event queue, writer slot, pulses, retry timer, paused sources | enqueue, drain, fail, close, arm and fire a delay, submit | any thread may drain; lost wake-ups; late timers |
| Admission pump (`fte/fte_scheduler.py`, `ray/fte_fragment_scheduler.py`) | leader, dirty bit, round of queries | request a drain, give a query its turn, drop a query | capacity freed while the leader is about to stop |
| Worker task manager (`fte/fte_worker_runtime.py`) | running and queued tasks, cached statuses | create, cancel, drop, shut down, publish | callbacks that come after the task was dropped or created again |
| Split assigners (`fte/fte_split_assigner.py`, `ray/fragment_worker_assignment.py`) | open and full partitions, completed sources | assign | order in which sources deliver and end |
| Split delivery (`fte_execution.py`, `ray/fragment_worker_commands.py`, `fragment_worker_events.py`, worker `add_splits`) | descriptors, commands, what each attempt has seen | apply, execute a command, fail a command, replay | calls that fail after their effect; several commands of which one fails |
| Cluster coordinator (`ray/cluster_resource_coordinator.py`) | node capacities, queries in order, shares, actor placements | register, maintain, release, rebalance | pinned actors, minimums and extras come out of the same nodes |
| Query resource manager (`ray/query_resource_manager.py`, the pumps of `ray/driver.py`, the probes of `ray/fte_fragment_scheduler.py`) | task and output leases, continuation credits, actor slots, waiting requests | probe, note, pump, end, fail, give up, hand off, release, update the allocation, close, cancel | tasks that hold capacity while they wait for one another; denials that go stale |
| UDF task stream (`execution/udf_task_admission.py`, `ray_stream_adapter.py`, `udf_stream_result_collector.py`, the lease tables of `ray/driver.py`) | one lookahead request, a record per stream, ready events, lease tables of the driver | request, submit, callbacks of the event loop, drain, cancel, shut down, the driver's calls | three threads and one actor; teardown between a request and its answer |

Flow: a source submits splits as events to the query scheduler. The handler asks
the assigner for partitions, updates the fragment, and executes the commands that
result on the workers. The pump reserves workers for partitions that are ready.
Statuses and failures of workers come back as events. An attempt needs a task lease
of its query's resource manager, and so do the UDF tasks it invokes; the blocks they
return need output leases. What the manager may lease is the share that the
coordinator gives to the query.

## 2. Modules

| Module | Models | An action is |
|---|---|---|
| `FteTaskPartition` | the methods of one partition, as operators on records | (operators) |
| `FteFragmentExecution` | one fragment and everything that calls it | a critical section of the state lock |
| `FteQueryScheduler` | the event loop of one query and its threads | a critical section, a source callback or a handler step |
| `FteSchedulerRegistry` | the admission pump over several queries | a step of the leader, a request or a query's handler |
| `FteWorkerTaskManager` | the tasks of one worker | a turn of the event loop, or a step of a native thread |
| `FteArbitrarySplitAssigner`, `FteHashSplitAssigner` | `assign`, with what the descriptors were told | one call of `assign` |
| `FteSplitDelivery` | a fragment, its commands, the workers' tasks and the loss of workers, composed | an event, one worker call, or a step of a task |
| `ResourceVectors` | `ResourceVector` and its helpers, in two of four dimensions | (operators) |
| `QueryExecutionGraph` | the stage graph and the minimum demand of a query | (operators) |
| `ClusterResourceCoordinator` | the coordinator under the driver's lock | a driver operation with its rebalances and the publication of the shares |
| `QueryResourceManager` | one query's leases with the pumps, probes and tasks that use them | a critical section of the manager's lock, or one run of a pump |
| `UdfTaskStream` | the streams of one Ray UDF executor with the driver's tables | a callback (or the part of it up to a point where another thread may run), a dispatcher command, a driver call |

The variables carry the names of the fields they stand for, and a comment where the
name differs. Proofs are in `<module>_proofs`; `FteWorkerQueueLemmas` holds the
lemmas and the inductive invariant of the worker proof.

The `MC...` modules hold the constants of the instances. Three of them put two or
three components into one run: a variable (`part`, `mode`) says which component a
behaviour is of, and the others stand still.

- `MCFteQueues`: the query scheduler, or a worker whose attempt id is created twice.
- `MCFteComponents`: one of the split assigners, whichever `make_fte_assigner`
  chose, or a worker.
- `MCQueryResources`: the leases of a query, or the coordinator.

Operators marked `Mutant:` are wrong variants of the operator below them. They take
no part in a specification; with one put in the place of the right one the property
named in `PROJECT.json` fails.

`FteSplitDelivery` composes a reduced fragment with commands and workers, and
`UdfTaskStream` the executor with the driver's tables; they do not instantiate the
other modules, and no refinement between modules is shown.

## 3. Runs

| Run | Instance | Shows |
|---|---|---|
| `fragment_attempts` | 1 partition, 2 workers, 3 attempts, 2 assignments, with and without reservations | one running attempt; nothing stranded; attempt numbers fresh; ends are final; a sealed partition ends |
| `queues` | scheduler: submitter, watcher, timer, 2 workers. Worker: 2 tasks, 1 slot, one id created twice | one writer, no lost event, exact pulse set, the queue drains, the newest retry delay is handled; a queued task leaves |
| `pump` | 2 queries, one of them drained by other threads too; 1 slot, 2 tasks of 2 classes | no free slot beside waiting work; waiting tasks of a query that stays alive start |
| `delivery` | 2 partitions (one speculative), 2 workers, 1 split, 3 failures | no split doubled; none lost, and no partition waits for its end, except by commands left unexecuted behind a call to another worker that failed; no attempt forgotten |
| `delivery_lost_commands` | 3 splits, 1 failure | `NoSplitLost`, without that exception: **violation**, section 4 |
| `components` | arbitrary assigner: 2 partitioned and 2 replicated sources, 2 hosts. Hash: 2 to 5 source partitions, 0 to 5 tasks. Worker: 3 tasks of 2 queries, 2 slots, one task as large as the worker, one created twice | every split delivered, sealed in time, balanced; worker queue exact, limits kept, slots come back, no idle queue, final states visible |
| `leases` | a chain of FTE stages with two nested UDFs, one bundle above the minimum; the coordinator with 3 queries and 2 nodes, one of which may go | ownership indexes consistent, usage within the allocation, every task ends; shares fit, minimums kept, nothing idle, actors stay |
| `resources` | an actor stage with two calls; the allocation shrinks, is paused, or spans two nodes; a failure, an abandoned lease | ownership indexes, usage within the allocation, no change goes unpublished |
| `streams` | five scenarios of one or two streams: teardown, stalls, hand-off, early close | leases have owners, stream contract, streams end |
| `lease_minimum`, `lease_paused`, `stream_cancel` | see section 4 | **violations** |

Bounds, all named in the cfg or in the MC module. Two partitions, workers or queries
are what is needed for one to disturb another; two or three attempts for a retry and
for an exhausted budget. In the `delivery_lost_commands` run each partition needs a
split to start, and the third is the one that can be lost. The splits of the
assigners are chosen so that each limit is reached without the other. `OneReports`
(queues, components): the progress reports of one task are interleaved; the reports of
the others are independent of them. `OneAgain` (components): one attempt id is created a second
time. In `pump` the eager class does not occur; it is drained like the standard
class, before it. The vectors of the resource modules have two dimensions; CPU and
GPU are treated by the code as heap is. Where an invariant below is proved, the
bound of its run no longer matters.

`delivery` has one split and three failures. A split and the end of the source are
the two commands an update needs for a failure to fall between them, and three
failures can exhaust one partition and still hit the other. What a second split adds
(updates that arrive in several results) concerns the three invariants, which are
proved for any finite set of splits; `PartitionEnds` only asks whether the end arrives. The
invariants were also checked with two splits and two failures (457,596 states).

Deadlock is not checked where a bounded system comes to its end, which is all of
them: creations, failures, assignments and submissions are finitely many.

Exceptions in the properties. The code loses commands in two places; history
variables, which the actions set and only the properties read, record them, and the
properties are exact about the rest.

- `skipped` (`FteSplitDelivery`): the commands that a failed call to another worker
  left unexecuted. `FinishedSawEverything`, `RunningUpToDate` and `PartitionEnds`
  hold for any number of partitions that a result updates, but for what those
  commands say. `NoSplitLost`, without the exception, is what finding 1 refutes. A
  split of a replicated source is one element of `Splits` per partition it goes to.
- `withdrawn` (`FteWorkerTaskManager`): QUEUED tasks that `drop_query`, `cancel_task` or
  `shutdown` took off the queue before their `cancel()` raised (a source queue can
  raise in it, before the state is CANCELED). They stay owned and QUEUED and leave only
  when the call is repeated. `QueueIsExact` and `WorkerQueuedTaskLeaves` except them.
- `undrained`: a `cancel_task` of the head of the queue raised, and `_drain_queue` was
  not reached. `NoIdleQueue` excepts the time until the next drain.

The worker of `queues` has two tasks, too few for a task to wait behind a head that
was cancelled like this. An instance with three tasks, each created once (292,400
states), passes too; with the scheduler it takes too long for a regular run.

## 4. Findings

1. `delivery_lost_commands` (`ray/fragment_worker_commands.py:104`). The first
   command that fails raises, and the commands left are never sent, those for
   attempts on healthy workers included. The descriptors already hold the splits, so
   nothing sends them again. In the counterexample to `NoSplitLost` a partition later
   gets `no_more_splits` and finishes without a split.
2. `lease_minimum` (`ray/query_resource_manager.py:1397`). With exactly the minimum
   of `build_query_demand`, a UDF with two FTE stages after it is denied for ever
   once one of the two holds the shared progress slot, and that one waits for the
   UDF's output.
3. `lease_paused` (`ray/fte_fragment_scheduler.py:1985`). A pause of the allocation
   fails the query when a partition is placed during it, where a denial is intended.
4. `stream_cancel` (`execution/udf_stream_result_collector.py:783`). `cancel_slot`
   between the two halves of `_accept_metadata` leaves an output lease that nobody
   releases until the query ends.

The lines that state the intended behaviour are quoted in `PROJECT.json`. The
findings come from the models and from reading the code. None was reproduced by
running the program.

Observed while modelling, and not counted as findings because no line of the
repository says otherwise:

- The pause of a source at its high watermark is advisory: `drain()` returns at once
  while another thread drains.
- The coordinator may admit a small query past an earlier one that does not fit and later
  demote it. A query that was not admitted keeps the nodes that were tried for its actors.
- After an allocation shrinks, a borrower's output block can wait for ever; a block
  over its soft limit waits until the client asks for a partition.
- The retry on another node after "node_capacity"
  (`ray/fte_fragment_scheduler.py:2086`) is shut off by the submission window.
- A worker admits small tasks past a queued large one. An attempt id that is created
  again after a drop escapes the slot count, and an old progress report can
  overwrite its final status; `CapacityRespected` and `FinishedIsVisible` are stated
  for ids created once.
- A QUEUED task whose `cancel()` raises in `drop_query` is off the queue and still
  owned: it never starts, and leaves when the drop is repeated. When it raises in
  `cancel_task`, or `release_result` does, the slot stays taken until the task's
  callback and the queue is not drained.
- A `BaseException` in a pump round leaves `run_pending_drain` without a leader.
- The collector's limit on pending blocks does not count data reads that are under way.

## 5. Fairness

- Fragment: sections of a lock holder go on (weak); scheduling, admission and
  reservation of a given partition are strongly fair, since other partitions and
  failures disable them again and again while the pump keeps asking.
- Scheduler: every thread that is inside a call goes on; armed timers fire.
- Pump: requested drains run; running tasks end.
- Worker: the event loop runs callbacks; native executions end (strong, as progress
  reports alternate with them). Creations are finitely many: with endless small
  tasks a large one can starve.
- Delivery: calls return or raise (the RPCs have timeouts), dead workers are
  noticed by their watchers, tasks with complete input end, and the start and the
  status of a partition are strongly fair because failures of others interrupt them.
  Failures are finitely many.
- Leases: a pump that is signalled runs, a stage that may submit is probed, a task
  that has what it needs goes on, and the client reads its results. The first two
  are stated as "the signal does not stay up for ever", which is their weak fairness.
- Streams: the event loop, the driver and the dispatcher keep running, remote tasks
  end, the manager grants in the end, and downstream makes room.

Calls to one Ray actor from one process are taken to arrive in the order they were
sent. Failures, cancellations and what a client does besides are never assumed.

## 6. Proofs

All theorems are of the form `Spec => []P`, for every value of the constants that
satisfies the named ASSUMEs of the module (for the assigners, `SplitsWellFormed`,
which is a hypothesis of each theorem and an ASSUME of `MCFteComponents`). Those ask for finiteness where the code
has finite collections, for natural numbers where it has counts, and for positive
limits where its configuration enforces them. Every ASSUME is also evaluated by TLC
in a run.

**Fragment** (`FteFragmentExecution_proofs`): `TypeCorrect`, `RunningAttemptUnique`,
`NeverStranded`, `FailedFlagExact`, `SelectionSound`, `SealSafe`, and the action
properties `AttemptNumbersFresh` and `TerminalFinal`, for any sets of partitions and
workers, any positive `MaxAttempts` and both values of `Reserving`. None is inductive
alone. That at most one attempt runs needs the running attempt's number to be the one
the remaining budget gives. `PartitionInv` states this with what ties readiness,
seal, budget and selection together in one partition; `IndInv` adds the attempts
issued, their outcomes, the seals in progress and the failed flag. `Progress(r, s)`
is what a step may do to a partition. There is a lemma per method (`...Progress`),
one per action (`...Step`), and `NextStep` combines them.

**Query scheduler** (`FteQueryScheduler_proofs`): `SingleWriterAlways` and
`NoLostEventAlways`, for any threads, sources, classes and loads. A thread that makes
pause and resume calls is on its way somewhere; the invariant speaks of `Where(t)`, the
place it goes to, which those calls do not change. Every action is then a move
of one thread. `EventsHaveThread` names the places from which a thread is bound to
drain, `PulsesExact` says that the coalescing set is the set of queued pulses.

**Admission pump** (`FteSchedulerRegistry_proofs`): `NoStrandedCapacityAlways`, for
any queries, classes, slots, tasks and requests. The property is not inductive:
the speculative pass serves the queries that the round began with, so `DrainComing`
says for each query and class which step is still to come to it, and the leader's
list, the reservations and the fresh splits are tied to it.

**Worker** (`FteWorkerQueueLemmas`, `FteWorkerTaskManager_proofs`):
`QueueIsExactAlways`, `CapacityRespectedAlways`, `SlotsComeBackAlways`,
`NoIdleQueueAlways`, `FinishedIsVisibleAlways`, for any tasks, memory requirements,
limits and number of creations of an attempt id, whichever calls of `cancel()` and
`release_result` raise in `cancel_task`, `drop_query` and `shutdown`; with the
exceptions `withdrawn` and `undrained` of section 3. The invariant adds what ties a
task's state to its future, its native execution, its unwinding coroutines and its
place in the queue or in `withdrawn`. `CancelKeeps` is what cancelling some tasks and
forgetting some of them does to it, `UndrainedKeeps` what a call does that stops
before the drain. The lemmas give what removing from the queue leaves, that memory
sums are monotone, and `DrainKeeps`: what `_drain_queue` starts is a prefix of
the queue that fits, and the new head does not. The induction over the queue is by
least counterexample.

**Delivery** (`FteSplitDelivery_proofs`): `NoAttemptForgottenAlways`,
`FinishedSawEverythingAlways` and `RunningUpToDateAlways`, for any partitions, workers,
splits and failures, and any number of partitions that a result updates. The
invariant: what an attempt has seen, together with what the commands that are left
and the skipped ones would tell it, is what its descriptor says. A failed call moves
commands from the first to the second.

**Arbitrary assigner** (`FteArbitrarySplitAssigner_proofs`): `SplitsDeliveredOnce`,
`PartitionsSealedInTime`, `TargetKept` and `OwnHostKept`, for any sources, splits,
target size and split limit. The invariant says what a descriptor has been told as a
function of the partition's flags and of the completed sources (`Told`), and of the
partitions together that each split given is where it belongs (`Delivered`). `Mid`
joins them, with the splits placed so far as a parameter, so that it also holds
between two turns of the placing loop: `PlaceKeeps` is one turn, `PlaceAllKeeps` the
loop, by least counterexample. `ReplicateKeeps` and `FinishKeeps` are the other two
ways to change a partition.

**Hash assigner** (`FteHashSplitAssigner_proofs`): `BucketsMeet`, `AllSealedAtTheEnd`
and `MappingAlwaysBalanced`, for any number of source partitions and of tasks asked
for. `Starts` and `RangesCover` are the arithmetic of
`make_hash_task_partition_mapping`: the ranges start at 0, end at the last source
partition, do not overlap and are as long as the average, rounded down or up.
`OrderedIs` concludes that the task partitions are these ranges and that the
`setdefault` loop adds none. `Holds` gives what a partition contains as a function of
the splits given and the sources completed.

The seven assigner theorems together give the three properties `SplitsDelivered`,
`PartitionsSealed` and `PartitionsBalanced` of the run `components`.

Each inductive invariant was checked with TLC before it was proved, on the instance
of its run; that of `FteSplitDelivery` on the instance with two splits.

Only model-checked:

- all liveness (`ReservedPartitionsEnd`, `QueueDrains`, `RetryDelayHandled`,
  `WorkerQueuedTaskLeaves`, `PendingTaskStarts`, `PartitionEnds`, `AttemptsEnd`,
  `StreamsEnd`): TLAPS does not reason about fairness and ENABLED here;
- the coordinator's properties and `UsageWithinAllocation`, `DenialsStayValid`: the
  operators they are made of are folds with operator parameters and sums over sets,
  whose theory takes induction over data that the provers cannot instantiate;
- `OwnershipConsistent`, `LeasesHaveOwners` and `StreamContract`: no proof in this
  project.

## 7. Not modelled

- Update batches, dynamic filters, output buffers, `update_task`: no effect on
  attempts or splits.
- `SingleSplitAssigner`, hash sub partitions, growth of the target size: unused or
  switched off by `make_fte_assigner`.
- In `FteSplitDelivery`: memory failures and failures that must not be retried (they
  are in `FteFragmentExecution`), several fragments, a worker that returns after
  quarantine, calls that take effect after they have timed out, and the closing of
  a query in the middle of a list of commands.
- In `FteWorkerTaskManager`: shutdown is one step.
- In `UdfTaskStream`: the submission and `track_generator_ref` are one step. The one
  dispatcher thread makes both calls and alone cancels slots and shuts the collector
  down, so the latter raises between them only when the collector's event loop thread
  has died (`_thread_error`), or when Ray returns no streaming generator. Then the task
  lease would stay with the query until it closes.
- In the resource modules: `try_acquire_task`, `try_acquire_queued_task`,
  `try_acquire_output_block`, `refresh_query` and `heartbeat`, which only tests call;
  weights and priorities, which the driver leaves at their defaults; the admission
  ledger's persistence; snapshots.
- The local subprocess executor and the actor executor of UDFs.
- The status watcher (reduced to the events it raises), the spooling exchange's files,
  memory-pressure accounting (a revocation may come at any time), Ray actor start-up,
  native backends, the C++ engine, the Python API and AI functions: plumbing, I/O or
  code without shared state.

## 8. Plan

1. Proofs of `LeasesHaveOwners` without preemption, and of `OwnershipConsistent`.
2. The WorkerFailed handler composed with the event loop (a handler that raises
   after the worker was recorded as failed).
3. An abstract specification of a fragment (each split processed by exactly one
   selected attempt) that `FteSplitDelivery` implements when commands are not lost.
