------------------------ MODULE FteWorkerTaskManager ------------------------
(***************************************************************************)
(* The tasks of one worker: FteWorkerTaskManager and the life of its       *)
(* FteTaskExecutions, duckdb/runners/fte/fte_worker_runtime.py.            *)
(*                                                                         *)
(* The manager's coroutines never await, so on the worker's event loop     *)
(* each is one step.  What interleaves: the coroutine of a task, which     *)
(* ends after cancel() has returned; its done callback, a later turn of    *)
(* the loop; the native execution, shielded from cancellation, on a thread *)
(* of its own; its progress callback, which reads the task's status and    *)
(* puts it into the status cache in two steps; and shutdown.               *)
(***************************************************************************)
EXTENDS Integers, Sequences, FiniteSets, FiniteSetsExt, Functions

CONSTANTS
    Tasks,              \* attempt ids
    QueryOf,            \* the query of each
    Memory,             \* memory_requirement_bytes of each
    MemoryBudget,       \* memory_budget_bytes of the worker
    MaxRunningTasks,    \* max_running_tasks
    MaxDropped,         \* max_dropped_task_statuses
    MaxCreates          \* bound: times each attempt id is created

ASSUME LimitsAssumption ==
    /\ IsFiniteSet(Tasks) /\ Memory \in [Tasks -> Nat] /\ MemoryBudget \in Nat
    /\ MaxRunningTasks \in Nat \ {0} /\ MaxDropped \in Nat /\ MaxCreates \in [Tasks -> Nat]

Terminal == {"FINISHED", "FAILED", "CANCELED"}
States == {"PLANNED", "QUEUED", "RUNNING"} \cup Terminal
NoStatus == "none"

VARIABLES
    tasks,      \* keys of the tasks dictionary
    state,      \* status.state of each attempt's latest execution
    future,     \* its coroutine: none, waiting for its splits, running,
                \* cancelling, ended, or called back
    native,     \* <<attempt, creation>> of the native executions
    unwinding,  \* and of the coroutines of tasks that have been forgotten
    running,    \* running_tasks
    queued,     \* queued_tasks
    dropped,    \* dropped_task_order, with what is in dropped_task_statuses
    cache,      \* _status_cache
    publishing, \* <<attempt, creation, status>> read and not yet cached
    shut,       \* _shutdown
    creates,    \* creations of each attempt id so far
    withdrawn,  \* history: QUEUED tasks a cancel() that raised took off queued
    undrained   \* history: the head left queued and _drain_queue was not reached

futureVars == <<future, native, unwinding>>
cacheVars == <<cache, publishing>>
historyVars == <<withdrawn, undrained>>
vars == <<tasks, state, futureVars, running, queued, dropped, cacheVars, shut, creates, historyVars>>

Queries == {QueryOf[k] : k \in Tasks}

Init ==
    /\ tasks = {}
    /\ state = [k \in Tasks |-> NoStatus]
    /\ future = [k \in Tasks |-> "none"]
    /\ native = {}
    /\ unwinding = {}
    /\ running = {}
    /\ queued = <<>>
    /\ dropped = <<>>
    /\ cache = [k \in Tasks |-> NoStatus]
    /\ publishing = {}
    /\ shut = FALSE
    /\ creates = [k \in Tasks |-> 0]
    /\ withdrawn = {}
    /\ undrained = FALSE

-----------------------------------------------------------------------------
(* Admission.                                                              *)

MemoryOf(S) == MapThenSumSet(LAMBDA k : Memory[k], S)

(* Mutant: any task fits while there is a slot. *)
FitsWithoutMemory(S) == Cardinality(S) <= MaxRunningTasks

(* _capacity_block_reason is empty with the keys S running.                *)
Fits(S) == Cardinality(S) <= MaxRunningTasks /\ MemoryOf(S) <= MemoryBudget

(* The sequence q without the elements of S.                               *)
Removed(q, S) ==
    LET kept[i \in 0 .. Len(q)] ==
            IF i = 0 THEN <<>> ELSE IF q[i] \in S THEN kept[i - 1] ELSE Append(kept[i - 1], q[i])
    IN kept[Len(q)]

Update(f, S, v) == [k \in Tasks |-> IF k \in S THEN v ELSE f[k]]

(* Mutant: a task that is popped and does not fit is not put back. *)
DrainQueueLosesHead(ts, st, fut, run, q) ==
    /\ undrained' = FALSE
    /\ IF shut
       THEN /\ queued' = <<>>
            /\ running' = run
            /\ future' = fut
            /\ state' = st
       ELSE \E n \in 0 .. Len(q) :
           LET S == {k \in {q[i] : i \in 1 .. n} : k \in ts /\ st[k] \notin Terminal} IN
           /\ S # {} => Fits(run \cup S)
           /\ n < Len(q) => /\ q[n + 1] \in ts /\ st[q[n + 1]] \notin Terminal
                            /\ ~Fits(run \cup S \cup {q[n + 1]})
           /\ queued' = SubSeq(q, n + 2, Len(q))
           /\ running' = run \cup S
           /\ future' = Update(fut, S, "waiting")
           /\ state' = Update(st, S, "RUNNING")

(* _drain_queue, after a step that leaves ts, st, fut, run and q: takes    *)
(* tasks off the queue up to the first that does not fit.                  *)
DrainQueue(ts, st, fut, run, q) ==
    /\ undrained' = FALSE
    /\ IF shut
       THEN /\ queued' = <<>>
            /\ running' = run
            /\ future' = fut
            /\ state' = st
       ELSE \E n \in 0 .. Len(q) :
           LET S == {k \in {q[i] : i \in 1 .. n} : k \in ts /\ st[k] \notin Terminal} IN
           /\ S # {} => Fits(run \cup S)
           /\ n < Len(q) => /\ q[n + 1] \in ts /\ st[q[n + 1]] \notin Terminal
                            /\ ~Fits(run \cup S \cup {q[n + 1]})
           /\ queued' = SubSeq(q, n + 1, Len(q))
           /\ running' = run \cup S
           /\ future' = Update(fut, S, "waiting")
           /\ state' = Update(st, S, "RUNNING")

(* Every status that changes is published; the status of k always is.      *)
Published(c, S) == [k \in Tasks |-> IF k \in S \/ state'[k] # state[k] THEN state'[k] ELSE c[k]]

-----------------------------------------------------------------------------
(* The manager's operations.                                               *)

(* create_task.  It raises after shutdown and for a task that can never    *)
(* fit; a task that exists is left alone.  A new one starts if it fits,    *)
(* also past the tasks that are queued.                                    *)
CreateTask(k) ==
    /\ ~shut
    /\ k \notin tasks
    /\ Memory[k] <= MemoryBudget
    /\ creates[k] < MaxCreates[k]
    /\ creates' = [creates EXCEPT ![k] = @ + 1]
    /\ tasks' = tasks \cup {k}
    /\ dropped' = Removed(dropped, {k})
    /\ \/ /\ Fits(running \cup {k})
          /\ running' = running \cup {k}
          /\ future' = [future EXCEPT ![k] = "waiting"]
          /\ state' = [state EXCEPT ![k] = "RUNNING"]
          /\ UNCHANGED queued
       \/ /\ ~Fits(running \cup {k})
          /\ state' = [state EXCEPT ![k] = "QUEUED"]
          /\ queued' = Append(queued, k)
          /\ future' = [future EXCEPT ![k] = "none"]
          /\ UNCHANGED running
    /\ cache' = Published(cache, {k})
    /\ UNCHANGED <<native, unwinding, publishing, shut, historyVars>>

(* cancel() of the executions S: the coroutine is told to stop, the state  *)
(* is final at once.  Before either it may raise, in a source queue; the   *)
(* task has left queued_tasks by then.                                     *)
Canceled(S) == [k \in Tasks |-> IF k \in S /\ state[k] \notin Terminal THEN "CANCELED" ELSE state[k]]
Cancelling(S) == [k \in Tasks |-> IF k \in S /\ future[k] \in {"waiting", "running"} THEN "cancelling" ELSE future[k]]
Withdrawn(S, raised) == (withdrawn \ S) \cup {k \in raised : state[k] = "QUEUED"}

(* cancel_task; when cancel() raises, or release_result after CANCELED, it *)
(* gets no further.                                                        *)
CancelTask(k) ==
    /\ k \in tasks
    /\ DrainQueue(tasks, Canceled({k}), Cancelling({k}), running \ {k}, Removed(queued, {k}))
    /\ withdrawn' = Withdrawn({k}, {})
    /\ cache' = Published(cache, {k})
    /\ UNCHANGED <<tasks, native, unwinding, dropped, publishing, shut, creates>>

CancelTaskRaises(k) ==
    /\ k \in tasks
    /\ \E stopped \in SUBSET {k} :
          /\ state' = Canceled(stopped)
          /\ future' = Cancelling(stopped)
          /\ withdrawn' = Withdrawn({k}, {k} \ stopped)
    /\ queued' = Removed(queued, {k})
    /\ undrained' = (undrained \/ (queued # <<>> /\ Head(queued) = k))
    /\ cache' = Published(cache, {})
    /\ UNCHANGED <<tasks, native, unwinding, running, dropped, publishing, shut, creates>>

(* The coroutines of S now belong to executions the manager has forgotten. *)
Forgotten(S) ==
    unwinding' = unwinding \cup
        {<<k, creates[k]>> : k \in {j \in S : future[j] \notin {"none", "called"}}}

(* The orders in which a set can be taken.                                 *)
Orders(S) == Injection(1 .. Cardinality(S), S)

(* _store_dropped_status of the tasks in order, the oldest evicted.        *)
Dropped(order) ==
    LET all == Removed(dropped, Range(order)) \o order IN
    SubSeq(all, IF Len(all) > MaxDropped THEN Len(all) - MaxDropped + 1 ELSE 1, Len(all))

(* drop_query: its tasks are cancelled and forgotten, in whatever order    *)
(* the set yields them.  A task whose cancel() raised stays as it is, but  *)
(* not in the queue; one whose cleanup raises after that stays, CANCELED.  *)
(* The statuses that no longer fit among the dropped ones are evicted.     *)
(* shutdown clears query_tasks: after it nothing is found to drop.         *)
DropQuery(query) ==
    LET all == {k \in tasks : QueryOf[k] = query} IN
    \E raised \in SUBSET {k \in all : state[k] \notin Terminal} : \E kept \in SUBSET (all \ raised) :
        LET stopped == all \ raised
            gone == stopped \ kept
            fut == [k \in Tasks |-> IF k \in gone THEN "none" ELSE Cancelling(stopped)[k]] IN
        /\ all # {}
        /\ ~shut
        /\ tasks' = tasks \ gone
        /\ \E order \in Orders(gone) : dropped' = Dropped(order)
        /\ Forgotten(gone)
        /\ DrainQueue(tasks', Canceled(stopped), fut, running \ gone, Removed(queued, all))
        /\ withdrawn' = Withdrawn(all, raised)
        /\ LET evicted == Range(dropped) \ Range(dropped') IN
           cache' = Update(Published(cache, kept), gone \cup evicted, NoStatus)
        /\ UNCHANGED <<native, publishing, shut, creates>>

(* create_task of a task that exists, ack_task_result, release_task_result: *)
(* all they change is the cached status.                                   *)
PublishStatus(k) ==
    /\ k \in tasks
    /\ cache' = [cache EXCEPT ![k] = state[k]]
    /\ UNCHANGED <<tasks, state, futureVars, running, queued, dropped, publishing, shut, creates, historyVars>>

(* shutdown, on another thread: forgets every task whose cancel() and      *)
(* cleanup do not raise.                                                   *)
Shutdown ==
    \E raised \in SUBSET {k \in tasks : state[k] \notin Terminal} : \E kept \in SUBSET (tasks \ raised) :
        LET stopped == tasks \ raised
            gone == stopped \ kept IN
        /\ ~shut
        /\ shut' = TRUE
        /\ queued' = <<>>
        /\ tasks' = tasks \ gone
        /\ running' = running \ gone
        /\ state' = Canceled(stopped)
        /\ future' = [k \in Tasks |-> IF k \in gone THEN "none" ELSE Cancelling(stopped)[k]]
        /\ Forgotten(gone)
        /\ withdrawn' = Withdrawn(tasks, raised)
        /\ cache' = Published(cache, stopped)
        /\ UNCHANGED <<native, dropped, publishing, creates, undrained>>

-----------------------------------------------------------------------------
(* The tasks.                                                              *)

(* _run has its splits: _wait_for_fte_splits_sealed returns and execute_fn *)
(* hands the task to a native thread, or the preparation raises.           *)
NativeBegins(k) ==
    /\ future[k] = "waiting"
    /\ future' = [future EXCEPT ![k] = "running"]
    /\ native' = native \cup {<<k, creates[k]>>}
    /\ UNCHANGED <<tasks, state, unwinding, running, queued, dropped, cacheVars, shut, creates, historyVars>>

RunFails(k) ==
    /\ future[k] = "waiting"
    /\ future' = [future EXCEPT ![k] = "ended"]
    /\ state' = [state EXCEPT ![k] = "FAILED"]
    /\ cache' = Published(cache, {k})
    /\ UNCHANGED <<tasks, native, unwinding, running, queued, dropped, publishing, shut, creates, historyVars>>

(* Mutant: the progress thread is not joined before the end. *)
NativeEndsUnjoined(k, n, outcome) ==
    /\ <<k, n>> \in native
    /\ native' = native \ {<<k, n>>}
    /\ IF n = creates[k] /\ future[k] = "running"
       THEN /\ future' = [future EXCEPT ![k] = "ended"]
            /\ state' = [state EXCEPT ![k] = outcome]
            /\ cache' = Published(cache, {k})
       ELSE UNCHANGED <<future, state, cache>>
    /\ UNCHANGED <<tasks, unwinding, running, queued, dropped, publishing, shut, creates, historyVars>>

(* The native execution ends, its progress thread joined first, and _run   *)
(* takes the result or the exception, unless it was cancelled.             *)
NativeEnds(k, n, outcome) ==
    /\ <<k, n>> \in native
    /\ ~\E status \in States : <<k, n, status>> \in publishing
    /\ native' = native \ {<<k, n>>}
    /\ IF n = creates[k] /\ future[k] = "running"
       THEN /\ future' = [future EXCEPT ![k] = "ended"]
            /\ state' = [state EXCEPT ![k] = outcome]
            /\ cache' = Published(cache, {k})
       ELSE UNCHANGED <<future, state, cache>>
    /\ UNCHANGED <<tasks, unwinding, running, queued, dropped, publishing, shut, creates, historyVars>>

(* A cancelled coroutine unwinds. *)
CoroutineEnds(k) ==
    /\ future[k] = "cancelling"
    /\ future' = [future EXCEPT ![k] = "ended"]
    /\ UNCHANGED <<tasks, state, native, unwinding, running, queued, dropped, cacheVars, shut, creates, historyVars>>

(* Mutant: the done callback does not drain the queue. *)
TaskDoneNoDrain(k) ==
    /\ future[k] = "ended"
    /\ UNCHANGED state
    /\ future' = [future EXCEPT ![k] = "called"]
    /\ running' = running \ {k}
    /\ cache' = Published(cache, {k})
    /\ UNCHANGED <<tasks, native, unwinding, queued, dropped, publishing, shut, creates, historyVars>>

(* Mutant: the done callback leaves the slot to whoever ended the task. *)
TaskDoneKeepsSlot(k) ==
    /\ future[k] = "ended"
    /\ DrainQueue(tasks, state, [future EXCEPT ![k] = "called"], running, queued)
    /\ cache' = Published(cache, {k})
    /\ UNCHANGED <<tasks, native, unwinding, dropped, publishing, shut, creates, withdrawn>>

(* _task_done, by the key. *)
TaskDone(k) ==
    /\ future[k] = "ended"
    /\ DrainQueue(tasks, state, [future EXCEPT ![k] = "called"], running \ {k}, queued)
    /\ cache' = Published(cache, {k})
    /\ UNCHANGED <<tasks, native, unwinding, dropped, publishing, shut, creates, withdrawn>>

(* The same callback, of an execution that was forgotten. *)
ForgottenTaskDone(k, n) ==
    /\ <<k, n>> \in unwinding
    /\ unwinding' = unwinding \ {<<k, n>>}
    /\ DrainQueue(tasks, state, future, running \ {k}, queued)
    /\ cache' = Published(cache, tasks \cap {k})
    /\ UNCHANGED <<tasks, native, dropped, publishing, shut, creates, withdrawn>>

(* _record_task_stats on the progress thread: _publish_status reads the    *)
(* status of its execution ...                                             *)
ReadStatus(k, n) ==
    /\ <<k, n>> \in native
    /\ ~\E status \in States : <<k, n, status>> \in publishing
    /\ LET status == IF n = creates[k] THEN state[k] ELSE "CANCELED" IN
       publishing' = publishing \cup {<<k, n, status>>}
    /\ UNCHANGED <<tasks, state, futureVars, running, queued, dropped, cache, shut, creates, historyVars>>

(* ... and writes it into the cache under another lock. *)
CacheStatus(k, n, status) ==
    /\ <<k, n, status>> \in publishing
    /\ publishing' = publishing \ {<<k, n, status>>}
    /\ cache' = [cache EXCEPT ![k] = status]
    /\ UNCHANGED <<tasks, state, futureVars, running, queued, dropped, shut, creates, historyVars>>

Next ==
    \/ \E k \in Tasks :
          \/ CreateTask(k)
          \/ CancelTask(k)
          \/ CancelTaskRaises(k)
          \/ PublishStatus(k)
          \/ NativeBegins(k)
          \/ RunFails(k)
          \/ CoroutineEnds(k)
          \/ TaskDone(k)
          \/ \E n \in 1 .. MaxCreates[k] :
                \/ \E outcome \in {"FINISHED", "FAILED"} : NativeEnds(k, n, outcome)
                \/ ForgottenTaskDone(k, n)
                \/ ReadStatus(k, n)
                \/ \E status \in States : CacheStatus(k, n, status)
    \/ \E query \in Queries : DropQuery(query)
    \/ Shutdown

Spec == Init /\ [][Next]_vars

(* A task that waits gets its splits, the loop gets to the callbacks, and  *)
(* a native execution ends however often it reports progress: its progress *)
(* thread is told to stop and joined.                                      *)
TasksGoOn ==
    \E k \in Tasks :
        \/ NativeBegins(k) \/ CoroutineEnds(k) \/ TaskDone(k)
        \/ \E n \in 1 .. MaxCreates[k], outcome \in {"FINISHED", "FAILED"} : NativeEnds(k, n, outcome)
StatusIsCached == \E k \in Tasks : \E n \in 1 .. MaxCreates[k], status \in States : CacheStatus(k, n, status)

Fairness == SF_vars(TasksGoOn) /\ WF_vars(StatusIsCached)

FairSpec == Spec /\ Fairness

-----------------------------------------------------------------------------
(* Properties.                                                             *)

Occurrences(k) == Cardinality({i \in 1 .. Len(queued) : queued[i] = k})

(* Whatever is cancelled, dropped, created again or left behind by a drop or
   a shutdown that raised, after CANCELED or before: the queue holds exactly
   the QUEUED tasks, each once, but for those that a cancel() that raised
   took off it.  So no other task is QUEUED that nobody will start, and none
   is started twice; and those stay owned and QUEUED, for a repeated
   drop_query or cancel_task to find. *)
QueueIsExact ==
    /\ withdrawn \subseteq {k \in tasks : state[k] = "QUEUED"}
    /\ \A k \in Tasks :
          Occurrences(k) = IF k \in tasks /\ state[k] = "QUEUED" /\ k \notin withdrawn THEN 1 ELSE 0

(* The tasks that occupy the worker are the ones the manager counts: a
   RUNNING task holds a slot, unless its attempt id was created twice, and
   the slots keep to max_running_tasks and the memory budget through
   cancellations, late callbacks and drains. *)
CapacityRespected ==
    /\ \A k \in tasks : state[k] = "RUNNING" /\ creates[k] = 1 => k \in running
    /\ Cardinality(running) <= MaxRunningTasks
    /\ MemoryOf(running) <= MemoryBudget

(* A slot is never lost: whatever holds one has a coroutine whose callback
   is still to come and will free it. *)
SlotsComeBack == \A k \in running : future[k] \notin {"none", "called"}

(* Every operation that frees capacity or moves the queue on drains it: when
   the head of the queue waits, it does not fit.  The exception is a
   cancel_task of the head that raised, until the next drain. *)
NoIdleQueue == queued # <<>> /\ ~undrained => ~Fits(running \cup {Head(queued)})

(* What the manager answers for a task that ended by itself is how it ended:
   the progress thread of the execution, joined before the end, cannot put
   an earlier status over the final one.  (That of an earlier execution of
   the same attempt id can.) *)
FinishedIsVisible ==
    \A k \in tasks : state[k] \in {"FINISHED", "FAILED"} /\ creates[k] = 1 => cache[k] = state[k]

(* A queued task gets its turn or is cancelled when tasks end, also when
   those before it left the queue by a cancel_task that raised; it stays
   QUEUED only when its own cancel() raised. *)
QueuedTaskLeaves == \A k \in Tasks : state[k] = "QUEUED" ~> (state[k] # "QUEUED" \/ k \in withdrawn)

=============================================================================
