--------------------------- MODULE FteSplitDelivery ---------------------------
(***************************************************************************)
(* How the splits of a fragment reach its tasks: the partition updates of   *)
(* FteFragmentExecution, the worker commands they turn into, their          *)
(* execution by FteWorkerCommandMixin, FteTaskExecution's add_splits and    *)
(* no_more_splits on the workers, and the replay of the descriptor on       *)
(* another worker when a worker or a command fails.                         *)
(*                                                                         *)
(* The query's event loop (FteQueryScheduler) has one writer: an event is   *)
(* handled, its worker commands included, before the next one.  A command   *)
(* is a blocking call.  Workers and their tasks go on meanwhile.            *)
(***************************************************************************)
EXTENDS Integers, Sequences, FiniteSets, Functions

CONSTANTS
    Partitions,
    Workers,
    Splits,         \* the splits of the fragment's source
    Speculative,    \* partitions of a speculative class until they are sealed
    MaxAttempts,    \* max_attempts of a partition
    MaxFailures     \* bound: failures of workers, calls and tasks

None == "none"

ASSUME SetsAssumption == IsFiniteSet(Partitions) /\ IsFiniteSet(Splits) /\ None \notin Workers
ASSUME SpeculativeAssumption == Speculative \subseteq Partitions
ASSUME BoundAssumption == MaxAttempts \in Nat \ {0} /\ MaxFailures \in Nat

Attempts == 0 .. MaxAttempts - 1

VARIABLES
    assigned,       \* descriptor.initial_splits of each partition
    noMore,         \* partitions with the source in no_more_splits, then sealed
    ready,          \* partitions with ready_for_scheduling
    running,        \* running_attempts: None, or the worker of the attempt
    attempt,        \* number of the running or the next attempt
    outcome,        \* finished, failed or None
    commands,       \* commands of the event being handled
    task,           \* on the workers: the execution of each attempt
    alive,          \* workers that answer
    quarantined,    \* workers the scheduler has given up
    workerFailed,   \* WorkerFailed events of failed commands, in the queue
    failures,       \* failures so far
    skipped         \* history: commands for other workers that a failed call
                    \* left unexecuted

partitionVars == <<assigned, noMore>>
attemptVars == <<ready, running, attempt, outcome>>
workerVars == <<alive, quarantined, workerFailed, failures>>
vars == <<partitionVars, attemptVars, commands, task, workerVars, skipped>>

NoTask == [state |-> None, worker |-> None, seen |-> {}, noMore |-> FALSE]

Init ==
    /\ assigned = [p \in Partitions |-> {}]
    /\ noMore = {}
    /\ ready = {}
    /\ running = [p \in Partitions |-> None]
    /\ attempt = [p \in Partitions |-> 0]
    /\ outcome = [p \in Partitions |-> None]
    /\ commands = <<>>
    /\ task = [p \in Partitions |-> [n \in Attempts |-> NoTask]]
    /\ alive = Workers
    /\ quarantined = {}
    /\ workerFailed = {}
    /\ failures = 0
    /\ skipped = {}

(* The WorkerFailed event of a failed command goes to the front of the     *)
(* queue.  An assignment result does not wait for it: a submission goes on *)
(* with its next source after a control failure.                           *)
Idle == commands = <<>>
Turn == Idle /\ workerFailed = {}

-----------------------------------------------------------------------------
(* The scheduler.                                                          *)

Command(kind, p, S) ==
    [kind |-> kind, p |-> p, n |-> attempt[p], worker |-> running[p], splits |-> S, noMore |-> FALSE]

(* Mutant: a running attempt is not told that its source has ended. *)
UpdatesWithoutEnd(p, S, last) ==
    IF running[p] = None THEN {}
    ELSE {Command("add_splits", p, {s}) : s \in S}

(* The commands of _update_partition_locked for a partition that is        *)
(* running; _split_update_batches may put every split into one of its own. *)
Updates(p, S, last) ==
    IF running[p] = None THEN {}
    ELSE {Command("add_splits", p, {s}) : s \in S}
         \cup (IF p \in last THEN {Command("no_more_splits", p, {})} ELSE {})

(* One partition after the other, each with its no_more_splits at the end. *)
InOrder(cmds) ==
    \A i, j \in DOMAIN cmds : i < j /\ cmds[i].p = cmds[j].p =>
        /\ cmds[i].kind = "add_splits"
        /\ \A k \in i .. j : cmds[k].p = cmds[i].p

(* The orders in which a set can be taken.                                 *)
Orders(S) == Injection(1 .. Cardinality(S), S)

(* apply_assignment_result: every partition touched gets new splits, the   *)
(* end of the source (and is sealed), or both; ready_for_scheduling is set *)
(* for the early ones.                                                     *)
ApplyAssignmentResult ==
    \E touched \in SUBSET (Partitions \ noMore) :
    \E new \in [touched -> SUBSET (Splits \ UNION {assigned[p] : p \in Partitions})] :
    \E last, early \in SUBSET touched :
        /\ Idle
        /\ touched # {}
        /\ \A p \in touched : outcome[p] # "failed" /\ (new[p] # {} \/ p \in last)
        /\ \A p, r \in touched : p # r => new[p] \cap new[r] = {}
        /\ assigned' = [p \in Partitions |-> IF p \in touched THEN assigned[p] \cup new[p] ELSE assigned[p]]
        /\ noMore' = noMore \cup last
        /\ ready' = ready \cup {p \in last \cup early : running[p] = None}
        /\ commands' \in Orders(UNION {Updates(p, new[p], last) : p \in touched})
        /\ InOrder(commands')
        /\ UNCHANGED <<running, attempt, outcome, task, workerVars, skipped>>

(* Mutant: the request leaves out no_more_splits. *)
StartAttemptStale(p, w) ==
    /\ Turn
    /\ p \in ready
    /\ running[p] = None
    /\ outcome[p] = None
    /\ w \notin quarantined
    /\ running' = [running EXCEPT ![p] = w]
    /\ commands' = <<[kind |-> "create_task", p |-> p, n |-> attempt[p], worker |-> w,
                      splits |-> assigned[p], noMore |-> FALSE]>>
    /\ UNCHANGED <<partitionVars, ready, attempt, outcome, task, workerVars, skipped>>

(* WorkerReservationCompleted: start_attempt_with_worker makes the request *)
(* from the descriptor as it is now.                                       *)
StartAttempt(p, w) ==
    /\ Turn
    /\ p \in ready
    /\ running[p] = None
    /\ outcome[p] = None
    /\ w \notin quarantined
    /\ running' = [running EXCEPT ![p] = w]
    /\ commands' = <<[kind |-> "create_task", p |-> p, n |-> attempt[p], worker |-> w,
                      splits |-> assigned[p], noMore |-> p \in noMore]>>
    /\ UNCHANGED <<partitionVars, ready, attempt, outcome, task, workerVars, skipped>>

(* task_failed of the running attempts of S, each retried while attempts   *)
(* remain and it may be; an unsealed speculative partition waits for its   *)
(* next update.                                                            *)
AttemptsFailed(S, retryable) ==
    /\ ready' = ready \ (S \cap (Speculative \ noMore))
    /\ running' = [p \in Partitions |-> IF p \in S THEN None ELSE running[p]]
    /\ attempt' = [p \in Partitions |->
                      IF p \in S /\ retryable /\ attempt[p] + 1 < MaxAttempts THEN attempt[p] + 1 ELSE attempt[p]]
    /\ outcome' = [p \in Partitions |->
                      IF p \in S /\ (~retryable \/ attempt[p] + 1 >= MaxAttempts) THEN "failed" ELSE outcome[p]]

(* mark_fte_worker_failed_for_event: retried if another worker is left.    *)
LoseWorker(w) ==
    /\ quarantined' = quarantined \cup {w}
    /\ AttemptsFailed({p \in Partitions : running[p] = w}, quarantined' # Workers)

WorkerFailed(w) ==
    /\ Idle
    /\ w \in workerFailed
    /\ workerFailed' = workerFailed \ {w}
    /\ LoseWorker(w)
    /\ UNCHANGED <<partitionVars, commands, task, alive, failures, skipped>>

(* The event of mark_fte_worker_failed, when a worker is found dead.       *)
WorkerFoundDead(w) ==
    /\ Turn
    /\ w \notin alive \cup quarantined
    /\ LoseWorker(w)
    /\ UNCHANGED <<partitionVars, commands, task, alive, workerFailed, failures, skipped>>

(* TaskStatusChanged: the status of an attempt that is not running any     *)
(* more changes nothing.                                                   *)
TaskStatusChanged(p) ==
    /\ Turn
    /\ running[p] # None
    /\ \/ /\ task[p][attempt[p]].state = "finished"
          /\ outcome' = [outcome EXCEPT ![p] = "finished"]
          /\ running' = [running EXCEPT ![p] = None]
          /\ UNCHANGED <<ready, attempt>>
       \/ /\ task[p][attempt[p]].state = "failed"
          /\ AttemptsFailed({p}, TRUE)
    /\ UNCHANGED <<partitionVars, commands, task, workerVars, skipped>>

-----------------------------------------------------------------------------
(* The execution of the commands.                                          *)

(* What FteTaskExecution accepts: not after the end, nor splits after      *)
(* no_more_splits.                                                         *)
Accepted(c) ==
    LET t == task[c.p][c.n] IN
    CASE c.kind = "create_task" -> TRUE
      [] c.kind = "add_splits" -> t.state = "running" /\ ~t.noMore
      [] OTHER -> t.state = "running"

Applied(c) ==
    LET t == task[c.p][c.n] IN
    [task EXCEPT ![c.p][c.n] =
        [state |-> "running", worker |-> c.worker, seen |-> t.seen \cup c.splits,
         noMore |-> c.noMore \/ t.noMore \/ c.kind = "no_more_splits"]]

ExecuteCommand ==
    LET c == Head(commands) IN
    /\ ~Idle
    /\ c.worker \in alive
    /\ Accepted(c)
    /\ task' = Applied(c)
    /\ commands' = Tail(commands)
    /\ UNCHANGED <<partitionVars, attemptVars, workerVars, skipped>>

(* Mutant: the worker is given up and no event tells the fragments. *)
ControlFailureNoEvent(c, applied) ==
    /\ commands' = <<>>
    /\ task' = IF applied THEN Applied(c) ELSE task
    /\ quarantined' = quarantined \cup {c.worker}
    /\ UNCHANGED <<partitionVars, attemptVars, alive, workerFailed, skipped>>

(* A call raises, its effect on the worker made or not: the commands that  *)
(* are left are not executed, and the worker is given up.                  *)
ControlFailure(c, applied) ==
    /\ commands' = <<>>
    /\ task' = IF applied THEN Applied(c) ELSE task
    /\ skipped' = skipped \cup {d \in Range(commands) : d.worker # c.worker}
    /\ quarantined' = quarantined \cup {c.worker}
    /\ workerFailed' = workerFailed \cup {c.worker}
    /\ UNCHANGED <<partitionVars, attemptVars, alive>>

CommandRaises ==
    LET c == Head(commands) IN
    /\ ~Idle
    /\ c.worker \notin alive \/ ~Accepted(c)
    /\ ControlFailure(c, FALSE)
    /\ UNCHANGED failures

CommandTimesOut ==
    LET c == Head(commands) IN
    /\ ~Idle
    /\ failures < MaxFailures
    /\ failures' = failures + 1
    /\ \E applied \in BOOLEAN :
          /\ applied => c.worker \in alive /\ Accepted(c)
          /\ ControlFailure(c, applied)

-----------------------------------------------------------------------------
(* The workers.                                                            *)

(* Mutant: a task does not wait for the end of its source. *)
TaskFinishesUnsealed(p, n) ==
    /\ task[p][n].state = "running" /\ task[p][n].worker \in alive
    /\ task' = [task EXCEPT ![p][n].state = "finished"]
    /\ UNCHANGED <<partitionVars, attemptVars, commands, workerVars, skipped>>

(* A task ends when it has worked off its splits and no more come.         *)
TaskFinishes(p, n) ==
    /\ task[p][n].state = "running" /\ task[p][n].worker \in alive
    /\ task[p][n].noMore
    /\ task' = [task EXCEPT ![p][n].state = "finished"]
    /\ UNCHANGED <<partitionVars, attemptVars, commands, workerVars, skipped>>

TaskFails(p, n) ==
    /\ task[p][n].state = "running" /\ task[p][n].worker \in alive
    /\ failures < MaxFailures
    /\ failures' = failures + 1
    /\ task' = [task EXCEPT ![p][n].state = "failed"]
    /\ UNCHANGED <<partitionVars, attemptVars, commands, alive, quarantined, workerFailed, skipped>>

WorkerDies(w) ==
    /\ w \in alive
    /\ failures < MaxFailures
    /\ failures' = failures + 1
    /\ alive' = alive \ {w}
    /\ UNCHANGED <<partitionVars, attemptVars, commands, task, quarantined, workerFailed, skipped>>

(* A watcher that cannot read the status gives up a worker that is alive.  *)
WorkerSuspected(w) ==
    /\ Turn
    /\ w \in alive \ quarantined
    /\ failures < MaxFailures
    /\ failures' = failures + 1
    /\ LoseWorker(w)
    /\ UNCHANGED <<partitionVars, commands, task, alive, workerFailed, skipped>>

SchedulerNext ==
    \/ ApplyAssignmentResult
    \/ \E p \in Partitions, w \in Workers : StartAttempt(p, w)
    \/ \E w \in Workers : WorkerFailed(w) \/ WorkerFoundDead(w) \/ WorkerSuspected(w)
    \/ \E p \in Partitions : TaskStatusChanged(p)
    \/ ExecuteCommand
    \/ CommandRaises
    \/ CommandTimesOut

WorkerNext ==
    \/ \E p \in Partitions, n \in Attempts : TaskFinishes(p, n) \/ TaskFails(p, n)
    \/ \E w \in Workers : WorkerDies(w)

Next == SchedulerNext \/ WorkerNext

Spec == Init /\ [][Next]_vars

(* Events are handled, calls return or raise, watchers notice dead workers *)
(* and tasks that have their input end.                                    *)
FairSpec ==
    /\ Spec
    /\ WF_vars(ExecuteCommand \/ CommandRaises)
    /\ \A w \in Workers : WF_vars(WorkerFailed(w)) /\ WF_vars(WorkerFoundDead(w))
    /\ \A p \in Partitions :
          /\ SF_vars(\E w \in Workers : StartAttempt(p, w))
          /\ SF_vars(running[p] \in alive /\ TaskStatusChanged(p))
          /\ \A n \in Attempts : WF_vars(TaskFinishes(p, n))

-----------------------------------------------------------------------------
(* Properties.                                                             *)

(* What the current attempt of p was not told because of failed calls to
   the workers of others, and the commands that say a source has ended. *)
Missed(p) == {c \in skipped : c.p = p /\ c.n = attempt[p]}
MissedSplits(p) == UNION {c.splits : c \in Missed(p)}
Ends(c) == c.noMore \/ c.kind = "no_more_splits"

(* Splits are lost in one way only: the attempt a partition is finished with
   has had every split of the descriptor, through splits that arrive while
   it is created, runs, fails, or while calls to its worker fail after they
   had their effect, except those of a command that was left unexecuted
   when the call before it, to another worker, failed. *)
FinishedSawEverything ==
    \A p \in Partitions : outcome[p] = "finished" =>
        LET seen == task[p][attempt[p]].seen IN
        p \in noMore /\ seen \subseteq assigned[p] /\ assigned[p] \ seen \subseteq MissedSplits(p)

(* Between two events a running attempt knows what its descriptor
   knows, but for the commands that were left unexecuted, unless the loss of
   its worker is about to be handled. *)
RunningUpToDate ==
    Idle => \A p \in Partitions :
        LET t == task[p][attempt[p]] IN
        running[p] # None /\ running[p] \notin workerFailed =>
            /\ t.state # None
            /\ t.seen \subseteq assigned[p] /\ assigned[p] \ t.seen \subseteq MissedSplits(p)
            /\ t.noMore => p \in noMore
            /\ p \in noMore => t.noMore \/ \E c \in Missed(p) : Ends(c)

(* A running attempt is on a worker that has not been given up, or the
   event that ends the attempt is in the queue. *)
NoAttemptForgotten == \A p \in Partitions : running[p] \in quarantined => running[p] \in workerFailed

(* A partition whose input has ended is finished or fails, as long as a
   worker is left, unless the command that tells it so was left unexecuted. *)
PartitionEnds ==
    \A p \in Partitions :
        p \in noMore ~> (outcome[p] # None \/ quarantined = Workers \/ \E c \in Missed(p) : Ends(c))

(* What the test of a failed split append says: no split of the descriptor
   is lost.  It does not hold when one assignment result updates two running
   partitions and the call for the first fails. *)
NoSplitLost ==
    \A p \in Partitions : outcome[p] = "finished" => task[p][attempt[p]].seen = assigned[p]

=============================================================================
