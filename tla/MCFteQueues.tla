---------------------------- MODULE MCFteQueues ----------------------------
(***************************************************************************)
(* The two queues between an event and the task that runs: the events of a *)
(* query on its scheduler, and the tasks on a worker.  part says which one *)
(* the behaviour is of; the other stays as it is.                          *)
(***************************************************************************)
EXTENDS FteQueryScheduler, TLC

VARIABLES
    part,
    tasks, taskState, future, native, unwinding, running, queued, dropped, cache, publishing, shut, creates,
    withdrawn, undrained

workerVars == <<tasks, taskState, future, native, unwinding, running, queued, dropped, cache, publishing,
                shut, creates, withdrawn, undrained>>

MCSourceOf == [t \in Submitters |-> "source"]

(* A submission of two splits, one beside another event, and two events,    *)
(* worker failures among them, without one.                                *)
MCLoads == {[splits |-> 2, events |-> 0], [splits |-> 1, events |-> 1], [splits |-> 0, events |-> 2]}

(* One slot and two tasks of a query, the first of which is created again.  *)
WorkerTasks == {"t1", "t2"}
Worker == INSTANCE FteWorkerTaskManager WITH
    Tasks <- WorkerTasks, QueryOf <- [k \in WorkerTasks |-> "q"], Memory <- [k \in WorkerTasks |-> 1],
    MemoryBudget <- 3, MaxRunningTasks <- 1, MaxDropped <- 1,
    MaxCreates <- [k \in WorkerTasks |-> IF k = "t1" THEN 2 ELSE 1],
    state <- taskState

MCInit ==
    /\ part \in {"scheduler", "worker"}
    /\ Init /\ Worker!Init
    /\ part = "worker" => budget = 2

(* Bound: of the executions the first one of t1 reports progress.          *)
OneReports == publishing \subseteq {<<"t1", 1, s>> : s \in Worker!States}

MCNext ==
    \/ part = "scheduler" /\ Next /\ UNCHANGED <<part, workerVars>>
    \/ part = "worker" /\ Worker!Next /\ OneReports' /\ UNCHANGED <<part, vars>>

(* The fairness of each part, while it is the one that moves.              *)
MCFairness ==
    /\ WF_vars(part = "scheduler" /\ ThreadsGoOn)
    /\ SF_workerVars(part = "worker" /\ Worker!TasksGoOn)
    /\ WF_workerVars(part = "worker" /\ Worker!StatusIsCached)

MCSpec == MCInit /\ [][MCNext]_<<part, vars, workerVars>> /\ MCFairness

(* FteWorkerTaskManager: a queued task gets its turn, is cancelled, or its
   own cancel() raised. *)
WorkerQueuedTaskLeaves == Worker!QueuedTaskLeaves

=============================================================================
