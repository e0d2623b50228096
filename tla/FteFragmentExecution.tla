------------------------ MODULE FteFragmentExecution ------------------------
(***************************************************************************)
(* FteFragmentExecution of duckdb/runners/fte/fte_execution.py: the task   *)
(* partitions of one fragment, driven by split assignments, by the pending *)
(* drain, by worker reservations, by attempt statuses, by worker failures  *)
(* and by memory pressure.                                                 *)
(*                                                                         *)
(* Every action is one critical section of the fragment's state lock.  An  *)
(* operation that also holds the attempt scheduling lock is a series of    *)
(* such sections: apply is the apply_assignment_result in progress and     *)
(* scheduling the _schedule_partition_if_ready in progress (under apply or *)
(* on its own).  Operations that only need the state lock run between the  *)
(* sections, as their threads can.                                         *)
(*                                                                         *)
(* Reserving says whether the worker_reservation_callback is set, as in    *)
(* the Ray runner: then an attempt starts when its worker reservation      *)
(* completes, else as soon as it is admitted.                              *)
(***************************************************************************)
EXTENDS FteTaskPartition

CONSTANTS
    Partitions,         \* partition ids of the fragment
    InitialClasses,     \* execution classes a fragment can be created with
    Reserving,          \* worker_reservation_callback is not None
    MaxAssignments      \* bound on apply_assignment_result calls

ASSUME InitialClassesAssumption == InitialClasses \subseteq Classes
ASSUME ReservingAssumption == Reserving \in BOOLEAN
ASSUME MaxAssignmentsAssumption == MaxAssignments \in Nat

VARIABLES
    parts,          \* the FteTaskPartition of each partition id
    added,          \* keys of FteFragmentExecution.partitions
    cls,            \* FteFragmentExecution.execution_class
    failed,         \* FteFragmentExecution.failed
    noMore,         \* FteFragmentExecution.no_more_partitions
    apply,          \* what apply_assignment_result has left to do
    scheduling,     \* the partition _schedule_partition_if_ready is at
    reservation,    \* _FTE_PENDING_WORKER_RESERVATIONS of each partition
    issued,         \* attempts whose FteCreateTaskCommand was recorded
    doomed,         \* <<partition, attempt>> pairs mark_worker_failed read
    outcome,        \* what the worker reports of each attempt
    raised,         \* exceptions that ended an operation half way
    assignments,    \* apply_assignment_result calls so far
    closed          \* partitions whose seal the split assigner has sent

fragmentVars == <<added, cls, failed, noMore>>
lockVars == <<apply, scheduling>>
attemptVars == <<reservation, issued>>
inputVars == <<assignments, closed>>
envVars == <<doomed, outcome, inputVars>>
vars == <<parts, fragmentVars, lockVars, attemptVars, envVars, raised>>

AnyClass == "ANY"
Outcomes == {"FINISHED", "RETRYABLE", "FATAL", "MEMORY"}
NoOutcome == "NONE"

NoApply == [active |-> FALSE, updates |-> {}, seals |-> {}, noMore |-> FALSE]
NoScheduling == [stage |-> "none"]
Scheduling(stage, p, c) == [stage |-> stage, p |-> p, c |-> c]

SchedulingLockFree == ~apply.active /\ scheduling = NoScheduling
ApplyTurn == apply.active /\ scheduling = NoScheduling

Init ==
    /\ cls \in InitialClasses
    /\ parts = [p \in Partitions |-> NewPartition(cls)]
    /\ added = {}
    /\ failed = FALSE
    /\ noMore = FALSE
    /\ apply = NoApply
    /\ scheduling = NoScheduling
    /\ reservation = [p \in Partitions |-> "none"]
    /\ issued = [p \in Partitions |-> {}]
    /\ doomed = {}
    /\ outcome = [p \in Partitions |-> [a \in Attempts |-> NoOutcome]]
    /\ raised = {}
    /\ assignments = 0
    /\ closed = {}

-----------------------------------------------------------------------------
(* Assignments.  add_partition is idempotent and a new partition takes the *)
(* class the fragment has then.                                            *)

WithPartitions(S) ==
    [p \in Partitions |-> IF p \in S \ added THEN NewPartition(cls) ELSE parts[p]]

(* The drain calls add_partition before it fills in a task's descriptor,   *)
(* and apply_task_update calls it before it changes one.                   *)
AddPartition(p) ==
    /\ p \notin added
    /\ parts' = WithPartitions({p})
    /\ added' = added \cup {p}
    /\ UNCHANGED <<cls, failed, noMore, lockVars, attemptVars, envVars, raised>>

(* apply_assignment_result: its first section adds the partitions.  An     *)
(* update here is one that can start the partition; the split assigners    *)
(* send the seal of a partition once and nothing to it afterwards.         *)
ApplyAssignmentResult(updates, seals, last) ==
    /\ SchedulingLockFree
    /\ assignments < MaxAssignments
    /\ updates \cup seals # {}
    /\ (updates \cup seals) \cap closed = {}
    /\ ~noMore \/ updates \cup seals \subseteq added
    /\ parts' = WithPartitions(updates \cup seals)
    /\ added' = added \cup updates \cup seals
    /\ apply' = [active |-> TRUE, updates |-> updates, seals |-> seals, noMore |-> last]
    /\ assignments' = assignments + 1
    /\ closed' = closed \cup seals
    /\ UNCHANGED <<cls, failed, noMore, scheduling, attemptVars, doomed, outcome, raised>>

(* _mark_partition_ready_for_execution and the call that follows it: with  *)
(* the admission callback's consent the caller goes on to schedule p.      *)
MarkReadyAndSchedule(p, r, admitted) ==
    /\ parts' = [parts EXCEPT ![p] = IF admitted
                                     THEN MarkReadyForExecution(r)
                                     ELSE DeferReadyForExecution(r)]
    /\ scheduling' = IF admitted THEN Scheduling("check", p, AnyClass) ELSE NoScheduling

UpdatePartition(p) ==
    /\ ApplyTurn
    /\ p \in apply.updates
    /\ apply' = [apply EXCEPT !.updates = @ \ {p}]
    /\ \/ /\ ~HasRunningAttempt(parts[p])
          /\ ~Terminal(parts[p])
          /\ \E admitted \in BOOLEAN : MarkReadyAndSchedule(p, parts[p], admitted)
       \/ /\ HasRunningAttempt(parts[p]) \/ Terminal(parts[p])
          /\ UNCHANGED <<parts, scheduling>>
    /\ UNCHANGED <<fragmentVars, attemptVars, envVars, raised>>

SealPartition(p) ==
    /\ ApplyTurn
    /\ apply.updates = {}
    /\ p \in apply.seals
    /\ ~Terminal(parts[p])
    /\ apply' = [apply EXCEPT !.seals = @ \ {p}]
    /\ \/ /\ ~HasRunningAttempt(parts[p])
          /\ \E admitted \in BOOLEAN : MarkReadyAndSchedule(p, Seal(parts[p]), admitted)
       \/ /\ HasRunningAttempt(parts[p])
          /\ parts' = [parts EXCEPT ![p] = Seal(@)]
          /\ UNCHANGED scheduling
    /\ UNCHANGED <<fragmentVars, attemptVars, envVars, raised>>

(* Sealing a speculative partition tells the worker of its running attempt *)
(* about the new class; when that call fails the partition is sealed and   *)
(* apply_assignment_result ends there.                                     *)
SealWithoutWorker(p) ==
    /\ ApplyTurn
    /\ apply.updates = {}
    /\ p \in apply.seals
    /\ ~Terminal(parts[p])
    /\ HasRunningAttempt(parts[p])
    /\ IsSpeculative(parts[p].cls)
    /\ parts' = [parts EXCEPT ![p] = Seal(@)]
    /\ apply' = NoApply
    /\ raised' = raised \cup {"transition"}
    /\ UNCHANGED <<fragmentVars, scheduling, attemptVars, envVars>>

(* seal() raises on a terminal partition: apply_assignment_result ends     *)
(* there and drops the seals it has left.                                  *)
SealTerminalPartition(p) ==
    /\ ApplyTurn
    /\ apply.updates = {}
    /\ p \in apply.seals
    /\ Terminal(parts[p])
    /\ apply' = NoApply
    /\ raised' = raised \cup {"seal"}
    /\ UNCHANGED <<parts, fragmentVars, scheduling, attemptVars, envVars>>

FinishAssignment ==
    /\ ApplyTurn
    /\ apply.updates \cup apply.seals = {}
    /\ noMore' = (noMore \/ apply.noMore)
    /\ apply' = NoApply
    /\ UNCHANGED <<parts, added, cls, failed, scheduling, attemptVars, envVars, raised>>

-----------------------------------------------------------------------------
(* Scheduling.                                                             *)

MatchesClass(r, c) == c = AnyClass \/ r.cls = c

(* Mutant: a partition that had an attempt is not found again. *)
ReadyToScheduleOnce(r) == r.ready /\ NextAttemptNumber(r) = 0 /\ ~HasRunningAttempt(r) /\ ~Terminal(r)

ReadyToSchedule(r) == r.ready /\ ~HasRunningAttempt(r) /\ ~Terminal(r)

(* schedule_next_pending_partition and the retry of task_failed call       *)
(* _schedule_partition_if_ready for partitions they found ready earlier.   *)
SchedulePartition(p, c) ==
    /\ SchedulingLockFree
    /\ p \in added
    /\ ReadyToSchedule(parts[p])
    /\ MatchesClass(parts[p], c)
    /\ scheduling' = Scheduling("check", p, c)
    /\ UNCHANGED <<parts, fragmentVars, apply, attemptVars, envVars, raised>>

(* _try_complete_fte_worker_reservation_future: the placement is acquired  *)
(* (the completion event is on its way), no node has room, the query's     *)
(* resource manager withholds the task (the partition goes back to the     *)
(* deferred ones), or no node can ever match (an exception).               *)
TryCompleteReservation(p) ==
    \/ /\ reservation' = [reservation EXCEPT ![p] = "completed"]
       /\ UNCHANGED <<parts, apply, raised>>
    \/ /\ reservation' = [reservation EXCEPT ![p] = "pending"]
       /\ UNCHANGED <<parts, apply, raised>>
    \/ /\ reservation' = [reservation EXCEPT ![p] = "none"]
       /\ parts' = [parts EXCEPT ![p] = DeferReadyForExecution(@)]
       /\ UNCHANGED <<apply, raised>>
    \/ /\ reservation' = [reservation EXCEPT ![p] = "none"]
       /\ raised' = raised \cup {"placement"}
       /\ apply' = NoApply
       /\ UNCHANGED parts

(* The first section of _schedule_partition_if_ready and the attempt       *)
(* admission callback after it.  With a reservation in flight the callback *)
(* only tries to complete it and declines.                                 *)
CheckPartition ==
    /\ scheduling.stage = "check"
    /\ LET p == scheduling.p
           c == scheduling.c IN
       \/ /\ ~(ReadyToSchedule(parts[p]) /\ MatchesClass(parts[p], c))
          /\ scheduling' = NoScheduling
          /\ UNCHANGED <<parts, reservation, apply, raised>>
       \/ /\ ReadyToSchedule(parts[p]) /\ MatchesClass(parts[p], c)
          /\ reservation[p] = "none"
          /\ scheduling' \in {NoScheduling, Scheduling("commit", p, c)}
          /\ UNCHANGED <<parts, reservation, apply, raised>>
       \/ /\ ReadyToSchedule(parts[p]) /\ MatchesClass(parts[p], c)
          /\ reservation[p] = "pending"
          /\ TryCompleteReservation(p)
          /\ scheduling' = NoScheduling
       \/ /\ ReadyToSchedule(parts[p]) /\ MatchesClass(parts[p], c)
          /\ reservation[p] = "completed"
          /\ scheduling' = NoScheduling
          /\ UNCHANGED <<parts, reservation, apply, raised>>
    /\ UNCHANGED <<fragmentVars, issued, envVars>>

(* start_attempt_with_worker: worker selection may find no worker; the     *)
(* attempt counts as running before the worker registers the fragment,     *)
(* and the create command is only recorded after that.                     *)
StartAttemptWithWorker(p, w) ==
    /\ CanStartAttempt(parts[p])
    /\ parts' = [parts EXCEPT ![p] = StartAttempt(@, w)]
    /\ \/ /\ issued' = [issued EXCEPT ![p] = @ \cup {NextAttemptNumber(parts[p])}]
          /\ UNCHANGED <<apply, raised>>
       \/ /\ raised' = raised \cup {"register"}
          /\ apply' = NoApply
          /\ UNCHANGED issued

(* The last section: the partition is checked again and then started or,   *)
(* with reservations, its worker requested.                                *)
CommitPartition ==
    /\ scheduling.stage = "commit"
    /\ scheduling' = NoScheduling
    /\ LET p == scheduling.p
           c == scheduling.c IN
       \/ /\ ~(ReadyToSchedule(parts[p]) /\ MatchesClass(parts[p], c))
          /\ UNCHANGED <<parts, reservation, issued, apply, raised>>
       \/ /\ ReadyToSchedule(parts[p]) /\ MatchesClass(parts[p], c)
          /\ Reserving
          /\ TryCompleteReservation(p)
          /\ UNCHANGED issued
       \/ /\ ReadyToSchedule(parts[p]) /\ MatchesClass(parts[p], c)
          /\ ~Reserving
          /\ \/ \E w \in Workers : StartAttemptWithWorker(p, w)
             \/ UNCHANGED <<parts, issued, apply, raised>>
          /\ UNCHANGED reservation
    /\ UNCHANGED <<fragmentVars, envVars>>

(* _handles_for_worker_reservation_completed_event: the reservation is     *)
(* dropped; it starts an attempt if the partition still wants one and the  *)
(* worker can be acquired again.                                           *)
ReservationCompleted(p) ==
    /\ SchedulingLockFree
    /\ reservation[p] = "completed"
    /\ reservation' = [reservation EXCEPT ![p] = "none"]
    /\ \/ /\ HasRunningAttempt(parts[p]) \/ Terminal(parts[p])
          /\ UNCHANGED <<parts, issued, apply, raised>>
       \/ /\ ~HasRunningAttempt(parts[p]) /\ ~Terminal(parts[p])
          /\ \/ \E w \in Workers : StartAttemptWithWorker(p, w)
             \/ UNCHANGED <<parts, issued, apply, raised>>
             \/ /\ raised' = raised \cup {"placement"}
                /\ UNCHANGED <<parts, issued, apply>>
    /\ UNCHANGED <<fragmentVars, scheduling, envVars>>

(* release_deferred_execution_partitions.                                  *)
ReleaseDeferred(c, admitted) ==
    /\ \E p \in added : parts[p].deferred
    /\ parts' =
        [p \in Partitions |->
            LET r == parts[p] IN
            IF p \notin added \/ ~r.deferred THEN r
            ELSE IF HasRunningAttempt(r) \/ Terminal(r)
                 THEN [r EXCEPT !.deferred = FALSE]
            ELSE IF ~MatchesClass(r, c) THEN r
            ELSE IF p \in admitted THEN MarkReadyForExecution(r)
                 ELSE DeferReadyForExecution(r)]
    /\ UNCHANGED <<fragmentVars, lockVars, attemptVars, envVars, raised>>

(* set_execution_class: terminal partitions keep their class.              *)
SetExecutionClass(c) ==
    /\ cls # c
    /\ CanTransitionTo(cls, c)
    /\ cls' = c
    /\ parts' = [p \in Partitions |->
                    IF p \in added /\ ~Terminal(parts[p]) THEN SetClass(parts[p], c) ELSE parts[p]]
    /\ UNCHANGED <<added, failed, noMore, lockVars, attemptVars, envVars, raised>>

-----------------------------------------------------------------------------
(* Attempts.                                                               *)

(* The partition after task_failed's section.  A memory failure is never   *)
(* retried; a retry of an unsealed speculative partition waits for its     *)
(* next update.                                                            *)
PartitionAfterFailure(r, a, kind) ==
    LET retry == FailureLeavesRetry(r, a, kind # "FATAL")
        rest  == MarkAttemptFailed(r, a, kind # "FATAL") IN
    IF retry /\ kind = "MEMORY"
    THEN [rest EXCEPT !.failed = TRUE, !.ready = FALSE, !.deferred = FALSE,
                      !.running = [b \in Attempts |-> NoWorker]]
    ELSE IF retry /\ ~r.sealed /\ IsSpeculative(r.cls)
         THEN [rest EXCEPT !.ready = FALSE, !.deferred = FALSE]
    ELSE IF retry THEN MarkReadyForExecution(rest)
    ELSE rest

(* Mutant: the memory failure of a partition does not fail the fragment. *)
TaskFailedMemoryContained(p, a, kind) ==
    /\ parts' = [parts EXCEPT ![p] = PartitionAfterFailure(@, a, kind)]
    /\ failed' = (failed \/ (kind # "MEMORY" /\ parts'[p].failed))

TaskFailed(p, a, kind) ==
    /\ parts' = [parts EXCEPT ![p] = PartitionAfterFailure(@, a, kind)]
    /\ failed' = (failed \/ parts'[p].failed)

TaskFinished(p, a) ==
    /\ parts' = [parts EXCEPT ![p] = MarkAttemptFinished(@, a)]
    /\ UNCHANGED failed

(* Mutant: the worker does not wait for its sources to be sealed. *)
AttemptEndsEarly(p, a, o) ==
    /\ a \in issued[p]
    /\ outcome[p][a] = NoOutcome
    /\ outcome' = [outcome EXCEPT ![p][a] = o]
    /\ UNCHANGED <<parts, fragmentVars, lockVars, attemptVars, doomed, inputVars, raised>>

(* The worker decides once how an attempt ends (the terminal states of     *)
(* fte_worker_runtime.py are final), and runs an attempt to its end only   *)
(* when it knows that no source has more splits.  It is told after the     *)
(* assignment that also carries the seal.                                  *)
AttemptEnds(p, a, o) ==
    /\ a \in issued[p]
    /\ outcome[p][a] = NoOutcome
    /\ o = "FINISHED" => p \in closed /\ ~apply.active
    /\ outcome' = [outcome EXCEPT ![p][a] = o]
    /\ UNCHANGED <<parts, fragmentVars, lockVars, attemptVars, doomed, inputVars, raised>>

(* handle_task_status of a terminal status.  It can come late, after the   *)
(* attempt was given up, and more than once.                               *)
HandleTaskStatus(p, a) ==
    /\ outcome[p][a] # NoOutcome
    /\ IF outcome[p][a] = "FINISHED"
       THEN TaskFinished(p, a)
       ELSE TaskFailed(p, a, outcome[p][a])
    /\ UNCHANGED <<added, cls, noMore, lockVars, attemptVars, envVars, raised>>

(* mark_worker_failed reads the attempts running on the worker ...         *)
MarkWorkerFailed(w) ==
    /\ \E p \in added, a \in Attempts : parts[p].running[a] = w
    /\ doomed' = doomed \cup
                 {pa \in added \X Attempts : parts[pa[1]].running[pa[2]] = w}
    /\ UNCHANGED <<parts, fragmentVars, lockVars, attemptVars, outcome, inputVars, raised>>

(* ... and fails them one after the other, each in its own section.        *)
FailDoomedAttempt(p, a, retryable) ==
    /\ <<p, a>> \in doomed
    /\ doomed' = doomed \ {<<p, a>>}
    /\ TaskFailed(p, a, IF retryable THEN "RETRYABLE" ELSE "FATAL")
    /\ UNCHANGED <<added, cls, noMore, lockVars, attemptVars, outcome, inputVars, raised>>

(* revoke_speculative_attempts: S are the partitions on the worker asked   *)
(* for, up to the limit or to a cancel call that failed.                   *)
RevokeSpeculativeAttempts(S) ==
    /\ S # {}
    /\ \A p \in S : /\ p \in added
                    /\ ~Terminal(parts[p])
                    /\ IsSpeculative(parts[p].cls)
                    /\ HasRunningAttempt(parts[p])
    /\ parts' = [p \in Partitions |->
                    IF p \in S THEN RevokeAttempt(parts[p], RunningAttempt(parts[p])) ELSE parts[p]]
    /\ failed' = (failed \/ \E p \in S : parts'[p].failed)
    /\ UNCHANGED <<added, cls, noMore, lockVars, attemptVars, envVars, raised>>

(* _mark_fte_worker_failed withdraws the reservations on the worker.       *)
WithdrawReservation(p) ==
    /\ reservation[p] # "none"
    /\ reservation' = [reservation EXCEPT ![p] = "none"]
    /\ UNCHANGED <<parts, fragmentVars, lockVars, issued, envVars, raised>>

-----------------------------------------------------------------------------
Next ==
    \/ \E updates, seals \in SUBSET Partitions, last \in BOOLEAN :
            ApplyAssignmentResult(updates, seals, last)
    \/ \E p \in Partitions :
            \/ AddPartition(p)
            \/ UpdatePartition(p)
            \/ SealPartition(p)
            \/ SealWithoutWorker(p)
            \/ SealTerminalPartition(p)
            \/ \E c \in Classes \cup {AnyClass} : SchedulePartition(p, c)
            \/ ReservationCompleted(p)
            \/ WithdrawReservation(p)
            \/ \E a \in Attempts :
                  \/ \E o \in Outcomes : AttemptEnds(p, a, o)
                  \/ HandleTaskStatus(p, a)
                  \/ \E retryable \in BOOLEAN : FailDoomedAttempt(p, a, retryable)
    \/ FinishAssignment
    \/ CheckPartition
    \/ CommitPartition
    \/ \E c \in Classes \cup {AnyClass}, admitted \in SUBSET Partitions : ReleaseDeferred(c, admitted)
    \/ \E c \in Classes : SetExecutionClass(c)
    \/ \E w \in Workers : MarkWorkerFailed(w)
    \/ \E S \in SUBSET Partitions : RevokeSpeculativeAttempts(S)

Spec == Init /\ [][Next]_vars

(* The drain runs what it has begun and keeps asking for pending work;     *)
(* workers end their attempts and report them.  A callback or a placement  *)
(* that is asked again and again says yes in the end.                      *)
Fairness ==
    /\ WF_vars(FinishAssignment)
    /\ WF_vars(CheckPartition)
    /\ WF_vars(CommitPartition)
    /\ \A p \in Partitions :
          /\ WF_vars(UpdatePartition(p))
          /\ WF_vars(SealPartition(p))
          /\ WF_vars(SealTerminalPartition(p))
          /\ SF_vars(SchedulePartition(p, AnyClass))
          /\ SF_vars(ReleaseDeferred(AnyClass, {p}) /\ parts'[p].ready)
          /\ SF_vars(CheckPartition /\ scheduling.p = p /\ scheduling' # NoScheduling)
          /\ SF_vars((CheckPartition \/ CommitPartition)
                        /\ scheduling.p = p /\ reservation'[p] = "completed")
          /\ SF_vars((CommitPartition \/ ReservationCompleted(p))
                        /\ ~HasRunningAttempt(parts[p]) /\ HasRunningAttempt(parts'[p]))
          /\ \A a \in Attempts :
                /\ WF_vars(\E o \in Outcomes : AttemptEnds(p, a, o))
                /\ WF_vars(HandleTaskStatus(p, a))

FairSpec == Spec /\ Fairness

-----------------------------------------------------------------------------
(* Properties.                                                             *)

(* Every variable has its type.                                            *)
TypeOK ==
    /\ parts \in [Partitions -> PartitionType]
    /\ added \subseteq Partitions
    /\ cls \in Classes
    /\ failed \in BOOLEAN
    /\ noMore \in BOOLEAN
    /\ apply \in [active : BOOLEAN, updates : SUBSET Partitions,
                  seals : SUBSET Partitions, noMore : BOOLEAN]
    /\ scheduling \in {NoScheduling} \cup
                      [stage : {"check", "commit"}, p : Partitions, c : Classes \cup {AnyClass}]
    /\ reservation \in [Partitions -> {"none", "pending", "completed"}]
    /\ issued \in [Partitions -> SUBSET Attempts]
    /\ doomed \subseteq Partitions \X Attempts
    /\ outcome \in [Partitions -> [Attempts -> Outcomes \cup {NoOutcome}]]
    /\ raised \subseteq {"seal", "transition", "placement", "register"}
    /\ assignments \in 0 .. MaxAssignments
    /\ closed \subseteq Partitions

(* running_attempt (fte_execution.py:163-168) never finds two attempts: a  *)
(* partition has at most one running attempt, always the one its remaining *)
(* budget numbers, and none once it is finished or failed.                 *)
AtMostOneRunningAttempt ==
    \A p \in Partitions, a \in Attempts :
        IsRunning(parts[p], a) => a = NextAttemptNumber(parts[p]) /\ ~Terminal(parts[p])

(* A sealed partition that is neither over nor running is always waiting   *)
(* to be scheduled or to be admitted: no order of failure, revocation,     *)
(* seal, deferral and late status leaves it where the pending drain        *)
(* (has_pending_partitions) would not see it.                              *)
NoStrandedPartition ==
    \A p \in Partitions :
        parts[p].sealed /\ ~Terminal(parts[p]) /\ ~HasRunningAttempt(parts[p])
            => parts[p].ready \/ parts[p].deferred

(* The fragment is failed exactly when one of its partitions is, and a     *)
(* partition whose attempts are used up is failed.                         *)
FragmentFailsWithPartition ==
    /\ failed <=> \E p \in Partitions : parts[p].failed
    /\ \A p \in Partitions : parts[p].remaining = 0 => parts[p].failed

(* The selected attempt is one whose worker reported FINISHED, whatever    *)
(* worker failures, revocations and late statuses came before and after.   *)
SelectedAttemptFinished ==
    \A p \in Partitions :
        /\ parts[p].finished <=> parts[p].selected # NoAttempt
        /\ parts[p].finished => /\ ~parts[p].failed
                                /\ outcome[p][parts[p].selected] = "FINISHED"

(* apply_assignment_result raises from seal() only when the query is       *)
(* failing anyway.                                                         *)
SealRaisesOnlyAfterFailure == "seal" \in raised => failed

(* An attempt number is used once: a step that records a create command    *)
(* records it for a number no earlier command of the partition had.  A     *)
(* reused number would make a late status of the old attempt count for     *)
(* the new one.                                                            *)
AttemptNumbersAreFresh ==
    [][\A p \in Partitions, a \in Attempts :
            ~IsRunning(parts[p], a) /\ IsRunning(parts[p], a)' =>
                a \notin issued[p] /\ outcome[p][a] = NoOutcome]_vars

(* What is decided stays decided: a finished partition keeps its selected  *)
(* attempt and a failed one stays failed, whatever status comes later.     *)
TerminalPartitionsAreFinal ==
    [][\A p \in Partitions :
            Terminal(parts[p]) => /\ parts'[p].finished = parts[p].finished
                                  /\ parts'[p].failed = parts[p].failed
                                  /\ parts'[p].selected = parts[p].selected
                                  /\ parts'[p].remaining = parts[p].remaining]_vars

(* A sealed partition is driven to its end: it finishes or fails, unless   *)
(* an exception has failed the query.                                      *)
SealedPartitionsEnd ==
    \A p \in Partitions :
        parts[p].sealed ~> Terminal(parts[p]) \/ raised # {}
=============================================================================
