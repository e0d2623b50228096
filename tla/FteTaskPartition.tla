-------------------------- MODULE FteTaskPartition --------------------------
(***************************************************************************)
(* FteTaskPartition of duckdb/runners/fte/fte_execution.py: the attempt    *)
(* bookkeeping of one task of a fragment.  A partition is a record and     *)
(* every method of the class is an operator from records to records; the   *)
(* callers in FteFragmentExecution hold the fragment's state lock around   *)
(* each of them.                                                           *)
(*                                                                         *)
(* running_attempts, a dict from attempt number to RunningAttempt, is the  *)
(* function r.running: the worker of a running attempt, NoWorker           *)
(* elsewhere.  Attempt statistics and failure texts are left out.          *)
(***************************************************************************)
EXTENDS Integers

CONSTANTS
    MaxAttempts,    \* max_attempts, the retry budget of a partition
    Workers,        \* the workers an attempt can be placed on
    NoWorker        \* no attempt is running under that number

ASSUME MaxAttemptsAssumption == MaxAttempts \in Nat \ {0}
ASSUME NoWorkerAssumption == NoWorker \notin Workers

Attempts == 0 .. (MaxAttempts - 1)
NoAttempt == -1

(* FteTaskExecutionClass (fte_state.py). *)
Classes == {"STANDARD", "SPECULATIVE", "EAGER_SPECULATIVE"}
IsSpeculative(c) == c # "STANDARD"
CanTransitionTo(c, d) == c = d \/ d = "STANDARD"

PartitionType ==
    [remaining : 0 .. MaxAttempts,
     sealed    : BOOLEAN,
     finished  : BOOLEAN,
     failed    : BOOLEAN,
     ready     : BOOLEAN,      \* ready_for_scheduling
     deferred  : BOOLEAN,      \* execution_ready_deferred
     cls       : Classes,
     running   : [Attempts -> Workers \cup {NoWorker}],
     selected  : Attempts \cup {NoAttempt}]

NewPartition(c) ==
    [remaining |-> MaxAttempts,
     sealed    |-> FALSE,
     finished  |-> FALSE,
     failed    |-> FALSE,
     ready     |-> FALSE,
     deferred  |-> FALSE,
     cls       |-> c,
     running   |-> [a \in Attempts |-> NoWorker],
     selected  |-> NoAttempt]

IsRunning(r, a) == r.running[a] # NoWorker
HasRunningAttempt(r) == \E a \in Attempts : IsRunning(r, a)
RunningAttempt(r) == CHOOSE a \in Attempts : IsRunning(r, a)
Terminal(r) == r.finished \/ r.failed

NextAttemptNumber(r) == MaxAttempts - r.remaining

(* The conditions under which start_attempt does not raise. *)
CanStartAttempt(r) ==
    /\ ~Terminal(r)
    /\ ~HasRunningAttempt(r)
    /\ r.remaining > 0

StartAttempt(r, w) ==
    [r EXCEPT !.deferred = FALSE,
              !.running  = [@ EXCEPT ![NextAttemptNumber(r)] = w]]

MarkReadyForExecution(r) ==
    [r EXCEPT !.ready = TRUE, !.deferred = FALSE]

(* Mutant: the partition is taken out of the queue and not deferred. *)
DeferReadyForExecutionForgets(r) ==
    IF Terminal(r) \/ HasRunningAttempt(r)
    THEN r
    ELSE [r EXCEPT !.ready = FALSE]

DeferReadyForExecution(r) ==
    IF Terminal(r) \/ HasRunningAttempt(r)
    THEN r
    ELSE [r EXCEPT !.ready = FALSE, !.deferred = TRUE]

(* seal() of a partition that is not terminal; a speculative partition     *)
(* becomes a standard one.                                                 *)
Seal(r) ==
    MarkReadyForExecution([r EXCEPT !.sealed = TRUE, !.cls = "STANDARD"])

SetClass(r, c) == [r EXCEPT !.cls = c]

(* Mutants: the finished attempt stays in running_attempts; the last       *)
(* attempt to finish is selected; any status counts for the running        *)
(* attempt.                                                                *)
MarkAttemptFinishedKeepsRunning(r, a) ==
    IF ~IsRunning(r, a)
    THEN r
    ELSE [r EXCEPT !.finished = TRUE, !.failed = FALSE, !.selected = a]

MarkAttemptFinishedLate(r, a) ==
    IF ~IsRunning(r, a) /\ ~r.finished
    THEN r
    ELSE [r EXCEPT !.finished = TRUE,
                   !.failed   = FALSE,
                   !.selected = a,
                   !.running  = [b \in Attempts |-> NoWorker]]

MarkAttemptFinishedAnyAttempt(r, a) ==
    IF ~HasRunningAttempt(r)
    THEN r
    ELSE [r EXCEPT !.finished = TRUE,
                   !.failed   = FALSE,
                   !.selected = RunningAttempt(r),
                   !.running  = [b \in Attempts |-> NoWorker]]

(* mark_attempt_finished: a status of an attempt that is not running any   *)
(* more changes nothing, otherwise the attempt is the selected one and     *)
(* running_attempts.clear() forgets every other.                           *)
MarkAttemptFinished(r, a) ==
    IF ~IsRunning(r, a)
    THEN r
    ELSE [r EXCEPT !.finished = TRUE,
                   !.failed   = FALSE,
                   !.selected = a,
                   !.running  = [b \in Attempts |-> NoWorker]]

ForgetAttempt(r, a) ==
    [r EXCEPT !.running   = [@ EXCEPT ![a] = NoWorker],
              !.remaining = IF @ > 0 THEN @ - 1 ELSE 0]

(* mark_attempt_failed returns a ReadyTask exactly when the attempt was    *)
(* running, the failure allows a retry and the budget is not used up.      *)
FailureLeavesRetry(r, a, retryable) ==
    /\ ~r.finished
    /\ IsRunning(r, a)
    /\ retryable
    /\ r.remaining > 1

MarkAttemptFailed(r, a, retryable) ==
    IF r.finished \/ ~IsRunning(r, a)
    THEN r
    ELSE IF FailureLeavesRetry(r, a, retryable)
         THEN ForgetAttempt(r, a)
         ELSE [ForgetAttempt(r, a) EXCEPT !.failed = TRUE]

(* Mutant: a revocation is not charged to the retry budget. *)
RevokeAttemptUncharged(r, a) ==
    IF r.finished \/ ~IsRunning(r, a)
    THEN r
    ELSE [r EXCEPT !.running = [@ EXCEPT ![a] = NoWorker],
                   !.ready   = r.sealed]

RevokeAttempt(r, a) ==
    IF r.finished \/ ~IsRunning(r, a)
    THEN r
    ELSE IF r.remaining > 1
         THEN [ForgetAttempt(r, a) EXCEPT !.ready = r.sealed]
         ELSE [ForgetAttempt(r, a) EXCEPT !.failed = TRUE, !.ready = FALSE]
=============================================================================
