--------------------- MODULE FteFragmentExecution_proofs ---------------------
(***************************************************************************)
(* Proofs about FteFragmentExecution, for any number of partitions,        *)
(* workers and attempts.  PartitionInv is what every method of             *)
(* FteTaskPartition preserves; IndInv adds what ties the partitions to the *)
(* issued attempts, their outcomes, the seals in progress and the          *)
(* fragment's own failure flag.                                            *)
(***************************************************************************)
EXTENDS FteFragmentExecution, TLAPS

-----------------------------------------------------------------------------
(* One partition.                                                          *)

PartitionInv(r) ==
    /\ r \in PartitionType
    /\ \A a \in Attempts : IsRunning(r, a) => a = NextAttemptNumber(r) /\ ~Terminal(r)
    /\ r.sealed /\ ~Terminal(r) /\ ~HasRunningAttempt(r) => r.ready \/ r.deferred
    /\ r.remaining = 0 => r.failed
    /\ r.finished <=> r.selected # NoAttempt
    /\ ~(r.finished /\ r.failed)
    /\ r.finished => r.selected = NextAttemptNumber(r)

(* A new partition is open, idle and has its whole budget.                 *)
LEMMA NewPartitionInv ==
    ASSUME NEW c \in Classes
    PROVE  PartitionInv(NewPartition(c))
  BY MaxAttemptsAssumption, NoWorkerAssumption
     DEF PartitionInv, NewPartition, PartitionType, IsRunning, HasRunningAttempt,
         Terminal, Attempts, NoAttempt


(* What any step may do to a partition: it never gives budget back, never  *)
(* unseals, never changes what is decided, and an attempt that ran or was  *)
(* selected still is unless its budget was charged.                        *)
Progress(r, s) ==
    /\ PartitionInv(s)
    /\ s.remaining <= r.remaining
    /\ r.sealed => s.sealed
    /\ Terminal(r) => /\ s.finished = r.finished
                      /\ s.failed = r.failed
                      /\ s.selected = r.selected
                      /\ s.remaining = r.remaining
    /\ \A a \in Attempts :
          IsRunning(r, a) \/ (r.finished /\ r.selected = a)
              => IsRunning(s, a) \/ (s.finished /\ s.selected = a) \/ s.remaining < r.remaining

NoNewAttempt(r, s) == \A a \in Attempts : IsRunning(s, a) => IsRunning(r, a)

SameEnd(r, s) == s.finished = r.finished /\ s.selected = r.selected

(* The methods that only change the scheduling flags or the class.         *)
Kept(r, s) ==
    /\ s.running = r.running /\ s.remaining = r.remaining
    /\ s.finished = r.finished /\ s.failed = r.failed /\ s.selected = r.selected

(* An operation that only moves flags of a partition without a running     *)
(* attempt, or of a partition that is over, keeps the partition            *)
(* invariant.                                                              *)
LEMMA KeptProgress ==
    ASSUME NEW r, NEW s, PartitionInv(r), s \in PartitionType, Kept(r, s),
           r.sealed => s.sealed,
           s.sealed /\ ~Terminal(s) /\ ~HasRunningAttempt(s) => s.ready \/ s.deferred
    PROVE  Progress(r, s) /\ NoNewAttempt(r, s) /\ SameEnd(r, s)
<1>1. /\ \A a \in Attempts : IsRunning(s, a) <=> IsRunning(r, a)
      /\ Terminal(s) <=> Terminal(r)
      /\ NextAttemptNumber(s) = NextAttemptNumber(r)
      /\ s.remaining <= r.remaining
  BY DEF Kept, IsRunning, Terminal, NextAttemptNumber, PartitionInv, PartitionType
<1>2. PartitionInv(s)
  BY <1>1 DEF PartitionInv, Kept
<1> QED
  BY <1>1, <1>2 DEF Progress, NoNewAttempt, SameEnd, Kept

(* A partition that is left alone.                                         *)
LEMMA StutterProgress ==
    ASSUME NEW r, PartitionInv(r)
    PROVE  Progress(r, r) /\ NoNewAttempt(r, r) /\ SameEnd(r, r)
  BY KeptProgress DEF Kept, PartitionInv

(* mark_ready_for_execution, defer_ready_for_execution,                    *)
(* set_execution_class and the flag reset of                               *)
(* release_deferred_execution_partitions keep the invariant.               *)
LEMMA FlagsProgress ==
    ASSUME NEW r, PartitionInv(r), NEW c \in Classes,
           NEW s \in {MarkReadyForExecution(r), DeferReadyForExecution(r), SetClass(r, c)}
    PROVE  Progress(r, s) /\ NoNewAttempt(r, s) /\ SameEnd(r, s) /\ s.failed = r.failed /\ s.sealed = r.sealed
<1>1. CASE s = MarkReadyForExecution(r)
  <2>1. s \in PartitionType /\ Kept(r, s) /\ s.sealed = r.sealed /\ s.ready
    BY <1>1 DEF PartitionInv, PartitionType, MarkReadyForExecution, Kept
  <2> QED  BY <2>1, KeptProgress DEF Kept
<1>2. CASE s = DeferReadyForExecution(r)
  <2>1. CASE Terminal(r) \/ HasRunningAttempt(r)
    BY <1>2, <2>1, StutterProgress DEF DeferReadyForExecution
  <2>2. CASE ~(Terminal(r) \/ HasRunningAttempt(r))
    <3>1. s \in PartitionType /\ Kept(r, s) /\ s.sealed = r.sealed /\ s.deferred
      BY <1>2, <2>2 DEF PartitionInv, PartitionType, DeferReadyForExecution, Kept
    <3> QED  BY <3>1, KeptProgress DEF Kept
  <2> QED  BY <2>1, <2>2
<1>3. CASE s = SetClass(r, c)
  <2>1. /\ s \in PartitionType /\ Kept(r, s) /\ s.sealed = r.sealed
        /\ s.ready = r.ready /\ s.deferred = r.deferred
    BY <1>3 DEF PartitionInv, PartitionType, SetClass, Kept
  <2>2. Terminal(s) = Terminal(r) /\ HasRunningAttempt(s) = HasRunningAttempt(r)
    BY <2>1 DEF Kept, Terminal, HasRunningAttempt, IsRunning
  <2> QED  BY <2>1, <2>2, KeptProgress DEF Kept, PartitionInv
<1> QED  BY <1>1, <1>2, <1>3

(* release_deferred_execution_partitions clears the deferral of a          *)
(* partition that runs or is over.                                         *)
LEMMA ClearDeferredProgress ==
    ASSUME NEW r, PartitionInv(r), HasRunningAttempt(r) \/ Terminal(r)
    PROVE  LET s == [r EXCEPT !.deferred = FALSE] IN
           Progress(r, s) /\ NoNewAttempt(r, s) /\ SameEnd(r, s) /\ s.failed = r.failed /\ s.sealed = r.sealed
<1> DEFINE s == [r EXCEPT !.deferred = FALSE]
<1>1. s \in PartitionType /\ Kept(r, s) /\ s.sealed = r.sealed
  BY DEF PartitionInv, PartitionType, Kept
<1>2. Terminal(s) = Terminal(r) /\ HasRunningAttempt(s) = HasRunningAttempt(r)
  BY <1>1 DEF Kept, Terminal, HasRunningAttempt, IsRunning
<1> QED  BY <1>1, <1>2, KeptProgress DEF Kept

(* seal() leaves the partition ready, so that it is not stranded.          *)
LEMMA SealProgress ==
    ASSUME NEW r, PartitionInv(r)
    PROVE  LET s == Seal(r) IN
           Progress(r, s) /\ NoNewAttempt(r, s) /\ SameEnd(r, s) /\ s.failed = r.failed /\ s.sealed
<1> DEFINE s == Seal(r)
<1>1. s \in PartitionType /\ Kept(r, s) /\ s.sealed /\ s.ready
  BY DEF PartitionInv, PartitionType, Seal, MarkReadyForExecution, Kept, Classes
<1> QED  BY <1>1, KeptProgress DEF Kept

(* start_attempt keeps the invariant of a partition it does not raise on,  *)
(* and the new attempt has the number the budget gives.                    *)
LEMMA StartAttemptInv ==
    ASSUME NEW r, PartitionInv(r), CanStartAttempt(r), NEW w \in Workers
    PROVE  /\ PartitionInv(StartAttempt(r, w))
           /\ NextAttemptNumber(r) \in Attempts
           /\ \A a \in Attempts : IsRunning(StartAttempt(r, w), a) <=> a = NextAttemptNumber(r)
           /\ Progress(r, StartAttempt(r, w))
           /\ SameEnd(r, StartAttempt(r, w))
           /\ StartAttempt(r, w).failed = r.failed
           /\ StartAttempt(r, w).sealed = r.sealed
<1> DEFINE s == StartAttempt(r, w)
<1>1. NextAttemptNumber(r) \in Attempts
  BY MaxAttemptsAssumption
     DEF PartitionInv, PartitionType, CanStartAttempt, NextAttemptNumber, Attempts
<1>2. \A a \in Attempts : IsRunning(s, a) <=> a = NextAttemptNumber(r)
  BY <1>1, NoWorkerAssumption
     DEF PartitionInv, PartitionType, CanStartAttempt, StartAttempt, IsRunning, HasRunningAttempt
<1>3. s \in PartitionType
  BY <1>1 DEF PartitionInv, PartitionType, StartAttempt
<1>4. NextAttemptNumber(s) = NextAttemptNumber(r) /\ Terminal(s) = Terminal(r)
  BY DEF PartitionInv, PartitionType, StartAttempt, NextAttemptNumber, Terminal
<1>5. /\ s.finished = r.finished /\ s.failed = r.failed /\ s.sealed = r.sealed
      /\ s.remaining = r.remaining /\ s.selected = r.selected
  BY DEF PartitionInv, PartitionType, StartAttempt
<1>6. HasRunningAttempt(s)
  BY <1>1, <1>2 DEF HasRunningAttempt
<1>7. PartitionInv(s)
  BY <1>1, <1>2, <1>3, <1>4, <1>5, <1>6 DEF PartitionInv, CanStartAttempt
<1>8. Progress(r, s)
  BY <1>2, <1>5, <1>7 DEF Progress, CanStartAttempt, HasRunningAttempt, Terminal, PartitionInv, PartitionType
<1> QED
  BY <1>1, <1>2, <1>5, <1>7, <1>8 DEF SameEnd

(* Forgetting the running attempt charges the budget, and the numbers that *)
(* are left are all larger than the forgotten one.                         *)
LEMMA ForgetAttemptFacts ==
    ASSUME NEW r, PartitionInv(r), NEW a \in Attempts, IsRunning(r, a)
    PROVE  LET s == ForgetAttempt(r, a) IN
           /\ s \in PartitionType
           /\ s.remaining = r.remaining - 1 /\ r.remaining >= 1
           /\ \A b \in Attempts : ~IsRunning(s, b)
           /\ ~Terminal(r) /\ ~r.finished /\ ~r.failed /\ r.selected = NoAttempt
           /\ s.finished = r.finished /\ s.failed = r.failed /\ s.selected = r.selected
           /\ s.sealed = r.sealed /\ s.cls = r.cls /\ s.ready = r.ready /\ s.deferred = r.deferred
<1> DEFINE s == ForgetAttempt(r, a)
<1>1. /\ a = NextAttemptNumber(r) /\ ~Terminal(r)
      /\ r \in PartitionType
  BY DEF PartitionInv
<1>2. ~r.finished /\ ~r.failed /\ r.selected = NoAttempt
  BY <1>1 DEF Terminal, PartitionInv
<1>3. r.remaining \in 0 .. MaxAttempts /\ r.remaining # 0
  BY <1>1, <1>2 DEF PartitionInv, PartitionType
<1>4. s \in PartitionType /\ s.remaining = r.remaining - 1
  <2>1. r.remaining \in Nat /\ r.remaining > 0 /\ r.remaining - 1 \in 0 .. MaxAttempts
    BY <1>3, MaxAttemptsAssumption
  <2>2. [r.running EXCEPT ![a] = NoWorker] \in [Attempts -> Workers \cup {NoWorker}]
    BY <1>1 DEF PartitionType
  <2>3. s = [r EXCEPT !.running = [r.running EXCEPT ![a] = NoWorker],
                      !.remaining = r.remaining - 1]
    BY <2>1, <1>1 DEF ForgetAttempt, PartitionType
  <2> QED  BY <1>1, <2>1, <2>2, <2>3 DEF PartitionType
<1>5. \A b \in Attempts : ~IsRunning(s, b)
  BY <1>1 DEF PartitionInv, PartitionType, ForgetAttempt, IsRunning
<1>6. /\ s.finished = r.finished /\ s.failed = r.failed /\ s.selected = r.selected
      /\ s.sealed = r.sealed /\ s.cls = r.cls /\ s.ready = r.ready /\ s.deferred = r.deferred
  BY <1>1 DEF PartitionType, ForgetAttempt
<1> QED  BY <1>1, <1>2, <1>3, <1>4, <1>5, <1>6

(* A partition that lost its running attempt and is then either failed or  *)
(* waiting again: the common shape of task_failed and revoke_attempt.      *)
LEMMA LostAttemptProgress ==
    ASSUME NEW r, PartitionInv(r), NEW s \in PartitionType,
           ~Terminal(r), r.selected = NoAttempt,
           s.remaining = r.remaining - 1, r.remaining >= 1,
           \A b \in Attempts : ~IsRunning(s, b),
           ~s.finished, s.selected = NoAttempt, s.sealed = r.sealed,
           s.failed \/ (s.remaining > 0 /\ (s.sealed => s.ready \/ s.deferred))
    PROVE  Progress(r, s) /\ NoNewAttempt(r, s) /\ SameEnd(r, s)
<1>1. r.remaining \in Nat /\ s.remaining \in Nat
  BY DEF PartitionInv, PartitionType
<1>2. PartitionInv(s)
  BY <1>1 DEF PartitionInv, Terminal, HasRunningAttempt
<1>3. ~r.finished
  BY DEF Terminal
<1> QED  BY <1>1, <1>2, <1>3 DEF Progress, NoNewAttempt, SameEnd, PartitionInv, PartitionType

(* task_failed on one partition.                                           *)
LEMMA FailureProgress ==
    ASSUME NEW r, PartitionInv(r), NEW a \in Attempts, NEW kind
    PROVE  LET s == PartitionAfterFailure(r, a, kind) IN
           /\ Progress(r, s) /\ NoNewAttempt(r, s) /\ SameEnd(r, s) /\ s.sealed = r.sealed
           /\ r.failed => s.failed
<1> DEFINE s == PartitionAfterFailure(r, a, kind)
           t == ForgetAttempt(r, a)
           retry == FailureLeavesRetry(r, a, kind # "FATAL")
<1>1. CASE ~IsRunning(r, a) \/ r.finished
  <2>1. s = r
    BY <1>1 DEF PartitionAfterFailure, FailureLeavesRetry, MarkAttemptFailed
  <2> QED  BY <2>1, StutterProgress
<1>2. CASE IsRunning(r, a) /\ ~r.finished
  <2>1. /\ t \in PartitionType
        /\ t.remaining = r.remaining - 1 /\ r.remaining >= 1
        /\ \A b \in Attempts : ~IsRunning(t, b)
        /\ ~Terminal(r) /\ ~r.finished /\ ~r.failed /\ r.selected = NoAttempt
        /\ t.finished = r.finished /\ t.failed = r.failed /\ t.selected = r.selected
        /\ t.sealed = r.sealed /\ t.cls = r.cls /\ t.ready = r.ready /\ t.deferred = r.deferred
    BY <1>2, ForgetAttemptFacts
  <2>2. r.remaining \in Nat /\ r.sealed \in BOOLEAN
    BY MaxAttemptsAssumption DEF PartitionInv, PartitionType
  <2>3. CASE ~retry
    <3>1. s = [t EXCEPT !.failed = TRUE]
      BY <1>2, <2>3 DEF PartitionAfterFailure, MarkAttemptFailed
    <3>2. /\ s \in PartitionType /\ s.failed /\ s.remaining = t.remaining
          /\ s.running = t.running /\ s.finished = t.finished /\ s.selected = t.selected
          /\ s.sealed = t.sealed
      BY <2>1, <3>1 DEF PartitionType
    <3>3. \A b \in Attempts : ~IsRunning(s, b)
      BY <2>1, <3>2 DEF IsRunning
    <3> QED  BY <2>1, <3>2, <3>3, LostAttemptProgress
  <2>4. CASE retry /\ kind = "MEMORY"
    <3>1. s = [t EXCEPT !.failed = TRUE, !.ready = FALSE, !.deferred = FALSE,
                        !.running = [b \in Attempts |-> NoWorker]]
      BY <1>2, <2>4 DEF PartitionAfterFailure, MarkAttemptFailed
    <3>0. [b \in Attempts |-> NoWorker] \in [Attempts -> Workers \cup {NoWorker}]
      OBVIOUS
    <3>2. /\ s \in PartitionType /\ s.failed /\ s.remaining = t.remaining
          /\ s.running = [b \in Attempts |-> NoWorker]
          /\ s.finished = t.finished /\ s.selected = t.selected
          /\ s.sealed = t.sealed
      BY <2>1, <3>0, <3>1 DEF PartitionType
    <3>3. \A b \in Attempts : ~IsRunning(s, b)
      BY <3>2 DEF IsRunning
    <3> QED  BY <2>1, <3>2, <3>3, LostAttemptProgress
  <2>5. CASE retry /\ kind # "MEMORY" /\ ~r.sealed /\ IsSpeculative(r.cls)
    <3>1. s = [t EXCEPT !.ready = FALSE, !.deferred = FALSE]
      BY <1>2, <2>5 DEF PartitionAfterFailure, MarkAttemptFailed
    <3>2. /\ s \in PartitionType /\ s.remaining = t.remaining
          /\ s.running = t.running /\ s.finished = t.finished /\ s.selected = t.selected
          /\ s.sealed = t.sealed /\ s.failed = t.failed
      BY <2>1, <3>1 DEF PartitionType
    <3>3. \A b \in Attempts : ~IsRunning(s, b)
      BY <2>1, <3>2 DEF IsRunning
    <3>4. s.remaining > 0
      BY <2>1, <2>2, <2>5, <3>2 DEF FailureLeavesRetry
    <3> QED  BY <2>1, <2>5, <3>2, <3>3, <3>4, LostAttemptProgress
  <2>6. CASE retry /\ kind # "MEMORY" /\ ~(~r.sealed /\ IsSpeculative(r.cls))
    <3>1. s = MarkReadyForExecution(t)
      BY <1>2, <2>6 DEF PartitionAfterFailure, MarkAttemptFailed
    <3>2. /\ s \in PartitionType /\ s.remaining = t.remaining /\ s.ready
          /\ s.running = t.running /\ s.finished = t.finished /\ s.selected = t.selected
          /\ s.sealed = t.sealed /\ s.failed = t.failed
      BY <2>1, <3>1 DEF PartitionType, MarkReadyForExecution
    <3>3. \A b \in Attempts : ~IsRunning(s, b)
      BY <2>1, <3>2 DEF IsRunning
    <3>4. s.remaining > 0
      BY <2>1, <2>2, <2>6, <3>2 DEF FailureLeavesRetry
    <3> QED  BY <2>1, <3>2, <3>3, <3>4, LostAttemptProgress
  <2> QED  BY <2>3, <2>4, <2>5, <2>6
<1> QED  BY <1>1, <1>2

(* revoke_attempt: the attempt is charged like a failure.                  *)
LEMMA RevokeProgress ==
    ASSUME NEW r, PartitionInv(r), NEW a \in Attempts
    PROVE  LET s == RevokeAttempt(r, a) IN
           /\ Progress(r, s) /\ NoNewAttempt(r, s) /\ SameEnd(r, s) /\ s.sealed = r.sealed
           /\ r.failed => s.failed
<1> DEFINE s == RevokeAttempt(r, a)
           t == ForgetAttempt(r, a)
<1>1. CASE ~IsRunning(r, a) \/ r.finished
  <2>1. s = r
    BY <1>1 DEF RevokeAttempt
  <2> QED  BY <2>1, StutterProgress
<1>2. CASE IsRunning(r, a) /\ ~r.finished
  <2>1. /\ t \in PartitionType
        /\ t.remaining = r.remaining - 1 /\ r.remaining >= 1
        /\ \A b \in Attempts : ~IsRunning(t, b)
        /\ ~Terminal(r) /\ ~r.finished /\ ~r.failed /\ r.selected = NoAttempt
        /\ t.finished = r.finished /\ t.failed = r.failed /\ t.selected = r.selected
        /\ t.sealed = r.sealed
    BY <1>2, ForgetAttemptFacts
  <2>2. r.remaining \in Nat /\ r.sealed \in BOOLEAN
    BY MaxAttemptsAssumption DEF PartitionInv, PartitionType
  <2>3. /\ s \in PartitionType /\ s.remaining = t.remaining /\ s.running = t.running
        /\ s.finished = t.finished /\ s.selected = t.selected /\ s.sealed = t.sealed
        /\ s.failed \/ (s.remaining > 0 /\ (s.sealed => s.ready))
    <3>1. CASE r.remaining > 1
      BY <1>2, <2>1, <2>2, <3>1 DEF RevokeAttempt, PartitionType
    <3>2. CASE ~(r.remaining > 1)
      BY <1>2, <2>1, <2>2, <3>2 DEF RevokeAttempt, PartitionType
    <3> QED  BY <3>1, <3>2
  <2>4. \A b \in Attempts : ~IsRunning(s, b)
    BY <2>1, <2>3 DEF IsRunning
  <2> QED  BY <2>1, <2>3, <2>4, LostAttemptProgress
<1> QED  BY <1>1, <1>2

(* mark_attempt_finished: only the running attempt can be selected, and    *)
(* once.                                                                   *)
LEMMA FinishProgress ==
    ASSUME NEW r, PartitionInv(r), NEW a \in Attempts
    PROVE  LET s == MarkAttemptFinished(r, a) IN
           /\ Progress(r, s) /\ NoNewAttempt(r, s)
           /\ s.sealed = r.sealed /\ s.failed = r.failed
           /\ SameEnd(r, s) \/ (s.finished /\ s.selected = a)
<1> DEFINE s == MarkAttemptFinished(r, a)
<1>1. CASE ~IsRunning(r, a)
  <2>1. s = r
    BY <1>1 DEF MarkAttemptFinished
  <2> QED  BY <2>1, StutterProgress
<1>2. CASE IsRunning(r, a)
  <2>1. /\ a = NextAttemptNumber(r) /\ ~Terminal(r)
        /\ \A b \in Attempts : IsRunning(r, b) => b = a
    BY <1>2 DEF PartitionInv
  <2>2. ~r.finished /\ ~r.failed /\ r.failed = FALSE
    BY <2>1 DEF Terminal, PartitionInv, PartitionType
  <2>3. /\ s \in PartitionType /\ s.finished = TRUE /\ s.failed = FALSE /\ s.selected = a
        /\ s.running = [b \in Attempts |-> NoWorker]
        /\ s.remaining = r.remaining /\ s.sealed = r.sealed
    BY <1>2 DEF MarkAttemptFinished, PartitionInv, PartitionType
  <2>4. \A b \in Attempts : ~IsRunning(s, b)
    BY <2>3 DEF IsRunning
  <2>5. a # NoAttempt /\ r.remaining # 0 /\ r.remaining \in Int
    BY <2>2 DEF Attempts, NoAttempt, PartitionInv, PartitionType
  <2>6. PartitionInv(s)
    <3>1. NextAttemptNumber(s) = a
      BY <2>1, <2>3 DEF NextAttemptNumber
    <3>2. Terminal(s)
      BY <2>3 DEF Terminal
    <3> QED  BY <2>3, <2>4, <2>5, <3>1, <3>2 DEF PartitionInv
  <2>7. s.remaining <= r.remaining
    BY <2>3, <2>5
  <2>8. \A b \in Attempts : IsRunning(r, b) \/ (r.finished /\ r.selected = b) => s.finished /\ s.selected = b
    BY <2>1, <2>2, <2>3
  <2>9. Progress(r, s)
    BY <2>1, <2>3, <2>6, <2>7, <2>8 DEF Progress
  <2>10. NoNewAttempt(r, s)
    BY <2>4 DEF NoNewAttempt
  <2> QED  BY <2>2, <2>3, <2>9, <2>10
<1> QED  BY <1>1, <1>2

-----------------------------------------------------------------------------
(* The fragment.                                                           *)

PartitionsInv == \A p \in Partitions : PartitionInv(parts[p])

(* Only partitions that were added have ever been worked on.               *)
Untouched(r) == \E c \in Classes : r = NewPartition(c)

AddedInv ==
    /\ apply.updates \cup apply.seals \subseteq added
    /\ scheduling # NoScheduling => scheduling.p \in added
    /\ \A pa \in doomed : pa[1] \in added
    /\ \A p \in Partitions \ added : /\ Untouched(parts[p])
                                     /\ issued[p] = {}
                                     /\ reservation[p] = "none"

(* Where the issued attempts and their outcomes can be.                    *)
AttemptInv ==
    \A p \in Partitions, a \in Attempts :
        /\ a \in issued[p] => \/ a < NextAttemptNumber(parts[p])
                              \/ IsRunning(parts[p], a)
                              \/ parts[p].finished /\ parts[p].selected = a
        /\ outcome[p][a] # NoOutcome => a \in issued[p]

SelectedInv ==
    \A p \in Partitions :
        parts[p].finished => outcome[p][parts[p].selected] = "FINISHED"

(* A partition that is still to be sealed has no attempt that finished.    *)
SealInv ==
    /\ ~apply.active => apply.seals = {}
    /\ apply.seals \subseteq closed
    /\ \A p \in Partitions, a \in Attempts :
          outcome[p][a] = "FINISHED" => p \in closed /\ p \notin apply.seals
    /\ "seal" \in raised => failed

FailedInv == failed <=> \E p \in Partitions : parts[p].failed

IndInv ==
    /\ TypeOK
    /\ PartitionsInv
    /\ AddedInv
    /\ AttemptInv
    /\ SelectedInv
    /\ SealInv
    /\ FailedInv

(* What every step does to the partitions.                                 *)
PartsStep ==
    /\ parts' \in [Partitions -> PartitionType]
    /\ \A p \in Partitions : Progress(parts[p], parts'[p])

Fresh ==
    \A p \in Partitions, a \in Attempts :
        ~IsRunning(parts[p], a) /\ IsRunning(parts'[p], a) =>
            a \notin issued[p] /\ outcome[p][a] = NoOutcome

(* A fragment without partitions satisfies the inductive invariant.        *)
LEMMA InitIndInv == Init => IndInv
<1> SUFFICES ASSUME Init PROVE IndInv
  OBVIOUS
<1>1. cls \in Classes /\ PartitionInv(NewPartition(cls))
  BY NewPartitionInv, InitialClassesAssumption DEF Init
<1>2. /\ NewPartition(cls) \in PartitionType
      /\ ~NewPartition(cls).finished /\ ~NewPartition(cls).failed /\ ~NewPartition(cls).sealed
  BY <1>1 DEF PartitionInv, NewPartition
<1>3. TypeOK
  <2>1. parts \in [Partitions -> PartitionType] /\ cls \in Classes
    BY <1>1, <1>2 DEF Init
  <2>2. apply \in [active : BOOLEAN, updates : SUBSET Partitions,
                   seals : SUBSET Partitions, noMore : BOOLEAN]
    BY DEF Init, NoApply
  <2>3. assignments \in 0 .. MaxAssignments
    BY MaxAssignmentsAssumption DEF Init
  <2> QED  BY <2>1, <2>2, <2>3 DEF Init, TypeOK
<1>4. PartitionsInv
  BY <1>1 DEF Init, PartitionsInv
<1>5. AddedInv
  BY <1>1 DEF Init, AddedInv, NoApply, Untouched
<1>6. AttemptInv
  BY <1>1 DEF Init, AttemptInv, NoOutcome
<1>7. SelectedInv /\ SealInv /\ FailedInv
  BY <1>2 DEF Init, SelectedInv, SealInv, FailedInv, NoApply, NoOutcome
<1> QED  BY <1>3, <1>4, <1>5, <1>6, <1>7 DEF IndInv

(* A step that changes one partition.                                      *)
LEMMA OnePartition ==
    ASSUME TypeOK, PartitionsInv, NEW p \in Partitions, NEW s,
           Progress(parts[p], s), parts' = [parts EXCEPT ![p] = s]
    PROVE  /\ PartsStep
           /\ parts'[p] = s
           /\ \A q \in Partitions : q # p => parts'[q] = parts[q]
<1>1. s \in PartitionType
  BY DEF Progress, PartitionInv
<1>2. parts \in [Partitions -> PartitionType]
  BY DEF TypeOK
<1>3. parts'[p] = s /\ \A q \in Partitions : q # p => parts'[q] = parts[q]
  BY <1>2
<1>4. \A q \in Partitions : Progress(parts[q], parts'[q])
  BY <1>3, StutterProgress DEF PartitionsInv
<1> QED  BY <1>1, <1>2, <1>3, <1>4 DEF PartsStep

(* A step that leaves the partitions alone.                                *)
LEMMA NoPartition ==
    ASSUME TypeOK, PartitionsInv, parts' = parts
    PROVE  /\ PartsStep
           /\ \A p \in Partitions : /\ NoNewAttempt(parts[p], parts'[p])
                                    /\ SameEnd(parts[p], parts'[p])
  BY StutterProgress DEF PartsStep, TypeOK, PartitionsInv

(* A step that starts no attempt and issues none keeps what is known of    *)
(* attempts.                                                               *)
LEMMA QuietStep ==
    ASSUME TypeOK, PartitionsInv, AttemptInv, SelectedInv,
           PartsStep, issued' = issued, outcome' = outcome,
           \A p \in Partitions :
               /\ NoNewAttempt(parts[p], parts'[p])
               /\ \/ SameEnd(parts[p], parts'[p])
                  \/ outcome[p][parts'[p].selected] = "FINISHED"
    PROVE  PartitionsInv' /\ AttemptInv' /\ SelectedInv' /\ Fresh
<1>1. PartitionsInv'
  BY DEF PartsStep, Progress, PartitionsInv
<1>2. AttemptInv'
  <2> SUFFICES ASSUME NEW p \in Partitions, NEW a \in Attempts
               PROVE  /\ a \in issued[p] => \/ a < NextAttemptNumber(parts'[p])
                                            \/ IsRunning(parts'[p], a)
                                            \/ parts'[p].finished /\ parts'[p].selected = a
                      /\ outcome[p][a] # NoOutcome => a \in issued[p]
    BY DEF AttemptInv
  <2>1. /\ parts[p].remaining \in 0 .. MaxAttempts /\ parts'[p].remaining \in 0 .. MaxAttempts
        /\ parts'[p].remaining <= parts[p].remaining
        /\ parts[p].sealed => parts'[p].sealed
    BY DEF PartsStep, Progress, TypeOK, PartitionType
  <2>2. /\ NextAttemptNumber(parts[p]) <= NextAttemptNumber(parts'[p])
        /\ parts'[p].remaining < parts[p].remaining =>
               NextAttemptNumber(parts[p]) < NextAttemptNumber(parts'[p])
        /\ NextAttemptNumber(parts[p]) \in Int /\ NextAttemptNumber(parts'[p]) \in Int
    BY <2>1, MaxAttemptsAssumption DEF NextAttemptNumber
  <2>3. ASSUME a \in issued[p]
        PROVE  \/ a < NextAttemptNumber(parts'[p])
               \/ IsRunning(parts'[p], a)
               \/ parts'[p].finished /\ parts'[p].selected = a
    <3>1. CASE a < NextAttemptNumber(parts[p])
      BY <2>2, <3>1 DEF Attempts
    <3>2. CASE IsRunning(parts[p], a) \/ (parts[p].finished /\ parts[p].selected = a)
      <4>1. a = NextAttemptNumber(parts[p])
        BY <3>2 DEF PartitionsInv, PartitionInv
      <4>2. \/ IsRunning(parts'[p], a)
            \/ parts'[p].finished /\ parts'[p].selected = a
            \/ parts'[p].remaining < parts[p].remaining
        BY <3>2 DEF PartsStep, Progress
      <4> QED  BY <2>2, <4>1, <4>2
    <3> QED  BY <2>3, <3>1, <3>2 DEF AttemptInv
  <2> QED  BY <2>1, <2>3 DEF AttemptInv
<1>3. SelectedInv'
  BY DEF SelectedInv, SameEnd
<1>4. Fresh
  BY DEF Fresh, NoNewAttempt
<1> QED  BY <1>1, <1>2, <1>3, <1>4

(* Progress composes, so that seal() followed by the admission callback's  *)
(* decision is one step of the partition.                                  *)
LEMMA ProgressTransitive ==
    ASSUME NEW r, NEW s, NEW t, PartitionInv(r), Progress(r, s), Progress(s, t)
    PROVE  Progress(r, t)
<1>1. /\ r.remaining \in Int /\ s.remaining \in Int /\ t.remaining \in Int
      /\ s.remaining <= r.remaining /\ t.remaining <= s.remaining
  BY DEF Progress, PartitionInv, PartitionType
<1>2. t.remaining <= r.remaining
  BY <1>1
<1>3. \A a \in Attempts :
          IsRunning(r, a) \/ (r.finished /\ r.selected = a)
              => IsRunning(t, a) \/ (t.finished /\ t.selected = a) \/ t.remaining < r.remaining
  <2> SUFFICES ASSUME NEW a \in Attempts, IsRunning(r, a) \/ (r.finished /\ r.selected = a)
               PROVE  IsRunning(t, a) \/ (t.finished /\ t.selected = a) \/ t.remaining < r.remaining
    OBVIOUS
  <2>1. IsRunning(s, a) \/ (s.finished /\ s.selected = a) \/ s.remaining < r.remaining
    BY DEF Progress
  <2>2. CASE s.remaining < r.remaining
    BY <1>1, <2>2
  <2>3. CASE IsRunning(s, a) \/ (s.finished /\ s.selected = a)
    <3>1. IsRunning(t, a) \/ (t.finished /\ t.selected = a) \/ t.remaining < s.remaining
      BY <2>3 DEF Progress
    <3> QED  BY <1>1, <3>1
  <2> QED  BY <2>1, <2>2, <2>3
<1>4. Terminal(r) => Terminal(s)
  BY DEF Progress, Terminal
<1> QED  BY <1>2, <1>3, <1>4 DEF Progress

(* What a step that only moves scheduling flags does to the fragment.      *)
LEMMA QuietAction ==
    ASSUME IndInv, TypeOK', AddedInv', SealInv', PartsStep,
           issued' = issued, outcome' = outcome, failed' = failed,
           \A p \in Partitions : /\ NoNewAttempt(parts[p], parts'[p])
                                 /\ SameEnd(parts[p], parts'[p])
                                 /\ parts'[p].failed = parts[p].failed
    PROVE  IndInv' /\ PartsStep /\ Fresh
<1>1. PartitionsInv' /\ AttemptInv' /\ SelectedInv' /\ Fresh
  BY QuietStep DEF IndInv
<1>2. FailedInv'
  BY DEF IndInv, FailedInv
<1> QED  BY <1>1, <1>2 DEF IndInv

(* add_partition replaces a partition nobody has used by a new one of the  *)
(* current class.                                                          *)
LEMMA WithPartitionsStep ==
    ASSUME IndInv, NEW S \in SUBSET Partitions, parts' = WithPartitions(S)
    PROVE  /\ PartsStep
           /\ \A p \in Partitions : /\ NoNewAttempt(parts[p], parts'[p])
                                    /\ SameEnd(parts[p], parts'[p])
                                    /\ parts'[p].failed = parts[p].failed
                                    /\ parts'[p].sealed = parts[p].sealed
                                    /\ p \notin S => parts'[p] = parts[p]
<1>1. cls \in Classes /\ parts \in [Partitions -> PartitionType]
  BY DEF IndInv, TypeOK
<1>2. PartitionInv(NewPartition(cls)) /\ NewPartition(cls) \in PartitionType
  BY <1>1, NewPartitionInv DEF PartitionInv
<1>3. ASSUME NEW p \in Partitions
      PROVE  /\ Progress(parts[p], parts'[p])
             /\ NoNewAttempt(parts[p], parts'[p])
             /\ SameEnd(parts[p], parts'[p])
             /\ parts'[p].failed = parts[p].failed
             /\ parts'[p].sealed = parts[p].sealed
             /\ p \notin S => parts'[p] = parts[p]
  <2>1. PartitionInv(parts[p])
    BY DEF IndInv, PartitionsInv
  <2>2. CASE p \in S \ added
    <3>1. PICK c \in Classes : parts[p] = NewPartition(c)
      BY <2>2 DEF IndInv, AddedInv, Untouched
    <3>2. parts'[p] = NewPartition(cls)
      BY <2>2 DEF WithPartitions
    <3>3. Kept(parts[p], parts'[p]) /\ parts'[p].sealed = parts[p].sealed /\ ~parts'[p].sealed
      BY <3>1, <3>2 DEF NewPartition, Kept
    <3> QED  BY <1>2, <2>1, <2>2, <3>2, <3>3, KeptProgress DEF Kept
  <2>3. CASE p \notin S \ added
    <3>1. parts'[p] = parts[p]
      BY <2>3 DEF WithPartitions
    <3> QED  BY <2>1, <3>1, StutterProgress
  <2> QED  BY <2>2, <2>3
<1>4. parts' \in [Partitions -> PartitionType]
  BY <1>1, <1>2 DEF WithPartitions
<1> QED  BY <1>3, <1>4 DEF PartsStep

(* add_partition alone, as the drain and apply_task_update call it.        *)
LEMMA AddPartitionStep ==
    ASSUME IndInv, NEW p \in Partitions, AddPartition(p)
    PROVE  IndInv' /\ PartsStep /\ Fresh
<1>1. /\ PartsStep
      /\ \A q \in Partitions : /\ NoNewAttempt(parts[q], parts'[q])
                               /\ SameEnd(parts[q], parts'[q])
                               /\ parts'[q].failed = parts[q].failed
                               /\ parts'[q].sealed = parts[q].sealed
                               /\ q \notin {p} => parts'[q] = parts[q]
  BY WithPartitionsStep DEF AddPartition
<1>2. TypeOK'
  BY <1>1 DEF IndInv, TypeOK, AddPartition, PartsStep, lockVars, attemptVars, envVars, inputVars
<1>3. AddedInv'
  <2>1. /\ added' = added \cup {p}
        /\ UNCHANGED <<apply, scheduling, doomed, issued, reservation>>
    BY DEF AddPartition, lockVars, attemptVars, envVars, inputVars
  <2>2. \A q \in Partitions \ added' : parts'[q] = parts[q]
    BY <1>1, <2>1
  <2> QED  BY <2>1, <2>2 DEF IndInv, AddedInv
<1>4. SealInv'
  BY DEF IndInv, SealInv, AddPartition, lockVars, envVars, inputVars
<1> QED
  BY <1>1, <1>2, <1>3, <1>4, QuietAction DEF AddPartition, attemptVars, envVars, inputVars

(* The first section of apply_assignment_result: the seals it takes over   *)
(* belong to partitions not sealed before.                                 *)
LEMMA ApplyAssignmentResultStep ==
    ASSUME IndInv, NEW updates \in SUBSET Partitions, NEW seals \in SUBSET Partitions,
           NEW last \in BOOLEAN, ApplyAssignmentResult(updates, seals, last)
    PROVE  IndInv' /\ PartsStep /\ Fresh
<1>1. /\ PartsStep
      /\ \A q \in Partitions : /\ NoNewAttempt(parts[q], parts'[q])
                               /\ SameEnd(parts[q], parts'[q])
                               /\ parts'[q].failed = parts[q].failed
                               /\ parts'[q].sealed = parts[q].sealed
                               /\ q \notin updates \cup seals => parts'[q] = parts[q]
  BY WithPartitionsStep DEF ApplyAssignmentResult
<1>2. apply' \in [active : BOOLEAN, updates : SUBSET Partitions,
                  seals : SUBSET Partitions, noMore : BOOLEAN]
  BY DEF ApplyAssignmentResult
<1>3. assignments' \in 0 .. MaxAssignments
  BY MaxAssignmentsAssumption DEF ApplyAssignmentResult, IndInv, TypeOK
<1>4. TypeOK'
  BY <1>1, <1>2, <1>3 DEF IndInv, TypeOK, ApplyAssignmentResult, PartsStep, attemptVars
<1>5. AddedInv'
  BY <1>1 DEF IndInv, AddedInv, ApplyAssignmentResult, attemptVars
<1>6. SealInv'
  <2>1. /\ apply'.active = TRUE /\ apply'.seals = seals /\ closed' = closed \cup seals
        /\ seals \cap closed = {}
        /\ UNCHANGED <<outcome, raised, failed>>
    BY DEF ApplyAssignmentResult
  <2> QED  BY <2>1 DEF IndInv, SealInv
<1> QED
  BY <1>1, <1>4, <1>5, <1>6, QuietAction DEF ApplyAssignmentResult, attemptVars

(* What a step can do to the assignment in progress, besides starting one. *)
ApplyShrinks ==
    \/ apply' = apply
    \/ apply' = NoApply
    \/ apply'.active /\ apply'.seals \subseteq apply.seals

(* A step that only works off the assignment in progress keeps SealInv.    *)
LEMMA ApplyShrinksSealInv ==
    ASSUME SealInv, ApplyShrinks, outcome' = outcome, closed' = closed,
           "seal" \in raised' => failed'
    PROVE  SealInv'
<1>1. CASE apply' = apply
  BY <1>1 DEF SealInv
<1>2. CASE apply' = NoApply
  BY <1>2 DEF SealInv, NoApply
<1>3. CASE apply'.active /\ apply'.seals \subseteq apply.seals
  BY <1>3 DEF SealInv
<1> QED  BY <1>1, <1>2, <1>3 DEF ApplyShrinks

(* A step that changes only the flags of one partition and nothing of the  *)
(* attempts.                                                               *)
LEMMA FlagsAction ==
    ASSUME IndInv, TypeOK', AddedInv', NEW p \in Partitions, NEW s,
           parts' = [parts EXCEPT ![p] = s],
           Progress(parts[p], s), NoNewAttempt(parts[p], s), SameEnd(parts[p], s),
           s.failed = parts[p].failed,
           ApplyShrinks,
           issued' = issued, outcome' = outcome, failed' = failed, closed' = closed,
           "seal" \in raised' => "seal" \in raised
    PROVE  IndInv' /\ PartsStep /\ Fresh
<1>1. PartsStep /\ parts'[p] = s /\ \A q \in Partitions : q # p => parts'[q] = parts[q]
  BY OnePartition DEF IndInv
<1>2. \A q \in Partitions : /\ NoNewAttempt(parts[q], parts'[q])
                            /\ SameEnd(parts[q], parts'[q])
                            /\ parts'[q].failed = parts[q].failed
  BY <1>1, StutterProgress DEF IndInv, PartitionsInv
<1>3. SealInv'
  BY ApplyShrinksSealInv DEF IndInv, SealInv
<1> QED  BY <1>1, <1>2, <1>3, QuietAction

(* A step that leaves the partitions and the attempts alone.               *)
LEMMA IdleAction ==
    ASSUME IndInv, TypeOK', AddedInv', parts' = parts,
           ApplyShrinks,
           issued' = issued, outcome' = outcome, failed' = failed, closed' = closed,
           "seal" \in raised' => "seal" \in raised \/ failed
    PROVE  IndInv' /\ PartsStep /\ Fresh
<1>1. /\ PartsStep
      /\ \A p \in Partitions : /\ NoNewAttempt(parts[p], parts'[p])
                               /\ SameEnd(parts[p], parts'[p])
  BY NoPartition DEF IndInv
<1>2. SealInv'
  BY ApplyShrinksSealInv DEF IndInv, SealInv
<1> QED  BY <1>1, <1>2, QuietAction

(* update_partition inside apply_assignment_result.                        *)
LEMMA UpdatePartitionStep ==
    ASSUME IndInv, NEW p \in Partitions, UpdatePartition(p)
    PROVE  IndInv' /\ PartsStep /\ Fresh
<1> USE DEF UpdatePartition, fragmentVars, attemptVars, envVars, inputVars
<1>1. apply' \in [active : BOOLEAN, updates : SUBSET Partitions,
                  seals : SUBSET Partitions, noMore : BOOLEAN]
  BY DEF IndInv, TypeOK
<1>2. apply'.updates \subseteq apply.updates /\ apply'.seals = apply.seals /\ ApplyShrinks
  BY DEF IndInv, TypeOK, ApplyTurn, ApplyShrinks
<1>3. p \in added
  BY DEF IndInv, AddedInv
<1>4. CASE UNCHANGED <<parts, scheduling>>
  <2>1. TypeOK'
    BY <1>1, <1>4 DEF IndInv, TypeOK
  <2>2. AddedInv'
    BY <1>2, <1>4 DEF IndInv, AddedInv
  <2> QED  BY <1>2, <1>4, <2>1, <2>2, IdleAction
<1>5. ASSUME NEW admitted \in BOOLEAN, MarkReadyAndSchedule(p, parts[p], admitted)
      PROVE  IndInv' /\ PartsStep /\ Fresh
  <2> DEFINE s == IF admitted THEN MarkReadyForExecution(parts[p])
                              ELSE DeferReadyForExecution(parts[p])
  <2>1. /\ Progress(parts[p], s) /\ NoNewAttempt(parts[p], s) /\ SameEnd(parts[p], s)
        /\ s.failed = parts[p].failed /\ s.sealed = parts[p].sealed
    BY FlagsProgress DEF IndInv, PartitionsInv, TypeOK
  <2>2. parts' = [parts EXCEPT ![p] = s]
    BY <1>5 DEF MarkReadyAndSchedule
  <2>3. PartsStep /\ \A q \in Partitions : q # p => parts'[q] = parts[q]
    BY <2>1, <2>2, OnePartition DEF IndInv
  <2>4. /\ scheduling' \in {NoScheduling} \cup
               [stage : {"check", "commit"}, p : Partitions, c : Classes \cup {AnyClass}]
        /\ scheduling' # NoScheduling => scheduling'.p = p
    BY <1>5 DEF MarkReadyAndSchedule, Scheduling
  <2>5. TypeOK'
    BY <1>1, <2>3, <2>4 DEF IndInv, TypeOK, PartsStep
  <2>6. AddedInv'
    BY <1>2, <1>3, <2>3, <2>4 DEF IndInv, AddedInv
  <2> QED  BY <1>2, <2>1, <2>2, <2>5, <2>6, FlagsAction
<1> QED  BY <1>4, <1>5

(* seal() and what the admission callback makes of it.                     *)
LEMMA SealThenFlagsProgress ==
    ASSUME NEW r, PartitionInv(r),
           NEW s \in {Seal(r), MarkReadyForExecution(Seal(r)), DeferReadyForExecution(Seal(r))}
    PROVE  Progress(r, s) /\ NoNewAttempt(r, s) /\ SameEnd(r, s) /\ s.failed = r.failed
<1>1. Progress(r, Seal(r)) /\ NoNewAttempt(r, Seal(r)) /\ SameEnd(r, Seal(r)) /\ Seal(r).failed = r.failed
  BY SealProgress
<1>2. CASE s = Seal(r)
  BY <1>1, <1>2
<1>3. CASE s \in {MarkReadyForExecution(Seal(r)), DeferReadyForExecution(Seal(r))}
  <2>1. PartitionInv(Seal(r)) /\ "STANDARD" \in Classes
    BY <1>1 DEF Progress, Classes
  <2>2. /\ Progress(Seal(r), s) /\ NoNewAttempt(Seal(r), s) /\ SameEnd(Seal(r), s)
        /\ s.failed = Seal(r).failed
    BY <1>3, <2>1, FlagsProgress
  <2>3. Progress(r, s)
    BY <1>1, <2>2, ProgressTransitive
  <2> QED  BY <1>1, <2>2, <2>3 DEF NoNewAttempt, SameEnd
<1> QED  BY <1>2, <1>3

(* seal_partition, with and without a running attempt.                     *)
LEMMA SealPartitionStep ==
    ASSUME IndInv, NEW p \in Partitions, SealPartition(p) \/ SealWithoutWorker(p)
    PROVE  IndInv' /\ PartsStep /\ Fresh
<1> USE DEF SealPartition, SealWithoutWorker, fragmentVars, attemptVars, envVars, inputVars
<1>1. apply' \in [active : BOOLEAN, updates : SUBSET Partitions,
                  seals : SUBSET Partitions, noMore : BOOLEAN]
  <2>1. CASE SealPartition(p)
    <3>1. apply' = [apply EXCEPT !.seals = @ \ {p}] /\ apply.seals \subseteq Partitions
      BY <2>1 DEF IndInv, TypeOK
    <3> QED  BY <3>1 DEF IndInv, TypeOK
  <2>2. CASE SealWithoutWorker(p)
    BY <2>2 DEF NoApply
  <2> QED  BY <2>1, <2>2
<1>2. /\ apply'.updates \subseteq apply.updates /\ apply'.seals \subseteq apply.seals
      /\ ApplyShrinks
  BY DEF IndInv, TypeOK, NoApply, ApplyTurn, ApplyShrinks
<1>3. p \in added
  BY DEF IndInv, AddedInv
<1>4. PICK s : /\ s \in {Seal(parts[p]), MarkReadyForExecution(Seal(parts[p])),
                         DeferReadyForExecution(Seal(parts[p]))}
               /\ parts' = [parts EXCEPT ![p] = s]
               /\ scheduling' \in {scheduling, NoScheduling, Scheduling("check", p, AnyClass)}
  BY DEF MarkReadyAndSchedule
<1>5. /\ Progress(parts[p], s) /\ NoNewAttempt(parts[p], s) /\ SameEnd(parts[p], s)
      /\ s.failed = parts[p].failed
  BY <1>4, SealThenFlagsProgress DEF IndInv, PartitionsInv
<1>6. PartsStep /\ \A q \in Partitions : q # p => parts'[q] = parts[q]
  BY <1>4, <1>5, OnePartition DEF IndInv
<1>7. /\ scheduling' \in {NoScheduling} \cup
             [stage : {"check", "commit"}, p : Partitions, c : Classes \cup {AnyClass}]
      /\ scheduling' = scheduling \/ (scheduling' # NoScheduling => scheduling'.p = p)
  BY <1>4 DEF Scheduling, IndInv, TypeOK
<1>8. TypeOK'
  BY <1>1, <1>6, <1>7 DEF IndInv, TypeOK, PartsStep
<1>9. AddedInv'
  BY <1>2, <1>3, <1>6, <1>7 DEF IndInv, AddedInv
<1> QED  BY <1>2, <1>4, <1>5, <1>8, <1>9, FlagsAction

(* A finished partition was sealed, so the terminal partition that seal()  *)
(* finds can only be a failed one.                                         *)
LEMMA SealTerminalPartitionStep ==
    ASSUME IndInv, NEW p \in Partitions, SealTerminalPartition(p)
    PROVE  IndInv' /\ PartsStep /\ Fresh
<1> USE DEF SealTerminalPartition, fragmentVars, attemptVars, envVars, inputVars
<1>1. p \in apply.seals /\ Terminal(parts[p])
  OBVIOUS
<1>2. ~parts[p].finished
  <2> SUFFICES ASSUME parts[p].finished PROVE FALSE
    OBVIOUS
  <2>1. parts[p].selected \in Attempts
    BY DEF IndInv, PartitionsInv, PartitionInv, TypeOK, PartitionType
  <2>2. outcome[p][parts[p].selected] = "FINISHED"
    BY DEF IndInv, SelectedInv
  <2> QED  BY <1>1, <2>1, <2>2 DEF IndInv, SealInv
<1>3. failed
  BY <1>1, <1>2 DEF IndInv, FailedInv, Terminal
<1>4. apply' \in [active : BOOLEAN, updates : SUBSET Partitions,
                  seals : SUBSET Partitions, noMore : BOOLEAN]
  BY DEF NoApply
<1>5. TypeOK'
  BY <1>4 DEF IndInv, TypeOK
<1>6. AddedInv' /\ ApplyShrinks
  BY DEF IndInv, AddedInv, NoApply, ApplyShrinks
<1> QED  BY <1>3, <1>5, <1>6, IdleAction

(* The end of apply_assignment_result.                                     *)
LEMMA FinishAssignmentStep ==
    ASSUME IndInv, FinishAssignment
    PROVE  IndInv' /\ PartsStep /\ Fresh
<1> USE DEF FinishAssignment, attemptVars, envVars, inputVars
<1>1. apply' \in [active : BOOLEAN, updates : SUBSET Partitions,
                  seals : SUBSET Partitions, noMore : BOOLEAN]
  BY DEF NoApply
<1>2. TypeOK'
  BY <1>1 DEF IndInv, TypeOK
<1>3. AddedInv' /\ ApplyShrinks
  BY DEF IndInv, AddedInv, NoApply, ApplyShrinks
<1> QED  BY <1>2, <1>3, IdleAction

(* The drain picks a partition that is ready.                              *)
LEMMA SchedulePartitionStep ==
    ASSUME IndInv, NEW p \in Partitions, NEW c \in Classes \cup {AnyClass}, SchedulePartition(p, c)
    PROVE  IndInv' /\ PartsStep /\ Fresh
<1> USE DEF SchedulePartition, fragmentVars, attemptVars, envVars, inputVars
<1>1. TypeOK'
  BY DEF IndInv, TypeOK, Scheduling
<1>2. AddedInv'
  BY DEF IndInv, AddedInv, Scheduling
<1> QED  BY <1>1, <1>2, IdleAction DEF ApplyShrinks

(* The outcomes of a placement: only the deferral touches the partition.   *)
LEMMA TryCompleteReservationStep ==
    ASSUME IndInv, NEW p \in Partitions, p \in added, TryCompleteReservation(p),
           scheduling' \in {NoScheduling}, UNCHANGED <<fragmentVars, issued, envVars>>
    PROVE  IndInv' /\ PartsStep /\ Fresh
<1> USE DEF TryCompleteReservation, fragmentVars, envVars, inputVars
<1>1. /\ apply' \in {apply, NoApply}
      /\ apply' \in [active : BOOLEAN, updates : SUBSET Partitions,
                     seals : SUBSET Partitions, noMore : BOOLEAN]
  <2>1. NoApply \in [active : BOOLEAN, updates : SUBSET Partitions,
                     seals : SUBSET Partitions, noMore : BOOLEAN]
    BY DEF NoApply
  <2> QED  BY <2>1 DEF IndInv, TypeOK
<1>2. apply'.updates \subseteq apply.updates /\ apply'.seals \subseteq apply.seals /\ ApplyShrinks
  BY <1>1 DEF NoApply, ApplyShrinks
<1>3. /\ reservation' \in [Partitions -> {"none", "pending", "completed"}]
      /\ \A q \in Partitions : q # p => reservation'[q] = reservation[q]
  BY DEF IndInv, TypeOK
<1>4. raised' \in {raised, raised \cup {"placement"}}
  OBVIOUS
<1>5. CASE parts' = parts
  <2>1. TypeOK'
    BY <1>1, <1>3, <1>4, <1>5 DEF IndInv, TypeOK
  <2>2. AddedInv'
    BY <1>2, <1>3, <1>5 DEF IndInv, AddedInv
  <2> QED  BY <1>2, <1>4, <1>5, <2>1, <2>2, IdleAction
<1>6. CASE parts' = [parts EXCEPT ![p] = DeferReadyForExecution(@)]
  <2> DEFINE s == DeferReadyForExecution(parts[p])
  <2>1. /\ Progress(parts[p], s) /\ NoNewAttempt(parts[p], s) /\ SameEnd(parts[p], s)
        /\ s.failed = parts[p].failed /\ s.sealed = parts[p].sealed
    <3>1. PartitionInv(parts[p]) /\ cls \in Classes
      BY DEF IndInv, PartitionsInv, TypeOK
    <3> QED  BY <3>1, FlagsProgress
  <2>2. parts' = [parts EXCEPT ![p] = s]
    BY <1>6
  <2>3. PartsStep /\ \A q \in Partitions : q # p => parts'[q] = parts[q]
    BY <2>1, <2>2, OnePartition DEF IndInv
  <2>4. TypeOK'
    BY <1>1, <1>3, <1>4, <2>3 DEF IndInv, TypeOK, PartsStep
  <2>5. AddedInv'
    BY <1>2, <1>3, <2>3 DEF IndInv, AddedInv
  <2> QED  BY <1>2, <1>4, <2>1, <2>2, <2>4, <2>5, FlagsAction
<1> QED  BY <1>5, <1>6

(* The first check of _schedule_partition_if_ready and the admission       *)
(* callback.                                                               *)
LEMMA CheckPartitionStep ==
    ASSUME IndInv, CheckPartition
    PROVE  IndInv' /\ PartsStep /\ Fresh
<1> USE DEF fragmentVars, envVars, inputVars
<1>1. scheduling.p \in Partitions /\ scheduling.p \in added /\ scheduling.c \in Classes \cup {AnyClass}
  <2>1. scheduling.stage = "check" /\ scheduling # NoScheduling
    BY DEF CheckPartition, NoScheduling
  <2>2. scheduling \in [stage : {"check", "commit"}, p : Partitions, c : Classes \cup {AnyClass}]
    BY <2>1 DEF IndInv, TypeOK
  <2> QED  BY <2>1, <2>2 DEF IndInv, AddedInv
<1>2. CASE TryCompleteReservation(scheduling.p) /\ scheduling' = NoScheduling
  BY <1>1, <1>2, TryCompleteReservationStep DEF CheckPartition
<1>3. CASE /\ UNCHANGED <<parts, reservation, apply, raised>>
           /\ scheduling' \in {NoScheduling, Scheduling("commit", scheduling.p, scheduling.c)}
  <2>1. UNCHANGED <<added, cls, failed, noMore, issued, doomed, outcome, assignments, closed>>
    BY DEF CheckPartition
  <2>2. /\ scheduling' # NoScheduling => scheduling'.p = scheduling.p
        /\ scheduling' \in {NoScheduling} \cup
               [stage : {"check", "commit"}, p : Partitions, c : Classes \cup {AnyClass}]
    BY <1>1, <1>3 DEF Scheduling
  <2>3. TypeOK'
    BY <1>3, <2>1, <2>2 DEF IndInv, TypeOK
  <2>4. AddedInv'
    BY <1>1, <1>3, <2>1, <2>2 DEF IndInv, AddedInv
  <2> QED  BY <1>3, <2>1, <2>3, <2>4, IdleAction DEF ApplyShrinks
<1> QED  BY <1>2, <1>3 DEF CheckPartition

(* Starting an attempt: its number was never used, because the numbers     *)
(* issued before are below it and it neither runs nor was selected.        *)
LEMMA StartStep ==
    ASSUME IndInv, NEW p \in Partitions, p \in added, NEW w \in Workers,
           StartAttemptWithWorker(p, w),
           scheduling' \in {scheduling, NoScheduling},
           reservation' \in {reservation, [reservation EXCEPT ![p] = "none"]},
           UNCHANGED <<fragmentVars, envVars>>
    PROVE  IndInv' /\ PartsStep /\ Fresh
<1> USE DEF StartAttemptWithWorker, fragmentVars, envVars, inputVars
<1> DEFINE r == parts[p]
           s == StartAttempt(r, w)
           n == NextAttemptNumber(r)
<1>1. PartitionInv(r) /\ CanStartAttempt(r)
  BY DEF IndInv, PartitionsInv
<1>2. /\ PartitionInv(s) /\ n \in Attempts
      /\ \A a \in Attempts : IsRunning(s, a) <=> a = n
      /\ Progress(r, s) /\ SameEnd(r, s) /\ s.failed = r.failed /\ s.sealed = r.sealed
  BY <1>1, StartAttemptInv
<1>3. parts' = [parts EXCEPT ![p] = s]
  OBVIOUS
<1>4. PartsStep /\ parts'[p] = s /\ \A q \in Partitions : q # p => parts'[q] = parts[q]
  BY <1>2, <1>3, OnePartition DEF IndInv
<1>5. /\ issued' \in [Partitions -> SUBSET Attempts]
      /\ \A q \in Partitions : issued[q] \subseteq issued'[q]
      /\ \A q \in Partitions : q # p => issued'[q] = issued[q]
      /\ issued'[p] \subseteq issued[p] \cup {n}
  <2>1. issued \in [Partitions -> SUBSET Attempts]
    BY DEF IndInv, TypeOK
  <2>2. CASE issued' = [issued EXCEPT ![p] = @ \cup {n}]
    BY <1>2, <2>1, <2>2
  <2>3. CASE issued' = issued
    BY <2>1, <2>3
  <2> QED  BY <2>2, <2>3
<1>6. /\ apply' \in {apply, NoApply}
      /\ apply' \in [active : BOOLEAN, updates : SUBSET Partitions,
                     seals : SUBSET Partitions, noMore : BOOLEAN]
      /\ raised' \in {raised, raised \cup {"register"}}
  <2>1. NoApply \in [active : BOOLEAN, updates : SUBSET Partitions,
                     seals : SUBSET Partitions, noMore : BOOLEAN]
    BY DEF NoApply
  <2> QED  BY <2>1 DEF IndInv, TypeOK
<1>7. apply'.updates \subseteq apply.updates /\ apply'.seals \subseteq apply.seals /\ ApplyShrinks
  BY <1>6 DEF NoApply, ApplyShrinks
<1>8. /\ reservation' \in [Partitions -> {"none", "pending", "completed"}]
      /\ \A q \in Partitions : q # p => reservation'[q] = reservation[q]
  BY DEF IndInv, TypeOK
<1>20. /\ added' = added /\ cls' = cls /\ failed' = failed /\ noMore' = noMore
       /\ doomed' = doomed /\ outcome' = outcome
       /\ assignments' = assignments /\ closed' = closed
  OBVIOUS
<1> HIDE DEF StartAttemptWithWorker, fragmentVars, envVars, inputVars, r, s, n
<1>9. TypeOK'
  BY <1>4, <1>5, <1>6, <1>8, <1>20 DEF IndInv, TypeOK, PartsStep
<1>10. AddedInv'
  <2>1. \A q \in Partitions \ added : issued'[q] = {}
    BY <1>5 DEF IndInv, AddedInv
  <2>2. \A q \in Partitions \ added : reservation'[q] = "none" /\ parts'[q] = parts[q]
    BY <1>4, <1>8 DEF IndInv, AddedInv
  <2>3. \A q \in Partitions \ added : Untouched(parts'[q])
    BY <2>2 DEF IndInv, AddedInv
  <2>5. apply'.updates \cup apply'.seals \subseteq added
    BY <1>7 DEF IndInv, AddedInv
  <2>6. scheduling' # NoScheduling => scheduling'.p \in added
    BY DEF IndInv, AddedInv
  <2>7. \A pa \in doomed : pa[1] \in added
    BY DEF IndInv, AddedInv
  <2> QED  BY <2>1, <2>2, <2>3, <2>5, <2>6, <2>7, <1>20 DEF AddedInv
<1>11. n \notin issued[p]
  <2>1. ~IsRunning(r, n) /\ ~r.finished
    BY <1>1, <1>2 DEF CanStartAttempt, HasRunningAttempt, Terminal
  <2>2. n \in Int /\ ~(n < n)
    BY <1>2 DEF Attempts
  <2> QED  BY <1>2, <2>1, <2>2 DEF IndInv, AttemptInv, r, n
<1>12. Fresh
  <2>1. ASSUME NEW q \in Partitions, NEW a \in Attempts, ~IsRunning(parts[q], a), IsRunning(parts'[q], a)
        PROVE  q = p /\ a = n
    BY <1>2, <1>4, <2>1 DEF r
  <2> QED  BY <1>2, <1>11, <2>1 DEF Fresh, IndInv, AttemptInv
<1>13. AttemptInv'
  <2> SUFFICES ASSUME NEW q \in Partitions, NEW a \in Attempts
               PROVE  /\ a \in issued'[q] => \/ a < NextAttemptNumber(parts'[q])
                                             \/ IsRunning(parts'[q], a)
                                             \/ parts'[q].finished /\ parts'[q].selected = a
                      /\ outcome[q][a] # NoOutcome => a \in issued'[q]
    BY <1>20 DEF AttemptInv
  <2>1. CASE q # p
    BY <1>4, <1>5, <2>1 DEF IndInv, AttemptInv
  <2>2. CASE q = p
    <3>1. ~IsRunning(r, a) /\ ~r.finished
      BY <1>1 DEF CanStartAttempt, HasRunningAttempt, Terminal
    <3>2. s.remaining = r.remaining
      BY <1>1 DEF StartAttempt, PartitionInv, PartitionType, s
    <3>3. a \in issued[p] => a < NextAttemptNumber(s)
      BY <3>1, <3>2 DEF IndInv, AttemptInv, NextAttemptNumber, r
    <3> QED  BY <1>2, <1>4, <1>5, <2>2, <3>3 DEF IndInv, AttemptInv
  <2> QED  BY <2>1, <2>2
<1>14. PartitionsInv' /\ SelectedInv'
  <2>1. ASSUME NEW q \in Partitions
        PROVE  PartitionInv(parts'[q]) /\ SameEnd(parts[q], parts'[q])
    <3>1. CASE q = p
      BY <1>2, <1>4, <3>1 DEF r
    <3>2. CASE q # p
      BY <1>4, <3>2 DEF IndInv, PartitionsInv, SameEnd
    <3> QED  BY <3>1, <3>2
  <2>2. PartitionsInv'
    BY <2>1 DEF PartitionsInv
  <2>3. SelectedInv'
    BY <1>20, <2>1 DEF IndInv, SelectedInv, SameEnd
  <2> QED  BY <2>2, <2>3
<1>15. SealInv'
  BY <1>6, <1>7, <1>20, ApplyShrinksSealInv DEF IndInv, SealInv
<1>16. FailedInv'
  BY <1>2, <1>4, <1>20 DEF IndInv, FailedInv, r
<1> QED  BY <1>4, <1>9, <1>10, <1>12, <1>13, <1>14, <1>15, <1>16 DEF IndInv

(* The second check, and the start or the reservation that follows it.     *)
LEMMA CommitPartitionStep ==
    ASSUME IndInv, CommitPartition
    PROVE  IndInv' /\ PartsStep /\ Fresh
<1> USE DEF fragmentVars, envVars, inputVars
<1> DEFINE p == scheduling.p
<1>1. p \in Partitions /\ p \in added
  <2>1. scheduling # NoScheduling
    BY DEF CommitPartition, NoScheduling
  <2>2. scheduling \in [stage : {"check", "commit"}, p : Partitions, c : Classes \cup {AnyClass}]
    BY <2>1 DEF IndInv, TypeOK
  <2> QED  BY <2>1, <2>2 DEF IndInv, AddedInv
<1>2. CASE TryCompleteReservation(p) /\ UNCHANGED issued
  BY <1>1, <1>2, TryCompleteReservationStep DEF CommitPartition
<1>3. ASSUME NEW w \in Workers, StartAttemptWithWorker(p, w), UNCHANGED reservation
      PROVE  IndInv' /\ PartsStep /\ Fresh
  BY <1>1, <1>3, StartStep DEF CommitPartition
<1>4. CASE UNCHANGED <<parts, reservation, issued, apply, raised>>
  <2>1. TypeOK'
    BY <1>4 DEF CommitPartition, IndInv, TypeOK
  <2>2. AddedInv'
    BY <1>4 DEF CommitPartition, IndInv, AddedInv
  <2> QED  BY <1>4, <2>1, <2>2, IdleAction DEF CommitPartition, ApplyShrinks
<1> QED  BY <1>2, <1>3, <1>4 DEF CommitPartition

(* The completion event of a worker reservation.                           *)
LEMMA ReservationCompletedStep ==
    ASSUME IndInv, NEW p \in Partitions, ReservationCompleted(p)
    PROVE  IndInv' /\ PartsStep /\ Fresh
<1> USE DEF fragmentVars, envVars, inputVars
<1>1. p \in added
  BY DEF ReservationCompleted, IndInv, AddedInv
<1>2. ASSUME NEW w \in Workers, StartAttemptWithWorker(p, w)
      PROVE  IndInv' /\ PartsStep /\ Fresh
  BY <1>1, <1>2, StartStep DEF ReservationCompleted
<1>3. CASE UNCHANGED <<parts, issued, apply>> /\ raised' \in {raised, raised \cup {"placement"}}
  <2>1. /\ reservation' \in [Partitions -> {"none", "pending", "completed"}]
        /\ \A q \in Partitions : q # p => reservation'[q] = reservation[q]
    BY DEF ReservationCompleted, IndInv, TypeOK
  <2>2. TypeOK'
    BY <1>3, <2>1 DEF ReservationCompleted, IndInv, TypeOK
  <2>3. AddedInv'
    BY <1>1, <1>3, <2>1 DEF ReservationCompleted, IndInv, AddedInv
  <2> QED  BY <1>3, <2>2, <2>3, IdleAction DEF ReservationCompleted, ApplyShrinks
<1> QED  BY <1>2, <1>3 DEF ReservationCompleted

(* A reservation withdrawn by a worker failure.                            *)
LEMMA WithdrawReservationStep ==
    ASSUME IndInv, NEW p \in Partitions, WithdrawReservation(p)
    PROVE  IndInv' /\ PartsStep /\ Fresh
<1> USE DEF WithdrawReservation, fragmentVars, lockVars, envVars, inputVars
<1>1. /\ reservation' \in [Partitions -> {"none", "pending", "completed"}]
      /\ \A q \in Partitions \ added : reservation'[q] = "none"
  BY DEF IndInv, TypeOK, AddedInv
<1>2. TypeOK'
  BY <1>1 DEF IndInv, TypeOK
<1>3. AddedInv'
  BY <1>1 DEF IndInv, AddedInv
<1> QED  BY <1>2, <1>3, IdleAction DEF ApplyShrinks

(* The operations that go over all partitions and move only flags.         *)
LEMMA AllPartitionsAction ==
    ASSUME IndInv, PartsStep,
           \A p \in Partitions : /\ NoNewAttempt(parts[p], parts'[p])
                                 /\ SameEnd(parts[p], parts'[p])
                                 /\ parts'[p].failed = parts[p].failed
                                 /\ parts'[p].sealed = parts[p].sealed
                                 /\ p \notin added => parts'[p] = parts[p],
           cls' \in Classes,
           UNCHANGED <<added, failed, noMore, lockVars, attemptVars, envVars, raised>>
    PROVE  IndInv' /\ PartsStep /\ Fresh
<1> USE DEF lockVars, attemptVars, envVars, inputVars
<1>1. TypeOK'
  BY DEF IndInv, TypeOK, PartsStep
<1>2. AddedInv'
  BY DEF IndInv, AddedInv
<1>3. SealInv'
  BY DEF IndInv, SealInv, TypeOK
<1> QED  BY <1>1, <1>2, <1>3, QuietAction

(* release_deferred_execution_partitions.                                  *)
LEMMA ReleaseDeferredStep ==
    ASSUME IndInv, NEW c, NEW admitted, ReleaseDeferred(c, admitted)
    PROVE  IndInv' /\ PartsStep /\ Fresh
<1> DEFINE F(p) == LET r == parts[p] IN
                   IF p \notin added \/ ~r.deferred THEN r
                   ELSE IF HasRunningAttempt(r) \/ Terminal(r)
                        THEN [r EXCEPT !.deferred = FALSE]
                   ELSE IF ~MatchesClass(r, c) THEN r
                   ELSE IF p \in admitted THEN MarkReadyForExecution(r)
                        ELSE DeferReadyForExecution(r)
<1>1. parts' = [p \in Partitions |-> F(p)]
  BY DEF ReleaseDeferred
<1>2. ASSUME NEW p \in Partitions
      PROVE  /\ Progress(parts[p], F(p)) /\ NoNewAttempt(parts[p], F(p))
             /\ SameEnd(parts[p], F(p))
             /\ F(p).failed = parts[p].failed /\ F(p).sealed = parts[p].sealed
             /\ p \notin added => F(p) = parts[p]
  <2>1. PartitionInv(parts[p]) /\ "STANDARD" \in Classes
    BY DEF IndInv, PartitionsInv, Classes
  <2>2. CASE F(p) = parts[p]
    BY <2>1, <2>2, StutterProgress
  <2>3. CASE p \in added /\ (HasRunningAttempt(parts[p]) \/ Terminal(parts[p]))
             /\ F(p) = [parts[p] EXCEPT !.deferred = FALSE]
    BY <2>1, <2>3, ClearDeferredProgress
  <2>4. CASE p \in added /\ F(p) \in {MarkReadyForExecution(parts[p]), DeferReadyForExecution(parts[p])}
    BY <2>1, <2>4, FlagsProgress
  <2> QED  BY <2>2, <2>3, <2>4
<1>3. /\ cls' \in Classes
      /\ UNCHANGED <<added, failed, noMore, lockVars, attemptVars, envVars, raised>>
  BY DEF ReleaseDeferred, fragmentVars, IndInv, TypeOK
<1> HIDE DEF F
<1>4. \A p \in Partitions : parts'[p] = F(p) /\ F(p) \in PartitionType
  BY <1>1, <1>2 DEF Progress, PartitionInv
<1>5. PartsStep
  BY <1>1, <1>2, <1>4 DEF PartsStep
<1> QED  BY <1>2, <1>3, <1>4, <1>5, AllPartitionsAction

(* set_execution_class.                                                    *)
LEMMA SetExecutionClassStep ==
    ASSUME IndInv, NEW c \in Classes, SetExecutionClass(c)
    PROVE  IndInv' /\ PartsStep /\ Fresh
<1> DEFINE F(p) == IF p \in added /\ ~Terminal(parts[p]) THEN SetClass(parts[p], c) ELSE parts[p]
<1>1. parts' = [p \in Partitions |-> F(p)]
  BY DEF SetExecutionClass
<1>2. ASSUME NEW p \in Partitions
      PROVE  /\ Progress(parts[p], F(p)) /\ NoNewAttempt(parts[p], F(p))
             /\ SameEnd(parts[p], F(p))
             /\ F(p).failed = parts[p].failed /\ F(p).sealed = parts[p].sealed
             /\ p \notin added => F(p) = parts[p]
  <2>1. PartitionInv(parts[p])
    BY DEF IndInv, PartitionsInv
  <2>2. CASE F(p) = parts[p]
    BY <2>1, <2>2, StutterProgress
  <2>3. CASE p \in added /\ F(p) = SetClass(parts[p], c)
    BY <2>1, <2>3, FlagsProgress
  <2> QED  BY <2>2, <2>3
<1>3. /\ cls' \in Classes
      /\ UNCHANGED <<added, failed, noMore, lockVars, attemptVars, envVars, raised>>
  BY DEF SetExecutionClass
<1> HIDE DEF F
<1>4. \A p \in Partitions : parts'[p] = F(p) /\ F(p) \in PartitionType
  BY <1>1, <1>2 DEF Progress, PartitionInv
<1>5. PartsStep
  BY <1>1, <1>2, <1>4 DEF PartsStep
<1> QED  BY <1>2, <1>3, <1>4, <1>5, AllPartitionsAction

(* An attempt ends on its worker: FINISHED needs the seal sent and         *)
(* applied.                                                                *)
LEMMA AttemptEndsStep ==
    ASSUME IndInv, NEW p \in Partitions, NEW a \in Attempts, NEW o \in Outcomes, AttemptEnds(p, a, o)
    PROVE  IndInv' /\ PartsStep /\ Fresh
<1> USE DEF AttemptEnds, fragmentVars, lockVars, attemptVars, inputVars
<1>1. outcome \in [Partitions -> [Attempts -> Outcomes \cup {NoOutcome}]]
  BY DEF IndInv, TypeOK
<1>2. /\ outcome' \in [Partitions -> [Attempts -> Outcomes \cup {NoOutcome}]]
      /\ \A q \in Partitions, b \in Attempts :
            outcome'[q][b] = IF q = p /\ b = a THEN o ELSE outcome[q][b]
  BY <1>1
<1>3. TypeOK' /\ AddedInv' /\ FailedInv' /\ PartitionsInv'
  BY <1>2 DEF IndInv, TypeOK, AddedInv, FailedInv, PartitionsInv
<1>7. SealInv'
  BY <1>2 DEF IndInv, SealInv
<1>4. AttemptInv'
  BY <1>2 DEF IndInv, AttemptInv
<1>5. SelectedInv'
  <2> SUFFICES ASSUME NEW q \in Partitions, parts[q].finished
               PROVE  outcome'[q][parts[q].selected] = "FINISHED"
    BY DEF SelectedInv
  <2>1. parts[q].selected \in Attempts
    BY DEF IndInv, PartitionsInv, PartitionInv, TypeOK, PartitionType
  <2>2. outcome[q][parts[q].selected] = "FINISHED"
    BY DEF IndInv, SelectedInv
  <2>3. ~(q = p /\ parts[q].selected = a)
    BY <2>2 DEF NoOutcome
  <2> QED  BY <1>2, <2>1, <2>2, <2>3
<1>6. PartsStep /\ Fresh
  BY NoPartition DEF IndInv, Fresh, NoNewAttempt
<1> QED  BY <1>3, <1>4, <1>5, <1>6, <1>7 DEF IndInv

(* A step that ends attempts: failures may set the fragment's flag.        *)
LEMMA EndAction ==
    ASSUME IndInv, PartsStep,
           \A p \in Partitions : /\ NoNewAttempt(parts[p], parts'[p])
                                 /\ \/ SameEnd(parts[p], parts'[p])
                                    \/ outcome[p][parts'[p].selected] = "FINISHED"
                                 /\ parts'[p].sealed = parts[p].sealed
                                 /\ parts[p].failed => parts'[p].failed
                                 /\ p \notin added => parts'[p] = parts[p],
           failed' = (failed \/ \E p \in Partitions : parts'[p].failed),
           doomed' \subseteq doomed,
           UNCHANGED <<added, cls, noMore, lockVars, attemptVars, outcome, inputVars, raised>>
    PROVE  IndInv' /\ PartsStep /\ Fresh
<1> USE DEF lockVars, attemptVars, inputVars
<1>1. TypeOK'
  BY DEF IndInv, TypeOK, PartsStep
<1>2. AddedInv'
  <2>1. /\ added' = added /\ apply' = apply /\ scheduling' = scheduling
        /\ issued' = issued /\ reservation' = reservation
    OBVIOUS
  <2>2. \A p \in Partitions \ added : Untouched(parts'[p])
    BY DEF IndInv, AddedInv
  <2> QED  BY <2>1, <2>2 DEF IndInv, AddedInv
<1>3. SealInv'
  BY ApplyShrinksSealInv DEF IndInv, SealInv, ApplyShrinks
<1>4. FailedInv'
  BY DEF IndInv, FailedInv
<1>5. PartitionsInv' /\ AttemptInv' /\ SelectedInv' /\ Fresh
  BY QuietStep DEF IndInv
<1> QED  BY <1>1, <1>2, <1>3, <1>4, <1>5 DEF IndInv

(* task_failed: the fragment fails with the partition.                     *)
LEMMA TaskFailedStep ==
    ASSUME IndInv, NEW p \in Partitions, p \in added, NEW a \in Attempts, NEW kind,
           TaskFailed(p, a, kind), doomed' \subseteq doomed,
           UNCHANGED <<added, cls, noMore, lockVars, attemptVars, outcome, inputVars, raised>>
    PROVE  IndInv' /\ PartsStep /\ Fresh
<1> DEFINE s == PartitionAfterFailure(parts[p], a, kind)
<1>1. /\ Progress(parts[p], s) /\ NoNewAttempt(parts[p], s) /\ SameEnd(parts[p], s)
      /\ s.sealed = parts[p].sealed
      /\ parts[p].failed => s.failed
  BY FailureProgress DEF IndInv, PartitionsInv
<1>2. parts' = [parts EXCEPT ![p] = s] /\ failed' = (failed \/ parts'[p].failed)
  BY DEF TaskFailed
<1> HIDE DEF s
<1>3. PartsStep /\ parts'[p] = s /\ \A q \in Partitions : q # p => parts'[q] = parts[q]
  BY <1>1, <1>2, OnePartition DEF IndInv
<1>4. \A q \in Partitions : /\ NoNewAttempt(parts[q], parts'[q])
                            /\ SameEnd(parts[q], parts'[q])
                            /\ parts'[q].sealed = parts[q].sealed
                            /\ parts[q].failed => parts'[q].failed
                            /\ q \notin added => parts'[q] = parts[q]
  BY <1>1, <1>3, StutterProgress DEF IndInv, PartitionsInv
<1>5. failed' = (failed \/ \E q \in Partitions : parts'[q].failed)
  BY <1>2, <1>3 DEF IndInv, FailedInv
<1> QED  BY <1>3, <1>4, <1>5, EndAction

(* handle_task_status: a late status changes nothing.                      *)
LEMMA HandleTaskStatusStep ==
    ASSUME IndInv, NEW p \in Partitions, NEW a \in Attempts, HandleTaskStatus(p, a)
    PROVE  IndInv' /\ PartsStep /\ Fresh
<1>1. p \in added
  BY DEF HandleTaskStatus, IndInv, AttemptInv, AddedInv
<1>2. CASE outcome[p][a] # "FINISHED"
  BY <1>1, <1>2, TaskFailedStep DEF HandleTaskStatus, envVars, inputVars
<1>3. CASE outcome[p][a] = "FINISHED"
  <2> DEFINE s == MarkAttemptFinished(parts[p], a)
  <2>1. /\ Progress(parts[p], s) /\ NoNewAttempt(parts[p], s)
        /\ s.sealed = parts[p].sealed /\ s.failed = parts[p].failed
        /\ SameEnd(parts[p], s) \/ (s.finished /\ s.selected = a)
    BY FinishProgress DEF IndInv, PartitionsInv
  <2>2. parts' = [parts EXCEPT ![p] = s] /\ failed' = failed
    BY <1>3 DEF HandleTaskStatus, TaskFinished
  <2> HIDE DEF s
  <2>3. PartsStep /\ parts'[p] = s /\ \A q \in Partitions : q # p => parts'[q] = parts[q]
    BY <2>1, <2>2, OnePartition DEF IndInv
  <2>4. \A q \in Partitions : /\ NoNewAttempt(parts[q], parts'[q])
                              /\ \/ SameEnd(parts[q], parts'[q])
                                 \/ outcome[q][parts'[q].selected] = "FINISHED"
                              /\ parts'[q].sealed = parts[q].sealed
                              /\ parts'[q].failed = parts[q].failed
                              /\ q \notin added => parts'[q] = parts[q]
    BY <1>1, <1>3, <2>1, <2>3, StutterProgress DEF IndInv, PartitionsInv
  <2>5. failed' = (failed \/ \E q \in Partitions : parts'[q].failed)
    BY <2>2, <2>4 DEF IndInv, FailedInv, TypeOK
  <2> QED  BY <2>3, <2>4, <2>5, EndAction DEF HandleTaskStatus, envVars, inputVars
<1> QED  BY <1>2, <1>3

(* One attempt of the list mark_worker_failed read.                        *)
LEMMA FailDoomedAttemptStep ==
    ASSUME IndInv, NEW p \in Partitions, NEW a \in Attempts, NEW retryable,
           FailDoomedAttempt(p, a, retryable)
    PROVE  IndInv' /\ PartsStep /\ Fresh
<1>1. p \in added
  BY DEF FailDoomedAttempt, IndInv, AddedInv
<1>2. doomed' \subseteq doomed
  BY DEF FailDoomedAttempt
<1> QED  BY <1>1, <1>2, TaskFailedStep DEF FailDoomedAttempt

(* mark_worker_failed only reads.                                          *)
LEMMA MarkWorkerFailedStep ==
    ASSUME IndInv, NEW w \in Workers, MarkWorkerFailed(w)
    PROVE  IndInv' /\ PartsStep /\ Fresh
<1> USE DEF MarkWorkerFailed, fragmentVars, lockVars, attemptVars, inputVars
<1>1. doomed' \subseteq Partitions \X Attempts /\ \A pa \in doomed' : pa[1] \in added
  BY DEF IndInv, TypeOK, AddedInv
<1>2. TypeOK'
  BY <1>1 DEF IndInv, TypeOK
<1>3. AddedInv'
  BY <1>1 DEF IndInv, AddedInv
<1> QED  BY <1>2, <1>3, IdleAction DEF ApplyShrinks

(* revoke_speculative_attempts charges each attempt it takes back.         *)
LEMMA RevokeSpeculativeAttemptsStep ==
    ASSUME IndInv, NEW S \in SUBSET Partitions, RevokeSpeculativeAttempts(S)
    PROVE  IndInv' /\ PartsStep /\ Fresh
<1> USE DEF RevokeSpeculativeAttempts
<1>1. ASSUME NEW p \in Partitions
      PROVE  /\ Progress(parts[p], parts'[p]) /\ parts'[p] \in PartitionType
             /\ NoNewAttempt(parts[p], parts'[p])
             /\ SameEnd(parts[p], parts'[p])
             /\ parts'[p].sealed = parts[p].sealed
             /\ parts[p].failed => parts'[p].failed
             /\ p \notin S => parts'[p] = parts[p]
             /\ p \notin added => parts'[p] = parts[p]
  <2>1. PartitionInv(parts[p])
    BY DEF IndInv, PartitionsInv
  <2>2. CASE p \notin S
    <3>1. parts'[p] = parts[p]
      BY <2>2
    <3> QED  BY <2>1, <3>1, StutterProgress DEF PartitionInv
  <2>3. CASE p \in S
    <3>1. RunningAttempt(parts[p]) \in Attempts
      BY <2>3 DEF HasRunningAttempt, RunningAttempt
    <3>2. parts'[p] = RevokeAttempt(parts[p], RunningAttempt(parts[p]))
      BY <2>3
    <3>3. p \in added
      BY <2>3
    <3>4. /\ Progress(parts[p], parts'[p]) /\ NoNewAttempt(parts[p], parts'[p])
          /\ SameEnd(parts[p], parts'[p]) /\ parts'[p].sealed = parts[p].sealed
          /\ parts[p].failed => parts'[p].failed
      BY <2>1, <3>1, <3>2, RevokeProgress
    <3> QED  BY <2>3, <3>3, <3>4 DEF Progress, PartitionInv
  <2> QED  BY <2>2, <2>3
<1>2. PartsStep
  BY <1>1 DEF PartsStep
<1>3. failed' = (failed \/ \E p \in Partitions : parts'[p].failed)
  BY <1>1 DEF IndInv, FailedInv
<1> QED  BY <1>1, <1>2, <1>3, EndAction DEF envVars, inputVars

-----------------------------------------------------------------------------
(* Every step keeps the inductive invariant.                               *)
LEMMA NextStep ==
    ASSUME IndInv, [Next]_vars
    PROVE  IndInv' /\ PartsStep /\ Fresh
<1>1. ASSUME NEW p \in Partitions, AddPartition(p)
      PROVE  IndInv' /\ PartsStep /\ Fresh
  BY <1>1, AddPartitionStep
<1>2. ASSUME NEW updates \in SUBSET Partitions, NEW seals \in SUBSET Partitions,
             NEW last \in BOOLEAN, ApplyAssignmentResult(updates, seals, last)
      PROVE  IndInv' /\ PartsStep /\ Fresh
  BY <1>2, ApplyAssignmentResultStep
<1>3. ASSUME NEW p \in Partitions, UpdatePartition(p)
      PROVE  IndInv' /\ PartsStep /\ Fresh
  BY <1>3, UpdatePartitionStep
<1>4. ASSUME NEW p \in Partitions, SealPartition(p) \/ SealWithoutWorker(p)
      PROVE  IndInv' /\ PartsStep /\ Fresh
  BY <1>4, SealPartitionStep
<1>5. ASSUME NEW p \in Partitions, SealTerminalPartition(p)
      PROVE  IndInv' /\ PartsStep /\ Fresh
  BY <1>5, SealTerminalPartitionStep
<1>6. ASSUME NEW p \in Partitions, NEW c \in Classes \cup {AnyClass}, SchedulePartition(p, c)
      PROVE  IndInv' /\ PartsStep /\ Fresh
  BY <1>6, SchedulePartitionStep
<1>7. ASSUME NEW p \in Partitions, ReservationCompleted(p) \/ WithdrawReservation(p)
      PROVE  IndInv' /\ PartsStep /\ Fresh
  BY <1>7, ReservationCompletedStep, WithdrawReservationStep
<1>8. ASSUME NEW p \in Partitions, NEW a \in Attempts, NEW o \in Outcomes, AttemptEnds(p, a, o)
      PROVE  IndInv' /\ PartsStep /\ Fresh
  BY <1>8, AttemptEndsStep
<1>9. ASSUME NEW p \in Partitions, NEW a \in Attempts, HandleTaskStatus(p, a)
      PROVE  IndInv' /\ PartsStep /\ Fresh
  BY <1>9, HandleTaskStatusStep
<1>10. ASSUME NEW p \in Partitions, NEW a \in Attempts, NEW retryable \in BOOLEAN,
              FailDoomedAttempt(p, a, retryable)
       PROVE  IndInv' /\ PartsStep /\ Fresh
  BY <1>10, FailDoomedAttemptStep
<1>11. CASE FinishAssignment
  BY <1>11, FinishAssignmentStep
<1>12. CASE CheckPartition
  BY <1>12, CheckPartitionStep
<1>13. CASE CommitPartition
  BY <1>13, CommitPartitionStep
<1>14. ASSUME NEW c, NEW admitted, ReleaseDeferred(c, admitted)
       PROVE  IndInv' /\ PartsStep /\ Fresh
  BY <1>14, ReleaseDeferredStep
<1>15. ASSUME NEW c \in Classes, SetExecutionClass(c)
       PROVE  IndInv' /\ PartsStep /\ Fresh
  BY <1>15, SetExecutionClassStep
<1>16. ASSUME NEW w \in Workers, MarkWorkerFailed(w)
       PROVE  IndInv' /\ PartsStep /\ Fresh
  BY <1>16, MarkWorkerFailedStep
<1>17. ASSUME NEW S \in SUBSET Partitions, RevokeSpeculativeAttempts(S)
       PROVE  IndInv' /\ PartsStep /\ Fresh
  BY <1>17, RevokeSpeculativeAttemptsStep
<1>18. CASE UNCHANGED vars
  <2> USE <1>18 DEF vars, fragmentVars, lockVars, attemptVars, envVars, inputVars
  <2>1. TypeOK' /\ AddedInv'
    BY DEF IndInv, TypeOK, AddedInv
  <2> QED  BY <2>1, IdleAction DEF ApplyShrinks
<1> QED
  BY <1>1, <1>2, <1>3, <1>4, <1>5, <1>6, <1>7, <1>8, <1>9, <1>10, <1>11, <1>12,
     <1>13, <1>14, <1>15, <1>16, <1>17, <1>18
     DEF Next

(* The inductive invariant holds in every reachable state.                 *)
LEMMA IndInvAlways == Spec => []IndInv
<1>1. IndInv /\ [Next]_vars => IndInv'
  BY NextStep
<1> QED  BY InitIndInv, <1>1, PTL DEF Spec

(* Every variable keeps its type, for any number of partitions, workers    *)
(* and attempts.                                                           *)
THEOREM TypeCorrect == Spec => []TypeOK
<1>1. IndInv => TypeOK
  BY DEF IndInv
<1> QED  BY <1>1, IndInvAlways, PTL

(* running_attempt never raises: a partition has at most one running       *)
(* attempt, the one its budget numbers, and none once it is over.          *)
THEOREM RunningAttemptUnique == Spec => []AtMostOneRunningAttempt
<1>1. IndInv => AtMostOneRunningAttempt
  BY DEF IndInv, PartitionsInv, PartitionInv, AtMostOneRunningAttempt
<1> QED  BY <1>1, IndInvAlways, PTL

(* No sealed partition is left where neither the drain nor the release of  *)
(* deferred partitions would find it.                                      *)
THEOREM NeverStranded == Spec => []NoStrandedPartition
<1>1. IndInv => NoStrandedPartition
  BY DEF IndInv, PartitionsInv, PartitionInv, NoStrandedPartition
<1> QED  BY <1>1, IndInvAlways, PTL

(* The fragment's failed flag says whether a partition failed.             *)
THEOREM FailedFlagExact == Spec => []FragmentFailsWithPartition
<1>1. IndInv => FragmentFailsWithPartition
  BY DEF IndInv, PartitionsInv, PartitionInv, FailedInv, FragmentFailsWithPartition
<1> QED  BY <1>1, IndInvAlways, PTL

(* The output the query reads comes from an attempt that finished.         *)
THEOREM SelectionSound == Spec => []SelectedAttemptFinished
<1>1. IndInv => SelectedAttemptFinished
  BY DEF IndInv, PartitionsInv, PartitionInv, SelectedInv, SelectedAttemptFinished
<1> QED  BY <1>1, IndInvAlways, PTL

(* seal() raises in a failed fragment only.                                *)
THEOREM SealSafe == Spec => []SealRaisesOnlyAfterFailure
<1>1. IndInv => SealRaisesOnlyAfterFailure
  BY DEF IndInv, SealInv, SealRaisesOnlyAfterFailure
<1> QED  BY <1>1, IndInvAlways, PTL

(* Attempt numbers are never used twice.                                   *)
THEOREM AttemptNumbersFresh == Spec => AttemptNumbersAreFresh
<1>1. IndInv /\ [Next]_vars =>
          [\A p \in Partitions, a \in Attempts :
              ~IsRunning(parts[p], a) /\ IsRunning(parts[p], a)' =>
                  a \notin issued[p] /\ outcome[p][a] = NoOutcome]_vars
  BY NextStep DEF Fresh, IsRunning
<1> QED  BY <1>1, IndInvAlways, PTL DEF Spec, AttemptNumbersAreFresh

(* What is decided of a partition stays decided.                           *)
THEOREM TerminalFinal == Spec => TerminalPartitionsAreFinal
<1>1. IndInv /\ [Next]_vars =>
          [\A p \in Partitions :
              Terminal(parts[p]) => /\ parts'[p].finished = parts[p].finished
                                    /\ parts'[p].failed = parts[p].failed
                                    /\ parts'[p].selected = parts[p].selected
                                    /\ parts'[p].remaining = parts[p].remaining]_vars
  BY NextStep DEF PartsStep, Progress
<1> QED  BY <1>1, IndInvAlways, PTL DEF Spec, TerminalPartitionsAreFinal
=============================================================================
