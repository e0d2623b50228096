------------------------ MODULE FteSplitDelivery_proofs ------------------------
(***************************************************************************)
(* A split is lost on its way to a task in one way only, for any number of *)
(* partitions, workers, splits, attempts and failures: in a command for    *)
(* one worker that is left unexecuted when a call to another fails.        *)
(*                                                                         *)
(* The argument: what an attempt has seen, together with what the commands *)
(* that are left will tell it and the commands that were skipped would     *)
(* have told it, is what its descriptor says.                              *)
(***************************************************************************)
EXTENDS FteSplitDelivery, FiniteSetTheorems, TLAPS

CommandType ==
    [kind : {"create_task", "add_splits", "no_more_splits"}, p : Partitions, n : Attempts, worker : Workers,
     splits : SUBSET Splits, noMore : BOOLEAN]
TaskType ==
    [state : {None, "running", "finished", "failed"}, worker : Workers \cup {None}, seen : SUBSET Splits,
     noMore : BOOLEAN]

TasksOK == task \in [Partitions -> [Attempts -> TaskType]]

AttemptsOK ==
    /\ ready \subseteq Partitions
    /\ running \in [Partitions -> Workers \cup {None}]
    /\ attempt \in [Partitions -> Attempts]
    /\ outcome \in [Partitions -> {None, "finished", "failed"}]

TypeOK ==
    /\ assigned \in [Partitions -> SUBSET Splits]
    /\ noMore \subseteq Partitions
    /\ AttemptsOK
    /\ commands \in Seq(CommandType)
    /\ TasksOK
    /\ alive \subseteq Workers /\ quarantined \subseteq Workers /\ workerFailed \subseteq Workers
    /\ failures \in Nat

-----------------------------------------------------------------------------
(* The commands that are left, as a set, and what they say.                *)

Left == Range(commands)
Task(p) == task[p][attempt[p]]

(* Commands are for the running attempts, and say what their descriptors   *)
(* do.                                                                     *)
CommandsCurrent ==
    \A c \in Left :
        /\ running[c.p] = c.worker /\ c.n = attempt[c.p]
        /\ c.splits \subseteq assigned[c.p]
        /\ Ends(c) => c.p \in noMore

(* The creation of a task is a command list of its own, so that no failed  *)
(* call skips it.                                                          *)
CreateAlone == \A c \in Left : c.kind = "create_task" => Left = {c}

(* What the attempt of p knows, and is or was going to be told.            *)
Said(p) == {c \in Left \cup skipped : c.p = p /\ c.n = attempt[p]}
Told(p) ==
    /\ Task(p).state # None \/ \E c \in Left : c.p = p /\ c.kind = "create_task"
    /\ Task(p).seen \subseteq assigned[p]
    /\ \A s \in assigned[p] : s \in Task(p).seen \/ \E c \in Said(p) : s \in c.splits
    /\ Task(p).noMore => p \in noMore
    /\ p \in noMore => Task(p).noMore \/ \E c \in Said(p) : Ends(c)

RunningTold == \A p \in Partitions : running[p] # None /\ running[p] \notin workerFailed => Told(p)

(* Attempts that have not begun have no task.                              *)
NotBegun ==
    \A p \in Partitions :
        /\ \A n \in Attempts : n > attempt[p] => task[p][n] = NoTask
        /\ running[p] = None /\ outcome[p] = None => Task(p) = NoTask

RunningHasNoOutcome == \A p \in Partitions : running[p] # None => outcome[p] = None
FinishedHasEnd == \A p \in Partitions, n \in Attempts : task[p][n].state = "finished" => task[p][n].noMore

(* The control, and the data.                                              *)
Inv == TypeOK /\ CommandsCurrent /\ NoAttemptForgotten /\ NotBegun /\ RunningHasNoOutcome /\ FinishedHasEnd
Delivered == CreateAlone /\ RunningTold /\ FinishedSawEverything

-----------------------------------------------------------------------------
(* Sequences as sets.                                                      *)

LEMMA TailSet ==
    ASSUME NEW T, NEW q \in Seq(T), q # <<>>
    PROVE  /\ Head(q) \in T /\ Tail(q) \in Seq(T) /\ Head(q) \in Range(q)
           /\ Range(q) = {Head(q)} \cup Range(Tail(q))
<1> DEFINE r == Tail(q)
<1>1. /\ r \in Seq(T) /\ Head(q) \in T /\ Len(q) \in Nat \ {0} /\ Len(r) = Len(q) - 1 /\ q[1] = Head(q)
      /\ \A i \in 1 .. Len(r) : r[i] = q[i + 1]
  OBVIOUS
<1> HIDE DEF r
<1>2. /\ DOMAIN r = 1 .. Len(q) - 1 /\ DOMAIN q = 1 .. Len(q) /\ 1 \in DOMAIN q
      /\ \A i \in DOMAIN r : i + 1 \in DOMAIN q /\ r[i] = q[i + 1]
      /\ \A i \in DOMAIN q : i = 1 \/ (i - 1 \in DOMAIN r /\ r[i - 1] = q[i])
  BY <1>1
<1>3. \A x : x \in Range(q) <=> x = Head(q) \/ x \in Range(r)
  <2> TAKE x
  <2>1. ASSUME x \in Range(q) PROVE x = Head(q) \/ x \in Range(r)
    <3>1. PICK i \in DOMAIN q : q[i] = x
      BY <2>1 DEF Range
    <3>2. i = 1 \/ (i - 1 \in DOMAIN r /\ r[i - 1] = x)
      BY <1>2, <3>1
    <3> QED BY <1>1, <3>1, <3>2 DEF Range
  <2>2. ASSUME x \in Range(r) PROVE x \in Range(q)
    <3>1. PICK i \in DOMAIN r : r[i] = x
      BY <2>2 DEF Range
    <3>2. i + 1 \in DOMAIN q /\ q[i + 1] = x
      BY <1>2, <3>1
    <3> QED BY <3>2 DEF Range
  <2>3. Head(q) \in Range(q)
    BY <1>1, <1>2 DEF Range
  <2> QED BY <2>1, <2>2, <2>3
<1> QED BY <1>1, <1>3 DEF r

LEMMA EmptySet == Range(<<>>) = {}
BY DEF Range

LEMMA OneSet == ASSUME NEW T, NEW c \in T PROVE <<c>> \in Seq(T) /\ <<c>> # <<>> /\ Range(<<c>>) = {c}
BY DEF Range

(* An arrangement of a finite set has exactly its elements.                *)
LEMMA ArrangementSet ==
    ASSUME NEW S, IsFiniteSet(S), NEW q \in Orders(S)
    PROVE  q \in Seq(S) /\ Range(q) = S
<1> DEFINE n == Cardinality(S)
<1>1. n \in Nat
  BY FS_CardinalityType
<1>2. q \in [1 .. n -> S] /\ \A i, j \in 1 .. n : i # j => q[i] # q[j]
  BY DEF Orders, Injection, IsInjective
<1>3. q \in Injection(1 .. n, S)
  BY <1>2 DEF Injection, IsInjective
<1>4. Cardinality(1 .. n) = n
  BY <1>1, FS_Interval
<1>5. q \in Surjection(1 .. n, S)
  BY <1>3, <1>4, FS_Injection
<1>6. \A x \in S : \E i \in 1 .. n : q[i] = x
  BY <1>5 DEF Surjection
<1> QED BY <1>1, <1>2, <1>6 DEF Range

-----------------------------------------------------------------------------
(* The workers.                                                            *)

(* One task changes.                                                       *)
LEMMA TaskUpdated ==
    ASSUME TasksOK, NEW p \in Partitions, NEW n \in Attempts, NEW r \in TaskType,
           task' = [task EXCEPT ![p][n] = r]
    PROVE  /\ TasksOK' /\ task'[p][n] = r
           /\ \A q \in Partitions, m \in Attempts : q # p \/ m # n => task'[q][m] = task[q][m]
BY DEF TasksOK

(* A task ends: it keeps what it has seen.                                 *)
LEMMA TaskEndsInv ==
    ASSUME Inv, NEW p \in Partitions, NEW n \in Attempts, TaskFinishes(p, n) \/ TaskFails(p, n)
    PROVE  Inv' /\ (Delivered => Delivered')
<1>1. PICK s \in {"finished", "failed"} :
        /\ task' = [task EXCEPT ![p][n].state = s]
        /\ s = "finished" => task[p][n].noMore
  BY DEF TaskFinishes, TaskFails
<1> DEFINE r == [task[p][n] EXCEPT !.state = s]
<1>2. TypeOK /\ TasksOK /\ task[p][n] \in TaskType /\ task[p][n].state = "running"
  BY DEF Inv, TypeOK, TasksOK, TaskFinishes, TaskFails
<1>3. r \in TaskType /\ r.seen = task[p][n].seen /\ r.noMore = task[p][n].noMore /\ r.state = s
  BY <1>2 DEF TaskType
<1>4. task' = [task EXCEPT ![p][n] = r]
  BY <1>1
<1> HIDE DEF r
<1>5. /\ TasksOK' /\ task'[p][n] = r
      /\ \A q \in Partitions, m \in Attempts : q # p \/ m # n => task'[q][m] = task[q][m]
  BY <1>2, <1>3, <1>4, TaskUpdated
<1>6. UNCHANGED <<assigned, noMore, ready, running, attempt, outcome, commands, alive, quarantined, workerFailed, skipped>>
      /\ failures' \in Nat
  BY <1>2 DEF TaskFinishes, TaskFails, TypeOK, partitionVars, attemptVars, workerVars
<1>7. TypeOK'
  BY <1>2, <1>5, <1>6 DEF TypeOK, AttemptsOK
<1>8. CommandsCurrent' /\ NoAttemptForgotten' /\ RunningHasNoOutcome'
  BY <1>6 DEF Inv, CommandsCurrent, Left, Ends, NoAttemptForgotten, RunningHasNoOutcome
<1>9. NotBegun'
  <2>1. task[p][n] # NoTask
    BY <1>2 DEF NoTask, None
  <2>2. attempt \in [Partitions -> Attempts]
    BY <1>2 DEF TypeOK, AttemptsOK
  <2> QED BY <1>5, <1>6, <2>1, <2>2 DEF Inv, NotBegun, Task
<1>10. FinishedHasEnd'
  BY <1>1, <1>3, <1>5 DEF Inv, FinishedHasEnd
<1>11. ASSUME Delivered PROVE Delivered'
  <2>1. \A q \in Partitions : /\ Task(q)'.seen = Task(q).seen /\ Task(q)'.noMore = Task(q).noMore
                              /\ Task(q).state # None => Task(q)'.state # None
    <3> TAKE q \in Partitions
    <3>1. attempt[q] \in Attempts
      BY <1>2 DEF TypeOK, AttemptsOK
    <3> QED BY <1>3, <1>5, <1>6, <3>1 DEF Task, None
  <2>2. CreateAlone'
    BY <1>6, <1>11 DEF Delivered, CreateAlone, Left
  <2>3. RunningTold'
    BY <1>6, <1>11, <2>1 DEF Delivered, RunningTold, Told, Said, Left, Ends
  <2>4. FinishedSawEverything'
    BY <1>6, <1>11, <2>1 DEF Delivered, FinishedSawEverything, Missed, MissedSplits, Task
  <2> QED BY <2>2, <2>3, <2>4 DEF Delivered
<1> QED BY <1>7, <1>8, <1>9, <1>10, <1>11 DEF Inv

LEMMA WorkerDiesInv ==
    ASSUME Inv, NEW w \in Workers, WorkerDies(w)
    PROVE  Inv' /\ (Delivered => Delivered')
<1>1. TypeOK'
  BY DEF Inv, TypeOK, TasksOK, AttemptsOK, WorkerDies, partitionVars, attemptVars
<1>2. UNCHANGED <<assigned, noMore, running, attempt, outcome, commands, task, quarantined, workerFailed, skipped>>
  BY DEF WorkerDies, partitionVars, attemptVars
<1> QED BY <1>1, <1>2 DEF Inv, CommandsCurrent, NoAttemptForgotten, NotBegun, RunningHasNoOutcome, FinishedHasEnd,
     Delivered, CreateAlone, RunningTold, FinishedSawEverything, Missed, MissedSplits, Told, Said, Task, Left, Ends

-----------------------------------------------------------------------------
(* The execution of the commands.                                          *)

(* The command at the head, and what its execution makes of its task.      *)
LEMMA HeadCommand ==
    ASSUME Inv, ~Idle
    PROVE  LET c == Head(commands) IN
           /\ c \in CommandType /\ c \in Left /\ Left = {c} \cup Range(Tail(commands))
           /\ Tail(commands) \in Seq(CommandType)
           /\ running[c.p] = c.worker /\ c.n = attempt[c.p]
           /\ c.splits \subseteq assigned[c.p] /\ (Ends(c) => c.p \in noMore)
BY TailSet DEF Inv, TypeOK, Idle, Left, CommandsCurrent

LEMMA AppliedTask ==
    ASSUME Inv, NEW c \in CommandType, c.n = attempt[c.p], task' = Applied(c)
    PROVE  /\ TasksOK'
           /\ task'[c.p][c.n].state = "running"
           /\ task'[c.p][c.n].seen = Task(c.p).seen \cup c.splits
           /\ task'[c.p][c.n].noMore <=> Task(c.p).noMore \/ Ends(c)
           /\ \A q \in Partitions, m \in Attempts : q # c.p \/ m # c.n => task'[q][m] = task[q][m]
<1> DEFINE t == task[c.p][c.n]
           r == [state |-> "running", worker |-> c.worker, seen |-> t.seen \cup c.splits,
                 noMore |-> c.noMore \/ t.noMore \/ c.kind = "no_more_splits"]
<1>1. TasksOK /\ c.p \in Partitions /\ c.n \in Attempts /\ t \in TaskType
  BY DEF Inv, TypeOK, TasksOK, CommandType
<1>2. r \in TaskType
  BY <1>1 DEF CommandType, TaskType
<1>3. task' = [task EXCEPT ![c.p][c.n] = r]
  BY DEF Applied
<1>4. r.state = "running" /\ r.seen = t.seen \cup c.splits /\ (r.noMore <=> t.noMore \/ Ends(c))
  BY DEF Ends
<1>5. t = Task(c.p)
  BY DEF Task
<1> HIDE DEF r, t
<1>6. /\ TasksOK' /\ task'[c.p][c.n] = r
      /\ \A q \in Partitions, m \in Attempts : q # c.p \/ m # c.n => task'[q][m] = task[q][m]
  BY <1>1, <1>2, <1>3 DEF TasksOK
<1> QED BY <1>4, <1>5, <1>6

(* What execution of a command for a running attempt leaves true.          *)
LEMMA AppliedKeeps ==
    ASSUME Inv, NEW c \in CommandType, running[c.p] = c.worker, c.n = attempt[c.p], task' = Applied(c),
           UNCHANGED <<running, attempt, outcome>>
    PROVE  NotBegun' /\ RunningHasNoOutcome' /\ FinishedHasEnd'
<1>1. /\ task'[c.p][c.n].state = "running" /\ c.p \in Partitions /\ c.n \in Attempts /\ c.worker \in Workers
      /\ \A q \in Partitions, m \in Attempts : q # c.p \/ m # c.n => task'[q][m] = task[q][m]
  BY AppliedTask DEF CommandType
<1>2. attempt \in [Partitions -> Attempts] /\ running[c.p] # None /\ \A n \in Attempts : n \in Int
  BY <1>1, SetsAssumption DEF Inv, TypeOK, AttemptsOK, Attempts
<1>3. NotBegun'
  BY <1>1, <1>2 DEF Inv, NotBegun, Task
<1>4. RunningHasNoOutcome' /\ FinishedHasEnd'
  BY <1>1 DEF Inv, RunningHasNoOutcome, FinishedHasEnd
<1> QED BY <1>3, <1>4

LEMMA ExecuteCommandInv ==
    ASSUME Inv, ExecuteCommand
    PROVE  Inv' /\ (Delivered => Delivered')
<1> PICK c : c = Head(commands)
  OBVIOUS
<1> PICK rest : rest = Tail(commands)
  OBVIOUS
<1>1. ~Idle /\ task' = Applied(c) /\ commands' = rest /\ TypeOK
  BY DEF ExecuteCommand, Inv
<1>2. UNCHANGED <<assigned, noMore, ready, running, attempt, outcome, alive, quarantined, workerFailed, failures,
                skipped>>
  BY DEF ExecuteCommand, partitionVars, attemptVars, workerVars
<1>3. /\ c \in CommandType /\ c \in Left /\ Left = {c} \cup Range(rest) /\ rest \in Seq(CommandType)
      /\ running[c.p] = c.worker /\ c.n = attempt[c.p]
      /\ c.splits \subseteq assigned[c.p] /\ (Ends(c) => c.p \in noMore)
  BY <1>1, HeadCommand
<1>4. Left' = Range(rest)
  BY <1>1 DEF Left
<1>5. /\ TasksOK'
      /\ task'[c.p][c.n].state = "running"
      /\ task'[c.p][c.n].seen = Task(c.p).seen \cup c.splits
      /\ task'[c.p][c.n].noMore <=> Task(c.p).noMore \/ Ends(c)
      /\ \A q \in Partitions, m \in Attempts : q # c.p \/ m # c.n => task'[q][m] = task[q][m]
  BY <1>1, <1>3, AppliedTask
<1>6. NotBegun' /\ RunningHasNoOutcome' /\ FinishedHasEnd'
  BY <1>1, <1>2, <1>3, AppliedKeeps
<1>7. TypeOK'
  BY <1>1, <1>2, <1>3, <1>5 DEF TypeOK, AttemptsOK
<1>8. CommandsCurrent' /\ NoAttemptForgotten'
  BY <1>2, <1>3, <1>4 DEF Inv, CommandsCurrent, NoAttemptForgotten, Ends
<1>9. ASSUME Delivered PROVE Delivered'
  <2>1. CreateAlone'
    BY <1>3, <1>4, <1>9 DEF Delivered, CreateAlone
  <2>2. c.p \in Partitions /\ c.worker \in Workers /\ attempt \in [Partitions -> Attempts]
    BY <1>1, <1>3 DEF CommandType, TypeOK, AttemptsOK
  <2>3. \A q \in Partitions : q # c.p => Task(q)' = Task(q)
    BY <1>2, <1>5, <2>2, SMTT(30) DEF Task
  <2>4. Task(c.p)'.state = "running" /\ Task(c.p)'.seen = Task(c.p).seen \cup c.splits
        /\ (Task(c.p)'.noMore <=> Task(c.p).noMore \/ Ends(c))
    BY <1>2, <1>3, <1>5 DEF Task
  <2>5. RunningTold'
    <3> SUFFICES ASSUME NEW p \in Partitions, running[p] # None, running[p] \notin workerFailed
                 PROVE  Told(p)'
      BY <1>2 DEF RunningTold
    <3>1. Told(p)
      BY <1>9 DEF Delivered, RunningTold
    <3>2. CASE p = c.p
      BY <1>2, <1>3, <1>4, <2>4, <3>1, <3>2 DEF Told, Said, Ends, None
    <3>3. CASE p # c.p
      BY <1>2, <1>3, <1>4, <2>3, <3>1, <3>3 DEF Told, Said, Ends
    <3> QED BY <3>2, <3>3
  <2>6. FinishedSawEverything'
    <3>1. outcome[c.p] = None
      BY <1>3, <2>2, SetsAssumption DEF Inv, RunningHasNoOutcome
    <3> QED BY <1>2, <1>9, <2>3, <3>1 DEF Delivered, FinishedSawEverything, Missed, MissedSplits, Task, None
  <2> QED BY <2>1, <2>5, <2>6 DEF Delivered
<1> QED BY <1>6, <1>7, <1>8, <1>9 DEF Inv

(* A call fails: its worker's attempts wait for the event, and the         *)
(* commands for the others are skipped.                                    *)
LEMMA ControlFailureInv ==
    ASSUME Inv, ~Idle, NEW applied \in BOOLEAN, ControlFailure(Head(commands), applied), failures' \in Nat
    PROVE  Inv' /\ (Delivered => Delivered')
<1> DEFINE c == Head(commands)
<1>1. /\ c \in CommandType /\ c \in Left /\ running[c.p] = c.worker /\ c.n = attempt[c.p]
  BY HeadCommand
<1>2. /\ commands' = <<>> /\ (task' = Applied(c) \/ task' = task)
      /\ quarantined' = quarantined \cup {c.worker} /\ workerFailed' = workerFailed \cup {c.worker}
      /\ skipped' = skipped \cup {d \in Left : d.worker # c.worker}
      /\ UNCHANGED <<assigned, noMore, ready, running, attempt, outcome, alive>>
  BY DEF Left, ControlFailure, partitionVars, attemptVars
<1>3. Left' = {} /\ c.p \in Partitions /\ c.worker \in Workers
  BY <1>1, <1>2, EmptySet DEF Left, CommandType
<1> HIDE DEF c
<1>4. /\ TasksOK' /\ NotBegun' /\ RunningHasNoOutcome' /\ FinishedHasEnd'
      /\ \A q \in Partitions, m \in Attempts : q # c.p \/ m # c.n => task'[q][m] = task[q][m]
  <2>1. CASE task' = Applied(c)
    BY <1>1, <1>2, <2>1, AppliedTask, AppliedKeeps
  <2>2. CASE task' = task
    BY <1>2, <2>2 DEF Inv, TypeOK, TasksOK, NotBegun, Task, RunningHasNoOutcome, FinishedHasEnd
  <2> QED BY <1>2, <2>1, <2>2
<1>5. TypeOK'
  BY <1>2, <1>3, <1>4 DEF Inv, TypeOK, AttemptsOK
<1>6. CommandsCurrent' /\ NoAttemptForgotten'
  BY <1>2, <1>3 DEF Inv, CommandsCurrent, NoAttemptForgotten
<1>7. ASSUME Delivered PROVE Delivered'
  <2>1. \A q \in Partitions : q # c.p => Task(q)' = Task(q)
    BY <1>2, <1>4 DEF Inv, TypeOK, AttemptsOK, Task
  <2>2. RunningTold'
    <3> SUFFICES ASSUME NEW p \in Partitions, running[p] # None, running[p] \notin workerFailed'
                 PROVE  Told(p)'
      BY <1>2 DEF RunningTold
    <3>1. p # c.p /\ Told(p)
      BY <1>1, <1>2, <1>7 DEF Delivered, RunningTold
    <3>2. \A d \in Left : d.p = p => d \in skipped' /\ d.kind # "create_task"
      <4> SUFFICES ASSUME NEW d \in Left, d.p = p PROVE d.worker # c.worker /\ d.kind # "create_task"
        BY <1>2
      <4>1. d.worker # c.worker
        BY <1>2 DEF Inv, CommandsCurrent
      <4> QED BY <1>1, <1>7, <4>1 DEF Delivered, CreateAlone
    <3>3. \A d \in Said(p) : d \in Said(p)'
      BY <1>2, <3>2 DEF Said
    <3> QED BY <1>2, <2>1, <3>1, <3>2, <3>3 DEF Told, Ends
  <2>3. FinishedSawEverything'
    <3>1. outcome[c.p] = None
      BY <1>1, <1>3, SetsAssumption DEF Inv, RunningHasNoOutcome
    <3> QED BY <1>2, <1>7, <2>1, <3>1 DEF Delivered, FinishedSawEverything, Missed, MissedSplits, Task, None
  <2> QED BY <1>3, <2>2, <2>3 DEF Delivered, CreateAlone
<1> QED BY <1>4, <1>5, <1>6, <1>7 DEF Inv

LEMMA CommandFailsInv ==
    ASSUME Inv, CommandRaises \/ CommandTimesOut
    PROVE  Inv' /\ (Delivered => Delivered')
<1>1. PICK applied \in BOOLEAN : ControlFailure(Head(commands), applied)
  BY DEF CommandRaises, CommandTimesOut
<1>2. ~Idle /\ failures' \in Nat
  <2>1. failures \in Nat /\ failures + 1 \in Nat
    BY DEF Inv, TypeOK
  <2> QED BY <2>1 DEF CommandRaises, CommandTimesOut
<1> QED BY <1>1, <1>2, ControlFailureInv

-----------------------------------------------------------------------------
(* The scheduler, between two events.                                      *)

(* The running attempts of S fail: the next ones have not begun.           *)
LEMMA AttemptsFailedStep ==
    ASSUME Inv, Idle, NEW S \in SUBSET Partitions, \A p \in S : running[p] # None,
           NEW retryable \in BOOLEAN, AttemptsFailed(S, retryable),
           UNCHANGED <<assigned, noMore, commands, task, skipped>>
    PROVE  /\ AttemptsOK' /\ CommandsCurrent' /\ NotBegun' /\ RunningHasNoOutcome' /\ FinishedHasEnd'
           /\ \A p \in S : running'[p] = None /\ outcome'[p] # "finished"
           /\ \A p \in Partitions \ S : /\ running'[p] = running[p] /\ attempt'[p] = attempt[p]
                                        /\ outcome'[p] = outcome[p]
<1>1. AttemptsOK /\ Left = {} /\ Left' = {}
  BY EmptySet DEF Inv, TypeOK, Idle, Left
<1>2. MaxAttempts \in Nat /\ \A n \in Attempts : n \in Nat /\ (n + 1 < MaxAttempts => n + 1 \in Attempts)
  BY BoundAssumption DEF Attempts
<1>3. \A p \in S : outcome[p] = None
  BY DEF Inv, RunningHasNoOutcome
<1>4. /\ \A p \in S : /\ running'[p] = None /\ outcome'[p] \in {None, "failed"}
                      /\ \/ attempt'[p] = attempt[p] + 1 /\ attempt[p] + 1 < MaxAttempts
                         \/ attempt'[p] = attempt[p] /\ outcome'[p] = "failed"
      /\ \A p \in Partitions \ S : /\ running'[p] = running[p] /\ attempt'[p] = attempt[p]
                                   /\ outcome'[p] = outcome[p]
  BY <1>1, <1>2, <1>3 DEF AttemptsFailed, AttemptsOK
<1>5. AttemptsOK'
  BY <1>1, <1>2, <1>3 DEF AttemptsFailed, AttemptsOK
<1>6. CommandsCurrent' /\ FinishedHasEnd'
  BY <1>1 DEF CommandsCurrent, Inv, FinishedHasEnd
<1>7. RunningHasNoOutcome'
  BY <1>4 DEF Inv, RunningHasNoOutcome
<1>8. NotBegun'
  <2> SUFFICES ASSUME NEW p \in Partitions
               PROVE  /\ \A n \in Attempts : n > attempt'[p] => task[p][n] = NoTask
                      /\ running'[p] = None /\ outcome'[p] = None => task[p][attempt'[p]] = NoTask
    BY DEF NotBegun, Task
  <2>1. /\ \A n \in Attempts : n > attempt[p] => task[p][n] = NoTask
        /\ running[p] = None /\ outcome[p] = None => task[p][attempt[p]] = NoTask
    BY DEF Inv, NotBegun, Task
  <2>2. attempt[p] \in Attempts
    BY <1>1 DEF AttemptsOK
  <2>3. CASE p \notin S
    BY <1>4, <2>1, <2>3
  <2>4. CASE p \in S
    <3>1. CASE attempt'[p] = attempt[p] + 1 /\ attempt[p] + 1 < MaxAttempts
      BY <1>2, <2>1, <2>2, <3>1
    <3>2. CASE attempt'[p] = attempt[p] /\ outcome'[p] = "failed"
      BY <2>1, <3>2 DEF None
    <3> QED BY <1>4, <2>4, <3>1, <3>2
  <2> QED BY <2>3, <2>4
<1> QED BY <1>4, <1>5, <1>6, <1>7, <1>8 DEF None

(* What the others know does not change.                                   *)
LEMMA OthersDelivered ==
    ASSUME Delivered, NEW S \in SUBSET Partitions,
           UNCHANGED <<assigned, noMore, commands, task, skipped>>,
           \A p \in S : running'[p] = None /\ outcome'[p] # "finished",
           \A p \in Partitions \ S : /\ running'[p] = running[p] /\ attempt'[p] = attempt[p]
                                     /\ outcome'[p] = outcome[p]
                                     /\ running[p] \in workerFailed => running[p] \in workerFailed'
    PROVE  Delivered'
<1>1. CreateAlone'
  BY DEF Delivered, CreateAlone, Left
<1>2. RunningTold'
  <2> SUFFICES ASSUME NEW p \in Partitions, running'[p] # None, running'[p] \notin workerFailed'
               PROVE  Told(p)'
    BY DEF RunningTold
  <2>1. p \notin S /\ Told(p) /\ attempt'[p] = attempt[p]
    BY DEF Delivered, RunningTold
  <2> QED BY <2>1 DEF Told, Said, Task, Left, Ends
<1>3. FinishedSawEverything'
  BY DEF Delivered, FinishedSawEverything, Missed, MissedSplits
<1> QED BY <1>1, <1>2, <1>3 DEF Delivered

(* A worker is lost, by the event of a failed call, found dead or          *)
(* suspected.                                                              *)
LEMMA LoseWorkerInv ==
    ASSUME Inv, Idle, NEW w \in Workers, LoseWorker(w), UNCHANGED <<assigned, noMore, commands, task, alive, skipped>>,
           workerFailed' = workerFailed \ {w}, failures' \in Nat
    PROVE  Inv' /\ (Delivered => Delivered')
<1> DEFINE S == {p \in Partitions : running[p] = w}
<1>1. PICK b \in BOOLEAN : AttemptsFailed(S, b)
  BY DEF LoseWorker
<1>2. S \in SUBSET Partitions /\ (\A p \in S : running[p] = w) /\ (\A p \in Partitions \ S : running[p] # w)
  OBVIOUS
<1>3. w # None /\ quarantined' = quarantined \cup {w}
  BY SetsAssumption DEF LoseWorker
<1> HIDE DEF S
<1>4. /\ AttemptsOK' /\ CommandsCurrent' /\ NotBegun' /\ RunningHasNoOutcome' /\ FinishedHasEnd'
      /\ \A p \in S : running'[p] = None /\ outcome'[p] # "finished"
      /\ \A p \in Partitions \ S : /\ running'[p] = running[p] /\ attempt'[p] = attempt[p]
                                   /\ outcome'[p] = outcome[p]
  BY <1>1, <1>2, <1>3, AttemptsFailedStep
<1>5. TypeOK'
  BY <1>3, <1>4 DEF Inv, TypeOK, TasksOK
<1>6. NoAttemptForgotten'
  <2> SUFFICES ASSUME NEW p \in Partitions, running'[p] \in quarantined' PROVE running'[p] \in workerFailed'
    BY DEF NoAttemptForgotten
  <2>1. running'[p] \in Workers
    BY <1>5 DEF TypeOK
  <2>2. p \notin S
    BY <1>4, <2>1, SetsAssumption
  <2> QED BY <1>2, <1>3, <1>4, <2>2 DEF Inv, NoAttemptForgotten
<1>7. ASSUME Delivered PROVE Delivered'
  BY <1>2, <1>4, <1>7, OthersDelivered
<1> QED BY <1>4, <1>5, <1>6, <1>7 DEF Inv

LEMMA WorkerLostInv ==
    ASSUME Inv, NEW w \in Workers, WorkerFailed(w) \/ WorkerFoundDead(w) \/ WorkerSuspected(w)
    PROVE  Inv' /\ (Delivered => Delivered')
<1>1. Idle /\ LoseWorker(w) /\ UNCHANGED <<assigned, noMore, commands, task, alive, skipped>>
  BY DEF WorkerFailed, WorkerFoundDead, WorkerSuspected, Turn, partitionVars
<1>2. workerFailed' = workerFailed \ {w}
  BY DEF WorkerFailed, WorkerFoundDead, WorkerSuspected, Turn
<1>3. failures' \in Nat
  <2>1. failures \in Nat /\ failures + 1 \in Nat
    BY DEF Inv, TypeOK
  <2> QED BY <2>1 DEF WorkerFailed, WorkerFoundDead, WorkerSuspected
<1> QED BY <1>1, <1>2, <1>3, LoseWorkerInv

(* The status of a running attempt: a finished one had its end, and with   *)
(* no command and no event on its way all its splits.                      *)
LEMMA TaskStatusChangedInv ==
    ASSUME Inv, NEW p \in Partitions, TaskStatusChanged(p)
    PROVE  Inv' /\ (Delivered => Delivered')
<1>1. /\ Idle /\ workerFailed = {} /\ running[p] # None
      /\ UNCHANGED <<assigned, noMore, commands, task, alive, quarantined, workerFailed, failures, skipped>>
  BY DEF TaskStatusChanged, Turn, partitionVars, workerVars
<1>2. AttemptsOK /\ Left = {} /\ Left' = {} /\ attempt[p] \in Attempts
  BY <1>1, EmptySet DEF Inv, TypeOK, AttemptsOK, Idle, Left
<1>3. CASE /\ Task(p).state = "finished"
           /\ outcome' = [outcome EXCEPT ![p] = "finished"]
           /\ running' = [running EXCEPT ![p] = None]
           /\ UNCHANGED <<ready, attempt>>
  <2>1. AttemptsOK'
    BY <1>2, <1>3 DEF AttemptsOK
  <2>2. TypeOK'
    BY <1>1, <2>1 DEF Inv, TypeOK, TasksOK
  <2>3. CommandsCurrent' /\ FinishedHasEnd'
    BY <1>1, <1>2 DEF CommandsCurrent, Inv, FinishedHasEnd
  <2>4. /\ running'[p] = None /\ outcome'[p] = "finished"
        /\ \A q \in Partitions : q # p => running'[q] = running[q] /\ outcome'[q] = outcome[q]
    BY <1>2, <1>3 DEF AttemptsOK
  <2>5. NoAttemptForgotten'
    BY <1>1, <2>4, SetsAssumption DEF Inv, TypeOK, NoAttemptForgotten
  <2>6. NotBegun' /\ RunningHasNoOutcome'
    BY <1>1, <1>3, <2>4 DEF Inv, NotBegun, Task, RunningHasNoOutcome, None
  <2>7. ASSUME Delivered PROVE Delivered'
    <3>1. Told(p) /\ Task(p).noMore
      BY <1>1, <1>2, <1>3, <2>7 DEF Delivered, RunningTold, Inv, FinishedHasEnd, Task
    <3>2. p \in noMore /\ Task(p).seen \subseteq assigned[p] /\ assigned[p] \ Task(p).seen \subseteq MissedSplits(p)
      <4>1. Said(p) = Missed(p)
        BY <1>2 DEF Said, Missed
      <4> QED BY <3>1, <4>1 DEF Told, MissedSplits
    <3>3. FinishedSawEverything'
      BY <1>1, <1>3, <2>4, <2>7, <3>2 DEF Delivered, FinishedSawEverything, Missed, MissedSplits, Task
    <3>4. \A q \in Partitions : Told(q)' <=> Told(q)
      BY <1>1, <1>2, <1>3 DEF Told, Said, Task, Ends
    <3>5. RunningTold'
      BY <1>1, <2>4, <2>7, <3>4 DEF Delivered, RunningTold
    <3> QED BY <1>2, <3>3, <3>5 DEF Delivered, CreateAlone
  <2> QED BY <2>2, <2>3, <2>5, <2>6, <2>7 DEF Inv
<1>4. CASE AttemptsFailed({p}, TRUE)
  <2>1. /\ AttemptsOK' /\ CommandsCurrent' /\ NotBegun' /\ RunningHasNoOutcome' /\ FinishedHasEnd'
        /\ \A q \in {p} : running'[q] = None /\ outcome'[q] # "finished"
        /\ \A q \in Partitions \ {p} : /\ running'[q] = running[q] /\ attempt'[q] = attempt[q]
                                       /\ outcome'[q] = outcome[q]
    <3>1. {p} \in SUBSET Partitions /\ (\A q \in {p} : running[q] # None) /\ TRUE \in BOOLEAN
      BY <1>1
    <3> QED BY <1>1, <1>4, <3>1, AttemptsFailedStep
  <2>2. TypeOK'
    BY <1>1, <2>1 DEF Inv, TypeOK, TasksOK
  <2>3. NoAttemptForgotten'
    BY <1>1, <2>1, SetsAssumption DEF Inv, TypeOK, NoAttemptForgotten
  <2>4. ASSUME Delivered PROVE Delivered'
    <3>1. {p} \in SUBSET Partitions
      OBVIOUS
    <3> QED BY <1>1, <2>1, <2>4, <3>1, OthersDelivered
  <2> QED BY <2>1, <2>2, <2>3, <2>4 DEF Inv
<1> QED BY <1>3, <1>4 DEF TaskStatusChanged, Task

(* An attempt starts from nothing, and its command says all there is.      *)
LEMMA StartAttemptInv ==
    ASSUME Inv, NEW p \in Partitions, NEW w \in Workers, StartAttempt(p, w)
    PROVE  Inv' /\ (Delivered => Delivered')
<1> DEFINE c == [kind |-> "create_task", p |-> p, n |-> attempt[p], worker |-> w,
                 splits |-> assigned[p], noMore |-> p \in noMore]
<1>1. /\ Idle /\ workerFailed = {} /\ running[p] = None /\ outcome[p] = None /\ w \notin quarantined
      /\ running' = [running EXCEPT ![p] = w] /\ commands' = <<c>>
      /\ UNCHANGED <<assigned, noMore, ready, attempt, outcome, task, alive, quarantined, workerFailed, failures,
                     skipped>>
  BY DEF StartAttempt, Turn, partitionVars, workerVars
<1>2. TypeOK /\ AttemptsOK /\ attempt[p] \in Attempts /\ assigned[p] \in SUBSET Splits /\ Left = {} /\ w # None
  BY <1>1, EmptySet, SetsAssumption DEF Inv, TypeOK, AttemptsOK, Idle, Left
<1>3. /\ c \in CommandType /\ c.p = p /\ c.n = attempt[p] /\ c.worker = w /\ c.splits = assigned[p]
      /\ (Ends(c) <=> p \in noMore) /\ c.kind = "create_task"
  <2>1. c \in CommandType
    BY <1>2 DEF CommandType
  <2>2. c.p = p /\ c.n = attempt[p] /\ c.worker = w /\ c.splits = assigned[p] /\ c.kind = "create_task"
    BY ZenonT(30)
  <2>3. c.noMore = (p \in noMore)
    OBVIOUS
  <2> HIDE DEF c
  <2> QED BY <2>1, <2>2, <2>3, ZenonT(30) DEF Ends
<1> HIDE DEF c
<1>4. commands' \in Seq(CommandType) /\ Left' = {c}
  BY <1>1, <1>3, OneSet DEF Left
<1>5. running'[p] = w /\ \A q \in Partitions : q # p => running'[q] = running[q]
  BY <1>1, <1>2 DEF AttemptsOK
<1>6. AttemptsOK'
  BY <1>1, <1>2 DEF AttemptsOK
<1>7. TypeOK'
  BY <1>1, <1>2, <1>4, <1>6 DEF TypeOK, TasksOK
<1>8. CommandsCurrent'
  BY <1>1, <1>3, <1>4, <1>5 DEF CommandsCurrent, Ends
<1>9. NoAttemptForgotten'
  BY <1>1, <1>5 DEF Inv, NoAttemptForgotten
<1>10. NotBegun' /\ RunningHasNoOutcome' /\ FinishedHasEnd'
  BY <1>1, <1>2, <1>5 DEF Inv, NotBegun, Task, RunningHasNoOutcome, FinishedHasEnd
<1>11. ASSUME Delivered PROVE Delivered'
  <2>1. CreateAlone'
    BY <1>4 DEF CreateAlone
  <2>2. RunningTold'
    <3> SUFFICES ASSUME NEW q \in Partitions, running'[q] # None, running'[q] \notin workerFailed'
                 PROVE  Told(q)'
      BY DEF RunningTold
    <3>1. Task(q)' = Task(q)
      BY <1>1 DEF Task
    <3>2. CASE q # p
      <4>1. Told(q)
        BY <1>1, <1>5, <1>11, <3>2 DEF Delivered, RunningTold
      <4> QED BY <1>1, <1>2, <3>1, <4>1 DEF Told, Said, Ends
    <3>3. CASE q = p
      <4>1. Task(p) = NoTask
        BY <1>1 DEF Inv, NotBegun
      <4>2. Task(p).seen = {} /\ ~Task(p).noMore
        BY <4>1 DEF NoTask
      <4> QED BY <1>1, <1>3, <1>4, <3>1, <3>3, <4>2 DEF Told, Said, Ends
    <3> QED BY <3>2, <3>3
  <2>3. FinishedSawEverything'
    BY <1>1, <1>11 DEF Delivered, FinishedSawEverything, Missed, MissedSplits
  <2> QED BY <2>1, <2>2, <2>3 DEF Delivered
<1> QED BY <1>7, <1>8, <1>9, <1>10, <1>11 DEF Inv

-----------------------------------------------------------------------------
(* apply_assignment_result.                                                *)

(* The commands for a partition: what they are, and that they say all that *)
(* is new.                                                                 *)
LEMMA UpdatesSay ==
    ASSUME AttemptsOK, NEW p \in Partitions, NEW S \in SUBSET Splits, NEW last
    PROVE  /\ IsFiniteSet(Updates(p, S, last))
           /\ running[p] = None => Updates(p, S, last) = {}
           /\ \A c \in Updates(p, S, last) :
                /\ c \in CommandType /\ c.p = p /\ c.n = attempt[p] /\ c.worker = running[p]
                /\ c.splits \subseteq S /\ (Ends(c) => p \in last)
           /\ running[p] # None => /\ \A s \in S : \E c \in Updates(p, S, last) : s \in c.splits
                                   /\ p \in last => \E c \in Updates(p, S, last) : Ends(c)
<1> DEFINE add == [s \in S |-> Command("add_splits", p, {s})]
           adds == {Command("add_splits", p, {s}) : s \in S}
           end == Command("no_more_splits", p, {})
<1>1. CASE running[p] = None
  BY <1>1, FS_EmptySet DEF Updates
<1>2. CASE running[p] # None
  <2>1. IsFiniteSet(S)
    BY SetsAssumption, FS_Subset
  <2>2. add \in Surjection(S, adds)
    BY DEF Surjection
  <2>3. IsFiniteSet(adds)
    BY <2>1, <2>2, FS_Surjection
  <2>4. Updates(p, S, last) = adds \cup (IF p \in last THEN {end} ELSE {})
    BY <1>2 DEF Updates
  <2>5. IsFiniteSet(Updates(p, S, last))
    <3>1. IsFiniteSet(adds \cup {end}) /\ adds \cup {} = adds
      BY <2>3, FS_AddElement, ZenonT(30)
    <3> QED BY <2>3, <2>4, <3>1, ZenonT(30)
  <2>6. attempt[p] \in Attempts /\ running[p] \in Workers
    BY <1>2 DEF AttemptsOK
  <2>7. \A s \in S : LET c == Command("add_splits", p, {s}) IN
          /\ c \in CommandType /\ c.p = p /\ c.n = attempt[p] /\ c.worker = running[p] /\ c.splits = {s} /\ ~Ends(c)
    BY <2>6 DEF Command, CommandType, Ends
  <2>8. end \in CommandType /\ end.p = p /\ end.n = attempt[p] /\ end.worker = running[p] /\ end.splits = {} /\ Ends(end)
    BY <2>6 DEF Command, CommandType, Ends
  <2>9. \A c \in Updates(p, S, last) : (\E s \in S : c = Command("add_splits", p, {s})) \/ (p \in last /\ c = end)
    BY <2>4
  <2>10. \A c \in Updates(p, S, last) :
           /\ c \in CommandType /\ c.p = p /\ c.n = attempt[p] /\ c.worker = running[p]
           /\ c.splits \subseteq S /\ (Ends(c) => p \in last)
    <3> TAKE c \in Updates(p, S, last)
    <3>1. ASSUME NEW s \in S, c = Command("add_splits", p, {s})
          PROVE  /\ c \in CommandType /\ c.p = p /\ c.n = attempt[p] /\ c.worker = running[p]
                 /\ c.splits \subseteq S /\ ~Ends(c)
      BY <2>7, <3>1
    <3>2. ASSUME p \in last, c = end
          PROVE  /\ c \in CommandType /\ c.p = p /\ c.n = attempt[p] /\ c.worker = running[p]
                 /\ c.splits \subseteq S
      <4> HIDE DEF end
      <4> QED BY <2>8, <3>2
    <3> QED BY <2>9, <3>1, <3>2
  <2>11. \A s \in S : \E c \in Updates(p, S, last) : s \in c.splits
    <3> TAKE s \in S
    <3>1. Command("add_splits", p, {s}) \in Updates(p, S, last) /\ s \in Command("add_splits", p, {s}).splits
      BY <2>4, <2>7
    <3> QED BY <3>1
  <2>12. p \in last => \E c \in Updates(p, S, last) : Ends(c)
    <3> HIDE DEF end
    <3> QED BY <2>4, <2>8
  <2> QED BY <1>2, <2>5, <2>10, <2>11, <2>12
<1> QED BY <1>1, <1>2

LEMMA UpdatesCreateNothing == \A p, S, last : \A c \in Updates(p, S, last) : c.kind # "create_task"
BY DEF Updates, Command

LEMMA ApplyAssignmentResultInv ==
    ASSUME Inv, ApplyAssignmentResult
    PROVE  Inv' /\ (Delivered => Delivered')
<1>1. PICK touched, new, last, early :
        /\ touched \in SUBSET (Partitions \ noMore) /\ last \in SUBSET touched /\ early \in SUBSET touched
        /\ new \in [touched -> SUBSET (Splits \ UNION {assigned[p] : p \in Partitions})]
        /\ Idle
        /\ \A p \in touched : outcome[p] # "failed"
        /\ assigned' = [p \in Partitions |-> IF p \in touched THEN assigned[p] \cup new[p] ELSE assigned[p]]
        /\ noMore' = noMore \cup last
        /\ ready' = ready \cup {p \in last \cup early : running[p] = None}
        /\ commands' \in Orders(UNION {Updates(p, new[p], last) : p \in touched})
        /\ UNCHANGED <<running, attempt, outcome, task, workerVars, skipped>>
  BY ZenonT(40) DEF ApplyAssignmentResult
<1> UNCHANGED <<running, attempt, outcome, task, alive, quarantined, workerFailed, failures, skipped>>
  BY <1>1 DEF workerVars
<1>2. TypeOK /\ AttemptsOK /\ TasksOK /\ Left = {} /\ \A p \in touched : new[p] \in SUBSET Splits /\ p \in Partitions
  BY <1>1, EmptySet DEF Inv, TypeOK, Idle, Left
<1> DEFINE update == [p \in touched |-> Updates(p, new[p], last)]
           updates == {Updates(p, new[p], last) : p \in touched}
<1>3. \A p \in touched :
        /\ IsFiniteSet(Updates(p, new[p], last))
        /\ running[p] = None => Updates(p, new[p], last) = {}
        /\ \A c \in Updates(p, new[p], last) :
             /\ c \in CommandType /\ c.p = p /\ c.n = attempt[p] /\ c.worker = running[p]
             /\ c.splits \subseteq new[p] /\ (Ends(c) => p \in last)
        /\ running[p] # None => /\ \A s \in new[p] : \E c \in Updates(p, new[p], last) : s \in c.splits
                                /\ p \in last => \E c \in Updates(p, new[p], last) : Ends(c)
  <2> TAKE p \in touched
  <2>1. p \in Partitions /\ new[p] \in SUBSET Splits
    BY <1>2
  <2> QED BY <1>2, <2>1, UpdatesSay
<1>4. IsFiniteSet(UNION updates)
  <2>1. IsFiniteSet(touched)
    BY <1>1, SetsAssumption, FS_Subset
  <2>2. update \in Surjection(touched, updates)
    BY DEF Surjection
  <2>3. IsFiniteSet(updates)
    BY <2>1, <2>2, FS_Surjection
  <2> QED BY <1>3, <2>3, FS_UNION
<1>5. commands' \in Seq(UNION updates) /\ Left' = UNION updates
  BY <1>1, <1>4, ArrangementSet DEF Left
<1>6. \A c : c \in Left' <=> \E p \in touched : c \in Updates(p, new[p], last)
  BY <1>5
<1> HIDE DEF update, updates
<1>7. \A p \in Partitions : assigned'[p] = IF p \in touched THEN assigned[p] \cup new[p] ELSE assigned[p]
  BY <1>1
<1>8. TypeOK'
  <2>1. assigned' \in [Partitions -> SUBSET Splits] /\ noMore' \subseteq Partitions
    BY <1>1, <1>2 DEF TypeOK
  <2>2. AttemptsOK'
    BY <1>1, <1>2 DEF AttemptsOK
  <2>3. commands' \in Seq(CommandType)
    <3>1. UNION updates \subseteq CommandType
      BY <1>3, <1>5, <1>6
    <3> QED BY <1>5, <3>1
  <2> QED BY <1>1, <1>2, <2>1, <2>2, <2>3 DEF TypeOK, TasksOK
<1>9. CommandsCurrent'
  <2> SUFFICES ASSUME NEW c \in Left'
               PROVE  /\ running'[c.p] = c.worker /\ c.n = attempt'[c.p]
                      /\ c.splits \subseteq assigned'[c.p] /\ (Ends(c) => c.p \in noMore')
    BY DEF CommandsCurrent, Ends
  <2>1. PICK p \in touched : c \in Updates(p, new[p], last)
    BY <1>6
  <2>2. /\ c.p = p /\ c.n = attempt[p] /\ c.worker = running[p]
        /\ c.splits \subseteq new[p] /\ (Ends(c) => p \in last)
    BY ONLY <1>3, <2>1, ZenonT(30)
  <2>3. p \in Partitions /\ assigned'[p] = assigned[p] \cup new[p] /\ noMore' = noMore \cup last
    BY <1>1, <1>2, <1>7
  <2> QED BY <2>2, <2>3
<1>10. NoAttemptForgotten' /\ NotBegun' /\ RunningHasNoOutcome' /\ FinishedHasEnd'
  BY DEF Inv, NoAttemptForgotten, NotBegun, Task, RunningHasNoOutcome, FinishedHasEnd
<1>11. ASSUME Delivered PROVE Delivered'
  <2>1. CreateAlone'
    BY <1>6, UpdatesCreateNothing DEF CreateAlone
  <2>2. RunningTold'
    <3> SUFFICES ASSUME NEW p \in Partitions, running[p] # None, running[p] \notin workerFailed
                 PROVE  Told(p)'
      BY DEF RunningTold
    <3>1. Told(p) /\ Task(p)' = Task(p)
      BY <1>11 DEF Delivered, RunningTold, Task
    <3>2. Task(p).state # None /\ \A c \in Said(p) : c \in Said(p)'
      BY <1>2, <3>1 DEF Told, Said
    <3>3. CASE p \notin touched
      <4>1. assigned'[p] = assigned[p] /\ (p \in noMore' <=> p \in noMore)
        BY <1>1, <1>7, <3>3
      <4> QED BY <3>1, <3>2, <4>1 DEF Told, Ends
    <3>4. CASE p \in touched
      <4>1. \A s \in new[p] : \E c \in Said(p)' : s \in c.splits
        BY <1>3, <1>6, <3>4 DEF Said
      <4>2. p \in last => \E c \in Said(p)' : Ends(c)
        BY <1>3, <1>6, <3>4 DEF Said
      <4>3. assigned'[p] = assigned[p] \cup new[p] /\ (p \in noMore' <=> p \in last) /\ p \notin noMore
        <5>1. p \notin noMore /\ noMore' = noMore \cup last
          BY <1>1, <3>4
        <5> QED BY <1>7, <3>4, <5>1
      <4> QED BY <3>1, <3>2, <4>1, <4>2, <4>3 DEF Told, Ends
    <3> QED BY <3>3, <3>4
  <2>3. FinishedSawEverything'
    <3>1. \A p \in Partitions : outcome[p] = "finished" => p \notin touched
      BY <1>1, <1>11 DEF Delivered, FinishedSawEverything
    <3>2. noMore \subseteq noMore' /\ \A p \in Partitions : p \notin touched => assigned'[p] = assigned[p]
      BY <1>1, <1>7
    <3>3. \A p \in Partitions : MissedSplits(p)' = MissedSplits(p)
      BY DEF Missed, MissedSplits
    <3> QED BY <1>11, <3>1, <3>2, <3>3 DEF Delivered, FinishedSawEverything
  <2> QED BY <2>1, <2>2, <2>3 DEF Delivered
<1> QED BY <1>8, <1>9, <1>10, <1>11 DEF Inv

-----------------------------------------------------------------------------
(* The theorems.                                                           *)

LEMMA InitInv == Init => Inv /\ Delivered
<1> SUFFICES ASSUME Init PROVE Inv /\ Delivered
  OBVIOUS
<1>1. Left = {} /\ commands \in Seq(CommandType)
  BY EmptySet DEF Init, Left
<1>2. 0 \in Attempts /\ NoTask \in TaskType
  BY BoundAssumption DEF Attempts, NoTask, TaskType
<1>3. AttemptsOK /\ TasksOK
  BY <1>2 DEF Init, AttemptsOK, TasksOK
<1>4. TypeOK
  BY <1>1, <1>3 DEF Init, TypeOK
<1>5. \A p \in Partitions : /\ running[p] = None /\ outcome[p] = None /\ attempt[p] \in Attempts
                            /\ \A n \in Attempts : task[p][n] = NoTask
  BY <1>3 DEF Init, AttemptsOK
<1>6. CommandsCurrent /\ CreateAlone /\ RunningTold
  BY <1>1, <1>5 DEF CommandsCurrent, CreateAlone, RunningTold
<1>7. NoAttemptForgotten /\ NotBegun /\ RunningHasNoOutcome
  BY <1>5 DEF Init, NoAttemptForgotten, NotBegun, Task, RunningHasNoOutcome
<1>8. FinishedHasEnd /\ FinishedSawEverything
  BY <1>5 DEF FinishedHasEnd, FinishedSawEverything, NoTask, None
<1> QED BY <1>4, <1>6, <1>7, <1>8 DEF Inv, Delivered

LEMMA NextInv ==
    ASSUME Inv, [Next]_vars
    PROVE  Inv' /\ (Delivered => Delivered')
<1>1. CASE SchedulerNext
  BY <1>1, ApplyAssignmentResultInv, StartAttemptInv, WorkerLostInv, TaskStatusChangedInv, ExecuteCommandInv,
     CommandFailsInv DEF SchedulerNext
<1>2. CASE WorkerNext
  BY <1>2, TaskEndsInv, WorkerDiesInv DEF WorkerNext
<1>3. CASE UNCHANGED vars
  <2>1. UNCHANGED <<assigned, noMore, ready, running, attempt, outcome, commands, task, alive, quarantined,
                    workerFailed, failures, skipped>>
    BY <1>3 DEF vars, partitionVars, attemptVars, workerVars
  <2>2. TypeOK'
    BY <2>1 DEF Inv, TypeOK, TasksOK, AttemptsOK
  <2>3. CommandsCurrent' /\ NoAttemptForgotten' /\ NotBegun' /\ RunningHasNoOutcome' /\ FinishedHasEnd'
    BY <2>1 DEF Inv, CommandsCurrent, NoAttemptForgotten, NotBegun, RunningHasNoOutcome, FinishedHasEnd, Task, Left, Ends
  <2>4. ASSUME Delivered PROVE Delivered'
    <3>1. CreateAlone'
      BY <2>1, <2>4 DEF Delivered, CreateAlone, Left
    <3>2. \A p \in Partitions : Told(p) => Told(p)'
      BY <2>1 DEF Told, Said, Task, Left, Ends
    <3>3. RunningTold'
      BY <2>1, <2>4, <3>2 DEF Delivered, RunningTold
    <3>4. FinishedSawEverything'
      BY <2>1, <2>4 DEF Delivered, FinishedSawEverything, Missed, MissedSplits
    <3> QED BY <3>1, <3>3, <3>4 DEF Delivered
  <2> QED BY <2>2, <2>3, <2>4 DEF Inv
<1> QED BY <1>1, <1>2, <1>3 DEF Next

(* A running attempt is on a worker that has not been given up, or the     *)
(* WorkerFailed event that ends it is in the queue, however many           *)
(* partitions an assignment result updates and whichever calls fail.       *)
THEOREM NoAttemptForgottenAlways == Spec => []NoAttemptForgotten
<1>1. Inv /\ [Next]_vars => Inv'
  BY NextInv
<1>2. Init => Inv
  BY InitInv
<1>3. Inv => NoAttemptForgotten
  BY DEF Inv
<1> QED BY <1>1, <1>2, <1>3, PTL DEF Spec

(* However many partitions an assignment result updates, and whichever     *)
(* calls, tasks and workers fail in between: the attempt a partition is    *)
(* finished with has had every split of the descriptor, except those of a  *)
(* command that was left unexecuted when a call to another worker failed.  *)
THEOREM FinishedSawEverythingAlways == Spec => []FinishedSawEverything
<1>1. Inv /\ Delivered /\ [Next]_vars => (Inv /\ Delivered)'
  BY NextInv
<1>2. Init => Inv /\ Delivered
  BY InitInv
<1>3. Delivered => FinishedSawEverything
  BY DEF Delivered
<1> QED BY <1>1, <1>2, <1>3, PTL DEF Spec

(* Likewise, between two events a running attempt has the splits and the   *)
(* end of its descriptor except for such commands, or the failure of its   *)
(* worker is in the queue.                                                 *)
THEOREM RunningUpToDateAlways == Spec => []RunningUpToDate
<1>1. Inv /\ Delivered /\ [Next]_vars => (Inv /\ Delivered)'
  BY NextInv
<1>2. Init => Inv /\ Delivered
  BY InitInv
<1>3. Inv /\ Delivered => RunningUpToDate
  <2> SUFFICES ASSUME Inv, Delivered, Idle, NEW p \in Partitions, running[p] # None, running[p] \notin workerFailed
               PROVE  /\ Task(p).state # None
                      /\ Task(p).seen \subseteq assigned[p] /\ assigned[p] \ Task(p).seen \subseteq MissedSplits(p)
                      /\ Task(p).noMore => p \in noMore
                      /\ p \in noMore => Task(p).noMore \/ \E c \in Missed(p) : Ends(c)
    BY DEF RunningUpToDate, Task
  <2>1. Left = {} /\ Told(p)
    BY EmptySet DEF Left, Idle, Delivered, RunningTold
  <2>2. Said(p) = Missed(p)
    BY <2>1 DEF Said, Missed
  <2> QED BY <2>1, <2>2 DEF Told, MissedSplits
<1> QED BY <1>1, <1>2, <1>3, PTL DEF Spec

=============================================================================
