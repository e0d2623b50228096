--------------------- MODULE FteWorkerTaskManager_proofs ---------------------
(***************************************************************************)
(* The worker's queue, slots and memory, and the status it answers, for    *)
(* any tasks, limits and number of creations of an attempt id.             *)
(***************************************************************************)
EXTENDS FteWorkerQueueLemmas

-----------------------------------------------------------------------------
(* Publishing the status of the tasks that changed, and of X, keeps the    *)
(* final ones visible.                                                     *)
LEMMA PublishedType ==
    ASSUME NEW X, state' \in [Tasks -> States \cup {NoStatus}], TypeOK
    PROVE  Published(cache, X) \in [Tasks -> States \cup {NoStatus}]
BY DEF Published, TypeOK

LEMMA PublishedVisible ==
    ASSUME FinishedIsVisible, TypeOK, NEW X, cache' = Published(cache, X), tasks' \in SUBSET Tasks,
           \A k \in tasks' \ X : k \in tasks /\ creates'[k] = creates[k]
    PROVE  FinishedIsVisible'
<1>1. SUFFICES ASSUME NEW k \in tasks', state'[k] \in {"FINISHED", "FAILED"}, creates'[k] = 1
               PROVE  cache'[k] = state'[k]
  BY DEF FinishedIsVisible
<1>2. cache'[k] = IF k \in X \/ state'[k] # state[k] THEN state'[k] ELSE cache[k]
  BY DEF Published
<1> QED BY <1>1, <1>2 DEF FinishedIsVisible

-----------------------------------------------------------------------------
(* The invariant is preserved: one lemma per action.                       *)

LEMMA InitInv == Init => Inv
<1> SUFFICES ASSUME Init PROVE Inv
  OBVIOUS
<1>1. TypeOK
  <2>1. /\ state \in [Tasks -> States \cup {NoStatus}] /\ future \in [Tasks -> Futures]
        /\ cache \in [Tasks -> States \cup {NoStatus}] /\ creates \in [Tasks -> Nat]
    BY DEF Init, Futures
  <2>2. queued \in Seq(Tasks) /\ dropped \in Seq(Tasks)
    BY DEF Init
  <2>3. /\ tasks \in SUBSET Tasks /\ native \in SUBSET (Tasks \X Nat) /\ unwinding \in SUBSET (Tasks \X Nat)
        /\ running \in SUBSET Tasks /\ publishing \in SUBSET (Tasks \X Nat \X States) /\ shut \in BOOLEAN
        /\ withdrawn \in SUBSET Tasks /\ undrained \in BOOLEAN
    BY Zenon DEF Init
  <2> QED BY <2>1, <2>2, <2>3 DEF TypeOK
<1>2. LifeOK /\ UnwindingOK /\ NativeOK /\ HoldsSlot /\ SlotsComeBack /\ NoIdleQueue /\ FinishedIsVisible
  BY DEF Init, LifeOK, Life, UnwindingOK, NativeOK, HoldsSlot, SlotsComeBack, NoIdleQueue, FinishedIsVisible
<1>3. QueueOK /\ DroppedOK
  BY DEF Init, QueueOK, DroppedOK, Distinct, Range
<1>4. Fits(running)
  BY NothingFits DEF Init
<1> QED BY <1>1, <1>2, <1>3, <1>4 DEF Inv

LEMMA CreateTaskInv == ASSUME Inv, NEW k \in Tasks, CreateTask(k) PROVE Inv'
<1>1. TypeOK /\ LifeOK /\ QueueOK /\ SlotsComeBack
  BY DEF Inv
<1>2. /\ k \notin tasks /\ ~shut /\ future[k] = "none" /\ k \notin running /\ k \notin Range(queued)
      /\ state' \in [Tasks -> States \cup {NoStatus}] /\ future' \in [Tasks -> Futures]
      /\ creates' = [creates EXCEPT ![k] = creates[k] + 1] /\ creates[k] \in Nat
      /\ tasks' = tasks \cup {k} /\ shut' = shut
      /\ native' = native /\ unwinding' = unwinding /\ publishing' = publishing
      /\ cache' = Published(cache, {k}) /\ withdrawn' = withdrawn /\ undrained' = undrained /\ k \notin withdrawn
  BY <1>1 DEF CreateTask, TypeOK, LifeOK, Life, QueueOK, SlotsComeBack, States, Futures, historyVars
<1>3. /\ dropped' \in Seq(Tasks) /\ Range(dropped') = Range(dropped) \ {k}
  BY <1>1, RemovedSet DEF CreateTask, TypeOK
<1>4. \A j \in Tasks : j # k =>
          /\ state'[j] = state[j] /\ future'[j] = future[j]
          /\ creates'[j] = creates[j]
  BY <1>1 DEF CreateTask, TypeOK
<1>5. creates'[k] = creates[k] + 1 /\ creates' \in [Tasks -> Nat]
  BY <1>1, <1>2 DEF TypeOK
<1>6. \/ /\ Fits(running \cup {k}) /\ running' = running \cup {k} /\ future'[k] = "waiting"
         /\ state'[k] = "RUNNING" /\ queued' = queued
      \/ /\ ~Fits(running \cup {k}) /\ running' = running /\ future'[k] = "none"
         /\ state'[k] = "QUEUED" /\ queued' = Append(queued, k)
  BY <1>1 DEF CreateTask, TypeOK
<1>7. ASSUME queued' = Append(queued, k)
      PROVE  /\ queued' \in Seq(Tasks) /\ Distinct(queued') /\ Range(queued') = Range(queued) \cup {k}
             /\ Head(queued') = IF queued = <<>> THEN k ELSE Head(queued)
  <2> DEFINE r == Append(queued, k)
  <2>1. queued \in Seq(Tasks)
    BY <1>1 DEF TypeOK
  <2>2. /\ r \in Seq(Tasks) /\ Len(r) = Len(queued) + 1 /\ DOMAIN r = 1 .. Len(queued) + 1
        /\ \A i \in 1 .. Len(queued) : r[i] = queued[i]
        /\ r[Len(queued) + 1] = k
        /\ DOMAIN queued = 1 .. Len(queued) /\ Len(queued) \in Nat
    BY <2>1
  <2>3. Head(r) = IF queued = <<>> THEN k ELSE Head(queued)
    BY <2>1
  <2> HIDE DEF r
  <2>4. ASSUME NEW i \in DOMAIN r, NEW j \in DOMAIN r, r[i] = r[j] PROVE i = j
    <3>1. \A l \in DOMAIN r :
             \/ l \in DOMAIN queued /\ r[l] = queued[l] /\ r[l] \in Range(queued)
             \/ l = Len(queued) + 1 /\ r[l] = k
      BY <2>2 DEF Range
    <3> QED BY <1>1, <1>2, <2>4, <3>1 DEF QueueOK, Distinct
  <2>5. Range(r) = Range(queued) \cup {k}
    BY <2>2 DEF Range
  <2>6. Distinct(r)
    BY <2>4, Zenon DEF Distinct
  <2> QED BY <1>7, <2>2, <2>3, <2>5, <2>6 DEF r
<1>8. cache' \in [Tasks -> States \cup {NoStatus}]
  BY <1>1, <1>2, PublishedType
<1>9. TypeOK'
  BY <1>1, <1>2, <1>3, <1>5, <1>6, <1>7, <1>8 DEF TypeOK
<1>10. LifeOK'
  BY <1>1, <1>2, <1>4, <1>5, <1>6 DEF LifeOK, Life, States
<1>11. QueueOK'
  <2>1. Range(queued') = {j \in tasks' : state'[j] = "QUEUED"} \ withdrawn'
    BY <1>1, <1>2, <1>4, <1>6, <1>7 DEF QueueOK, TypeOK
  <2>2. withdrawn' \subseteq {j \in tasks' : state'[j] = "QUEUED"}
    BY <1>1, <1>2, <1>4 DEF QueueOK, TypeOK
  <2> QED BY <1>1, <1>2, <1>6, <1>7, <2>1, <2>2 DEF QueueOK
<1>12. UnwindingOK'
  BY <1>1, <1>2, <1>4, <1>5 DEF Inv, UnwindingOK, TypeOK
<1>13. NativeOK'
  <2>1. \A j \in Tasks, n \in Nat : <<j, n>> \in native' => n <= creates'[j]
    BY <1>2, <1>4, <1>5 DEF Inv, NativeOK
  <2>2. \A j \in Tasks, n \in Nat, s \in States : <<j, n, s>> \in publishing' => <<j, n>> \in native'
    BY <1>2 DEF Inv, NativeOK
  <2>3. ASSUME NEW j \in tasks', future'[j] = "waiting" \/ state'[j] \in {"QUEUED", "FINISHED", "FAILED"}
        PROVE  <<j, creates'[j]>> \notin native'
    <3>1. CASE j = k
      <4>1. <<k, creates[k] + 1>> \notin native
        BY <1>2 DEF Inv, NativeOK
      <4> QED BY <1>2, <1>5, <3>1, <4>1
    <3>2. CASE j # k
      BY <1>1, <1>2, <1>4, <2>3, <3>2 DEF Inv, NativeOK, TypeOK
    <3> QED BY <3>1, <3>2
  <2> QED BY <2>1, <2>2, <2>3 DEF NativeOK
<1>14. DroppedOK'
  BY <1>2, <1>3 DEF Inv, DroppedOK
<1>15. Fits(running')
  BY <1>6 DEF Inv
<1>16. HoldsSlot'
  BY <1>1, <1>2, <1>4, <1>5, <1>6 DEF Inv, HoldsSlot, TypeOK
<1>17. SlotsComeBack'
  BY <1>1, <1>2, <1>4, <1>6 DEF SlotsComeBack, TypeOK
<1>18. NoIdleQueue'
  <2>1. SUFFICES ASSUME queued' # <<>>, ~undrained PROVE ~Fits(running' \cup {Head(queued')})
    BY <1>2 DEF NoIdleQueue
  <2>2. CASE queued' = queued
    <3>1. ~Fits(running \cup {Head(queued)})
      BY <2>1, <2>2 DEF Inv, NoIdleQueue
    <3>2. Head(queued) \in Tasks
      BY <1>1, <2>1, <2>2 DEF TypeOK
    <3>3. running' \cup {Head(queued)} \in SUBSET Tasks
      BY <1>9, <3>2 DEF TypeOK
    <3>4. running \cup {Head(queued)} \in SUBSET (running' \cup {Head(queued)})
      BY <1>6
    <3> QED BY <2>2, <3>1, <3>3, <3>4, FitsMonotone
  <2>3. CASE queued' = Append(queued, k) /\ ~Fits(running \cup {k}) /\ running' = running
    BY <1>7, <2>1, <2>3 DEF Inv, NoIdleQueue
  <2> QED BY <1>6, <2>2, <2>3
<1>19. FinishedIsVisible'
  <2>1. \A j \in tasks' \ {k} : j \in tasks /\ creates'[j] = creates[j]
    BY <1>1, <1>2, <1>4 DEF TypeOK
  <2> QED BY <1>1, <1>2, <1>9, <2>1, PublishedVisible DEF Inv, TypeOK
<1> QED BY <1>9, <1>10, <1>11, <1>12, <1>13, <1>14, <1>15, <1>16, <1>17, <1>18, <1>19 DEF Inv

(* The tasks stopped are cancelled, and those of gone forgotten.           *)
Without(stopped, gone) == [k \in Tasks |-> IF k \in gone THEN "none" ELSE Cancelling(stopped)[k]]

(* The tasks all leave the queue, and cancel() of the others than stopped  *)
(* raises.                                                                 *)
LEMMA CancelKeeps ==
    ASSUME Inv, NEW all \in SUBSET tasks, NEW stopped \in SUBSET all, NEW gone \in SUBSET stopped,
           NEW freed \in SUBSET stopped, gone \subseteq freed
    PROVE  Drainable(tasks \ gone, Canceled(stopped), Without(stopped, gone), running \ freed,
                     Removed(queued, all), Withdrawn(all, all \ stopped))
<1> DEFINE ts == tasks \ gone
           st == Canceled(stopped)
           fut == Without(stopped, gone)
           wd == Withdrawn(all, all \ stopped)
<1>1. TypeOK /\ LifeOK /\ QueueOK /\ NativeOK /\ HoldsSlot /\ SlotsComeBack
  BY DEF Inv
<1>2. \A k \in Tasks : st[k] = IF k \in stopped /\ state[k] \notin Terminal THEN "CANCELED" ELSE state[k]
  BY DEF Canceled
<1>3. \A k \in Tasks : fut[k] = IF k \in gone THEN "none"
                                ELSE IF k \in stopped /\ future[k] \in {"waiting", "running"} THEN "cancelling"
                                ELSE future[k]
  BY DEF Without, Cancelling
<1>4. st \in [Tasks -> States \cup {NoStatus}]
  BY <1>1 DEF TypeOK, Canceled, States, Terminal
<1>5. fut \in [Tasks -> Futures]
  <2>1. \A k \in Tasks : fut[k] \in Futures
    BY <1>1, <1>3 DEF TypeOK, Futures
  <2> QED BY <2>1 DEF Without
<1> HIDE DEF st, fut
<1>6. ts \subseteq Tasks /\ all \subseteq Tasks /\ gone \subseteq Tasks /\ stopped \subseteq Tasks
  BY <1>1 DEF TypeOK
<1>7. /\ Range(queued) \ all = {k \in ts : st[k] = "QUEUED"} \ wd
      /\ wd \subseteq {k \in ts : st[k] = "QUEUED"}
  <2>1. wd = (withdrawn \ all) \cup {k \in all \ stopped : state[k] = "QUEUED"}
    BY DEF Withdrawn
  <2>2. \A k \in ts : st[k] = "QUEUED" <=> k \notin stopped /\ state[k] = "QUEUED"
    BY <1>2, <1>6 DEF Terminal
  <2> HIDE DEF wd
  <2>3. \A k \in tasks : k \in Range(queued) <=> state[k] = "QUEUED" /\ k \notin withdrawn
    BY <1>1 DEF QueueOK
  <2>4. Range(queued) \subseteq tasks /\ withdrawn \subseteq tasks /\ \A k \in withdrawn : state[k] = "QUEUED"
    BY <1>1 DEF QueueOK
  <2> QED BY <2>1, <2>2, <2>3, <2>4
<1>8. \A k \in Tasks \ ts : fut[k] = "none"
  BY <1>1, <1>3, <1>6 DEF LifeOK, Life
<1>9. ASSUME NEW k \in ts
      PROVE  /\ creates[k] >= 1
             /\ st[k] = "RUNNING" <=> fut[k] \in {"waiting", "running"}
             /\ st[k] = "QUEUED" => fut[k] = "none"
  <2>1. k \in tasks /\ k \notin gone /\ k \in Tasks
    BY <1>6
  <2>2. Life(k)
    BY <1>1, <2>1 DEF LifeOK
  <2>3. /\ st[k] = IF k \in stopped /\ state[k] \notin Terminal THEN "CANCELED" ELSE state[k]
        /\ fut[k] = IF k \in stopped /\ future[k] \in {"waiting", "running"} THEN "cancelling"
                    ELSE future[k]
    BY <1>2, <1>3, <2>1
  <2> QED BY <2>1, <2>2, <2>3 DEF Life, Terminal
<1>10. \A k \in Tasks : creates[k] >= 1 => st[k] \in States
  BY <1>1, <1>2 DEF LifeOK, Life, States, Terminal
<1>11. \A k \in ts : fut[k] = "waiting" \/ st[k] \in {"QUEUED", "FINISHED", "FAILED"} =>
            <<k, creates[k]>> \notin native
  BY <1>1, <1>2, <1>3, <1>6 DEF NativeOK
<1>12. \A k \in ts : st[k] = "RUNNING" /\ creates[k] = 1 => k \in running /\ k \notin stopped
  BY <1>1, <1>2, <1>6 DEF HoldsSlot, Terminal
<1>13. \A k \in running \ gone : fut[k] \notin {"none", "called"}
  BY <1>1, <1>3 DEF SlotsComeBack, TypeOK
<1>14. shut => Range(queued) = {}
  BY <1>1 DEF QueueOK
<1> DEFINE q == Removed(queued, all)
           run == running \ freed
<1>15. q \in Seq(Tasks) /\ Distinct(q) /\ Range(q) = Range(queued) \ all
  BY <1>1, RemovedSet DEF TypeOK, QueueOK
<1>16. run \in SUBSET Tasks /\ run \in SUBSET running /\ running \in SUBSET Tasks
  BY <1>1 DEF TypeOK
<1>17. Fits(run)
  BY <1>16, FitsMonotone DEF Inv
<1>18. \A k \in run : fut[k] \notin {"none", "called"}
  BY <1>13
<1>19. \A k \in ts : st[k] = "RUNNING" /\ creates[k] = 1 => k \in run
  BY <1>12
<1> HIDE DEF ts, run, q, wd
<1>20. Drainable(ts, st, fut, run, q, wd)
  BY <1>4, <1>5, <1>6, <1>7, <1>8, <1>9, <1>10, <1>11, <1>14, <1>15, <1>16, <1>17, <1>18, <1>19 DEF Drainable
<1> QED BY <1>20 DEF ts, st, fut, run, q, wd

(* The same tasks, after a drain.                                          *)
LEMMA DrainInv ==
    ASSUME Inv, DrainedOK, NEW X, cache' = Published(cache, X), unwinding' \subseteq unwinding,
           UNCHANGED <<tasks, native, dropped, publishing, shut, creates>>
    PROVE  Inv'
<1>1. TypeOK
  BY DEF Inv
<1>2. TypeOK'
  <2>1. cache' \in [Tasks -> States \cup {NoStatus}]
    BY <1>1, PublishedType DEF DrainedOK
  <2> QED BY <1>1, <2>1 DEF TypeOK, DrainedOK
<1>3. UnwindingOK' /\ DroppedOK'
  BY DEF Inv, UnwindingOK, DroppedOK
<1>4. NativeOK'
  BY DEF Inv, NativeOK, DrainedOK
<1>5. FinishedIsVisible'
  BY <1>1, PublishedVisible DEF Inv, TypeOK
<1> QED BY <1>2, <1>3, <1>4, <1>5 DEF Inv, DrainedOK

LEMMA CancelTaskInv == ASSUME Inv, NEW k \in Tasks, CancelTask(k) PROVE Inv'
<1> DEFINE st == Canceled({k})
           fut == Without({k}, {})
           run == running \ {k}
           q == Removed(queued, {k})
<1>1. fut = Cancelling({k})
  BY DEF Without, Cancelling
<1>2. DrainQueue(tasks, st, fut, run, q)
  BY <1>1 DEF CancelTask
<1>3. tasks \ {} = tasks /\ {k} \in SUBSET tasks /\ {k} \ {k} = {} /\ withdrawn' = Withdrawn({k}, {})
  BY DEF CancelTask
<1>4. Drainable(tasks, st, fut, run, q, withdrawn')
  <2>1. Drainable(tasks \ {}, st, fut, run, q, Withdrawn({k}, {k} \ {k}))
    BY <1>3, CancelKeeps
  <2> HIDE DEF st, fut, run, q
  <2> QED BY <1>3, <2>1
<1> HIDE DEF st, fut, run, q
<1>5. UNCHANGED <<tasks, native, unwinding, dropped, publishing, shut, creates>>
  BY DEF CancelTask
<1>6. DrainedOK
  BY <1>2, <1>4, <1>5, DrainKeeps
<1> QED BY <1>5, <1>6, DrainInv DEF CancelTask

LEMMA TaskDoneInv == ASSUME Inv, NEW k \in Tasks, TaskDone(k) PROVE Inv'
<1> DEFINE fut == [future EXCEPT ![k] = "called"]
           run == running \ {k}
<1>1. TypeOK /\ LifeOK /\ QueueOK /\ NativeOK /\ HoldsSlot /\ SlotsComeBack
  BY DEF Inv
<1>2. future[k] = "ended" /\ k \in tasks /\ state[k] \notin {"RUNNING", "QUEUED"}
  BY <1>1 DEF TaskDone, LifeOK, Life
<1>3. DrainQueue(tasks, state, fut, run, queued)
  BY DEF TaskDone
<1>4. /\ fut \in [Tasks -> Futures] /\ fut[k] = "called"
      /\ \A j \in Tasks : j # k => fut[j] = future[j]
  BY <1>1 DEF TypeOK, Futures
<1>5. run \in SUBSET Tasks /\ run \in SUBSET running /\ running \in SUBSET Tasks
  BY <1>1 DEF TypeOK
<1>6. Fits(run)
  BY <1>5, FitsMonotone DEF Inv
<1>7. Drainable(tasks, state, fut, run, queued, withdrawn)
  <2> HIDE DEF fut
  <2>1. /\ tasks \in SUBSET Tasks /\ state \in [Tasks -> States \cup {NoStatus}]
        /\ queued \in Seq(Tasks) /\ Distinct(queued)
        /\ Range(queued) = {j \in tasks : state[j] = "QUEUED"} \ withdrawn
        /\ withdrawn \subseteq {j \in tasks : state[j] = "QUEUED"} /\ (shut => Range(queued) = {})
    BY <1>1 DEF TypeOK, QueueOK
  <2>2. \A j \in Tasks \ tasks : fut[j] = "none"
    BY <1>1, <1>2, <1>4 DEF LifeOK, Life
  <2>3. ASSUME NEW j \in tasks
        PROVE  /\ creates[j] >= 1
               /\ state[j] = "RUNNING" <=> fut[j] \in {"waiting", "running"}
               /\ state[j] = "QUEUED" => fut[j] = "none"
    BY <1>1, <1>2, <1>4, <2>1 DEF LifeOK, Life
  <2>4. \A j \in Tasks : creates[j] >= 1 => state[j] \in States
    BY <1>1 DEF LifeOK, Life
  <2>5. \A j \in tasks : fut[j] = "waiting" \/ state[j] \in {"QUEUED", "FINISHED", "FAILED"} =>
           <<j, creates[j]>> \notin native
    BY <1>1, <1>4, <2>1 DEF NativeOK
  <2>6. \A j \in tasks : state[j] = "RUNNING" /\ creates[j] = 1 => j \in run
    BY <1>1, <1>2 DEF HoldsSlot
  <2>7. \A j \in run : fut[j] \notin {"none", "called"}
    BY <1>1, <1>4, <1>5 DEF SlotsComeBack
  <2> HIDE DEF run
  <2> QED BY <1>4, <1>5, <1>6, <2>1, <2>2, <2>3, <2>4, <2>5, <2>6, <2>7 DEF Drainable
<1> HIDE DEF fut, run
<1>8. UNCHANGED <<tasks, native, unwinding, dropped, publishing, shut, creates, withdrawn>>
  BY DEF TaskDone
<1>9. DrainedOK
  BY <1>3, <1>7, <1>8, DrainKeeps
<1> QED BY <1>8, <1>9, DrainInv DEF TaskDone

LEMMA ForgottenTaskDoneInv ==
    ASSUME Inv, NEW k \in Tasks, NEW n \in Nat \ {0}, ForgottenTaskDone(k, n) PROVE Inv'
<1> DEFINE run == running \ {k}
<1>1. TypeOK /\ LifeOK /\ QueueOK /\ NativeOK /\ HoldsSlot /\ SlotsComeBack /\ UnwindingOK
  BY DEF Inv
<1>2. k \in tasks => creates[k] # 1
  BY <1>1 DEF ForgottenTaskDone, UnwindingOK
<1>3. DrainQueue(tasks, state, future, run, queued)
  BY DEF ForgottenTaskDone
<1>4. run \in SUBSET Tasks /\ run \in SUBSET running /\ running \in SUBSET Tasks
  BY <1>1 DEF TypeOK
<1>5. Fits(run)
  BY <1>4, FitsMonotone DEF Inv
<1>6. Drainable(tasks, state, future, run, queued, withdrawn)
  <2>1. /\ tasks \in SUBSET Tasks /\ state \in [Tasks -> States \cup {NoStatus}]
        /\ future \in [Tasks -> Futures]
        /\ queued \in Seq(Tasks) /\ Distinct(queued)
        /\ Range(queued) = {j \in tasks : state[j] = "QUEUED"} \ withdrawn
        /\ withdrawn \subseteq {j \in tasks : state[j] = "QUEUED"} /\ (shut => Range(queued) = {})
    BY <1>1 DEF TypeOK, QueueOK
  <2>2. \A j \in Tasks \ tasks : future[j] = "none"
    BY <1>1 DEF LifeOK, Life
  <2>3. ASSUME NEW j \in tasks
        PROVE  /\ creates[j] >= 1
               /\ state[j] = "RUNNING" <=> future[j] \in {"waiting", "running"}
               /\ state[j] = "QUEUED" => future[j] = "none"
    BY <1>1, <2>1 DEF LifeOK, Life
  <2>4. \A j \in Tasks : creates[j] >= 1 => state[j] \in States
    BY <1>1 DEF LifeOK, Life
  <2>5. \A j \in tasks : future[j] = "waiting" \/ state[j] \in {"QUEUED", "FINISHED", "FAILED"} =>
           <<j, creates[j]>> \notin native
    BY <1>1 DEF NativeOK
  <2>6. \A j \in tasks : state[j] = "RUNNING" /\ creates[j] = 1 => j \in run
    BY <1>1, <1>2 DEF HoldsSlot
  <2>7. \A j \in run : future[j] \notin {"none", "called"}
    BY <1>1, <1>4 DEF SlotsComeBack
  <2> HIDE DEF run
  <2> QED BY <1>4, <1>5, <2>1, <2>2, <2>3, <2>4, <2>5, <2>6, <2>7 DEF Drainable
<1> HIDE DEF run
<1>7. UNCHANGED <<tasks, native, dropped, publishing, shut, creates, withdrawn>> /\ unwinding' \subseteq unwinding
  BY DEF ForgottenTaskDone
<1>8. DrainedOK
  BY <1>3, <1>6, <1>7, DrainKeeps
<1> QED BY <1>7, <1>8, DrainInv DEF ForgottenTaskDone

LEMMA DroppedSet ==
    ASSUME TypeOK, NEW gone \in SUBSET Tasks, NEW order \in Orders(gone)
    PROVE  Dropped(order) \in Seq(Tasks) /\ Range(Dropped(order)) \subseteq Range(dropped) \cup gone
<1>1. Cardinality(gone) \in Nat
  BY LimitsAssumption, FS_Subset, FS_CardinalityType
<1>2. order \in [1 .. Cardinality(gone) -> gone]
  BY DEF Orders, Injection, IsInjective
<1>3. order \in Seq(gone) /\ order \in Seq(Tasks) /\ Range(order) \subseteq gone
  BY <1>1, <1>2 DEF Range
<1> DEFINE old == Removed(dropped, Range(order))
           both == old \o order
<1>4. old \in Seq(Tasks) /\ Range(old) \subseteq Range(dropped)
  BY RemovedSet DEF TypeOK
<1> HIDE DEF old
<1>5. both \in Seq(Tasks) /\ Range(both) \subseteq Range(old) \cup Range(order)
  <2>1. /\ both \in Seq(Tasks) /\ Len(both) = Len(old) + Len(order) /\ DOMAIN both = 1 .. Len(both)
        /\ \A i \in 1 .. Len(both) : both[i] = IF i <= Len(old) THEN old[i] ELSE order[i - Len(old)]
    BY <1>3, <1>4
  <2>2. /\ DOMAIN old = 1 .. Len(old) /\ Len(old) \in Nat
        /\ DOMAIN order = 1 .. Len(order) /\ Len(order) \in Nat
    BY <1>3, <1>4
  <2> HIDE DEF both
  <2>3. ASSUME NEW i \in 1 .. Len(both) PROVE both[i] \in Range(old) \cup Range(order)
    <3>1. CASE i <= Len(old)
      <4>1. i \in DOMAIN old /\ both[i] = old[i]
        BY <2>1, <2>2, <3>1
      <4> QED BY <4>1 DEF Range
    <3>2. CASE ~(i <= Len(old))
      <4>1. i - Len(old) \in DOMAIN order /\ both[i] = order[i - Len(old)]
        BY <2>1, <2>2, <3>2
      <4> QED BY <4>1 DEF Range
    <3> QED BY <3>1, <3>2
  <2>4. Range(both) = {both[i] : i \in 1 .. Len(both)}
    BY <2>1 DEF Range
  <2> QED BY <2>1, <2>3, <2>4
<1> HIDE DEF both
<1>6. PICK m : m = IF Len(both) > MaxDropped THEN Len(both) - MaxDropped + 1 ELSE 1
  OBVIOUS
<1>7. m \in Nat /\ m >= 1 /\ Len(both) \in Nat
  BY <1>5, <1>6, LimitsAssumption
<1> DEFINE r == SubSeq(both, m, Len(both))
<1>8. r \in Seq(Tasks) /\ Range(r) \subseteq Range(both)
  <2>1. /\ r \in Seq(Tasks) /\ DOMAIN r = 1 .. Len(r)
        /\ Len(r) = IF m <= Len(both) THEN Len(both) - m + 1 ELSE 0
        /\ \A i \in 1 .. Len(both) - m + 1 : r[i] = both[m + i - 1]
        /\ DOMAIN both = 1 .. Len(both)
    BY <1>5, <1>7
  <2> HIDE DEF r
  <2>2. ASSUME NEW i \in DOMAIN r PROVE r[i] \in Range(both)
    <3>1. m + i - 1 \in DOMAIN both /\ r[i] = both[m + i - 1]
      BY <1>7, <2>1
    <3> QED BY <3>1 DEF Range
  <2>3. Range(r) = {r[i] : i \in DOMAIN r}
    BY DEF Range
  <2> QED BY <2>1, <2>2, <2>3
<1>9. Dropped(order) = r
  BY <1>6 DEF Dropped, old, both
<1> HIDE DEF r
<1> QED BY <1>3, <1>4, <1>5, <1>8, <1>9

LEMMA DropQueryInv == ASSUME Inv, NEW query \in Queries, DropQuery(query) PROVE Inv'
<1> DEFINE all == {k \in tasks : QueryOf[k] = query}
<1>1. PICK raised \in SUBSET {k \in all : state[k] \notin Terminal} : \E kept \in SUBSET (all \ raised) :
        LET stopped == all \ raised
            gone == stopped \ kept
            fut == [k \in Tasks |-> IF k \in gone THEN "none" ELSE Cancelling(stopped)[k]] IN
        /\ all # {}
        /\ ~shut
        /\ tasks' = tasks \ gone
        /\ \E order \in Orders(gone) : dropped' = Dropped(order)
        /\ Forgotten(gone)
        /\ DrainQueue(tasks', Canceled(stopped), fut, running \ gone, Removed(queued, all))
        /\ withdrawn' = Withdrawn(all, raised)
        /\ LET evicted == Range(dropped) \ Range(dropped') IN
           cache' = Update(Published(cache, kept), gone \cup evicted, NoStatus)
        /\ UNCHANGED <<native, publishing, shut, creates>>
  BY Zenon DEF DropQuery
<1> DEFINE stopped == all \ raised
<1>2. PICK kept \in SUBSET stopped :
        LET gone == stopped \ kept
            fut == [k \in Tasks |-> IF k \in gone THEN "none" ELSE Cancelling(stopped)[k]] IN
        /\ tasks' = tasks \ gone
        /\ \E order \in Orders(gone) : dropped' = Dropped(order)
        /\ Forgotten(gone)
        /\ DrainQueue(tasks', Canceled(stopped), fut, running \ gone, Removed(queued, all))
        /\ withdrawn' = Withdrawn(all, raised)
        /\ LET evicted == Range(dropped) \ Range(dropped') IN
           cache' = Update(Published(cache, kept), gone \cup evicted, NoStatus)
        /\ UNCHANGED <<native, publishing, shut, creates>>
  BY <1>1, Zenon
<1> DEFINE gone == stopped \ kept
           st == Canceled(stopped)
           fut == Without(stopped, gone)
           run == running \ gone
           q == Removed(queued, all)
           ts == tasks \ gone
<1>3. /\ tasks' = ts /\ Forgotten(gone) /\ DrainQueue(tasks', st, fut, run, q)
      /\ cache' = Update(Published(cache, kept), gone \cup (Range(dropped) \ Range(dropped')), NoStatus)
      /\ UNCHANGED <<native, publishing, shut, creates>>
  BY <1>2, Zenon DEF Without
<1>4. PICK order \in Orders(gone) : dropped' = Dropped(order)
  BY <1>2, Zenon
<1>5. /\ all \in SUBSET tasks /\ stopped \in SUBSET all /\ gone \in SUBSET stopped /\ gone \subseteq gone
      /\ all \ stopped = raised
  OBVIOUS
<1> HIDE DEF all, stopped, gone
<1>6. Drainable(ts, st, fut, run, q, withdrawn')
  <2>1. Drainable(ts, st, fut, run, q, Withdrawn(all, all \ stopped))
    BY <1>5, CancelKeeps
  <2>2. withdrawn' = Withdrawn(all, raised)
    BY <1>2
  <2> HIDE DEF ts, st, fut, run, q
  <2> QED BY <1>5, <2>1, <2>2
<1> HIDE DEF st, fut, run, q
<1>7. DrainedOK
  <2> HIDE DEF ts
  <2> QED BY <1>3, <1>6, DrainKeeps
<1>8. TypeOK /\ tasks \in SUBSET Tasks /\ gone \in SUBSET Tasks
  BY <1>5 DEF Inv, TypeOK
<1>9. dropped' \in Seq(Tasks) /\ Range(dropped') \subseteq Range(dropped) \cup gone
  BY <1>4, <1>8, DroppedSet
<1>10. unwinding' = unwinding \cup {<<k, creates[k]>> : k \in {j \in gone : future[j] \notin {"none", "called"}}}
  BY <1>3 DEF Forgotten
<1>11. \A k \in Tasks : cache'[k] = IF k \in gone \cup (Range(dropped) \ Range(dropped')) THEN NoStatus
                                    ELSE Published(cache, kept)[k]
  BY <1>3 DEF Update
<1>12. TypeOK'
  <2>1. Published(cache, kept) \in [Tasks -> States \cup {NoStatus}]
    BY <1>7, <1>8, PublishedType DEF DrainedOK
  <2>2. cache' \in [Tasks -> States \cup {NoStatus}]
    BY <1>3, <2>1 DEF Update
  <2>3. unwinding' \in SUBSET (Tasks \X Nat)
    BY <1>8, <1>10 DEF TypeOK
  <2> QED BY <1>3, <1>7, <1>8, <1>9, <2>2, <2>3 DEF TypeOK, DrainedOK
<1>13. UnwindingOK'
  BY <1>3, <1>5, <1>8, <1>10 DEF Inv, UnwindingOK, TypeOK
<1>14. DroppedOK'
  BY <1>3, <1>9 DEF Inv, DroppedOK
<1>15. NativeOK'
  BY <1>3, <1>7, Zenon DEF Inv, NativeOK, DrainedOK
<1>16. FinishedIsVisible'
  <2>1. SUFFICES ASSUME NEW k \in tasks', state'[k] \in {"FINISHED", "FAILED"}, creates'[k] = 1
                 PROVE  cache'[k] = state'[k]
    BY DEF FinishedIsVisible
  <2>2. k \in tasks /\ k \notin gone /\ k \in Tasks
    BY <1>3, <1>8, <2>1
  <2>3. k \notin Range(dropped)
    BY <2>2 DEF Inv, DroppedOK, Range
  <2>4. cache'[k] = Published(cache, kept)[k]
    BY <1>11, <2>2, <2>3
  <2>5. cache'[k] = IF k \in kept \/ state'[k] # state[k] THEN state'[k] ELSE cache[k]
    BY <2>2, <2>4 DEF Published
  <2> QED BY <1>3, <2>1, <2>2, <2>5, ZenonT(30) DEF Inv, FinishedIsVisible
<1> QED BY <1>7, <1>12, <1>13, <1>14, <1>15, <1>16 DEF Inv, DrainedOK

(* The same without a drain.                                               *)
LEMMA UndrainedKeeps ==
    ASSUME NEW q, Drainable(tasks', state', future', running', q, withdrawn'), UNCHANGED <<native, creates>>,
           Distinct(queued'), Range(queued') = Range(q), shut' => Range(queued') = {}
    PROVE  /\ LifeOK' /\ QueueOK' /\ Fits(running)' /\ HoldsSlot' /\ SlotsComeBack'
           /\ \A k \in tasks' :
                 future'[k] = "waiting" \/ state'[k] \in {"QUEUED", "FINISHED", "FAILED"} =>
                     <<k, creates'[k]>> \notin native'
           /\ tasks' \in SUBSET Tasks /\ state' \in [Tasks -> States \cup {NoStatus}]
           /\ future' \in [Tasks -> Futures] /\ running' \in SUBSET Tasks /\ withdrawn' \in SUBSET Tasks
<1>1. LifeOK'
  BY DEF Drainable, LifeOK, Life
<1>2. QueueOK'
  BY DEF Drainable, QueueOK, Distinct, Range
<1>3. Fits(running)' /\ HoldsSlot' /\ SlotsComeBack'
  BY DEF Drainable, HoldsSlot, SlotsComeBack
<1> QED BY <1>1, <1>2, <1>3 DEF Drainable

LEMMA CancelTaskRaisesInv == ASSUME Inv, NEW k \in Tasks, CancelTaskRaises(k) PROVE Inv'
<1>1. PICK stopped \in SUBSET {k} :
        state' = Canceled(stopped) /\ future' = Cancelling(stopped) /\ withdrawn' = Withdrawn({k}, {k} \ stopped)
  BY DEF CancelTaskRaises
<1>2. /\ k \in tasks /\ queued' = Removed(queued, {k}) /\ cache' = Published(cache, {})
      /\ undrained' = (undrained \/ (queued # <<>> /\ Head(queued) = k))
      /\ UNCHANGED <<tasks, native, unwinding, running, dropped, publishing, shut, creates>>
  BY DEF CancelTaskRaises
<1>3. TypeOK /\ QueueOK
  BY DEF Inv
<1>4. Drainable(tasks', state', future', running', queued', withdrawn')
  <2>1. Drainable(tasks \ {}, Canceled(stopped), Without(stopped, {}), running \ {},
                  Removed(queued, {k}), Withdrawn({k}, {k} \ stopped))
    BY <1>2, CancelKeeps
  <2>2. Without(stopped, {}) = Cancelling(stopped)
    BY DEF Without, Cancelling
  <2> QED BY <1>1, <1>2, <2>1, <2>2
<1>5. queued' \in Seq(Tasks) /\ Distinct(queued') /\ Range(queued') = Range(queued) \ {k}
  BY <1>2, <1>3, RemovedSet DEF TypeOK, QueueOK
<1>6. shut' => Range(queued') = {}
  BY <1>2, <1>3, <1>5 DEF QueueOK
<1>7. /\ LifeOK' /\ QueueOK' /\ Fits(running)' /\ HoldsSlot' /\ SlotsComeBack'
      /\ \A j \in tasks' :
            future'[j] = "waiting" \/ state'[j] \in {"QUEUED", "FINISHED", "FAILED"} =>
                <<j, creates'[j]>> \notin native'
      /\ state' \in [Tasks -> States \cup {NoStatus}] /\ future' \in [Tasks -> Futures]
      /\ withdrawn' \in SUBSET Tasks
  BY <1>2, <1>4, <1>5, <1>6, UndrainedKeeps, Zenon
<1>8. TypeOK'
  <2>1. cache' \in [Tasks -> States \cup {NoStatus}]
    BY <1>2, <1>3, <1>7, PublishedType
  <2>2. undrained' \in BOOLEAN
    BY <1>2, <1>3, Zenon DEF TypeOK
  <2> QED BY <1>2, <1>3, <1>5, <1>7, <2>1, <2>2 DEF TypeOK
<1>9. UnwindingOK' /\ DroppedOK'
  BY <1>2 DEF Inv, UnwindingOK, DroppedOK
<1>10. NativeOK'
  BY <1>2, <1>7, Zenon DEF Inv, NativeOK
<1>11. NoIdleQueue'
  <2>1. SUFFICES ASSUME queued' # <<>>, ~undrained' PROVE ~Fits(running' \cup {Head(queued')})
    BY DEF NoIdleQueue
  <2>2. ~undrained /\ (queued # <<>> => Head(queued) # k)
    BY <1>2, <2>1, Zenon
  <2>3. queued # <<>>
    <3>1. Range(<<>>) = {}
      BY DEF Range
    <3>2. Range(queued') # {}
      BY <1>5, <2>1 DEF Range
    <3> QED BY <1>5, <3>1, <3>2
  <2>4. Head(queued') = Head(queued)
    BY <1>2, <1>3, <2>1, <2>2, <2>3, RemovedHead DEF TypeOK
  <2> QED BY <1>2, <2>2, <2>3, <2>4 DEF Inv, NoIdleQueue
<1>12. FinishedIsVisible'
  BY <1>2, <1>3, <1>8, PublishedVisible DEF Inv, TypeOK
<1> QED BY <1>7, <1>8, <1>9, <1>10, <1>11, <1>12 DEF Inv

LEMMA ShutdownInv == ASSUME Inv, Shutdown PROVE Inv'
<1>1. PICK raised \in SUBSET {k \in tasks : state[k] \notin Terminal} : \E kept \in SUBSET (tasks \ raised) :
        LET stopped == tasks \ raised
            gone == stopped \ kept IN
        /\ ~shut
        /\ shut' = TRUE
        /\ queued' = <<>>
        /\ tasks' = tasks \ gone
        /\ running' = running \ gone
        /\ state' = Canceled(stopped)
        /\ future' = [k \in Tasks |-> IF k \in gone THEN "none" ELSE Cancelling(stopped)[k]]
        /\ Forgotten(gone)
        /\ withdrawn' = Withdrawn(tasks, raised)
        /\ cache' = Published(cache, stopped)
        /\ UNCHANGED <<native, dropped, publishing, creates, undrained>>
  BY Zenon DEF Shutdown
<1> DEFINE stopped == tasks \ raised
<1>2. PICK gone \in SUBSET stopped :
      /\ shut' = TRUE /\ queued' = <<>> /\ tasks' = tasks \ gone /\ running' = running \ gone
      /\ state' = Canceled(stopped) /\ future' = Without(stopped, gone) /\ Forgotten(gone)
      /\ withdrawn' = Withdrawn(tasks, raised) /\ cache' = Published(cache, stopped)
      /\ UNCHANGED <<native, dropped, publishing, creates, undrained>>
  <2>1. PICK kept \in SUBSET stopped :
        LET gone == stopped \ kept IN
        /\ shut' = TRUE
        /\ queued' = <<>>
        /\ tasks' = tasks \ gone
        /\ running' = running \ gone
        /\ state' = Canceled(stopped)
        /\ future' = [k \in Tasks |-> IF k \in gone THEN "none" ELSE Cancelling(stopped)[k]]
        /\ Forgotten(gone)
        /\ withdrawn' = Withdrawn(tasks, raised)
        /\ cache' = Published(cache, stopped)
        /\ UNCHANGED <<native, dropped, publishing, creates, undrained>>
    BY <1>1, Zenon
  <2>2. stopped \ kept \in SUBSET stopped
    OBVIOUS
  <2> QED BY <2>1, <2>2, Zenon DEF Without
<1>3. tasks \in SUBSET tasks /\ stopped \in SUBSET tasks /\ gone \subseteq gone /\ tasks \ stopped = raised
  OBVIOUS
<1> HIDE DEF stopped
<1> DEFINE q == Removed(queued, tasks)
<1>4. Drainable(tasks', state', future', running', q, withdrawn')
  <2>1. Drainable(tasks \ gone, Canceled(stopped), Without(stopped, gone), running \ gone, q,
                  Withdrawn(tasks, tasks \ stopped))
    BY <1>3, CancelKeeps
  <2> HIDE DEF q
  <2> QED BY <1>2, <1>3, <2>1
<1>5. TypeOK
  BY DEF Inv
<1>6. Distinct(queued') /\ Range(queued') = {} /\ Range(q) = {}
  <2>1. Range(q) = Range(queued) \ tasks
    BY <1>5, RemovedSet DEF TypeOK
  <2> HIDE DEF q
  <2>2. Range(q) = {}
    BY <2>1 DEF Inv, QueueOK
  <2> QED BY <1>2, <2>2 DEF Distinct, Range
<1> HIDE DEF q
<1>7. /\ LifeOK' /\ QueueOK' /\ Fits(running)' /\ HoldsSlot' /\ SlotsComeBack'
      /\ \A k \in tasks' :
            future'[k] = "waiting" \/ state'[k] \in {"QUEUED", "FINISHED", "FAILED"} =>
                <<k, creates'[k]>> \notin native'
      /\ tasks' \in SUBSET Tasks /\ state' \in [Tasks -> States \cup {NoStatus}]
      /\ future' \in [Tasks -> Futures] /\ running' \in SUBSET Tasks /\ withdrawn' \in SUBSET Tasks
  BY <1>2, <1>4, <1>6, UndrainedKeeps
<1>8. unwinding' = unwinding \cup {<<k, creates[k]>> : k \in {j \in gone : future[j] \notin {"none", "called"}}}
  BY <1>2 DEF Forgotten
<1>9. TypeOK'
  <2>1. cache' \in [Tasks -> States \cup {NoStatus}]
    BY <1>2, <1>5, <1>7, PublishedType
  <2>2. unwinding' \in SUBSET (Tasks \X Nat)
    BY <1>3, <1>5, <1>8 DEF TypeOK
  <2>3. queued' \in Seq(Tasks)
    BY <1>2
  <2> QED BY <1>2, <1>5, <1>7, <2>1, <2>2, <2>3 DEF TypeOK
<1>10. UnwindingOK'
  BY <1>2, <1>3, <1>5, <1>8 DEF Inv, UnwindingOK, TypeOK
<1>11. NativeOK'
  BY <1>2, <1>7 DEF Inv, NativeOK
<1>12. DroppedOK' /\ NoIdleQueue'
  BY <1>2 DEF Inv, DroppedOK, NoIdleQueue
<1>13. FinishedIsVisible'
  BY <1>2, <1>3, <1>5, <1>7, PublishedVisible DEF Inv, TypeOK
<1> QED BY <1>7, <1>9, <1>10, <1>11, <1>12, <1>13 DEF Inv

(* A step of a task on its own, which leaves the slots and the queue.      *)
LEMMA TaskStepInv ==
    ASSUME Inv, UNCHANGED <<tasks, unwinding, running, queued, dropped, shut, creates, withdrawn, undrained>>, TypeOK', NativeOK',
           FinishedIsVisible', NEW k \in Tasks, \A j \in Tasks \ {k} : state'[j] = state[j] /\ future'[j] = future[j],
           Life(k)', state'[k] = "QUEUED" <=> state[k] = "QUEUED", state'[k] = "RUNNING" => state[k] = "RUNNING",
           future'[k] \in {"none", "called"} => future[k] \in {"none", "called"}
    PROVE  Inv'
<1>1. TypeOK
  BY DEF Inv
<1>2. LifeOK'
  BY <1>1, Zenon DEF Inv, LifeOK, Life
<1>3. QueueOK'
  <2>1. {j \in tasks : state'[j] = "QUEUED"} = {j \in tasks : state[j] = "QUEUED"}
    BY <1>1 DEF TypeOK
  <2> QED BY <2>1 DEF Inv, QueueOK
<1>4. UnwindingOK' /\ DroppedOK' /\ Fits(running') /\ NoIdleQueue'
  BY DEF Inv, UnwindingOK, DroppedOK, NoIdleQueue
<1>5. HoldsSlot'
  BY <1>1 DEF Inv, HoldsSlot, TypeOK
<1>6. SlotsComeBack'
  BY <1>1 DEF Inv, SlotsComeBack, TypeOK
<1> QED BY <1>2, <1>3, <1>4, <1>5, <1>6, Zenon DEF Inv

LEMMA PublishStatusInv == ASSUME Inv, NEW k \in Tasks, PublishStatus(k) PROVE Inv'
<1>1. TypeOK /\ LifeOK
  BY DEF Inv
<1>2. /\ UNCHANGED <<tasks, state, future, native, unwinding, running, queued, dropped, publishing, shut, creates, withdrawn, undrained>>
      /\ cache' = [cache EXCEPT ![k] = state[k]]
  BY DEF PublishStatus, futureVars, historyVars
<1>3. TypeOK'
  BY <1>1, <1>2 DEF TypeOK
<1>4. NativeOK' /\ Life(k)'
  BY <1>1, <1>2 DEF Inv, NativeOK, LifeOK, Life
<1>5. FinishedIsVisible'
  BY <1>1, <1>2 DEF Inv, FinishedIsVisible, TypeOK
<1> QED BY <1>2, <1>3, <1>4, <1>5, TaskStepInv, Zenon

LEMMA NativeBeginsInv == ASSUME Inv, NEW k \in Tasks, NativeBegins(k) PROVE Inv'
<1>1. TypeOK /\ Life(k)
  BY DEF Inv, LifeOK
<1>2. /\ UNCHANGED <<tasks, state, unwinding, running, queued, dropped, cache, publishing, shut, creates, withdrawn, undrained>>
      /\ future[k] = "waiting" /\ future' = [future EXCEPT ![k] = "running"]
      /\ native' = native \cup {<<k, creates[k]>>}
  BY DEF NativeBegins, cacheVars, historyVars
<1>3. TypeOK'
  BY <1>1, <1>2 DEF TypeOK, Futures
<1>4. /\ future'[k] = "running" /\ k \in tasks /\ state[k] = "RUNNING" /\ creates[k] \in Nat
      /\ \A j \in Tasks \ {k} : future'[j] = future[j]
  BY <1>1, <1>2 DEF TypeOK, Life
<1>5. Life(k)'
  BY <1>1, <1>2, <1>4 DEF Life
<1>6. NativeOK'
  <2>1. \A j \in Tasks, n \in Nat : <<j, n>> \in native' => n <= creates'[j]
    BY <1>2, <1>4 DEF Inv, NativeOK
  <2>2. \A j \in Tasks, n \in Nat, s \in States : <<j, n, s>> \in publishing' => <<j, n>> \in native'
    BY <1>2 DEF Inv, NativeOK
  <2>3. ASSUME NEW j \in tasks', future'[j] = "waiting" \/ state'[j] \in {"QUEUED", "FINISHED", "FAILED"}
        PROVE  <<j, creates'[j]>> \notin native'
    <3>1. j # k
      BY <1>2, <1>4, <2>3
    <3> QED BY <1>1, <1>2, <1>4, <2>3, <3>1 DEF Inv, NativeOK, TypeOK
  <2> QED BY <2>1, <2>2, <2>3 DEF NativeOK
<1>7. FinishedIsVisible'
  BY <1>2 DEF Inv, FinishedIsVisible
<1> QED BY <1>2, <1>3, <1>4, <1>5, <1>6, <1>7, TaskStepInv

(* _run ends with the state s.                                             *)
LEMMA RunEndsInv ==
    ASSUME Inv, NEW k \in Tasks, NEW s \in {"FINISHED", "FAILED"}, future[k] \in {"waiting", "running"},
           future' = [future EXCEPT ![k] = "ended"], state' = [state EXCEPT ![k] = s],
           cache' = Published(cache, {k}), native' \subseteq native, <<k, creates[k]>> \notin native',
           \A j \in Tasks, n \in Nat, u \in States : <<j, n, u>> \in publishing => <<j, n>> \in native',
           UNCHANGED <<tasks, unwinding, running, queued, dropped, publishing, shut, creates, withdrawn, undrained>>
    PROVE  Inv'
<1>1. TypeOK /\ Life(k)
  BY DEF Inv, LifeOK
<1>2. /\ state' \in [Tasks -> States \cup {NoStatus}] /\ future' \in [Tasks -> Futures]
      /\ state'[k] = s /\ future'[k] = "ended"
      /\ \A j \in Tasks \ {k} : state'[j] = state[j] /\ future'[j] = future[j]
  BY <1>1 DEF TypeOK, States, Terminal, Futures
<1>3. k \in tasks /\ state[k] = "RUNNING" /\ s \in Terminal /\ s \in States
  BY <1>1 DEF Life, Terminal, States
<1>4. TypeOK'
  <2>1. cache' \in [Tasks -> States \cup {NoStatus}]
    BY <1>1, <1>2, PublishedType
  <2> QED BY <1>1, <1>2, <2>1 DEF TypeOK
<1>5. Life(k)'
  BY <1>1, <1>2, <1>3 DEF Life
<1>6. NativeOK'
  <2>1. \A j \in Tasks, n \in Nat : <<j, n>> \in native' => n <= creates'[j]
    BY DEF Inv, NativeOK
  <2>2. ASSUME NEW j \in tasks', future'[j] = "waiting" \/ state'[j] \in {"QUEUED", "FINISHED", "FAILED"}
        PROVE  <<j, creates'[j]>> \notin native'
    <3>1. CASE j = k
      BY <3>1
    <3>2. CASE j # k
      BY <1>1, <1>2, <2>2, <3>2 DEF Inv, NativeOK, TypeOK
    <3> QED BY <3>1, <3>2
  <2> QED BY <2>1, <2>2 DEF NativeOK
<1>7. FinishedIsVisible'
  BY <1>1, <1>4, PublishedVisible DEF Inv, TypeOK
<1>8. /\ state'[k] = "QUEUED" <=> state[k] = "QUEUED"
      /\ state'[k] = "RUNNING" => state[k] = "RUNNING"
      /\ future'[k] \in {"none", "called"} => future[k] \in {"none", "called"}
  BY <1>2, <1>3
<1> QED BY <1>2, <1>4, <1>5, <1>6, <1>7, <1>8, TaskStepInv

LEMMA RunFailsInv == ASSUME Inv, NEW k \in Tasks, RunFails(k) PROVE Inv'
<1>1. /\ future[k] = "waiting" /\ future' = [future EXCEPT ![k] = "ended"]
      /\ state' = [state EXCEPT ![k] = "FAILED"] /\ cache' = Published(cache, {k})
      /\ UNCHANGED <<tasks, native, unwinding, running, queued, dropped, publishing, shut, creates, withdrawn, undrained>>
  BY DEF RunFails, historyVars
<1>2. k \in tasks
  BY <1>1 DEF Inv, LifeOK, Life
<1>3. <<k, creates[k]>> \notin native'
  BY <1>1, <1>2 DEF Inv, NativeOK
<1>4. \A j \in Tasks, n \in Nat, u \in States : <<j, n, u>> \in publishing => <<j, n>> \in native'
  BY <1>1 DEF Inv, NativeOK
<1> QED BY <1>1, <1>3, <1>4, RunEndsInv

LEMMA NativeEndsInv ==
    ASSUME Inv, NEW k \in Tasks, NEW n \in Nat, NEW outcome \in {"FINISHED", "FAILED"}, NativeEnds(k, n, outcome)
    PROVE  Inv'
<1>1. /\ native' = native \ {<<k, n>>} /\ ~\E status \in States : <<k, n, status>> \in publishing
      /\ UNCHANGED <<tasks, unwinding, running, queued, dropped, publishing, shut, creates, withdrawn, undrained>>
  BY DEF NativeEnds, historyVars
<1>2. \A j \in Tasks, m \in Nat, u \in States : <<j, m, u>> \in publishing => <<j, m>> \in native'
  <2>1. SUFFICES ASSUME NEW j \in Tasks, NEW m \in Nat, NEW u \in States, <<j, m, u>> \in publishing
                 PROVE  <<j, m>> \in native'
    OBVIOUS
  <2>2. <<j, m>> \in native
    BY <2>1 DEF Inv, NativeOK
  <2>3. <<j, m>> # <<k, n>>
    BY <1>1, <2>1
  <2> QED BY <1>1, <2>2, <2>3
<1>3. CASE n = creates[k] /\ future[k] = "running"
  <2>1. /\ future' = [future EXCEPT ![k] = "ended"] /\ state' = [state EXCEPT ![k] = outcome]
        /\ cache' = Published(cache, {k})
    BY <1>3 DEF NativeEnds
  <2>2. native' \subseteq native /\ <<k, creates[k]>> \notin native' /\ future[k] \in {"waiting", "running"}
    BY <1>1, <1>3
  <2> QED BY <1>1, <1>2, <2>1, <2>2, RunEndsInv
<1>4. CASE ~(n = creates[k] /\ future[k] = "running")
  <2>1. UNCHANGED <<future, state, cache>>
    BY <1>4 DEF NativeEnds
  <2>2. TypeOK'
    BY <1>1, <2>1 DEF Inv, TypeOK
  <2>3. NativeOK'
    BY <1>1, <1>2, <2>1 DEF Inv, NativeOK
  <2>4. FinishedIsVisible' /\ Life(k)'
    BY <1>1, <2>1 DEF Inv, FinishedIsVisible, LifeOK, Life
  <2> QED BY <1>1, <2>1, <2>2, <2>3, <2>4, TaskStepInv
<1> QED BY <1>3, <1>4

LEMMA CoroutineEndsInv == ASSUME Inv, NEW k \in Tasks, CoroutineEnds(k) PROVE Inv'
<1>1. TypeOK /\ Life(k)
  BY DEF Inv, LifeOK
<1>2. /\ future[k] = "cancelling" /\ future' = [future EXCEPT ![k] = "ended"]
      /\ UNCHANGED <<tasks, state, native, unwinding, running, queued, dropped, cache, publishing, shut, creates, withdrawn, undrained>>
  BY DEF CoroutineEnds, cacheVars, historyVars
<1>3. TypeOK' /\ future'[k] = "ended" /\ \A j \in Tasks \ {k} : future'[j] = future[j]
  BY <1>1, <1>2 DEF TypeOK, Futures
<1>4. Life(k)'
  BY <1>1, <1>2, <1>3 DEF Life
<1>5. NativeOK'
  BY <1>1, <1>2, <1>3 DEF Inv, NativeOK, TypeOK
<1>6. FinishedIsVisible'
  BY <1>2, Zenon DEF Inv, FinishedIsVisible
<1> QED BY <1>2, <1>3, <1>4, <1>5, <1>6, TaskStepInv

LEMMA ReadStatusInv == ASSUME Inv, NEW k \in Tasks, NEW n \in Nat \ {0}, ReadStatus(k, n) PROVE Inv'
<1>1. TypeOK /\ Life(k)
  BY DEF Inv, LifeOK
<1> DEFINE status == IF n = creates[k] THEN state[k] ELSE "CANCELED"
<1>2. /\ UNCHANGED <<tasks, state, future, native, unwinding, running, queued, dropped, cache, shut, creates, withdrawn, undrained>>
      /\ <<k, n>> \in native /\ publishing' = publishing \cup {<<k, n, status>>}
  BY DEF ReadStatus, futureVars, historyVars
<1>3. status \in States
  BY <1>1 DEF Life, States, Terminal
<1> HIDE DEF status
<1>4. TypeOK'
  BY <1>1, <1>2, <1>3 DEF TypeOK
<1>5. NativeOK'
  <2>1. \A j \in Tasks, m \in Nat, s \in States : <<j, m, s>> \in publishing' => <<j, m>> \in native'
    BY <1>2 DEF Inv, NativeOK
  <2> QED BY <1>2, <2>1, Zenon DEF Inv, NativeOK
<1>6. FinishedIsVisible' /\ Life(k)'
  BY <1>1, <1>2 DEF Inv, FinishedIsVisible, Life
<1> QED BY <1>2, <1>4, <1>5, <1>6, TaskStepInv, ZenonT(30)

LEMMA CacheStatusInv ==
    ASSUME Inv, NEW k \in Tasks, NEW n \in Nat \ {0}, NEW status \in States, CacheStatus(k, n, status)
    PROVE  Inv'
<1>1. TypeOK /\ Life(k)
  BY DEF Inv, LifeOK
<1>2. /\ UNCHANGED <<tasks, state, future, native, unwinding, running, queued, dropped, shut, creates, withdrawn, undrained>>
      /\ <<k, n, status>> \in publishing /\ publishing' = publishing \ {<<k, n, status>>}
      /\ cache' = [cache EXCEPT ![k] = status]
  BY DEF CacheStatus, futureVars, historyVars
<1>3. TypeOK'
  BY <1>1, <1>2 DEF TypeOK
<1>4. NativeOK' /\ Life(k)'
  BY <1>1, <1>2, Zenon DEF Inv, NativeOK, Life
<1>5. FinishedIsVisible'
  <2>1. <<k, n>> \in native /\ n <= creates[k]
    BY <1>2, ZenonT(30) DEF Inv, NativeOK
  <2>2. k \in tasks => ~(state[k] \in {"FINISHED", "FAILED"} /\ creates[k] = 1)
    BY <2>1 DEF Inv, NativeOK
  <2> QED BY <1>1, <1>2, <2>2, ZenonT(30) DEF Inv, FinishedIsVisible, TypeOK
<1> QED BY <1>2, <1>3, <1>4, <1>5, TaskStepInv, Zenon

-----------------------------------------------------------------------------
(* The theorems.                                                           *)

LEMMA NextInv == Inv /\ [Next]_vars => Inv'
<1> SUFFICES ASSUME Inv, [Next]_vars PROVE Inv'
  OBVIOUS
<1>1. CASE UNCHANGED vars
  <2>1. UNCHANGED <<tasks, state, future, native, unwinding, running, queued, dropped, cache, publishing, shut, creates, withdrawn, undrained>>
    BY <1>1 DEF vars, futureVars, cacheVars, historyVars
  <2> QED BY <2>1, Zenon DEF Inv, TypeOK, LifeOK, Life, QueueOK, UnwindingOK, NativeOK, DroppedOK, HoldsSlot,
                      SlotsComeBack, NoIdleQueue, FinishedIsVisible
<1>2. ASSUME NEW k \in Tasks, CreateTask(k) PROVE Inv'
  BY <1>2, CreateTaskInv
<1>3. ASSUME NEW k \in Tasks, CancelTask(k) PROVE Inv'
  BY <1>3, CancelTaskInv
<1>4. ASSUME NEW k \in Tasks, PublishStatus(k) PROVE Inv'
  BY <1>4, PublishStatusInv
<1>5. ASSUME NEW k \in Tasks, NativeBegins(k) PROVE Inv'
  BY <1>5, NativeBeginsInv
<1>6. ASSUME NEW k \in Tasks, RunFails(k) PROVE Inv'
  BY <1>6, RunFailsInv
<1>7. ASSUME NEW k \in Tasks, CoroutineEnds(k) PROVE Inv'
  BY <1>7, CoroutineEndsInv
<1>8. ASSUME NEW k \in Tasks, TaskDone(k) PROVE Inv'
  BY <1>8, TaskDoneInv
<1>9. ASSUME NEW k \in Tasks, NEW n \in 1 .. MaxCreates[k],
             \/ \E outcome \in {"FINISHED", "FAILED"} : NativeEnds(k, n, outcome)
             \/ ForgottenTaskDone(k, n)
             \/ ReadStatus(k, n)
             \/ \E status \in States : CacheStatus(k, n, status)
      PROVE  Inv'
  <2>1. n \in Nat \ {0} /\ n \in Nat
    BY LimitsAssumption
  <2> QED BY <1>9, <2>1, NativeEndsInv, ForgottenTaskDoneInv, ReadStatusInv, CacheStatusInv
<1>10. ASSUME NEW query \in Queries, DropQuery(query) PROVE Inv'
  BY <1>10, DropQueryInv
<1>11. ASSUME Shutdown PROVE Inv'
  BY <1>11, ShutdownInv
<1>12. ASSUME NEW k \in Tasks, CancelTaskRaises(k) PROVE Inv'
  BY <1>12, CancelTaskRaisesInv
<1> QED BY <1>1, <1>2, <1>3, <1>4, <1>5, <1>6, <1>7, <1>8, <1>9, <1>10, <1>11, <1>12 DEF Next

LEMMA InvAlways == Spec => []Inv
<1> QED BY InitInv, NextInv, PTL DEF Spec

LEMMA OccurrencesInDistinct ==
    ASSUME QueueOK, TypeOK, NEW k \in Tasks
    PROVE  Occurrences(k) = IF k \in Range(queued) THEN 1 ELSE 0
<1> DEFINE P == {i \in 1 .. Len(queued) : queued[i] = k}
<1>1. DOMAIN queued = 1 .. Len(queued)
  BY DEF TypeOK
<1>2. CASE k \in Range(queued)
  <2>1. PICK i \in 1 .. Len(queued) : queued[i] = k
    BY <1>1, <1>2 DEF Range
  <2>2. P = {i}
    BY <1>1, <2>1 DEF QueueOK, Distinct
  <2>3. Cardinality({i}) = 1
    BY FS_Singleton
  <2> QED BY <1>2, <2>2, <2>3 DEF Occurrences
<1>3. CASE k \notin Range(queued)
  <2>1. P = {}
    BY <1>1, <1>3 DEF Range
  <2> QED BY <1>3, <2>1, FS_EmptySet DEF Occurrences
<1> QED BY <1>2, <1>3

(* The queue of the worker holds exactly the QUEUED tasks, each once, but
   for those that a cancel() that raised took off it: create_task,
   cancel_task, drop_query, shutdown and _drain_queue leave no other task
   that nobody will start and none that starts twice, wherever in a drop, a
   shutdown or a cancel_task cancel() or the cleanup after it raises. *)
THEOREM QueueIsExactAlways == Spec => []QueueIsExact
<1>1. Inv => QueueIsExact
  <2>1. SUFFICES ASSUME Inv, NEW k \in Tasks
               PROVE  Occurrences(k) = IF k \in tasks /\ state[k] = "QUEUED" /\ k \notin withdrawn THEN 1 ELSE 0
    BY DEF QueueIsExact, Inv, QueueOK
  <2>2. Occurrences(k) = IF k \in Range(queued) THEN 1 ELSE 0
    BY <2>1, OccurrencesInDistinct DEF Inv
  <2> QED BY <2>1, <2>2 DEF Inv, QueueOK
<1> QED BY InvAlways, <1>1, PTL

(* The slots keep to max_running_tasks and to the memory budget, whatever
   the limits, and a RUNNING task of an attempt created once holds one. *)
THEOREM CapacityRespectedAlways == Spec => []CapacityRespected
<1>1. Inv => CapacityRespected
  BY DEF Inv, CapacityRespected, Fits, HoldsSlot
<1> QED BY InvAlways, <1>1, PTL

(* What holds a slot has a coroutine whose done callback will free it.     *)
THEOREM SlotsComeBackAlways == Spec => []SlotsComeBack
<1>1. Inv => SlotsComeBack
  BY DEF Inv
<1> QED BY InvAlways, <1>1, PTL

(* The head of the queue waits only while it does not fit: every step that
   frees a slot or memory has drained the queue when it is over.  A
   cancel_task of the head that raises leaves the next task to the drain
   that follows. *)
THEOREM NoIdleQueueAlways == Spec => []NoIdleQueue
<1>1. Inv => NoIdleQueue
  BY DEF Inv
<1> QED BY InvAlways, <1>1, PTL

(* The status the worker answers for a task that ended by itself is its
   final one: no progress report of its execution comes after the end. *)
THEOREM FinishedIsVisibleAlways == Spec => []FinishedIsVisible
<1>1. Inv => FinishedIsVisible
  BY DEF Inv
<1> QED BY InvAlways, <1>1, PTL

=============================================================================
