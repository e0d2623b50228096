------------------------ MODULE FteQueryScheduler_proofs ------------------------
(***************************************************************************)
(* SingleWriter and NoLostEvent of FteQueryScheduler, for any number of    *)
(* threads, sources, workers and admission classes and any load.           *)
(*                                                                         *)
(* A thread that makes pause and resume calls is on its way somewhere: the *)
(* proof looks at Where it is or goes, which those calls do not change.    *)
(* Every action is then a move of one thread, and what has to be shown is  *)
(* that draining, the queue and the classes of the queued pulses fit the   *)
(* move.                                                                   *)
(***************************************************************************)
EXTENDS FteQueryScheduler, TLAPS

Outside == {"idle", "register", "next", "submit", "submitted", "close", "done", "fail"}
Places == Loop \cup DrainCalls \cup Outside
Returns == {"idle", "submit", "next", "close"}
CallSet == {"pause", "resume"} \X (Submitters \cup {"none"})
Events == Notifications \cup {Split} \cup [kind : {"retry"}, generation : Nat]

ThreadType ==
    [pc : Places \cup {"calls"}, then : Places, ret : Returns, calls : SUBSET CallSet, event : Events \cup {NoEvent}]

ThreadsOK == thread \in [Threads -> ThreadType]
SourcesOK == sources \in [SourceIds -> [owner : Submitters \cup {"none"}, paused : BOOLEAN]]

TypeOK ==
    /\ events \in Seq(Events)
    /\ state \in {"RUNNING", "ABORTED", "FAILED", "CLOSED"}
    /\ draining \in BOOLEAN /\ escaped \in BOOLEAN
    /\ pulses \subseteq AdmissionClasses
    /\ failedWorkers \subseteq WorkerIds
    /\ generation \in Nat /\ timer \subseteq Nat
    /\ SourcesOK
    /\ sourceState \in [Submitters -> [paused : BOOLEAN, closed : BOOLEAN]]
    /\ ThreadsOK
    /\ left \in [Submitters -> Int] /\ budget \in Int

-----------------------------------------------------------------------------
(* Where the threads are.                                                  *)

Where(t) == IF thread[t].pc = "calls" THEN thread[t].then ELSE thread[t].pc
Moves(t, next) == \A u \in Threads : Where(u)' = IF u = t THEN next ELSE Where(u)

Waking == DrainCalls \cup {"register", "next", "submit", "submitted", "fail"}

(* SingleWriter, of where the threads are.                                 *)
OneWriter ==
    /\ \A t, u \in Threads : Where(t) \in Loop /\ Where(u) \in Loop => t = u
    /\ draining <=> \E t \in Threads : Where(t) \in Loop

(* The first part of NoLostEvent, of where they are, and the second.       *)
EventsHaveThread ==
    events # <<>> /\ state = "RUNNING" => draining \/ escaped \/ \E t \in Threads : Where(t) \in Waking

Once(q) == \A i, j \in DOMAIN q : q[i] = q[j] /\ q[i].kind = "pulse" => i = j
PulsesExact == pulses = Pulses(events) /\ Once(events)

Inv == TypeOK /\ OneWriter /\ EventsHaveThread /\ PulsesExact

(* A set of program counters without "calls" is a set of places.           *)
LEMMA AtIsWhere ==
    ASSUME ThreadsOK, NEW t \in Threads, NEW S, "calls" \notin S
    PROVE  At(t, S) <=> Where(t) \in S
BY DEF At, Where

(* What GoOn does: thread t moves, the others stay.                        *)
LEMMA GoOnMoves ==
    ASSUME ThreadsOK, NEW t \in Threads, NEW calls \in SUBSET CallSet, NEW next \in Places,
           GoOn(t, calls, next)
    PROVE  ThreadsOK' /\ Moves(t, next)
<1>1. "calls" \notin Places /\ "idle" \in Places
  BY SMTT(30) DEF Places, Loop, DrainCalls, Outside
<1>2. ThreadsOK'
  BY <1>1, ZenonT(40) DEF GoOn, ThreadsOK, ThreadType
<1>3. Moves(t, next)
  BY <1>1 DEF GoOn, ThreadsOK, ThreadType, Moves, Where
<1> QED BY <1>2, <1>3

(* Marking sources and collecting their calls keeps to the types.          *)
LEMMA MarkedType ==
    ASSUME NEW src \in [SourceIds -> [owner : Submitters \cup {"none"}, paused : BOOLEAN]],
           NEW S \in SUBSET SourceIds, NEW b \in BOOLEAN, NEW what \in {"pause", "resume"}
    PROVE  /\ Marked(src, S, b) \in [SourceIds -> [owner : Submitters \cup {"none"}, paused : BOOLEAN]]
           /\ Calls(src, S, what) \in SUBSET CallSet
<1>1. Marked(src, S, b) \in [SourceIds -> [owner : Submitters \cup {"none"}, paused : BOOLEAN]]
  BY DEF Marked
<1>2. Calls(src, S, what) \in SUBSET CallSet
  BY DEF Calls, CallSet
<1> QED BY <1>1, <1>2

(* A critical section that pauses sources moves its thread to next.        *)
LEMMA PausingMoves ==
    ASSUME ThreadsOK, SourcesOK, NEW t \in Threads, NEW q, NEW next \in Places,
           Pausing(t, sources, q, next)
    PROVE  ThreadsOK' /\ SourcesOK' /\ Moves(t, next)
<1>1. ToPause(sources, Len(q)) \in SUBSET SourceIds
  BY DEF ToPause, Registered
<1>2. SourcesOK'
  BY <1>1, MarkedType DEF Pausing, SourcesOK
<1>3. Calls(sources, ToPause(sources, Len(q)), "pause") \in SUBSET CallSet
  BY <1>1, MarkedType DEF SourcesOK
<1> QED BY <1>2, <1>3, GoOnMoves DEF Pausing

(* So does one that resumes them.                                          *)
LEMMA ResumingMoves ==
    ASSUME ThreadsOK, SourcesOK, NEW t \in Threads, NEW q, NEW next \in Places,
           Resuming(t, sources, q, next)
    PROVE  ThreadsOK' /\ SourcesOK' /\ Moves(t, next)
<1>1. ToResume(sources, Len(q)) \in SUBSET SourceIds
  BY DEF ToResume, Registered
<1>2. SourcesOK'
  BY <1>1, MarkedType DEF Resuming, SourcesOK
<1>3. Calls(sources, ToResume(sources, Len(q)), "resume") \in SUBSET CallSet
  BY <1>1, MarkedType DEF SourcesOK
<1> QED BY <1>2, <1>3, GoOnMoves DEF Resuming

-----------------------------------------------------------------------------
(* Moves and the writer slot.                                              *)

(* A thread that stays outside the loop, or inside it.                     *)
LEMMA StayKeepsWriter ==
    ASSUME OneWriter, NEW t \in Threads, NEW next, Moves(t, next), draining' = draining,
           Where(t) \in Loop <=> next \in Loop
    PROVE  OneWriter'
BY DEF OneWriter, Moves

(* The writer leaves the loop and gives the slot back.                     *)
LEMMA LeaveFreesWriter ==
    ASSUME OneWriter, NEW t \in Threads, NEW next, Moves(t, next), draining' = FALSE,
           Where(t) \in Loop, next \notin Loop
    PROVE  OneWriter'
BY DEF OneWriter, Moves

(* A thread takes the free slot.                                           *)
LEMMA EnterTakesWriter ==
    ASSUME OneWriter, NEW t \in Threads, NEW next, Moves(t, next), ~draining, draining' = TRUE,
           next \in Loop
    PROVE  OneWriter'
BY DEF OneWriter, Moves

-----------------------------------------------------------------------------
(* The queue and its pulses.                                               *)

LEMMA PulseEvents ==
    /\ \A c \in AdmissionClasses : Pulse(c) \in Events /\ Pulse(c).kind = "pulse" /\ Pulse(c).class = c
    /\ \A e \in Events : e.kind = "pulse" => e.class \in AdmissionClasses /\ e = Pulse(e.class)
<1>1. \A c : Pulse(c).kind = "pulse" /\ Pulse(c).class = c
  BY DEF Pulse
<1>2. \A c \in AdmissionClasses : Pulse(c) \in Events
  BY DEF Events, Notifications
<1>3. ASSUME NEW e \in Events, e.kind = "pulse"
      PROVE  \E c \in AdmissionClasses : e = Pulse(c)
  <2>1. Split.kind = "split" /\ Other.kind = "other" /\ QueryAbort.kind = "abort"
    BY DEF Split, Other, QueryAbort
  <2>2. \A x : WorkerFailed(x).kind = "failed" /\ RetryDelayExpired(x).kind = "retry"
    BY DEF WorkerFailed, RetryDelayExpired
  <2> QED BY <1>3, <2>1, <2>2 DEF Events, Notifications
<1> QED BY <1>1, <1>2, <1>3

(* enqueue at the back.                                                    *)
LEMMA AppendPulses ==
    ASSUME NEW q \in Seq(Events), NEW e \in Events, Once(q), e.kind = "pulse" => e.class \notin Pulses(q)
    PROVE  /\ Once(Append(q, e))
           /\ Pulses(Append(q, e)) = Pulses(q) \cup (IF e.kind = "pulse" THEN {e.class} ELSE {})
<1> DEFINE r == Append(q, e)
<1>1. /\ r \in Seq(Events) /\ DOMAIN r = DOMAIN q \cup {Len(q) + 1} /\ r[Len(q) + 1] = e
      /\ \A i \in DOMAIN q : r[i] = q[i] /\ i # Len(q) + 1
  OBVIOUS
<1>2. \A i \in DOMAIN q : q[i] \in Events
  OBVIOUS
<1>3. \A i \in DOMAIN q : q[i].kind = "pulse" => q[i].class \in Pulses(q)
  BY <1>2, PulseEvents DEF Pulses
<1> HIDE DEF r
<1>4. Once(r)
  BY <1>1, <1>2, <1>3 DEF Once
<1>5. Pulses(r) = Pulses(q) \cup (IF e.kind = "pulse" THEN {e.class} ELSE {})
  BY <1>1, PulseEvents DEF Pulses
<1> QED BY <1>4, <1>5 DEF r

(* enqueue at the front.                                                   *)
LEMMA PrependPulses ==
    ASSUME NEW q \in Seq(Events), NEW e \in Events, Once(q), e.kind = "pulse" => e.class \notin Pulses(q)
    PROVE  /\ Once(<<e>> \o q)
           /\ Pulses(<<e>> \o q) = Pulses(q) \cup (IF e.kind = "pulse" THEN {e.class} ELSE {})
<1> DEFINE r == <<e>> \o q
<1>1. /\ r \in Seq(Events) /\ Len(r) = Len(q) + 1 /\ r[1] = e
      /\ \A i \in 1 .. Len(q) : r[i + 1] = q[i]
  OBVIOUS
<1>2. \A i \in DOMAIN q : q[i] \in Events
  OBVIOUS
<1>3. \A i \in DOMAIN q : q[i].kind = "pulse" => q[i].class \in Pulses(q)
  BY <1>2, PulseEvents DEF Pulses
<1> HIDE DEF r
<1>4. /\ DOMAIN r = 1 .. Len(q) + 1 /\ DOMAIN q = 1 .. Len(q) /\ Len(q) \in Nat
      /\ \A i \in DOMAIN r : i = 1 \/ (i - 1 \in DOMAIN q /\ r[i] = q[i - 1])
  BY <1>1
<1>5. Once(r)
  BY <1>1, <1>2, <1>3, <1>4 DEF Once
<1>6. Pulses(r) = Pulses(q) \cup (IF e.kind = "pulse" THEN {e.class} ELSE {})
  <2>1. \A c : (\E i \in DOMAIN r : r[i] = Pulse(c)) <=> e = Pulse(c) \/ \E i \in DOMAIN q : q[i] = Pulse(c)
    <3>1. 1 \in DOMAIN r /\ \A i \in DOMAIN q : i + 1 \in DOMAIN r /\ r[i + 1] = q[i]
      BY <1>1, <1>4
    <3> QED BY <1>1, <1>4, <3>1
  <2> QED BY <2>1, PulseEvents DEF Pulses
<1> QED BY <1>5, <1>6 DEF r

(* The head of the queue is taken.                                         *)
LEMMA TailPulses ==
    ASSUME NEW q \in Seq(Events), q # <<>>, Once(q)
    PROVE  /\ Head(q) \in Events /\ Tail(q) \in Seq(Events) /\ Once(Tail(q))
           /\ Pulses(Tail(q)) = Pulses(q) \ (IF Head(q).kind = "pulse" THEN {Head(q).class} ELSE {})
<1> DEFINE r == Tail(q)
           e == Head(q)
<1>1. /\ r \in Seq(Events) /\ e \in Events /\ Len(q) \in Nat \ {0} /\ Len(r) = Len(q) - 1 /\ q[1] = e
      /\ \A i \in 1 .. Len(r) : r[i] = q[i + 1]
  OBVIOUS
<1>2. \A i \in DOMAIN q : q[i] \in Events
  OBVIOUS
<1> HIDE DEF r, e
<1>3. /\ DOMAIN r = 1 .. Len(q) - 1 /\ DOMAIN q = 1 .. Len(q)
      /\ \A i \in DOMAIN r : i + 1 \in DOMAIN q /\ i + 1 # 1 /\ r[i] = q[i + 1]
      /\ \A i \in DOMAIN q : i = 1 \/ (i - 1 \in DOMAIN r /\ r[i - 1] = q[i])
  BY <1>1
<1>4. Once(r)
  <2> SUFFICES ASSUME NEW i \in DOMAIN r, NEW j \in DOMAIN r, r[i] = r[j], r[i].kind = "pulse"
               PROVE  i = j
    BY DEF Once
  <2>1. i + 1 = j + 1
    BY <1>3 DEF Once
  <2> QED BY <1>1, <1>3, <2>1
<1>5. \A c : (\E i \in DOMAIN q : q[i] = Pulse(c)) <=> e = Pulse(c) \/ \E i \in DOMAIN r : r[i] = Pulse(c)
  <2> TAKE c
  <2>1. 1 \in DOMAIN q /\ q[1] = e
    BY <1>1, <1>3
  <2>2. ASSUME NEW i \in DOMAIN q, q[i] = Pulse(c)
        PROVE  e = Pulse(c) \/ \E j \in DOMAIN r : r[j] = Pulse(c)
    BY <1>3, <2>1, <2>2
  <2>3. ASSUME NEW i \in DOMAIN r, r[i] = Pulse(c)
        PROVE  \E j \in DOMAIN q : q[j] = Pulse(c)
    BY <1>3, <2>3
  <2> QED BY <2>1, <2>2, <2>3
<1>6. ASSUME NEW i \in DOMAIN r, e.kind = "pulse" PROVE r[i] # e
  <2>1. 1 \in DOMAIN q /\ i + 1 \in DOMAIN q /\ i + 1 # 1 /\ q[1] = e /\ r[i] = q[i + 1]
    BY <1>1, <1>3
  <2> QED BY <1>6, <2>1 DEF Once
<1>7. Pulses(r) = Pulses(q) \ (IF e.kind = "pulse" THEN {e.class} ELSE {})
  BY <1>1, <1>5, <1>6, PulseEvents DEF Pulses
<1> QED BY <1>1, <1>4, <1>7 DEF r, e

(* An empty queue has no pulses.                                           *)
LEMMA EmptyPulses == Pulses(<<>>) = {} /\ Once(<<>>) /\ <<>> \in Seq(Events)
BY DEF Pulses, Once

(* enqueue as a whole: what becomes of the queue, and where t goes.        *)
LEMMA EnqueueStep ==
    ASSUME TypeOK, PulsesExact, NEW t \in Threads, NEW e \in Events, NEW priority \in BOOLEAN,
           NEW next \in Places, Enqueue(t, e, priority, next)
    PROVE  /\ ThreadsOK' /\ SourcesOK' /\ Moves(t, next) /\ PulsesExact'
           /\ events' \in Seq(Events) /\ pulses' \subseteq AdmissionClasses
<1>1. ThreadsOK /\ SourcesOK /\ events \in Seq(Events) /\ pulses \subseteq AdmissionClasses
  BY DEF TypeOK
<1>2. CASE ~Accepted(e)
  <2>1. GoOn(t, {}, next) /\ UNCHANGED <<events, pulses, sources>>
    BY <1>2 DEF Enqueue, queueVars
  <2>2. ThreadsOK' /\ Moves(t, next)
    BY <1>1, <2>1, GoOnMoves
  <2> QED BY <1>1, <2>1, <2>2 DEF PulsesExact, SourcesOK
<1>3. CASE Accepted(e)
  <2>1. /\ events' = IF priority THEN <<e>> \o events ELSE Append(events, e)
        /\ pulses' = IF e.kind = "pulse" THEN pulses \cup {e.class} ELSE pulses
        /\ Pausing(t, sources, events', next)
    BY <1>3 DEF Enqueue
  <2>2. e.kind = "pulse" => e.class \notin Pulses(events)
    BY <1>3 DEF Accepted, PulsesExact
  <2>3. ThreadsOK' /\ SourcesOK' /\ Moves(t, next)
    BY <1>1, <2>1, PausingMoves
  <2>4. events' \in Seq(Events)
    BY <1>1, <2>1
  <2>5. PulsesExact'
    BY <1>1, <2>1, <2>2, AppendPulses, PrependPulses DEF PulsesExact
  <2>6. pulses' \subseteq AdmissionClasses
    BY <1>1, <2>1, PulseEvents
  <2> QED BY <2>3, <2>4, <2>5, <2>6
<1> QED BY <1>2, <1>3

-----------------------------------------------------------------------------
(* Moves and the queue: a thread that will drain, or the one there was.    *)

LEMMA WakingThread ==
    ASSUME NEW t \in Threads, NEW next \in Waking, Moves(t, next)
    PROVE  EventsHaveThread'
BY DEF EventsHaveThread, Moves

LEMMA SameThread ==
    ASSUME EventsHaveThread, NEW t \in Threads, NEW next, Moves(t, next), Where(t) \notin Waking,
           UNCHANGED <<events, state, draining, escaped>>
    PROVE  EventsHaveThread'
BY DEF EventsHaveThread, Moves

(* A thread that is not making calls is where its program counter says.    *)
LEMMA WhereIsPc ==
    ASSUME NEW t, NEW place \in Places, thread[t].pc = place
    PROVE  Where(t) = place
BY DEF Where, Places, Loop, DrainCalls, Outside

(* The thread in the loop has the slot.                                    *)
LEMMA LoopDrains ==
    ASSUME OneWriter, NEW t \in Threads, Where(t) \in Loop
    PROVE  draining
BY DEF OneWriter

-----------------------------------------------------------------------------
(* The actions outside the loop.                                           *)

LEMMA RunCallInv ==
    ASSUME Inv, NEW t \in Threads, NEW what \in {"pause", "resume"}, NEW s \in Submitters, RunCall(t, what, s)
    PROVE  Inv'
<1>1. TypeOK /\ ThreadsOK /\ "idle" \in Places /\ "calls" \notin Places
  BY DEF Inv, TypeOK, Places, Loop, DrainCalls, Outside
<1> DEFINE rest == thread[t].calls \ {<<what, s>>}
           pc == IF rest = {} THEN thread[t].then ELSE "calls"
           then == IF rest = {} THEN "idle" ELSE thread[t].then
<1>2. /\ thread[t] \in ThreadType /\ thread[t].pc = "calls" /\ rest \in SUBSET CallSet
      /\ pc \in Places \cup {"calls"} /\ then \in Places
      /\ thread' = [thread EXCEPT ![t] = [@ EXCEPT !.calls = rest, !.pc = pc, !.then = then]]
  BY <1>1, SMTT(30) DEF RunCall, ThreadsOK, ThreadType
<1>3. ThreadsOK' /\ Moves(t, Where(t))
  <2> HIDE DEF rest
  <2>1. thread'[t] \in ThreadType
    <3> HIDE DEF pc, then
    <3> QED BY <1>1, <1>2 DEF ThreadsOK, ThreadType
  <2> QED BY <1>1, <1>2, <2>1 DEF ThreadsOK, ThreadType, Moves, Where
<1>4. TypeOK'
  BY <1>1, <1>3 DEF RunCall, TypeOK, SourcesOK, queueVars, retryVars
<1>5. OneWriter'
  BY <1>3, StayKeepsWriter DEF Inv, RunCall
<1>6. EventsHaveThread'
  BY <1>3 DEF Inv, EventsHaveThread, Moves, RunCall, queueVars
<1>7. PulsesExact'
  BY DEF Inv, PulsesExact, RunCall, queueVars
<1> QED BY <1>4, <1>5, <1>6, <1>7 DEF Inv

(* Notifiers and timers enqueue and then drain.                            *)
LEMMA NotifyInv ==
    ASSUME Inv, NEW t \in Threads, NEW e,
           \/ Notify(t, e) /\ e \in Notifications
           \/ \E g \in timer : e = RetryDelayExpired(g) /\ FireRetryDelay(t, g)
    PROVE  Inv'
<1>1. thread[t].pc = "idle" /\ Enqueue(t, e, FALSE, "drain") /\ e \in Events
  <2>1. \A g \in timer : RetryDelayExpired(g) \in Events
    BY DEF RetryDelayExpired, Events, Inv, TypeOK
  <2> QED BY <2>1 DEF Notify, FireRetryDelay, Events
<1>2. /\ ThreadsOK' /\ SourcesOK' /\ Moves(t, "drain") /\ PulsesExact'
      /\ events' \in Seq(Events) /\ pulses' \subseteq AdmissionClasses
  BY <1>1, EnqueueStep DEF Inv, Places, DrainCalls
<1>3. TypeOK'
  <2>1. CASE Notify(t, e)
    BY <1>2, <2>1 DEF Inv, TypeOK, Notify, retryVars
  <2>2. CASE \E g \in timer : FireRetryDelay(t, g)
    BY <1>2, <2>2 DEF Inv, TypeOK, FireRetryDelay
  <2> QED BY <2>1, <2>2
<1>4. Where(t) = "idle"
  BY <1>1, WhereIsPc DEF Places, Outside
<1>5. OneWriter'
  BY <1>2, <1>4, StayKeepsWriter DEF Inv, Notify, FireRetryDelay, Loop
<1>6. EventsHaveThread'
  BY <1>2, WakingThread DEF Waking, DrainCalls
<1> QED BY <1>2, <1>3, <1>5, <1>6 DEF Inv

LEMMA RegisterTaskSourceInv ==
    ASSUME Inv, NEW t \in Submitters, RegisterTaskSource(t)
    PROVE  Inv'
<1> DEFINE old == sources[SourceOf[t]]
           src == [sources EXCEPT ![SourceOf[t]] = [owner |-> t, paused |-> FALSE]]
           resumed == IF old.paused THEN {<<"resume", old.owner>>} ELSE {}
           paused == ToPause(src, Len(events))
<1>1. t \in Threads /\ SourceOf[t] \in SourceIds
  BY SourceOfAssumption DEF Threads
<1>2. src \in [SourceIds -> [owner : Submitters \cup {"none"}, paused : BOOLEAN]] /\ resumed \in SUBSET CallSet
  BY <1>1 DEF Inv, TypeOK, SourcesOK, CallSet
<1>3. paused \in SUBSET SourceIds
  BY DEF ToPause, Registered
<1>4. sources' = Marked(src, paused, TRUE) /\ GoOn(t, resumed \cup Calls(src, paused, "pause"), "next")
  BY DEF RegisterTaskSource
<1> HIDE DEF src, resumed, paused
<1>5. SourcesOK' /\ Calls(src, paused, "pause") \in SUBSET CallSet
  BY <1>2, <1>3, <1>4, MarkedType DEF SourcesOK
<1>6. ThreadsOK' /\ Moves(t, "next")
  BY <1>1, <1>2, <1>4, <1>5, GoOnMoves DEF Inv, TypeOK, Places, Outside
<1>7. TypeOK' /\ PulsesExact'
  BY <1>5, <1>6 DEF Inv, TypeOK, PulsesExact, RegisterTaskSource, queueVars, retryVars
<1>8. Where(t) = "register"
  BY WhereIsPc DEF RegisterTaskSource, Places, Outside
<1>9. OneWriter'
  BY <1>1, <1>6, <1>8, StayKeepsWriter DEF Inv, RegisterTaskSource, Loop
<1>10. EventsHaveThread'
  BY <1>1, <1>6, WakingThread DEF Waking
<1> QED BY <1>7, <1>9, <1>10 DEF Inv

(* submit takes the next event, or leaves for its last drain.              *)
LEMMA NextEventInv ==
    ASSUME Inv, NEW t \in Submitters, NextEvent(t)
    PROVE  Inv'
<1>1. PICK next \in {"last", "drainbefore", "submit"} : GoOn(t, {}, next)
  BY DEF NextEvent
<1>2. t \in Threads /\ next \in Places /\ next \in Waking /\ next \notin Loop
  BY DEF Threads, Places, DrainCalls, Outside, Waking, Loop
<1>3. ThreadsOK' /\ Moves(t, next)
  BY <1>1, <1>2, GoOnMoves DEF Inv, TypeOK
<1>4. TypeOK' /\ PulsesExact'
  BY <1>3 DEF Inv, TypeOK, SourcesOK, PulsesExact, NextEvent, queueVars, retryVars
<1>5. Where(t) = "next"
  BY WhereIsPc DEF NextEvent, Places, Outside
<1>6. OneWriter'
  BY <1>2, <1>3, <1>5, StayKeepsWriter DEF Inv, NextEvent, Loop
<1>7. EventsHaveThread'
  BY <1>2, <1>3, WakingThread
<1> QED BY <1>4, <1>6, <1>7 DEF Inv

LEMMA SubmitEventInv ==
    ASSUME Inv, NEW t \in Submitters, SubmitEvent(t)
    PROVE  Inv'
<1>1. t \in Threads /\ Split \in Events /\ "submitted" \in Places /\ FALSE \in BOOLEAN
  BY DEF Threads, Events, Places, Outside
<1>2. Enqueue(t, Split, FALSE, "submitted") /\ TypeOK /\ PulsesExact
  BY DEF SubmitEvent, Inv
<1>3. /\ ThreadsOK' /\ SourcesOK' /\ Moves(t, "submitted") /\ PulsesExact'
      /\ events' \in Seq(Events) /\ pulses' \subseteq AdmissionClasses
  BY <1>1, <1>2, EnqueueStep
<1>4. left' \in [Submitters -> Int]
  BY <1>2 DEF SubmitEvent, TypeOK
<1>5. TypeOK'
  BY <1>2, <1>3, <1>4 DEF TypeOK, SubmitEvent, retryVars
<1>6. Where(t) = "submit"
  BY WhereIsPc DEF SubmitEvent, Places, Outside
<1>7. OneWriter'
  BY <1>1, <1>3, <1>6, StayKeepsWriter DEF Inv, SubmitEvent, Loop
<1>8. EventsHaveThread'
  BY <1>1, <1>3, WakingThread DEF Waking
<1> QED BY <1>3, <1>5, <1>7, <1>8 DEF Inv

LEMMA EventSubmittedInv ==
    ASSUME Inv, NEW t \in Submitters, EventSubmitted(t)
    PROVE  Inv'
<1>1. PICK next \in {"drainafter", "next"} : GoOn(t, {}, next)
  BY DEF EventSubmitted
<1>2. t \in Threads /\ next \in Places /\ next \in Waking /\ next \notin Loop
  BY DEF Threads, Places, DrainCalls, Outside, Waking, Loop
<1>3. ThreadsOK' /\ Moves(t, next)
  BY <1>1, <1>2, GoOnMoves DEF Inv, TypeOK
<1>4. TypeOK' /\ PulsesExact'
  BY <1>3 DEF Inv, TypeOK, SourcesOK, PulsesExact, EventSubmitted, queueVars, retryVars
<1>5. Where(t) = "submitted"
  BY WhereIsPc DEF EventSubmitted, Places, Outside
<1>6. OneWriter'
  BY <1>2, <1>3, <1>5, StayKeepsWriter DEF Inv, EventSubmitted, Loop
<1>7. EventsHaveThread'
  BY <1>2, <1>3, WakingThread
<1> QED BY <1>4, <1>6, <1>7 DEF Inv

(* A submitter closes its source after its last drain: it owes none.       *)
LEMMA CloseTaskSourceInv ==
    ASSUME Inv, NEW t \in Submitters, CloseTaskSource(t)
    PROVE  Inv'
<1>1. t \in Threads /\ SourceOf[t] \in SourceIds /\ "done" \in Places
  BY SourceOfAssumption DEF Threads, Places, Outside
<1>2. ThreadsOK' /\ Moves(t, "done")
  BY <1>1, GoOnMoves DEF Inv, TypeOK, CloseTaskSource
<1>3. SourcesOK' /\ sourceState' \in [Submitters -> [paused : BOOLEAN, closed : BOOLEAN]]
  BY <1>1 DEF Inv, TypeOK, SourcesOK, CloseTaskSource, NoSource
<1>4. TypeOK' /\ PulsesExact'
  BY <1>2, <1>3 DEF Inv, TypeOK, PulsesExact, CloseTaskSource, queueVars, retryVars
<1>5. Where(t) = "close"
  BY WhereIsPc DEF CloseTaskSource, Places, Outside
<1>6. OneWriter'
  BY <1>1, <1>2, <1>5, StayKeepsWriter DEF Inv, CloseTaskSource, Loop
<1>7. EventsHaveThread'
  BY <1>1, <1>2, <1>5, SameThread DEF Inv, CloseTaskSource, queueVars, Waking, DrainCalls
<1> QED BY <1>4, <1>6, <1>7 DEF Inv

-----------------------------------------------------------------------------
(* drain.                                                                  *)

(* Whoever finds the slot taken goes on: the writer will see the event.    *)
LEMMA DrainEnterInv ==
    ASSUME Inv, NEW t \in Threads, DrainEnter(t)
    PROVE  Inv'
<1> DEFINE pc == IF draining THEN ReturnOf(thread[t].pc) ELSE "loop"
           ret == IF draining THEN thread[t].ret ELSE ReturnOf(thread[t].pc)
<1>1. ThreadsOK /\ thread[t] \in ThreadType /\ draining \in BOOLEAN
  BY DEF Inv, TypeOK, ThreadsOK
<1>2. ReturnOf(thread[t].pc) \in Returns
  BY DEF DrainEnter, DrainCalls, ReturnOf, Returns
<1>3. pc \in Places /\ ret \in Returns /\ pc # "calls" /\ (pc \in Loop <=> ~draining)
  BY <1>1, <1>2 DEF ThreadType, Returns, Places, Loop, Outside
<1>4. thread' = [thread EXCEPT ![t] = [@ EXCEPT !.pc = pc, !.ret = ret]]
  BY DEF DrainEnter
<1> HIDE DEF pc, ret
<1>5. ThreadsOK' /\ Moves(t, pc)
  BY <1>1, <1>3, <1>4 DEF ThreadsOK, ThreadType, Moves, Where
<1>6. TypeOK' /\ PulsesExact' /\ draining' = TRUE
  BY <1>5 DEF Inv, TypeOK, SourcesOK, PulsesExact, DrainEnter, queueVars, retryVars
<1>7. Where(t) \in DrainCalls /\ Where(t) \notin Loop
  BY DEF DrainEnter, Where, DrainCalls, Loop
<1>8. OneWriter'
  <2>1. CASE draining
    BY <1>3, <1>5, <1>6, <1>7, <2>1, StayKeepsWriter DEF Inv
  <2>2. CASE ~draining
    BY <1>3, <1>5, <1>6, <2>2, EnterTakesWriter DEF Inv
  <2> QED BY <2>1, <2>2
<1> QED BY <1>6, <1>8 DEF Inv, EventsHaveThread

(* The writer gives the slot back over an empty queue.                     *)
LEMMA PublishIdleInv ==
    ASSUME Inv, NEW t \in Threads, PublishIdle(t)
    PROVE  Inv'
<1> DEFINE next == thread[t].ret
<1>1. next \in Places /\ next \notin Loop
  BY DEF Inv, TypeOK, ThreadsOK, ThreadType, Returns, Places, Outside, Loop
<1>2. Resuming(t, sources, events, next)
  BY DEF PublishIdle
<1> HIDE DEF next
<1>3. ThreadsOK' /\ SourcesOK' /\ Moves(t, next)
  BY <1>1, <1>2, ResumingMoves DEF Inv, TypeOK
<1>4. TypeOK' /\ PulsesExact' /\ events' = <<>>
  BY <1>3 DEF Inv, TypeOK, PulsesExact, PublishIdle, queueVars, retryVars
<1>5. Where(t) \in Loop
  BY DEF PublishIdle, Where, Loop
<1>6. OneWriter'
  BY <1>1, <1>3, <1>5, LeaveFreesWriter DEF Inv, PublishIdle
<1> QED BY <1>4, <1>6 DEF Inv, EventsHaveThread

LEMMA PopEventInv ==
    ASSUME Inv, NEW t \in Threads, PopEvent(t)
    PROVE  Inv'
<1> DEFINE e == Head(events)
<1>1. TypeOK /\ ThreadsOK /\ PulsesExact /\ events \in Seq(Events) /\ events # <<>>
  BY DEF Inv, TypeOK, PopEvent
<1>2. /\ e \in Events /\ Tail(events) \in Seq(Events) /\ Once(Tail(events))
      /\ Pulses(Tail(events)) = Pulses(events) \ (IF e.kind = "pulse" THEN {e.class} ELSE {})
  BY <1>1, TailPulses DEF PulsesExact
<1>3. /\ thread' = [thread EXCEPT ![t] = [@ EXCEPT !.pc = "begin", !.event = e]]
      /\ events' = Tail(events)
      /\ pulses' = IF e.kind = "pulse" THEN pulses \ {e.class} ELSE pulses
  BY DEF PopEvent
<1> HIDE DEF e
<1>4. PulsesExact' /\ pulses' \subseteq AdmissionClasses
  BY <1>1, <1>2, <1>3 DEF PulsesExact, Pulses
<1>5. "begin" \in Places /\ "begin" \in Loop
  BY DEF Places, Loop
<1>6. ThreadsOK' /\ Moves(t, "begin")
  BY <1>1, <1>2, <1>3, <1>5 DEF ThreadsOK, ThreadType, Moves, Where
<1>7. TypeOK'
  BY <1>1, <1>2, <1>3, <1>4, <1>6 DEF TypeOK, SourcesOK, PopEvent, retryVars
<1>8. Where(t) \in Loop
  BY DEF PopEvent, Where, Loop
<1>9. OneWriter' /\ draining'
  BY <1>5, <1>6, <1>8, StayKeepsWriter, LoopDrains DEF Inv, PopEvent
<1> QED BY <1>4, <1>7, <1>9 DEF Inv, EventsHaveThread

LEMMA BeginEventInv ==
    ASSUME Inv, NEW t \in Threads, BeginEvent(t)
    PROVE  Inv'
<1>1. PICK next \in {"handled", "handle"} : GoOn(t, {}, next)
  BY DEF BeginEvent
<1>2. next \in Places /\ next \in Loop
  BY DEF Places, Loop
<1>3. ThreadsOK' /\ Moves(t, next)
  BY <1>1, <1>2, GoOnMoves DEF Inv, TypeOK
<1>4. \/ UNCHANGED <<state, events, pulses>>
      \/ state' = "ABORTED" /\ events' = <<>> /\ pulses' = {}
  BY DEF BeginEvent, queueVars
<1>5. PulsesExact' /\ events' \in Seq(Events) /\ pulses' \subseteq AdmissionClasses
  BY <1>4, EmptyPulses DEF Inv, TypeOK, PulsesExact
<1>6. TypeOK'
  BY <1>3, <1>4, <1>5 DEF Inv, TypeOK, SourcesOK, BeginEvent, retryVars
<1>7. Where(t) \in Loop
  BY DEF BeginEvent, Where, Loop
<1>8. OneWriter' /\ draining'
  BY <1>2, <1>3, <1>7, StayKeepsWriter, LoopDrains DEF Inv, BeginEvent
<1> QED BY <1>5, <1>6, <1>8 DEF Inv, EventsHaveThread

(* The actions of a handler that leave the queue, the slot and the place   *)
(* of the thread in the loop alone, or let the writer enqueue.             *)
LEMMA HandlerEnqueuesInv ==
    ASSUME Inv, NEW t \in Threads, NEW e \in Notifications, HandlerEnqueues(t, e)
    PROVE  Inv'
<1>1. e \in Events /\ "handle" \in Places /\ "handle" \in Loop /\ (e.kind = "failed") \in BOOLEAN
  BY DEF Events, Places, Loop
<1>2. Enqueue(t, e, e.kind = "failed", "handle") /\ TypeOK /\ PulsesExact
  BY DEF HandlerEnqueues, Inv
<1>3. /\ ThreadsOK' /\ SourcesOK' /\ Moves(t, "handle") /\ PulsesExact'
      /\ events' \in Seq(Events) /\ pulses' \subseteq AdmissionClasses
  BY <1>1, <1>2, EnqueueStep
<1>4. TypeOK'
  BY <1>2, <1>3 DEF TypeOK, HandlerEnqueues, retryVars
<1>5. Where(t) \in Loop
  BY DEF HandlerEnqueues, Where, Loop
<1>6. OneWriter' /\ draining'
  BY <1>1, <1>3, <1>5, StayKeepsWriter, LoopDrains DEF Inv, HandlerEnqueues
<1> QED BY <1>3, <1>4, <1>6 DEF Inv, EventsHaveThread

LEMMA ArmRetryDelayInv ==
    ASSUME Inv, NEW t \in Threads, ArmRetryDelay(t)
    PROVE  Inv'
<1>1. thread[t].event \in Events \cup {NoEvent} /\ thread[t].event.kind = "failed"
  BY DEF Inv, TypeOK, ThreadsOK, ThreadType, ArmRetryDelay
<1>2. thread[t].event.worker \in WorkerIds
  <2>1. /\ Split.kind = "split" /\ Other.kind = "other" /\ QueryAbort.kind = "abort" /\ NoEvent.kind = "none"
        /\ \A x : RetryDelayExpired(x).kind = "retry" /\ Pulse(x).kind = "pulse"
    BY DEF Split, Other, QueryAbort, NoEvent, RetryDelayExpired, Pulse
  <2>2. PICK w \in WorkerIds : thread[t].event = WorkerFailed(w)
    BY <1>1, <2>1 DEF Events, Notifications
  <2> QED BY <2>2 DEF WorkerFailed
<1>3. failedWorkers' \subseteq WorkerIds
  BY <1>2 DEF Inv, TypeOK, ArmRetryDelay
<1>4. generation' \in Nat /\ timer' \subseteq Nat
  <2>1. generation \in Nat /\ generation + 1 \in Nat /\ timer \subseteq Nat
    BY DEF Inv, TypeOK
  <2>2. \/ generation' = generation + 1 /\ (timer' = {generation + 1} \/ timer' = {})
        \/ generation' = generation /\ timer' = timer
    BY DEF ArmRetryDelay, retryVars
  <2> QED BY <2>1, <2>2
<1>5. UNCHANGED <<events, pulses, state, draining, sources, sourceState, thread, left, budget, escaped>>
  BY DEF ArmRetryDelay, queueVars
<1> QED BY <1>3, <1>4, <1>5 DEF Inv, TypeOK, ThreadsOK, SourcesOK, OneWriter, EventsHaveThread, Where, PulsesExact

LEMMA HandlerReturnsInv ==
    ASSUME Inv, NEW t \in Threads, HandlerReturns(t)
    PROVE  Inv'
<1>1. ThreadsOK /\ "handled" \in Places /\ "handled" \in Loop
  BY DEF Inv, TypeOK, Places, Loop
<1>2. ThreadsOK' /\ Moves(t, "handled")
  BY <1>1 DEF HandlerReturns, ThreadsOK, ThreadType, Moves, Where
<1>3. TypeOK' /\ PulsesExact'
  BY <1>2 DEF Inv, TypeOK, SourcesOK, PulsesExact, HandlerReturns, queueVars, retryVars
<1>4. Where(t) \in Loop
  BY DEF HandlerReturns, Where, Loop
<1>5. OneWriter' /\ draining'
  BY <1>1, <1>2, <1>4, StayKeepsWriter, LoopDrains DEF Inv, HandlerReturns
<1> QED BY <1>3, <1>5 DEF Inv, EventsHaveThread

LEMMA EventHandledInv ==
    ASSUME Inv, NEW t \in Threads, EventHandled(t)
    PROVE  Inv'
<1>1. "loop" \in Places /\ "loop" \in Loop
  BY DEF Places, Loop
<1>2. ThreadsOK' /\ SourcesOK' /\ Moves(t, "loop")
  BY <1>1, ResumingMoves DEF Inv, TypeOK, EventHandled
<1>3. TypeOK' /\ PulsesExact'
  BY <1>2 DEF Inv, TypeOK, PulsesExact, EventHandled, queueVars, retryVars
<1>4. Where(t) \in Loop
  BY DEF EventHandled, Where, Loop
<1>5. OneWriter' /\ draining'
  BY <1>1, <1>2, <1>4, StayKeepsWriter, LoopDrains DEF Inv, EventHandled
<1> QED BY <1>3, <1>5 DEF Inv, EventsHaveThread

(* A handler raises: its thread will fail the query, or has handed the     *)
(* exception to its caller.                                                *)
LEMMA HandlerRaisesInv ==
    ASSUME Inv, NEW t \in Threads, HandlerRaises(t)
    PROVE  Inv'
<1>1. PICK next \in {"fail", "close", "idle"} :
        /\ Resuming(t, sources, events, next)
        /\ \/ next = "fail" /\ UNCHANGED escaped
           \/ escaped' = TRUE
  BY DEF HandlerRaises
<1>2. next \in Places /\ next \notin Loop
  BY DEF Places, Loop, Outside
<1>3. ThreadsOK' /\ SourcesOK' /\ Moves(t, next)
  BY <1>1, <1>2, ResumingMoves DEF Inv, TypeOK
<1>4. TypeOK' /\ PulsesExact'
  BY <1>1, <1>3 DEF Inv, TypeOK, PulsesExact, HandlerRaises, queueVars, retryVars
<1>5. Where(t) \in Loop
  BY DEF HandlerRaises, Where, Loop
<1>6. OneWriter'
  BY <1>2, <1>3, <1>5, LeaveFreesWriter DEF Inv, HandlerRaises
<1>7. EventsHaveThread'
  BY <1>1, <1>3, WakingThread DEF EventsHaveThread, Waking
<1> QED BY <1>4, <1>6, <1>7 DEF Inv

-----------------------------------------------------------------------------
(* fail and close.                                                         *)

(* fail leaves no event behind that anyone has to handle.                  *)
LEMMA FailStep ==
    ASSUME Inv, NEW t \in Threads, NEW next \in Places, Fail(t, next)
    PROVE  /\ ThreadsOK' /\ SourcesOK' /\ Moves(t, next) /\ PulsesExact' /\ EventsHaveThread'
           /\ events' \in Seq(Events) /\ pulses' \subseteq AdmissionClasses /\ timer' \subseteq Nat
           /\ state' \in {"FAILED", "CLOSED"}
<1>1. TypeOK /\ ThreadsOK /\ SourcesOK /\ PulsesExact
  BY DEF Inv, TypeOK
<1>2. CASE state \in {"CLOSED", "FAILED"}
  <2>1. GoOn(t, {}, next) /\ UNCHANGED <<events, pulses, state, timer, sources>>
    BY <1>2 DEF Fail, queueVars
  <2>2. ThreadsOK' /\ Moves(t, next)
    BY <1>1, <2>1, GoOnMoves
  <2> QED BY <1>1, <1>2, <2>1, <2>2 DEF TypeOK, SourcesOK, PulsesExact, EventsHaveThread
<1>3. CASE state \notin {"CLOSED", "FAILED"}
  <2>1. state' = "FAILED" /\ events' = <<>> /\ pulses' = {} /\ timer' = {} /\ Resuming(t, sources, <<>>, next)
    BY <1>3 DEF Fail
  <2>2. ThreadsOK' /\ SourcesOK' /\ Moves(t, next)
    BY <1>1, <2>1, ResumingMoves
  <2> QED BY <2>1, <2>2, EmptyPulses DEF PulsesExact, EventsHaveThread
<1> QED BY <1>2, <1>3

LEMMA FailQueryInv ==
    ASSUME Inv, NEW t \in Threads, FailQuery(t)
    PROVE  Inv'
<1>1. PICK next \in {"idle", "handle"} :
        /\ Fail(t, next)
        /\ next = "handle" <=> thread[t].pc = "handle"
        /\ thread[t].pc \in {"fail", "idle", "handle"}
  BY DEF FailQuery
<1>2. next \in Places
  BY DEF Places, Loop, Outside
<1>3. /\ ThreadsOK' /\ SourcesOK' /\ Moves(t, next) /\ PulsesExact' /\ EventsHaveThread'
      /\ events' \in Seq(Events) /\ pulses' \subseteq AdmissionClasses /\ timer' \subseteq Nat
      /\ state' \in {"FAILED", "CLOSED"}
  BY <1>1, <1>2, FailStep
<1>4. TypeOK'
  BY <1>3 DEF Inv, TypeOK, FailQuery
<1>5. Where(t) \in Loop <=> next \in Loop
  BY <1>1 DEF Where, Loop
<1>6. OneWriter'
  BY <1>3, <1>5, StayKeepsWriter DEF Inv, FailQuery
<1> QED BY <1>3, <1>4, <1>6 DEF Inv

LEMMA CloseInv ==
    ASSUME Inv, NEW t \in Threads, Close(t)
    PROVE  Inv'
<1> DEFINE calls == {<<"resume", sources[s].owner>> : s \in {x \in SourceIds : sources[x].paused}}
<1>1. calls \in SUBSET CallSet /\ "idle" \in Places
  BY DEF Inv, TypeOK, SourcesOK, CallSet, Places, Outside
<1>2. GoOn(t, calls, "idle")
  BY DEF Close
<1> HIDE DEF calls
<1>3. ThreadsOK' /\ Moves(t, "idle")
  BY <1>1, <1>2, GoOnMoves DEF Inv, TypeOK
<1>4. SourcesOK'
  BY DEF Close, SourcesOK, NoSource
<1>5. state' = "CLOSED" /\ events' = <<>> /\ pulses' = {} /\ failedWorkers' = {} /\ timer' = {}
  BY DEF Close
<1>6. TypeOK' /\ PulsesExact'
  BY <1>3, <1>4, <1>5, EmptyPulses DEF Inv, TypeOK, PulsesExact, Close
<1>7. Where(t) = "idle"
  BY WhereIsPc DEF Close, Places, Outside
<1>8. OneWriter'
  BY <1>3, <1>7, StayKeepsWriter DEF Inv, Close, Loop
<1> QED BY <1>5, <1>6, <1>8 DEF Inv, EventsHaveThread

-----------------------------------------------------------------------------
(* The theorems.                                                           *)

LEMMA InitInv == Init => Inv
<1> SUFFICES ASSUME Init PROVE Inv
  OBVIOUS
<1>1. left \in [Submitters -> Int] /\ budget \in Int
  BY BoundsAssumption DEF Init
<1>2. \A t \in Threads : thread[t] \in ThreadType /\ thread[t].pc \in {"idle", "register", "done"}
  BY DEF Init, ThreadType, Places, Outside, Returns
<1>3. ThreadsOK /\ SourcesOK
  BY <1>2 DEF Init, ThreadsOK, SourcesOK, NoSource
<1>4. TypeOK
  BY <1>1, <1>3, EmptyPulses DEF Init, TypeOK
<1>5. OneWriter
  BY <1>2 DEF Init, OneWriter, Where, Loop
<1>6. EventsHaveThread /\ PulsesExact
  BY EmptyPulses DEF Init, EventsHaveThread, PulsesExact
<1> QED BY <1>4, <1>5, <1>6 DEF Inv

LEMMA NextInv == Inv /\ [Next]_vars => Inv'
<1> SUFFICES ASSUME Inv, [Next]_vars PROVE Inv'
  OBVIOUS
<1>1. ASSUME NEW t \in Threads, DrainStep(t) PROVE Inv'
  BY <1>1, DrainEnterInv, PublishIdleInv, PopEventInv, BeginEventInv, HandlerReturnsInv, HandlerRaisesInv,
     EventHandledInv DEF DrainStep
<1>2. ASSUME NEW t \in Threads, ThreadStep(t) PROVE Inv'
  BY <1>1, <1>2, RunCallInv, FailQueryInv DEF ThreadStep
<1>3. ASSUME NEW t \in Submitters, SubmitterStep(t) PROVE Inv'
  BY <1>3, RegisterTaskSourceInv, NextEventInv, SubmitEventInv, EventSubmittedInv, CloseTaskSourceInv
     DEF SubmitterStep
<1>4. ASSUME NEW t \in Notifiers, NEW e \in Notifications, Notify(t, e) PROVE Inv'
  BY <1>4, NotifyInv DEF Threads
<1>5. ASSUME NEW t \in Timers, NEW g \in timer, FireRetryDelay(t, g) PROVE Inv'
  BY <1>5, NotifyInv DEF Threads
<1>6. ASSUME NEW t \in Notifiers, Close(t) PROVE Inv'
  BY <1>6, CloseInv DEF Threads
<1>7. CASE UNCHANGED vars
  BY <1>7 DEF vars, queueVars, retryVars, Inv, TypeOK, ThreadsOK, SourcesOK, OneWriter, EventsHaveThread, Where,
     PulsesExact
<1> QED BY <1>2, <1>3, <1>4, <1>5, <1>6, <1>7, FailQueryInv, ArmRetryDelayInv, HandlerEnqueuesInv DEF Next

(* The inductive invariant: where the threads are, whom the slot belongs   *)
(* to, and what is in the queue.                                           *)
LEMMA InvAlways == Spec => []Inv
BY InitInv, NextInv, PTL DEF Spec

(* fte_scheduler.py's promise that handlers run "only while this scheduler *)
(* owns the query's single writer slot", however many threads drain: two   *)
(* are never in the loop, and _draining is set exactly while one is.       *)
THEOREM SingleWriterAlways == Spec => []SingleWriter
<1>1. Inv => SingleWriter
  <2> SUFFICES ASSUME Inv PROVE SingleWriter
    OBVIOUS
  <2>1. \A t \in Threads : At(t, Loop) <=> Where(t) \in Loop
    BY AtIsWhere DEF Inv, TypeOK, Loop
  <2> QED BY <2>1 DEF Inv, OneWriter, SingleWriter
<1> QED BY <1>1, InvAlways, PTL

(* No interleaving of enqueue, drain and the end of the drain loop leaves  *)
(* a queued event without a thread that will come for it, and the set that *)
(* coalesces pulses is exactly the classes in the queue.                   *)
THEOREM NoLostEventAlways == Spec => []NoLostEvent
<1>1. Inv => NoLostEvent
  <2> SUFFICES ASSUME Inv PROVE NoLostEvent
    OBVIOUS
  <2>1. \A t \in Threads : At(t, Waking) <=> Where(t) \in Waking
    BY AtIsWhere DEF Inv, TypeOK, Waking, DrainCalls
  <2> QED BY <2>1 DEF Inv, EventsHaveThread, PulsesExact, Once, NoLostEvent, Waking
<1> QED BY <1>1, InvAlways, PTL

=============================================================================
