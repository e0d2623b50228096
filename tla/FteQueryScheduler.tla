-------------------------- MODULE FteQueryScheduler --------------------------
(***************************************************************************)
(* FteQueryScheduler of duckdb/runners/fte/fte_scheduler.py: the event     *)
(* loop of one query.  Any thread enqueues events and then calls drain;    *)
(* one of them at a time holds the writer slot and runs the handlers of    *)
(* everybody's events.                                                     *)
(*                                                                         *)
(* An action is one critical section of the scheduler's lock, one call of  *)
(* a task source's pause or resume (they are collected under the lock and  *)
(* made after it) or one step of a handler.  thread[t] is what thread t is *)
(* doing: its program counter, the pause and resume calls it still has to  *)
(* make and where it goes after them, where its drain returns to and the   *)
(* event it is handling.                                                   *)
(*                                                                         *)
(* Submitters run FteEventDrivenTaskSource.submit, notifiers enqueue and   *)
(* drain (status watchers, worker failures, the admission pump), timers    *)
(* run _fire_retry_delay.                                                  *)
(***************************************************************************)
EXTENDS Integers, Sequences, FiniteSets

CONSTANTS
    Submitters, Notifiers, Timers,      \* the threads, by what they run
    SourceIds, SourceOf,                \* source ids, and each submitter's
    HighWatermark, LowWatermark,
    WorkerIds,                          \* workers that can fail
    AdmissionClasses,                   \* execution_class of internal pulses
    Loads                               \* bounds: the events of one submitter,
                                        \* and other events enqueued

ASSUME WatermarkAssumption ==
    HighWatermark \in Nat /\ LowWatermark \in Nat /\ LowWatermark < HighWatermark
ASSUME SourceOfAssumption == SourceOf \in [Submitters -> SourceIds]
ASSUME BoundsAssumption == \A load \in Loads : load.splits \in Nat /\ load.events \in Nat
ASSUME ThreadsAssumption ==
    Submitters \cap Notifiers = {} /\ (Submitters \cup Notifiers) \cap Timers = {}

Threads == Submitters \cup Notifiers \cup Timers

VARIABLES
    events,         \* _events
    state,          \* _state
    draining,       \* _draining
    pulses,         \* _queued_internal_admission_classes
    failedWorkers,  \* _failed_worker_ids
    generation,     \* _retry_delay_generation
    timer,          \* generations whose threading.Timer is running
    sources,        \* _task_sources: owner and paused flag of each id
    sourceState,    \* _paused and _closed of each FteEventDrivenTaskSource
    thread,
    left,           \* events a submitter has still to enqueue
    budget,         \* events the notifiers and handlers may still enqueue
    escaped         \* a handler's exception reached the caller of submit

queueVars == <<events, pulses>>
retryVars == <<generation, timer>>
vars == <<queueVars, state, draining, failedWorkers, retryVars, sources, sourceState,
          thread, left, budget, escaped>>

(* SplitEventsSubmitted, any event that only calls its handler, WorkerFailed,  *)
(* an internal ResourceAdmissionChanged, RetryDelayExpired, QueryAbort.        *)
Split == [kind |-> "split"]
Other == [kind |-> "other"]
WorkerFailed(w) == [kind |-> "failed", worker |-> w]
Pulse(c) == [kind |-> "pulse", class |-> c]
RetryDelayExpired(g) == [kind |-> "retry", generation |-> g]
QueryAbort == [kind |-> "abort"]
NoEvent == [kind |-> "none"]

Notifications ==
    {Other, QueryAbort} \cup {WorkerFailed(w) : w \in WorkerIds}
                        \cup {Pulse(c) : c \in AdmissionClasses}

NoSource == [owner |-> "none", paused |-> FALSE]
Pulses(q) == {c \in AdmissionClasses : \E i \in DOMAIN q : q[i] = Pulse(c)}

Init ==
    /\ events = <<>>
    /\ state = "RUNNING"
    /\ draining = FALSE
    /\ pulses = {}
    /\ failedWorkers = {}
    /\ generation = 0
    /\ timer = {}
    /\ sources = [s \in SourceIds |-> NoSource]
    /\ sourceState = [t \in Submitters |-> [paused |-> FALSE, closed |-> FALSE]]
    /\ \E load \in Loads :
        /\ left = [t \in Submitters |-> load.splits]
        /\ budget = load.events
    /\ thread = [t \in Threads |-> [pc    |-> IF t \notin Submitters THEN "idle"
                                              ELSE IF left[t] > 0 THEN "register" ELSE "done",
                                    then  |-> "idle",
                                    ret   |-> "idle",
                                    calls |-> {},
                                    event |-> NoEvent]]
    /\ escaped = FALSE

-----------------------------------------------------------------------------
(* The pause and resume calls of a critical section that leaves n events   *)
(* in the queue.                                                           *)

Registered(src) == {s \in SourceIds : src[s] # NoSource}
ToPause(src, n) == {s \in Registered(src) : ~src[s].paused /\ n >= HighWatermark}
ToResume(src, n) == {s \in Registered(src) : src[s].paused /\ n <= LowWatermark}

Marked(src, S, paused) ==
    [s \in SourceIds |-> IF s \in S THEN [src[s] EXCEPT !.paused = paused] ELSE src[s]]
Calls(src, S, what) == {<<what, src[s].owner>> : s \in S}

(* Thread t goes on at next, after its calls. *)
GoOn(t, calls, next) ==
    thread' = [thread EXCEPT ![t] =
                  [@ EXCEPT !.pc = IF calls = {} THEN next ELSE "calls",
                            !.then = IF calls = {} THEN "idle" ELSE next,
                            !.calls = calls]]

Pausing(t, src, q, next) ==
    /\ sources' = Marked(src, ToPause(src, Len(q)), TRUE)
    /\ GoOn(t, Calls(src, ToPause(src, Len(q)), "pause"), next)

Resuming(t, src, q, next) ==
    /\ sources' = Marked(src, ToResume(src, Len(q)), FALSE)
    /\ GoOn(t, Calls(src, ToResume(src, Len(q)), "resume"), next)

(* FteEventDrivenTaskSource.pause and resume. *)
RunCall(t, what, owner) ==
    /\ thread[t].pc = "calls"
    /\ <<what, owner>> \in thread[t].calls
    /\ sourceState' = [sourceState EXCEPT ![owner].paused =
                          IF sourceState[owner].closed THEN @ ELSE what = "pause"]
    /\ LET rest == thread[t].calls \ {<<what, owner>>} IN
       thread' = [thread EXCEPT ![t] =
                     [@ EXCEPT !.calls = rest,
                               !.pc = IF rest = {} THEN thread[t].then ELSE "calls",
                               !.then = IF rest = {} THEN "idle" ELSE thread[t].then]]
    /\ UNCHANGED <<queueVars, state, draining, failedWorkers, retryVars, sources,
                   left, budget, escaped>>

-----------------------------------------------------------------------------
(* enqueue.                                                                *)

Accepted(e) ==
    /\ state = "RUNNING" \/ e.kind = "abort"
    /\ e.kind = "pulse" => e.class \notin pulses

Enqueue(t, e, priority, next) ==
    IF Accepted(e)
    THEN /\ events' = IF priority THEN <<e>> \o events ELSE Append(events, e)
         /\ pulses' = IF e.kind = "pulse" THEN pulses \cup {e.class} ELSE pulses
         /\ Pausing(t, sources, events', next)
    ELSE /\ GoOn(t, {}, next)
         /\ UNCHANGED <<queueVars, sources>>

Notify(t, e) ==
    /\ thread[t].pc = "idle"
    /\ budget > 0
    /\ budget' = budget - 1
    /\ Enqueue(t, e, FALSE, "drain")
    /\ UNCHANGED <<state, draining, failedWorkers, retryVars, sourceState, left, escaped>>

(* _fire_retry_delay.  cancel() does not stop a timer that has fired. *)
FireRetryDelay(t, g) ==
    /\ thread[t].pc = "idle"
    /\ g \in timer
    /\ timer' = timer \ {g}
    /\ Enqueue(t, RetryDelayExpired(g), FALSE, "drain")
    /\ UNCHANGED <<state, draining, failedWorkers, generation, sourceState, left, budget, escaped>>

(* register_task_source replaces, and resumes, a source of the same id. *)
RegisterTaskSource(t) ==
    /\ thread[t].pc = "register"
    /\ LET old == sources[SourceOf[t]]
           src == [sources EXCEPT ![SourceOf[t]] = [owner |-> t, paused |-> FALSE]]
           resumed == IF old.paused THEN {<<"resume", old.owner>>} ELSE {}
           paused == ToPause(src, Len(events)) IN
       /\ sources' = Marked(src, paused, TRUE)
       /\ GoOn(t, resumed \cup Calls(src, paused, "pause"), "next")
    /\ UNCHANGED <<queueVars, state, draining, failedWorkers, retryVars, sourceState,
                   left, budget, escaped>>

(* submit: a paused source drains before and after it enqueues; drain      *)
(* returns to it where it left.                                            *)
NextEvent(t) ==
    /\ thread[t].pc = "next"
    /\ GoOn(t, {}, IF left[t] = 0 THEN "last"
                   ELSE IF sourceState[t].paused THEN "drainbefore" ELSE "submit")
    /\ UNCHANGED <<queueVars, state, draining, failedWorkers, retryVars, sources, sourceState,
                   left, budget, escaped>>

SubmitEvent(t) ==
    /\ thread[t].pc = "submit"
    /\ left' = [left EXCEPT ![t] = @ - 1]
    /\ Enqueue(t, Split, FALSE, "submitted")
    /\ UNCHANGED <<state, draining, failedWorkers, retryVars, sourceState, budget, escaped>>

EventSubmitted(t) ==
    /\ thread[t].pc = "submitted"
    /\ GoOn(t, {}, IF sourceState[t].paused THEN "drainafter" ELSE "next")
    /\ UNCHANGED <<queueVars, state, draining, failedWorkers, retryVars, sources, sourceState,
                   left, budget, escaped>>

(* close and unregister_task_source, which takes out whichever source has  *)
(* the id by now.                                                          *)
CloseTaskSource(t) ==
    /\ thread[t].pc = "close"
    /\ sourceState' = [sourceState EXCEPT ![t] = [paused |-> FALSE, closed |-> TRUE]]
    /\ sources' = [sources EXCEPT ![SourceOf[t]] = NoSource]
    /\ GoOn(t, {}, "done")
    /\ UNCHANGED <<queueVars, state, draining, failedWorkers, retryVars, left, budget, escaped>>

-----------------------------------------------------------------------------
(* drain.                                                                  *)

(* Where each call of drain returns to. *)
ReturnOf(pc) ==
    CASE pc = "drain"       -> "idle"
      [] pc = "drainbefore" -> "submit"
      [] pc = "drainafter"  -> "next"
      [] pc = "last"        -> "close"
DrainCalls == {"drain", "drainbefore", "drainafter", "last"}

(* Mutant: whoever calls drain becomes a drainer. *)
DrainEnterAlways(t) ==
    /\ thread[t].pc \in DrainCalls
    /\ draining' = TRUE
    /\ thread' = [thread EXCEPT ![t] = [@ EXCEPT !.pc = "loop", !.ret = ReturnOf(thread[t].pc)]]
    /\ UNCHANGED <<queueVars, state, failedWorkers, retryVars, sources, sourceState,
                   left, budget, escaped>>

DrainEnter(t) ==
    /\ thread[t].pc \in DrainCalls
    /\ draining' = TRUE
    /\ thread' = [thread EXCEPT ![t] =
                     [@ EXCEPT !.pc = IF draining THEN ReturnOf(thread[t].pc) ELSE "loop",
                               !.ret = IF draining THEN thread[t].ret ELSE ReturnOf(thread[t].pc)]]
    /\ UNCHANGED <<queueVars, state, failedWorkers, retryVars, sources, sourceState,
                   left, budget, escaped>>

(* Mutant: the slot is given back on an earlier look at the queue.         *)
PublishIdleUnchecked(t) ==
    /\ thread[t].pc = "loop"
    /\ draining' = FALSE
    /\ Resuming(t, sources, events, thread[t].ret)
    /\ UNCHANGED <<queueVars, state, failedWorkers, retryVars, sourceState,
                   left, budget, escaped>>

(* The queue is seen empty and the slot given back in one section. *)
PublishIdle(t) ==
    /\ thread[t].pc = "loop"
    /\ events = <<>>
    /\ draining' = FALSE
    /\ Resuming(t, sources, events, thread[t].ret)
    /\ UNCHANGED <<queueVars, state, failedWorkers, retryVars, sourceState,
                   left, budget, escaped>>

(* Mutant: the event stays at the head of the queue while it is handled. *)
PopEventPeeks(t) ==
    /\ thread[t].pc = "loop"
    /\ events # <<>>
    /\ thread' = [thread EXCEPT ![t] = [@ EXCEPT !.pc = "begin", !.event = Head(events)]]
    /\ UNCHANGED <<queueVars, state, draining, failedWorkers, retryVars, sources, sourceState,
                   left, budget, escaped>>

PopEvent(t) ==
    /\ thread[t].pc = "loop"
    /\ events # <<>>
    /\ events' = Tail(events)
    /\ pulses' = IF Head(events).kind = "pulse" THEN pulses \ {Head(events).class} ELSE pulses
    /\ thread' = [thread EXCEPT ![t] = [@ EXCEPT !.pc = "begin", !.event = Head(events)]]
    /\ UNCHANGED <<state, draining, failedWorkers, retryVars, sources, sourceState,
                   left, budget, escaped>>

(* What _handle_event does before it calls the handler: it drops an        *)
(* overtaken RetryDelayExpired and aborts the query on a QueryAbort.       *)
BeginEvent(t) ==
    /\ thread[t].pc = "begin"
    /\ LET e == thread[t].event IN
       /\ GoOn(t, {}, IF e.kind = "retry" /\ e.generation # generation THEN "handled" ELSE "handle")
       /\ IF e.kind = "abort"
          THEN state' = "ABORTED" /\ events' = <<>> /\ pulses' = {}
          ELSE UNCHANGED <<state, queueVars>>
    /\ UNCHANGED <<draining, failedWorkers, retryVars, sources, sourceState, left, budget, escaped>>

(* A handler enqueues without draining, or drains in vain: it is the       *)
(* drainer.  Failures met by a handler go to the front.                    *)
HandlerEnqueues(t, e) ==
    /\ thread[t].pc = "handle"
    /\ budget > 0
    /\ budget' = budget - 1
    /\ Enqueue(t, e, e.kind = "failed", "handle")
    /\ UNCHANGED <<state, draining, failedWorkers, retryVars, sourceState, left, escaped>>

(* Mutant: the timer carries the generation before its own. *)
ArmRetryDelayStale(t) ==
    /\ thread[t].pc = "handle"
    /\ thread[t].event.kind = "failed"
    /\ LET w == thread[t].event.worker IN
       /\ w \notin failedWorkers
       /\ failedWorkers' = failedWorkers \cup {w}
    /\ generation' = generation + 1
    /\ timer' = IF state = "RUNNING" THEN {generation} ELSE {}
    /\ UNCHANGED <<queueVars, state, draining, sources, sourceState, thread, left, budget, escaped>>

(* The WorkerFailed handler: record_worker_failure and, when the worker's  *)
(* failure is new and there is a delay to wait for, arm_retry_delay, which *)
(* cancels the timer that is running.                                      *)
ArmRetryDelay(t) ==
    /\ thread[t].pc = "handle"
    /\ thread[t].event.kind = "failed"
    /\ LET w == thread[t].event.worker IN
       /\ w \notin failedWorkers
       /\ failedWorkers' = failedWorkers \cup {w}
    /\ \/ /\ generation' = generation + 1
          /\ timer' = IF state = "RUNNING" THEN {generation + 1} ELSE {}
       \/ UNCHANGED retryVars
    /\ UNCHANGED <<queueVars, state, draining, sources, sourceState, thread, left, budget, escaped>>

HandlerReturns(t) ==
    /\ thread[t].pc = "handle"
    /\ thread' = [thread EXCEPT ![t] = [@ EXCEPT !.pc = "handled", !.event = NoEvent]]
    /\ UNCHANGED <<queueVars, state, draining, failedWorkers, retryVars, sources, sourceState,
                   left, budget, escaped>>

EventHandled(t) ==
    /\ thread[t].pc = "handled"
    /\ Resuming(t, sources, events, "loop")
    /\ UNCHANGED <<queueVars, state, draining, failedWorkers, retryVars, sourceState,
                   left, budget, escaped>>

(* A handler raises: the slot is given back.  Status watchers, timers and  *)
(* the admission pump then fail the query; the other callers of drain let  *)
(* the exception through, a submitter after it has closed its source.      *)
HandlerRaises(t) ==
    /\ thread[t].pc = "handle"
    /\ draining' = FALSE
    /\ \/ /\ t \notin Submitters
          /\ Resuming(t, sources, events, "fail")
          /\ UNCHANGED escaped
       \/ /\ t \notin Timers
          /\ Resuming(t, sources, events, IF t \in Submitters THEN "close" ELSE "idle")
          /\ escaped' = TRUE
    /\ UNCHANGED <<queueVars, state, failedWorkers, retryVars, sourceState, left, budget>>

-----------------------------------------------------------------------------
(* fail and close.                                                         *)

Fail(t, next) ==
    IF state \in {"CLOSED", "FAILED"}
    THEN /\ GoOn(t, {}, next)
         /\ UNCHANGED <<queueVars, state, timer, sources>>
    ELSE /\ state' = "FAILED"
         /\ events' = <<>>
         /\ pulses' = {}
         /\ timer' = {}
         /\ Resuming(t, sources, <<>>, next)

(* After an exception, from a scan of the pending tasks, and in a handler. *)
FailQuery(t) ==
    /\ \/ thread[t].pc = "fail" /\ Fail(t, "idle")
       \/ t \in Notifiers /\ thread[t].pc = "idle" /\ state = "RUNNING" /\ Fail(t, "idle")
       \/ thread[t].pc = "handle" /\ state = "RUNNING" /\ Fail(t, "handle")
    /\ UNCHANGED <<draining, failedWorkers, generation, sourceState, left, budget, escaped>>

(* drop_query closes the scheduler. *)
Close(t) ==
    /\ thread[t].pc = "idle"
    /\ state # "CLOSED"
    /\ state' = "CLOSED"
    /\ events' = <<>>
    /\ pulses' = {}
    /\ failedWorkers' = {}
    /\ timer' = {}
    /\ sources' = [s \in SourceIds |-> NoSource]
    /\ GoOn(t, {<<"resume", sources[s].owner>> : s \in {x \in SourceIds : sources[x].paused}}, "idle")
    /\ UNCHANGED <<draining, generation, sourceState, left, budget, escaped>>

-----------------------------------------------------------------------------
DrainStep(t) ==
    \/ DrainEnter(t)
    \/ PublishIdle(t)
    \/ PopEvent(t)
    \/ BeginEvent(t)
    \/ HandlerReturns(t)
    \/ HandlerRaises(t)
    \/ EventHandled(t)

(* What a thread that is in the middle of a call does next. *)
ThreadStep(t) ==
    \/ DrainStep(t)
    \/ \E what \in {"pause", "resume"}, s \in Submitters : RunCall(t, what, s)
    \/ thread[t].pc = "fail" /\ FailQuery(t)

SubmitterStep(t) ==
    \/ RegisterTaskSource(t)
    \/ NextEvent(t)
    \/ SubmitEvent(t)
    \/ EventSubmitted(t)
    \/ CloseTaskSource(t)

Next ==
    \/ \E t \in Threads :
          \/ ThreadStep(t)
          \/ FailQuery(t)
          \/ ArmRetryDelay(t)
          \/ \E e \in Notifications : HandlerEnqueues(t, e)
    \/ \E t \in Submitters : SubmitterStep(t)
    \/ \E t \in Notifiers :
          \/ \E e \in Notifications : Notify(t, e)
          \/ Close(t)
    \/ \E t \in Timers, g \in timer : FireRetryDelay(t, g)

Spec == Init /\ [][Next]_vars

(* Threads finish the calls they are in, and a timer that is not cancelled *)
(* fires.  Nothing has to happen otherwise.                                *)
ThreadsGoOn ==
    \/ \E t \in Threads : ThreadStep(t)
    \/ \E t \in Submitters : SubmitterStep(t)
    \/ \E t \in Timers, g \in timer : FireRetryDelay(t, g)

Fairness == WF_vars(ThreadsGoOn)

FairSpec == Spec /\ Fairness

-----------------------------------------------------------------------------
(* Properties.                                                             *)

Loop == {"loop", "begin", "handle", "handled"}
At(t, S) == thread[t].pc \in S \/ (thread[t].pc = "calls" /\ thread[t].then \in S)

(* "Event handlers perform the concrete mutations, but only while this     *)
(* scheduler owns the query's single writer slot": no two threads are in   *)
(* the drain loop, and _draining is set exactly while one is, also when    *)
(* handlers raise, fail the query or close it.                             *)
SingleWriter ==
    /\ \A t, u \in Threads : At(t, Loop) /\ At(u, Loop) => t = u
    /\ draining <=> \E t \in Threads : At(t, Loop)

(* No wakeup is lost: while the query runs, a queued event always has a    *)
(* drainer or a thread that is still going to call drain (or to fail the   *)
(* query), however enqueue, drain and the end of the drain loop interleave *)
(* - unless a handler's exception was handed to a caller.  Nor is a pulse  *)
(* dropped for one that is no longer there: the set that coalesces pulses  *)
(* says exactly which are queued, and a class is queued once.              *)
NoLostEvent ==
    /\ events # <<>> /\ state = "RUNNING" =>
        \/ draining
        \/ escaped
        \/ \E t \in Threads : At(t, DrainCalls \cup {"register", "next", "submit", "submitted", "fail"})
    /\ pulses = Pulses(events)
    /\ \A i, j \in DOMAIN events : events[i] = events[j] /\ events[i].kind = "pulse" => i = j

(* The queue is worked off while the query runs: queued events are         *)
(* handled, or dropped with the query.                                     *)
QueueDrains == events # <<>> ~> events = <<>> \/ escaped \/ state # "RUNNING"

(* The newest retry delay reaches its handler, however late its timer is   *)
(* and whatever delay was armed before, while the query runs.              *)
RetryDelayHandled ==
    \A g \in 1 .. Cardinality(WorkerIds) :
        generation = g /\ timer # {} ~>
            \/ generation > g
            \/ state # "RUNNING"
            \/ escaped
            \/ \E t \in Threads : thread[t].pc = "handle" /\ thread[t].event = RetryDelayExpired(g)

=============================================================================
