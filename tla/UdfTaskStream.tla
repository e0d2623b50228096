---------------------------- MODULE UdfTaskStream ----------------------------
(***************************************************************************)
(* The streams of blocks that the tasks of one Ray UDF executor return:    *)
(* TaskAdmissionController (duckdb/execution/udf_task_admission.py), the   *)
(* TaskLeaseObjectRefGenerator and the RayStreamAdapter                    *)
(* (ray_stream_adapter.py), AsyncResultCollector                           *)
(* (udf_stream_result_collector.py), and the tables of lease requests that *)
(* the driver keeps for them (duckdb/runners/ray/driver.py).               *)
(*                                                                         *)
(* Three threads run on the worker: the dispatcher (C++, one thread for    *)
(* the commands of a slot), the collector's event loop and Ray's           *)
(* callbacks.  The driver is an actor in another process; calls to it are  *)
(* one-way messages and arrive in the order in which they were sent.       *)
(*                                                                         *)
(* Submission r of the executor is the r-th request of its admission       *)
(* controller; block <<r, k>> is the k-th block that its task yields.      *)
(***************************************************************************)
EXTENDS Naturals, Sequences, FiniteSets, SequencesExt

CONSTANTS
    Sizes,          \* Sizes[r]: the sizes of the blocks of submission r
    Room,           \* the most that the operator downstream has room for
    Scenarios,      \* which submissions there are, and what may happen to them
    Preemptive      \* the dispatcher may run inside _accept_metadata

Streams == DOMAIN Sizes
Blocks == UNION {{r} \X DOMAIN Sizes[r] : r \in Streams}
SizeOf(b) == Sizes[b[1]][b[2]]

Fates == {"returns", "raises", "dies"}

ASSUME StreamAssumption ==
    /\ \A r \in Streams : Sizes[r] # <<>> /\ \A k \in DOMAIN Sizes[r] : Sizes[r][k] > 0
    /\ \A s \in Scenarios :
        /\ s.first \in Streams /\ s.last \in Streams
        /\ s.fates \in [Streams -> SUBSET Fates]              \* how the remote tasks may end
        /\ s.stalls \in BOOLEAN                                \* downstream may have no room for a while
        /\ s.handoffs \in BOOLEAN                              \* downstream may pass blocks on to other processes
        /\ s.teardowns \in BOOLEAN                             \* the pipeline may be torn down early
        /\ s.query_ends \in BOOLEAN                            \* the driver may close the query early
    /\ Room.rows \in Nat /\ Room.bytes \in Nat /\ Room.item_bytes \in Nat

VARIABLES
    scenario,       \* one of them
    \* TaskAdmissionController
    state,          \* _state
    seq,            \* _sequence
    \* the remote tasks (external)
    fate,           \* how each task will end
    made,           \* the objects that its generator yields, two a block
    over,           \* the tasks that have ended
    \* AsyncResultCollector
    rec,            \* the _StreamRecord of each submission
    futures,        \* the futures that a callback is installed on
    loop,           \* the callback that the event loop is in
    ready,          \* _ready_by_slot of this slot
    capacity,       \* _capacity_by_slot of this slot
    tokens,         \* the keys of _active_output_leases
    handed,         \* the tokens with handed_off
    cancelled,      \* the slot is in _cancelled_slots
    shutdown,       \* _shutdown
    adapters,       \* the adapters that are not retired
    \* the dispatcher and the operators downstream (external)
    dispatcher,     \* where cancel_slot or shutdown has got to
    held,           \* the blocks whose descriptors live downstream
    delivered,      \* what was drained of each submission
    aborted,        \* abort_requested: the slot has an error
    \* the driver
    channel,        \* calls on their way to it
    tasks,          \* _query_task_lease_requests and the tombstones
    outputs,        \* _query_output_lease_requests and the tombstones
    taskAnswers,    \* the results of their futures: "none" while pending or taken
    outputAnswers,
    taskLeases,     \* the leases that the resource manager has granted
    outputLeases,
    closing         \* the query is in _query_resource_closing_queries

admissionVars == <<state, seq>>
remoteVars == <<scenario, fate, made, over>>
collectorVars == <<rec, futures, loop, ready, capacity, tokens, handed, cancelled, shutdown, adapters>>
dispatcherVars == <<dispatcher, held, delivered, aborted>>
driverVars == <<tasks, outputs, taskAnswers, outputAnswers, taskLeases, outputLeases, closing>>
vars == <<admissionVars, remoteVars, collectorVars, dispatcherVars, channel, driverVars>>

Idle == [pc |-> "idle"]
NoCapacity == [rows |-> 0, bytes |-> 0, item_bytes |-> 0]
NewRecord == [in |-> FALSE, phase |-> "block", read |-> 0, block |-> 0, metadata |-> 0, terminal |-> FALSE,
              lease |-> FALSE, request |-> 0, item |-> 0, wait |-> 0, waits |-> 0, completion |-> FALSE, completed |-> FALSE]

Send(msgs) == channel' = channel \o msgs
Message(op, x) == [op |-> op, of |-> x]
Cancel(r, submitted) == [op |-> "cancel_task", of |-> r, submitted |-> submitted]
ReleaseAll(bs) == [i \in DOMAIN bs |-> Message("release_output", bs[i])]

-----------------------------------------------------------------------------
(* The admission controller: one request of lookahead.                     *)

(* request, by the dispatcher.                                             *)
Request ==
    /\ dispatcher.pc = "idle" /\ ~aborted /\ ~cancelled /\ ~shutdown
    /\ state = "idle" /\ seq + 1 <= scenario.last
    /\ state' = "requested" /\ seq' = seq + 1
    /\ Send(<<Message("acquire_task", seq + 1)>>)
    /\ UNCHANGED <<remoteVars, collectorVars, dispatcherVars, driverVars>>

(* _finish_request, on Ray's callback thread.  A grant that nobody waits   *)
(* for any more is given back.                                             *)
FinishRequest(r) ==
    LET current == state = "requested" /\ seq = r
        granted == taskAnswers[r] = "granted"
    IN /\ taskAnswers[r] # "none"
       /\ taskAnswers' = [taskAnswers EXCEPT ![r] = "none"]
       /\ state' = IF ~current THEN state ELSE IF granted THEN "ready" ELSE "failed"
       /\ Send(IF granted /\ ~current THEN <<Cancel(r, FALSE)>> ELSE <<>>)
       /\ UNCHANGED <<seq, remoteVars, collectorVars, dispatcherVars, tasks, outputs, outputAnswers, taskLeases,
                      outputLeases, closing>>

(* Mutant: only a request that is unanswered is cancelled.                  *)
CloseForgetsReady ==
    /\ dispatcher.pc = "idle" /\ state # "closed" /\ (cancelled \/ shutdown)
    /\ state' = "closed"
    /\ Send(IF state = "requested" THEN <<Cancel(seq, FALSE)>> ELSE <<>>)
    /\ UNCHANGED <<seq, remoteVars, collectorVars, dispatcherVars, driverVars>>

(* close, by the dispatcher after cancel_slot or when all is done.         *)
Close ==
    /\ dispatcher.pc = "idle" /\ state # "closed" /\ (cancelled \/ shutdown)
    /\ state' = "closed"
    /\ Send(IF state \in {"requested", "ready"} THEN <<Cancel(seq, FALSE)>> ELSE <<>>)
    /\ UNCHANGED <<seq, remoteVars, collectorVars, dispatcherVars, driverVars>>

-----------------------------------------------------------------------------
(* What a record waits for next.                                           *)

StreamFinished(r) == r \in over /\ rec[r].read = made[r]

DataOf(events) == SelectSeq(events, LAMBDA e : e.kind = "data")
PendingData(R, q) == Len(DataOf(q)) + Cardinality({r \in Streams : R[r].in /\ R[r].phase # "block"})
MayRead(R, q, c) == c.rows > PendingData(R, q) /\ c.bytes > 0 /\ c.item_bytes > 0

(* Mutant: metadata is only read with room for a block.                     *)
WaitKindWithRoom(R, q, c, r) ==
    CASE R[r].terminal -> "terminal"
      [] R[r].lease -> "output_lease"
      [] R[r].metadata # 0 -> "metadata"
      [] R[r].phase \in {"block", "metadata"} /\ MayRead(R, q, c) -> "data"
      [] OTHER -> "none"

(* _schedule_record_wait_locked.                                           *)
WaitKind(R, q, c, r) ==
    CASE R[r].terminal -> "terminal"
      [] R[r].lease -> "output_lease"
      [] R[r].metadata # 0 -> "metadata"
      [] R[r].phase = "metadata" \/ (R[r].phase = "block" /\ MayRead(R, q, c)) -> "data"
      [] OTHER -> "none"

(* The part of the collector's state that its lock guards, with the calls  *)
(* to the driver that a step makes.                                        *)
Now == [rec |-> rec, futures |-> futures, ready |-> ready, tokens |-> tokens, adapters |-> adapters, send |-> <<>>]

Publish(result) ==
    \E S \in {result} :
        /\ rec' = S.rec /\ futures' = S.futures /\ ready' = S.ready /\ tokens' = S.tokens /\ adapters' = S.adapters
        /\ Send(S.send)

(* _refresh_waiters: every record that waits for nothing gets its next     *)
(* wait; the item limit of a block is the one under which it is read.      *)
Refreshed(S, c) ==
    LET kind(r) == WaitKind(S.rec, S.ready, c, r)
        waiting == {r \in Streams : S.rec[r].in /\ S.rec[r].wait = 0 /\ kind(r) # "none"}
        unwatched == {r \in Streams : S.rec[r].in /\ ~S.rec[r].completed /\ ~S.rec[r].completion}
        reading == {r \in waiting : kind(r) = "data" /\ S.rec[r].phase = "block"}
    IN [S EXCEPT
        !.rec = [r \in Streams |->
                    [S.rec[r] EXCEPT !.wait = IF r \in waiting THEN S.rec[r].waits + 1 ELSE @,
                                     !.waits = IF r \in waiting THEN @ + 1 ELSE @,
                                     !.item = IF r \in reading THEN c.item_bytes ELSE @,
                                     !.completion = @ \/ r \in unwatched]],
        !.futures = @ \cup {[of |-> r, kind |-> kind(r), n |-> S.rec[r].waits + 1] : r \in waiting}
                      \cup {[of |-> r, kind |-> "completion", n |-> 0] : r \in unwatched}]

PublishRefreshed(result, c) == \E S \in {result} : Publish(Refreshed(S, c))

(* submit_with_id: take the lease and start the task.  When the submission *)
(* fails the lease is given back; otherwise the source owns it and the     *)
(* collector tracks the stream (track_generator_ref).  The dispatcher's    *)
(* thread makes both calls and is the only one to cancel a slot or to shut *)
(* the collector down, so nothing of those comes between them.  What is    *)
(* left out is a collector whose event loop thread has died                *)
(* (_thread_error), for which track_generator_ref raises.                  *)
Submit(f) ==
    /\ dispatcher.pc = "idle" /\ ~aborted /\ ~cancelled /\ ~shutdown
    /\ state = "ready" /\ state' = "idle"
    /\ f \in scenario.fates[seq] /\ fate' = [fate EXCEPT ![seq] = f]
    /\ PublishRefreshed([Now EXCEPT !.rec[seq].in = TRUE, !.adapters = @ \cup {seq},
                                    !.send = <<Message("mark_submitted", seq)>>], capacity)
    /\ UNCHANGED <<scenario, seq, made, over, loop, capacity, handed, cancelled, shutdown, dispatcherVars,
                   driverVars>>

SubmitFails ==
    /\ scenario.teardowns
    /\ dispatcher.pc = "idle" /\ ~aborted /\ ~cancelled /\ ~shutdown
    /\ state = "ready" /\ state' = "idle" /\ aborted' = TRUE
    /\ Send(<<Cancel(seq, FALSE)>>)
    /\ UNCHANGED <<seq, remoteVars, collectorVars, dispatcher, held, delivered, driverVars>>

-----------------------------------------------------------------------------
(* The remote tasks (external): a generator yields a block and then its    *)
(* metadata, ahead of the reader.  A task that raises yields an error pair *)
(* in place of its last block and returns; a task that dies may do so      *)
(* after any object.                                                       *)

End(r) ==
    /\ fate[r] # "none" /\ r \notin over
    /\ over' = over \cup {r}
    /\ \E n \in rec[r].read .. made[r] :
        /\ fate[r] # "dies" => n = made[r]
        /\ made' = [made EXCEPT ![r] = n]
    /\ UNCHANGED <<admissionVars, scenario, fate, collectorVars, dispatcherVars, channel, driverVars>>

EndedWith(r, kinds) == \E e \in Range(delivered[r]) : e.kind \in kinds
IsErrorPair(r, k) == fate[r] = "raises" /\ k = Len(Sizes[r])

-----------------------------------------------------------------------------
(* The event loop of the collector.                                        *)

(* _fail_record, with the record as the caller has changed it.  The error  *)
(* takes the place of the blocks that were not drained; the task and their *)
(* leases are given back.  Nothing happens when the record was removed.    *)
Failed(S, r) ==
    LET mine(e) == e.of = r /\ e.kind = "data"
        undrained == SelectSeq(S.ready, mine)
        dropped == [i \in DOMAIN undrained |-> <<r, undrained[i].metadata>>]
        cancels == IF S.rec[r].lease THEN <<Message("cancel_output", <<r, S.rec[r].request>>)>> ELSE <<>>
    IN IF S.rec[r].in
       THEN [rec |-> [S.rec EXCEPT ![r].in = FALSE],
             futures |-> {f \in S.futures : f.of # r},
             ready |-> Append(SelectSeq(S.ready, LAMBDA e : ~mine(e)), [of |-> r, kind |-> "error"]),
             tokens |-> S.tokens \ Range(dropped),
             adapters |-> S.adapters \ {r},
             send |-> S.send \o cancels \o <<Cancel(r, TRUE)>> \o ReleaseAll(dropped)]
       ELSE S

(* Mutant: the end of the producer is enough.                               *)
MaybeCompletedEarly(S, r) ==
    IF S.rec[r].in /\ S.rec[r].completed /\ S.rec[r].phase = "block" /\ ~S.rec[r].lease
    THEN [S EXCEPT !.rec[r].in = FALSE,
                   !.futures = {f \in @ : f.of # r},
                   !.ready = Append(@, [of |-> r, kind |-> "complete"]),
                   !.adapters = @ \ {r},
                   !.send = Append(@, Message("release_task", r))]
    ELSE S

(* _maybe_complete_record: the stream is complete when the producer is,    *)
(* every object was read and every block has its lease.  Only then is the  *)
(* task's lease released.                                                  *)
MaybeCompleted(S, r) ==
    LET completes == /\ S.rec[r].in /\ S.rec[r].completed
                     /\ S.rec[r].phase = "block" /\ ~S.rec[r].lease /\ StreamFinished(r)
    IN IF completes
       THEN [S EXCEPT !.rec[r].in = FALSE,
                      !.futures = {f \in @ : f.of # r},
                      !.ready = Append(@, [of |-> r, kind |-> "complete"]),
                      !.adapters = @ \ {r},
                      !.send = Append(@, Message("release_task", r))]
       ELSE S

(* _finish_stream: the generator has no more objects.                      *)
Finished(S, r) ==
    IF S.rec[r].phase = "metadata" /\ S.rec[r].block # 0
    THEN Failed(S, r)
    ELSE MaybeCompleted([S EXCEPT !.rec[r].completed = TRUE], r)

(* _complete_record_wait, the part before the transition: a future that is *)
(* no longer the record's is ignored.  Reading the generator consumes an   *)
(* object; at its end it stops, or returns the completion reference of a   *)
(* task that died.                                                         *)
Resolved(f) ==
    CASE f.kind = "data" -> rec[f.of].read < made[f.of] \/ f.of \in over
      [] f.kind = "output_lease" -> outputAnswers[<<f.of, rec[f.of].request>>] # "none"
      [] OTHER -> TRUE

BeginWait(f) ==
    LET r == f.of
        object == f.kind = "data" /\ rec[r].read < made[r]
    IN /\ loop.pc = "idle" /\ f \in futures /\ f.kind # "completion" /\ Resolved(f)
       /\ ~shutdown
       /\ futures' = futures \ {f}
       /\ IF rec[r].in /\ rec[r].wait = f.n
          THEN /\ loop' = [pc |-> "transition", of |-> r, kind |-> f.kind, n |-> f.n,
                           pair |-> rec[r].metadata,
                           value |-> IF object THEN "object" ELSE IF fate[r] = "dies" THEN "terminal" ELSE "stop"]
               /\ rec' = IF object THEN [rec EXCEPT ![r].read = @ + 1] ELSE rec
          ELSE UNCHANGED <<loop, rec>>
       /\ UNCHANGED <<admissionVars, remoteVars, ready, capacity, tokens, handed, cancelled, shutdown, adapters,
                      dispatcherVars, channel, driverVars>>

InTransition(kind) == loop.pc = "transition" /\ loop.kind = kind

LoopGoesTo(pc) ==
    /\ loop' = [loop EXCEPT !.pc = pc]
    /\ UNCHANGED <<admissionVars, remoteVars, capacity, handed, cancelled, shutdown, dispatcherVars, driverVars>>

(* _accept_stream_ref: a block and a metadata reference alternate.  The    *)
(* reference that a task that died returns is its completion.              *)
AcceptStreamRef ==
    LET r == loop.of
        pair == (rec[r].read + 1) \div 2
    IN /\ InTransition("data")
       /\ Publish(
            CASE loop.value = "stop" -> Finished(Now, r)
              [] loop.value = "terminal" -> [Now EXCEPT !.rec[r].terminal = TRUE]
              [] loop.value = "object" /\ rec[r].phase = "block" ->
                    [Now EXCEPT !.rec[r].block = pair, !.rec[r].phase = "metadata"]
              [] loop.value = "object" /\ rec[r].phase = "metadata" -> [Now EXCEPT !.rec[r].metadata = pair]
              [] OTHER -> Failed(Now, r))
       /\ LoopGoesTo("finally")

(* The completion reference of a task that died raises.                    *)
AcceptTerminal ==
    /\ InTransition("terminal")
    /\ Publish(IF fate[loop.of] = "dies" THEN Failed(Now, loop.of) ELSE Finished(Now, loop.of))
    /\ LoopGoesTo("finally")

(* _accept_metadata, up to the fetch of the driver's handle.  The adapter  *)
(* of a cancelled record has no task lease any more.                       *)
AcceptMetadata ==
    LET r == loop.of
        S == [Now EXCEPT !.rec[r].metadata = 0]
        fails == \/ rec[r].phase # "metadata" \/ rec[r].block = 0
                 \/ IsErrorPair(r, loop.pair)
                 \/ r \notin adapters
                 \/ SizeOf(<<r, loop.pair>>) > rec[r].item
    IN /\ InTransition("metadata")
       /\ Publish(IF fails THEN Failed(S, r) ELSE S)
       /\ LoopGoesTo(IF fails THEN "finally" ELSE "acquire")

(* The rest of _accept_metadata: ask the driver for the block's lease.     *)
RequestOutputLease ==
    LET r == loop.of
    IN /\ loop.pc = "acquire"
       /\ Publish([Now EXCEPT !.rec[r].request = loop.pair, !.rec[r].lease = TRUE, !.rec[r].phase = "output_lease",
                              !.send = <<Message("acquire_output", <<r, loop.pair>>)>>])
       /\ LoopGoesTo("finally")

(* _finish_output_lease, up to the fetch of the driver's handle: it raises *)
(* when the lease was denied, and when the adapter was cancelled in the    *)
(* meantime and has no driver any more.                                    *)
FinishOutputLease ==
    LET r == loop.of
        fails == outputAnswers[<<r, rec[r].request>>] # "granted" \/ r \notin adapters
    IN /\ InTransition("output_lease")
       /\ Publish(IF fails THEN Failed(Now, r) ELSE Now)
       /\ LoopGoesTo(IF fails THEN "finally" ELSE "publish")

(* The rest of it: the block is published with its lease, or the lease     *)
(* goes back when the record was removed in the meantime.                  *)
PublishOutput ==
    LET r == loop.of
        b == <<r, rec[r].request>>
        event == [of |-> r, kind |-> "data", block |-> rec[r].block, metadata |-> rec[r].request]
        leased == [Now EXCEPT
                    !.rec[r].phase = "block", !.rec[r].block = 0, !.rec[r].item = 0,
                    !.rec[r].request = 0, !.rec[r].lease = FALSE,
                    !.ready = Append(@, event), !.tokens = @ \cup {b}]
    IN /\ loop.pc = "publish"
       /\ Publish(IF rec[r].in THEN MaybeCompleted(leased, r)
                                ELSE [Now EXCEPT !.send = <<Message("release_output", b)>>])
       /\ LoopGoesTo("finally")

(* The finally clause: only now may the record get another wait.           *)
EndWait ==
    LET S == IF rec[loop.of].wait = loop.n THEN [Now EXCEPT !.rec[loop.of].wait = 0] ELSE Now
    IN /\ loop.pc = "finally" /\ loop' = Idle
       /\ IF shutdown THEN Publish(S) ELSE PublishRefreshed(S, capacity)
       /\ UNCHANGED <<admissionVars, remoteVars, capacity, handed, cancelled, shutdown, dispatcherVars, driverVars>>

(* _complete_producer_wait, on the completion reference of the task.       *)
CompleteProducerWait(f) ==
    LET r == f.of
        S == [Now EXCEPT !.futures = @ \ {f}]
    IN /\ loop.pc = "idle" /\ f \in futures /\ f.kind = "completion" /\ r \in over /\ ~shutdown
       /\ PublishRefreshed(IF fate[r] = "dies"
                           THEN Failed(S, r)
                           ELSE MaybeCompleted([S EXCEPT !.rec[r].completed = TRUE, !.rec[r].completion = FALSE], r),
                           capacity)
       /\ UNCHANGED <<admissionVars, remoteVars, loop, capacity, handed, cancelled, shutdown, dispatcherVars,
                      driverVars>>

-----------------------------------------------------------------------------
(* The dispatcher, and the operators downstream of it.                     *)

BytesOf(events) == FoldLeft(LAMBDA n, e : n + SizeOf(<<e.of, e.metadata>>), 0, DataOf(events))

(* drain_results: events leave in order while the data fits.               *)
Drainable(c) ==
    {n \in 0..Len(ready) :
        LET data == DataOf(SubSeq(ready, 1, n))
        IN /\ Len(data) <= c.rows /\ BytesOf(data) <= c.bytes
           /\ \A e \in Range(data) : SizeOf(<<e.of, e.metadata>>) <= c.item_bytes}

Drain(c) ==
    LET events == SubSeq(ready, 1, CHOOSE n \in Drainable(c) : \A m \in Drainable(c) : m <= n)
        left == [c EXCEPT !.rows = @ - Len(DataOf(events)), !.bytes = @ - BytesOf(events)]
        of(r) == SelectSeq(events, LAMBDA e : e.of = r)
    IN /\ dispatcher.pc = "idle" /\ ~aborted /\ ~cancelled /\ ~shutdown
       /\ \E r \in Streams : fate[r] # "none" /\ ~EndedWith(r, {"complete", "error"})
       /\ capacity' = left
       /\ delivered' = [r \in Streams |-> delivered[r] \o of(r)]
       /\ held' = held \cup {<<e.of, e.metadata>> : e \in Range(DataOf(events))}
       /\ aborted' = \E e \in Range(events) : e.kind = "error"
       /\ PublishRefreshed([Now EXCEPT !.ready = SubSeq(@, Len(events) + 1, Len(@))], left)
       /\ UNCHANGED <<admissionVars, remoteVars, loop, handed, cancelled, shutdown, dispatcher, driverVars>>

(* handoff_output_block_lease and release_output_block_lease, for the      *)
(* descriptors that live downstream.                                       *)
Handoff(b) ==
    /\ scenario.handoffs /\ b \in held \cap tokens /\ b \notin handed
    /\ handed' = handed \cup {b}
    /\ Send(<<Message("handoff_output", b)>>)
    /\ UNCHANGED <<admissionVars, remoteVars, rec, futures, loop, ready, capacity, tokens, cancelled, shutdown, adapters,
                   dispatcherVars, driverVars>>

ReleaseBlock(b) ==
    /\ b \in held /\ held' = held \ {b}
    /\ tokens' = tokens \ {b}
    /\ Send(IF b \in tokens THEN <<Message("release_output", b)>> ELSE <<>>)
    /\ UNCHANGED <<admissionVars, remoteVars, rec, futures, loop, ready, capacity, handed, cancelled, shutdown, adapters,
                   dispatcher, delivered, aborted, driverVars>>

(* What cancel_slot and shutdown take out of the collector under its lock. *)
Records == SetToSortSeq({r \in Streams : rec[r].in}, LAMBDA a, b : a < b)
Emptied == [rec |-> [r \in Streams |-> [rec[r] EXCEPT !.in = FALSE, !.wait = 0]],
            futures |-> {}, ready |-> <<>>, tokens |-> {}, adapters |-> adapters, send |-> <<>>]

(* cancel_slot, when the slot has an error or its pipeline is torn down.   *)
(* A step of the event loop may come between any two of its parts.         *)
InAcceptMetadata == loop.pc \in {"transition", "acquire"} /\ loop.kind = "metadata"

CancelSlot ==
    /\ dispatcher.pc = "idle" /\ ~cancelled /\ ~shutdown
    /\ aborted \/ state = "failed" \/ scenario.teardowns
    /\ Preemptive \/ ~InAcceptMetadata
    /\ Publish(Emptied) /\ capacity' = NoCapacity
    /\ cancelled' = TRUE /\ aborted' = TRUE
    /\ dispatcher' = [pc |-> IF Records = <<>> THEN "release" ELSE "control",
                      records |-> Records, tokens |-> SetToSeq(tokens)]
    /\ UNCHANGED <<admissionVars, remoteVars, loop, handed, shutdown, held, delivered, driverVars>>

(* _cancel_record_control of the first record that is left.                *)
ControlCalls(r) == IF rec[r].lease THEN <<Message("cancel_output", <<r, rec[r].request>>)>> ELSE <<>>

CancelControl ==
    /\ dispatcher.pc = "control"
    /\ Send(ControlCalls(Head(dispatcher.records)))
    /\ dispatcher' = [dispatcher EXCEPT !.pc = "adapter"]
    /\ UNCHANGED <<admissionVars, remoteVars, collectorVars, held, delivered, aborted, driverVars>>

(* RayStreamAdapter.cancel of that record.                                 *)
CancelAdapter ==
    LET r == Head(dispatcher.records)
    IN /\ dispatcher.pc = "adapter"
       /\ adapters' = adapters \ {r}
       /\ Send(<<Cancel(r, TRUE)>>)
       /\ dispatcher' = [dispatcher EXCEPT !.pc = IF Len(dispatcher.records) = 1 THEN "release" ELSE "control",
                                           !.records = Tail(@)]
       /\ UNCHANGED <<admissionVars, remoteVars, rec, futures, loop, ready, capacity, tokens, handed, cancelled, shutdown,
                      held, delivered, aborted, driverVars>>

CancelRelease ==
    /\ dispatcher.pc = "release"
    /\ Send(ReleaseAll(dispatcher.tokens))
    /\ dispatcher' = [pc |-> "idle", records |-> <<>>, tokens |-> <<>>]
    /\ UNCHANGED <<admissionVars, remoteVars, collectorVars, held, delivered, aborted, driverVars>>

(* shutdown, when no slot is in use: the event loop is stopped and joined  *)
(* before what is left is given back.                                      *)
Shutdown ==
    /\ dispatcher.pc = "idle" /\ ~shutdown
    /\ cancelled \/ \A r \in Streams : fate[r] = "none" \/ EndedWith(r, {"complete", "error"})
    /\ Publish(Emptied) /\ capacity' = NoCapacity
    /\ shutdown' = TRUE
    /\ dispatcher' = [pc |-> "join", records |-> Records, tokens |-> SetToSeq(tokens)]
    /\ UNCHANGED <<admissionVars, remoteVars, loop, handed, cancelled, held, delivered, aborted, driverVars>>

Joined ==
    LET rs == dispatcher.records
    IN /\ dispatcher.pc = "join" /\ loop.pc = "idle"
       /\ adapters' = adapters \ Range(rs)
       /\ Send(FlattenSeq([i \in DOMAIN rs |-> ControlCalls(rs[i]) \o <<Cancel(rs[i], TRUE)>>])
               \o ReleaseAll(dispatcher.tokens))
       /\ dispatcher' = [pc |-> "idle", records |-> <<>>, tokens |-> <<>>]
       /\ UNCHANGED <<admissionVars, remoteVars, rec, futures, loop, ready, capacity, tokens, handed, cancelled, shutdown,
                      held, delivered, aborted, driverVars>>

-----------------------------------------------------------------------------
(* The driver's tables of requests.  A request that has ended leaves a     *)
(* tombstone ("closed").  Whether a pending request fits is up to the      *)
(* resource manager: it may be granted at any time.                        *)

Receives(op) == channel # <<>> /\ Head(channel).op = op
Handled == channel' = Tail(channel) /\ UNCHANGED <<admissionVars, remoteVars, collectorVars, dispatcherVars, closing>>
Subject == Head(channel).of

(* acquire_query_task_lease and acquire_query_output_block_lease.          *)
AcquireTask ==
    /\ Receives("acquire_task") /\ Handled
    /\ tasks' = [tasks EXCEPT ![Subject] = IF closing THEN @ ELSE "pending"]
    /\ taskAnswers' = [taskAnswers EXCEPT ![Subject] = IF closing THEN "denied" ELSE @]
    /\ UNCHANGED <<outputs, outputAnswers, taskLeases, outputLeases>>

AcquireOutput ==
    /\ Receives("acquire_output") /\ Handled
    /\ outputs' = [outputs EXCEPT ![Subject] = IF closing THEN @ ELSE "pending"]
    /\ outputAnswers' = [outputAnswers EXCEPT ![Subject] = IF closing THEN "denied" ELSE @]
    /\ UNCHANGED <<tasks, taskAnswers, taskLeases, outputLeases>>

(* _run_query_task_admission_pump grants one waiter.                       *)
GrantTask(r) ==
    /\ tasks[r] = "pending"
    /\ tasks' = [tasks EXCEPT ![r] = "granted"]
    /\ taskAnswers' = [taskAnswers EXCEPT ![r] = "granted"]
    /\ taskLeases' = taskLeases \cup {r}
    /\ UNCHANGED <<admissionVars, remoteVars, collectorVars, dispatcherVars, channel, outputs, outputAnswers,
                   outputLeases, closing>>

(* _run_query_output_admission_pump: a block of a task that has no lease   *)
(* any more is refused.                                                    *)
ResolveOutput(b) ==
    LET granted == b[1] \in taskLeases
    IN /\ outputs[b] = "pending"
       /\ outputs' = [outputs EXCEPT ![b] = IF granted THEN "granted" ELSE "closed"]
       /\ outputAnswers' = [outputAnswers EXCEPT ![b] = IF granted THEN "granted" ELSE "denied"]
       /\ outputLeases' = IF granted THEN outputLeases \cup {b} ELSE outputLeases
       /\ UNCHANGED <<admissionVars, remoteVars, collectorVars, dispatcherVars, channel, tasks, taskAnswers, taskLeases,
                      closing>>

(* mark_query_task_lease_submitted.                                        *)
MarkSubmitted ==
    /\ Receives("mark_submitted") /\ Handled
    /\ tasks' = [tasks EXCEPT ![Subject] = IF @ = "granted" THEN "submitted" ELSE @]
    /\ UNCHANGED <<outputs, taskAnswers, outputAnswers, taskLeases, outputLeases>>

(* cancel_query_task_lease_request and release_query_task_lease.           *)
CancelTask ==
    LET known == tasks[Subject] \in {"pending", "granted", "submitted"}
    IN /\ Receives("cancel_task") /\ Handled
       /\ tasks' = [tasks EXCEPT ![Subject] = IF known THEN "closed" ELSE @]
       /\ taskAnswers' = [taskAnswers EXCEPT ![Subject] = IF tasks[Subject] = "pending" THEN "denied" ELSE @]
       /\ taskLeases' = IF known THEN taskLeases \ {Subject} ELSE taskLeases
       /\ UNCHANGED <<outputs, outputAnswers, outputLeases>>

ReleaseTask ==
    LET leased == tasks[Subject] \in {"granted", "submitted"}
    IN /\ Receives("release_task") /\ Handled
       /\ tasks' = [tasks EXCEPT ![Subject] = IF leased THEN "closed" ELSE @]
       /\ taskLeases' = IF leased THEN taskLeases \ {Subject} ELSE taskLeases
       /\ UNCHANGED <<outputs, taskAnswers, outputAnswers, outputLeases>>

(* handoff_query_output_block_lease, release_query_output_block_lease and  *)
(* cancel_query_output_block_lease_request.                                *)
HandoffOutput ==
    /\ Receives("handoff_output") /\ Handled
    /\ outputs' = [outputs EXCEPT ![Subject] = IF @ = "granted" THEN "handed_off" ELSE @]
    /\ UNCHANGED <<tasks, taskAnswers, outputAnswers, taskLeases, outputLeases>>

ReleaseOutput ==
    LET leased == outputs[Subject] \in {"granted", "handed_off"}
    IN /\ Receives("release_output") /\ Handled
       /\ outputs' = [outputs EXCEPT ![Subject] = IF leased THEN "closed" ELSE @]
       /\ outputLeases' = IF leased THEN outputLeases \ {Subject} ELSE outputLeases
       /\ UNCHANGED <<tasks, taskAnswers, outputAnswers, taskLeases>>

CancelOutput ==
    LET known == outputs[Subject] \in {"pending", "granted", "handed_off"}
    IN /\ Receives("cancel_output") /\ Handled
       /\ outputs' = [outputs EXCEPT ![Subject] = IF known THEN "closed" ELSE @]
       /\ outputAnswers' = [outputAnswers EXCEPT ![Subject] = IF outputs[Subject] = "pending" THEN "denied" ELSE @]
       /\ outputLeases' = IF known THEN outputLeases \ {Subject} ELSE outputLeases
       /\ UNCHANGED <<tasks, taskAnswers, taskLeases>>

(* _close_query_resource_admission: the pending requests are refused and   *)
(* the tables of the query are emptied.                                    *)
CloseQuery ==
    /\ scenario.query_ends /\ ~closing /\ closing' = TRUE
    /\ taskAnswers' = [r \in Streams |-> IF tasks[r] = "pending" THEN "denied" ELSE taskAnswers[r]]
    /\ outputAnswers' = [b \in Blocks |-> IF outputs[b] = "pending" THEN "denied" ELSE outputAnswers[b]]
    /\ tasks' = [r \in Streams |-> "none"] /\ outputs' = [b \in Blocks |-> "none"]
    /\ UNCHANGED <<admissionVars, remoteVars, collectorVars, dispatcherVars, channel, taskLeases, outputLeases>>

(* _release_query_resources: the manager of the query and its leases go.   *)
ReleaseQuery ==
    /\ closing /\ taskLeases \cup {b[1] : b \in outputLeases} # {}
    /\ taskLeases' = {} /\ outputLeases' = {}
    /\ UNCHANGED <<admissionVars, remoteVars, collectorVars, dispatcherVars, channel, tasks, outputs, taskAnswers,
                   outputAnswers, closing>>

-----------------------------------------------------------------------------
Init ==
    /\ scenario \in Scenarios
    /\ state = "idle" /\ seq = scenario.first - 1
    /\ fate = [r \in Streams |-> "none"] /\ made = [r \in Streams |-> 2 * Len(Sizes[r])] /\ over = {}
    /\ rec = [r \in Streams |-> NewRecord] /\ futures = {} /\ loop = Idle /\ ready = <<>>
    /\ capacity = NoCapacity /\ tokens = {} /\ handed = {} /\ cancelled = FALSE /\ shutdown = FALSE /\ adapters = {}
    /\ dispatcher = [pc |-> "idle", records |-> <<>>, tokens |-> <<>>]
    /\ held = {} /\ delivered = [r \in Streams |-> <<>>] /\ aborted = FALSE
    /\ channel = <<>>
    /\ tasks = [r \in Streams |-> "none"] /\ outputs = [b \in Blocks |-> "none"]
    /\ taskAnswers = [r \in Streams |-> "none"] /\ outputAnswers = [b \in Blocks |-> "none"]
    /\ taskLeases = {} /\ outputLeases = {} /\ closing = FALSE

EventLoop ==
    \/ \E f \in futures : BeginWait(f) \/ CompleteProducerWait(f)
    \/ AcceptStreamRef \/ AcceptTerminal \/ AcceptMetadata \/ RequestOutputLease \/ FinishOutputLease
    \/ PublishOutput \/ EndWait

Driver ==
    \/ AcquireTask \/ AcquireOutput \/ MarkSubmitted \/ CancelTask \/ ReleaseTask
    \/ HandoffOutput \/ ReleaseOutput \/ CancelOutput

Cancelling == CancelControl \/ CancelAdapter \/ CancelRelease \/ Joined

Next ==
    \/ Request \/ Close \/ SubmitFails \/ CancelSlot \/ Shutdown \/ Cancelling
    \/ EventLoop \/ Driver \/ CloseQuery \/ ReleaseQuery
    \/ \E r \in Streams : FinishRequest(r) \/ End(r) \/ GrantTask(r)
    \/ \E f \in Fates : Submit(f)
    \/ Drain(Room) \/ (scenario.stalls /\ Drain(NoCapacity))
    \/ \E b \in Blocks : Handoff(b) \/ ReleaseBlock(b) \/ ResolveOutput(b)

(* The event loop, the driver's loop and the dispatcher keep running; the  *)
(* manager grants in the end; remote tasks end; an error tears the slot    *)
(* down; the operators downstream release what they consumed and make room. *)
Progress ==
    \/ EventLoop \/ Driver \/ Cancelling
    \/ (aborted \/ state = "failed") /\ CancelSlot
    \/ \E r \in Streams : FinishRequest(r) \/ End(r) \/ GrantTask(r)
    \/ \E b \in Blocks : ResolveOutput(b) \/ ReleaseBlock(b)

Spec == Init /\ [][Next]_vars /\ WF_vars(Progress) /\ WF_vars(Drain(Room))

-----------------------------------------------------------------------------
(* A lease that the driver has granted is known to somebody who will give  *)
(* it back: the controller, the stream or the collector, a teardown that   *)
(* has not got to it, or a call that is on its way.  Otherwise it stays    *)
(* charged to the query until the query ends.                              *)
Underway(ops, x) == \E i \in DOMAIN channel : channel[i].op \in ops /\ channel[i].of = x

TaskLeaseOwned(r) ==
    \/ r \in adapters
    \/ seq = r /\ state \in {"requested", "ready"}
    \/ taskAnswers[r] = "granted"
    \/ Underway({"cancel_task", "release_task"}, r)

OutputLeaseOwned(b) ==
    \/ b \in tokens \cup Range(dispatcher.tokens)
    \/ /\ rec[b[1]].lease /\ rec[b[1]].request = b[2]
       /\ rec[b[1]].in \/ b[1] \in Range(dispatcher.records)
    \/ Underway({"cancel_output", "release_output"}, b)

LeasesHaveOwners ==
    closing \/ ((\A r \in taskLeases : TaskLeaseOwned(r)) /\ (\A b \in outputLeases : OutputLeaseOwned(b)))

(* What the dispatcher drains of a stream, whatever the interleaving of    *)
(* callbacks, capacity changes and the completion of the task: its blocks  *)
(* in order, each once and with its own metadata, then one terminal event; *)
(* "complete" only after every block, an error only if the task failed or  *)
(* the query was closed.                                                   *)
StreamContract ==
    \A r \in Streams :
        LET events == delivered[r] \o SelectSeq(ready, LAMBDA e : e.of = r)
            data == DataOf(events)
        IN /\ \A i \in DOMAIN data : events[i] = data[i] /\ data[i].block = i /\ data[i].metadata = i
           /\ Len(events) <= Len(data) + 1
           /\ \A e \in Range(events) :
                /\ e.kind = "complete" => fate[r] = "returns" /\ Len(data) = Len(Sizes[r])
                /\ e.kind = "error" => fate[r] # "returns" \/ closing

(* A submitted stream is drained to its end, unless its slot is torn down. *)
StreamsEnd ==
    \A r \in Streams :
        fate[r] # "none" ~> (cancelled \/ shutdown \/ EndedWith(r, {"complete", "error"}))

=============================================================================
