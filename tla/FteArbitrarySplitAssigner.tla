----------------------- MODULE FteArbitrarySplitAssigner -----------------------
(***************************************************************************)
(* ArbitrarySplitAssigner: the splits of a fragment's partitioned sources   *)
(* are packed into partitions by host and size, those of its replicated     *)
(* sources go to every partition.                                           *)
(*                                                                         *)
(* A partition is kept with what its task descriptor has been told.         *)
(* make_fte_assigner leaves the largest target size at its default, the     *)
(* smallest one, so _grow_target_if_needed never changes the target, and    *)
(* sets no catalog.                                                         *)
(***************************************************************************)
EXTENDS Integers, Sequences, FiniteSetsExt

CONSTANTS
    PartitionedSources,
    ReplicatedSources,
    Splits,         \* [source, size, addresses, remote] of every split, by its id
    Target,         \* target size of a partition in bytes
    MaxTaskSplits,  \* max_task_split_count
    MaxBatch        \* bound: splits of one assign call

Sources == PartitionedSources \cup ReplicatedSources
Ids == DOMAIN Splits

(* What is assumed of the constants.                                      *)
SplitsWellFormed ==
    /\ Sources # {} /\ PartitionedSources \cap ReplicatedSources = {}
    /\ \A s \in Ids : Splits[s].source \in Sources
    /\ \A s \in Ids : /\ Splits[s].addresses \in Seq(Range(Splits[s].addresses))
                      /\ Splits[s].remote \in BOOLEAN
                      /\ Splits[s].remote \/ Splits[s].addresses # <<>>
                      /\ Splits[s].size \in Nat
    /\ Target \in Nat \ {0} /\ MaxTaskSplits \in Nat \ {0} /\ MaxBatch \in Nat

VARIABLES
    parts,          \* _all_assignments, each with its descriptor
    completed,      \* _completed_sources
    given,          \* the splits assigned so far
    finished        \* _finished

vars == <<parts, completed, given, finished>>

NoHost == "none"

Init ==
    /\ parts = <<>>
    /\ completed = {}
    /\ given = {}
    /\ finished = FALSE

-----------------------------------------------------------------------------
(* Placement.                                                              *)

OpenFor(ps, host, remote) ==
    {i \in DOMAIN ps : ps[i].open /\ ps[i].host = host /\ ps[i].remote = remote}

Rank(ps, address) ==
    LET flex == OpenFor(ps, address, TRUE)
        rigid == OpenFor(ps, address, FALSE)
        bytes(open) == IF open = {} THEN 0 ELSE ps[Min(open)].bytes
    IN IF flex \cup rigid = {} THEN -1 ELSE bytes(flex) + bytes(rigid)

(* The first of the addresses with the least rank. *)
HostOf(ps, s) ==
    LET addresses == Splits[s].addresses
        least == {k \in DOMAIN addresses :
                    \A j \in DOMAIN addresses : Rank(ps, addresses[k]) <= Rank(ps, addresses[j])}
    IN IF addresses = <<>> THEN NoHost ELSE addresses[Min(least)]

-----------------------------------------------------------------------------
(* The updates of one partition.                                           *)

ReplicatedSplits == {s \in given : Splits[s].source \in ReplicatedSources}

NewPartition(host, remote, done) ==
    [host |-> host, remote |-> remote, bytes |-> 0, count |-> 0, full |-> FALSE, open |-> TRUE,
     copies |-> [s \in Ids |-> IF s \in ReplicatedSplits THEN 1 ELSE 0],
     noMore |-> ReplicatedSources \cap done, seals |-> 0, rejected |-> FALSE]

(* A split for a source the descriptor has closed is refused. *)
WithSplits(p, S) ==
    [p EXCEPT !.copies = [s \in Ids |-> IF s \in S THEN p.copies[s] + 1 ELSE p.copies[s]],
              !.rejected = @ \/ \E s \in S : Splits[s].source \in p.noMore]

(* Mutant: a full partition is closed and sealed although replicated       *)
(* splits may come. *)
FilledForGood(p) ==
    [p EXCEPT !.full = TRUE, !.open = FALSE, !.noMore = Sources, !.seals = @ + 1]

(* A partition that takes no more: sealed unless replicated splits may come. *)
Filled(p) ==
    [p EXCEPT !.full = TRUE, !.open = FALSE, !.noMore = @ \cup PartitionedSources,
              !.seals = IF ReplicatedSources \subseteq completed THEN @ + 1 ELSE @]

(* The split that a partition is chosen for, with assign_split. *)
Taking(p, s) == [WithSplits(p, {s}) EXCEPT !.bytes = @ + Splits[s].size, !.count = @ + 1]

Overflows(p, s) ==
    \/ p.bytes + Splits[s].size > Target
    \/ p.count + 1 > MaxTaskSplits

(* One turn of the loop of _assign_partitioned_splits. *)
Place(ps, s) ==
    LET host == HostOf(ps, s)
        open == OpenFor(ps, host, Splits[s].remote)
        fits == {i \in open : ~Overflows(ps[i], s)}
        qs == [i \in DOMAIN ps |-> IF i \in open \ fits THEN Filled(ps[i]) ELSE ps[i]]
        rs == IF fits = {} THEN Append(qs, NewPartition(host, Splits[s].remote, completed)) ELSE qs
        i == IF fits = {} THEN Len(rs) ELSE Min(fits)
    IN [rs EXCEPT ![i] = Taking(rs[i], s)]

(* The whole loop: the partitions after each split of the batch. *)
PlaceAll(batch) ==
    LET after[n \in 0 .. Len(batch)] == IF n = 0 THEN parts ELSE Place(after[n - 1], batch[n])
    IN after[Len(batch)]

-----------------------------------------------------------------------------
(* assign.                                                                 *)

(* _finish_if_all_sources_completed; a fragment without splits of its      *)
(* partitioned sources gets one partition.  new: the splits of this call.  *)
FinishedParts(ps, new) ==
    IF ps = <<>>
    THEN <<[NewPartition(NoHost, TRUE, Sources) EXCEPT !.open = FALSE, !.noMore = Sources, !.seals = 1,
               !.copies = [s \in Ids |-> IF s \in new \cup ReplicatedSplits THEN 1 ELSE 0]]>>
    ELSE [i \in DOMAIN ps |->
            IF ps[i].open
            THEN [ps[i] EXCEPT !.open = FALSE, !.noMore = @ \cup PartitionedSources, !.seals = @ + 1]
            ELSE ps[i]]

(* Mutant: the splits go to the open partitions only. *)
ReplicateToOpen(source, new, done) ==
    [i \in DOMAIN parts |->
        LET p == IF parts[i].open THEN WithSplits(parts[i], new) ELSE parts[i]
        IN [p EXCEPT !.noMore = IF source \in done THEN @ \cup {source} ELSE @,
                     !.seals = IF p.full /\ ReplicatedSources \subseteq done THEN @ + 1 ELSE @]]

(* _assign_replicated_splits; done: the completed sources after the call. *)
Replicate(source, new, done) ==
    [i \in DOMAIN parts |->
        LET p == WithSplits(parts[i], new)
        IN [p EXCEPT !.noMore = IF source \in done THEN @ \cup {source} ELSE @,
                     !.seals = IF p.full /\ ReplicatedSources \subseteq done THEN @ + 1 ELSE @]]

Assign(source, batch, last) ==
    LET done == IF last THEN completed \cup {source} ELSE completed
        ps == IF source \in ReplicatedSources THEN Replicate(source, Range(batch), done)
              ELSE PlaceAll(batch)
        all == Sources \subseteq done
    IN /\ ~finished
       /\ source \notin completed
       /\ parts' = IF all THEN FinishedParts(ps, Range(batch)) ELSE ps
       /\ completed' = done
       /\ given' = given \cup Range(batch)
       /\ finished' = all

(* The callers end a source once, and send it nothing afterwards. *)
Next ==
    \E source \in Sources, last \in BOOLEAN, n \in 0 .. MaxBatch :
    \E batch \in Injection(1 .. n, {s \in Ids \ given : Splits[s].source = source}) :
        /\ n > 0 \/ last
        /\ Assign(source, batch, last)

Spec == Init /\ [][Next]_vars

-----------------------------------------------------------------------------
(* Properties.                                                             *)

(* No row is lost or read twice: a split of a partitioned source is in one
   partition, once, and a split of a replicated source is once in every
   partition, those opened after it came and those full before included. *)
EverySplitDelivered ==
    \A s \in given :
        IF Splits[s].source \in ReplicatedSources
        THEN \A i \in DOMAIN parts : parts[i].copies[s] = 1
        ELSE \E i \in DOMAIN parts :
                parts[i].copies[s] = 1 /\ \A j \in DOMAIN parts \ {i} : parts[j].copies[s] = 0

(* A partition is sealed when every source is closed for it: as soon as it
   is full and the replicated sources are complete, at the latest when all
   sources are, and never twice.  No source is closed too early: no
   descriptor refuses a split ("already marked no_more_splits"). *)
SealedInTime ==
    \A i \in DOMAIN parts :
        /\ parts[i].seals = IF parts[i].noMore = Sources THEN 1 ELSE 0
        /\ finished => parts[i].seals = 1
        /\ ~parts[i].rejected

(* A partition with more than one split keeps to the target size and to the
   number of splits of a task. *)
PartitionsKeepToTarget ==
    \A i \in DOMAIN parts :
        parts[i].count > 1 => parts[i].bytes <= Target /\ parts[i].count <= MaxTaskSplits

(* A split goes to a partition on one of its hosts, also after ranks have
   changed within a call; one that must be read locally shares it with
   none that need not. *)
PlacedOnOwnHost ==
    \A i \in DOMAIN parts, s \in given :
        Splits[s].source \in PartitionedSources /\ parts[i].copies[s] > 0 =>
            /\ Splits[s].addresses # <<>> => parts[i].host \in Range(Splits[s].addresses)
            /\ parts[i].remote = Splits[s].remote

=============================================================================
