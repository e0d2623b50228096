------------------------- MODULE FteHashSplitAssigner -------------------------
(***************************************************************************)
(* HashSplitAssigner: a split of a partitioned source goes to the task      *)
(* partition of its source partition, a split of a replicated source to     *)
(* all of them.  make_hash_task_partition_mapping gives every task          *)
(* partition a range of source partitions, with no sub partitions.          *)
(***************************************************************************)
EXTENDS Integers, Sequences, FiniteSetsExt

CONSTANTS
    PartitionedSources,
    ReplicatedSources,
    Splits,         \* [source, partition] of every split, by its id
    MaxCount,       \* bound: source partitions and tasks
    MaxBatch        \* bound: splits of one assign call

Sources == PartitionedSources \cup ReplicatedSources
Ids == DOMAIN Splits

(* What is assumed of the constants.                                      *)
SplitsWellFormed ==
    /\ Sources # {} /\ PartitionedSources \cap ReplicatedSources = {}
    /\ \A s \in Ids : Splits[s].source \in Sources /\ Splits[s].partition \in Nat
    /\ MaxCount \in Nat

VARIABLES
    count,          \* _source_partition_count
    taskCount,      \* exchange_source_task_count
    parts,          \* the created task partitions, each with its descriptor
    completed,      \* _completed_sources
    given           \* the splits assigned so far

vars == <<count, taskCount, parts, completed, given>>

(* The source partition count exceeds every source partition id seen. *)
Init ==
    /\ count \in 1 .. MaxCount
    /\ \A s \in Ids : Splits[s].partition < count
    /\ taskCount \in 0 .. MaxCount
    /\ parts = <<>>
    /\ completed = {}
    /\ given = {}

-----------------------------------------------------------------------------
SourceTaskCount ==
    IF taskCount <= 0 THEN count ELSE IF taskCount < count THEN taskCount ELSE count

(* Mutant: ranges of equal length, the rest left out. *)
SourcePartitionsRoundedDown(t) == t * (count \div SourceTaskCount) .. (t + 1) * (count \div SourceTaskCount) - 1

(* The source partitions of task partition t. *)
SourcePartitions(t) == (t * count) \div SourceTaskCount .. ((t + 1) * count) \div SourceTaskCount - 1

(* ensure_ids numbers the task partitions in the order of their ranges; a   *)
(* source partition in no range has one of its own.                         *)
Uncovered == {n \in 0 .. count - 1 : \A t \in 0 .. SourceTaskCount - 1 : n \notin SourcePartitions(t)}
Groups == {SourcePartitions(t) : t \in 0 .. SourceTaskCount - 1} \cup {{n} : n \in Uncovered}
Ordered ==
    LET ranges == Groups \ {{}}
    IN CHOOSE q \in Bijection(1 .. Cardinality(ranges), ranges) :
            \A i, j \in DOMAIN q : i < j => Min(q[i]) < Min(q[j])

NewPartition(i) ==
    [of |-> Ordered[i], copies |-> [s \in Ids |-> 0], ready |-> FALSE,
     noMore |-> {}, seals |-> 0, rejected |-> FALSE]

WithSplits(p, S) ==
    [p EXCEPT !.copies = [s \in Ids |-> IF s \in S THEN p.copies[s] + 1 ELSE p.copies[s]],
              !.rejected = @ \/ \E s \in S : Splits[s].source \in p.noMore,
              !.ready = @ \/ \E s \in S : Splits[s].source \in PartitionedSources]

Takes(p, s) ==
    Splits[s].source \in ReplicatedSources \/ Splits[s].partition \in p.of

Closed(p, source, done) ==
    [p EXCEPT !.noMore = IF source \in done THEN @ \cup {source} ELSE @,
              !.seals = IF Sources \subseteq done THEN @ + 1 ELSE @]

(* assign; the partitions are created by the first call. *)
Assign(source, new, last) ==
    LET done == IF last THEN completed \cup {source} ELSE completed
        ps == IF parts = <<>> THEN [i \in DOMAIN Ordered |-> NewPartition(i)] ELSE parts
        With(p) == WithSplits(p, {s \in new : Takes(p, s)})
    IN /\ source \notin completed
       /\ parts' = [i \in DOMAIN ps |-> Closed(With(ps[i]), source, done)]
       /\ completed' = done
       /\ given' = given \cup new
       /\ UNCHANGED <<count, taskCount>>

(* The callers end a source once, and send it nothing afterwards. *)
Next ==
    \E source \in Sources, last \in BOOLEAN :
    \E new \in SUBSET {s \in Ids \ given : Splits[s].source = source} :
        /\ Cardinality(new) <= MaxBatch
        /\ new # {} \/ last
        /\ Assign(source, new, last)

Spec == Init /\ [][Next]_vars

-----------------------------------------------------------------------------
(* Properties.                                                             *)

(* Rows of the same hash bucket meet, whatever source they come from: a
   split of a partitioned source is once in the one partition its bucket
   belongs to; a replicated one is once in every partition. *)
EverySplitDelivered ==
    \A s \in given :
        IF Splits[s].source \in ReplicatedSources
        THEN \A i \in DOMAIN parts : parts[i].copies[s] = 1
        ELSE \A i \in DOMAIN parts :
                parts[i].copies[s] = IF Splits[s].partition \in parts[i].of THEN 1 ELSE 0

(* Each source partition belongs to one task partition, there are as many
   task partitions as asked for, capped by the source partitions, and no
   two differ in size by more than one. *)
MappingBalanced ==
    parts # <<>> =>
        /\ \A n \in 0 .. count - 1 : Cardinality({i \in DOMAIN parts : n \in parts[i].of}) = 1
        /\ Len(parts) = IF taskCount \in 1 .. count THEN taskCount ELSE count
        /\ \A i, j \in DOMAIN parts : Cardinality(parts[i].of) - Cardinality(parts[j].of) <= 1

(* Every partition, the ones without a split too, is sealed once, when all
   sources have ended, and its descriptor refuses no split, in whatever
   order they end. *)
SealedAtTheEnd ==
    \A i \in DOMAIN parts :
        /\ parts[i].seals = IF completed = Sources THEN 1 ELSE 0
        /\ ~parts[i].rejected

=============================================================================
