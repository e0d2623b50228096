------------------------- MODULE MCFteComponents -------------------------
(***************************************************************************)
(* Safety of the components of a fragment that never meet: the two          *)
(* implementations of SplitAssigner that make_fte_assigner chooses from, on *)
(* the scheduler, and the task manager of a worker.  kind says which one    *)
(* the behaviour is of; the variables of the others stay as they are.       *)
(***************************************************************************)
EXTENDS FteWorkerTaskManager

VARIABLES
    kind,       \* the component of this behaviour: "arbitrary", "hash" or "worker"
    aParts, aCompleted, aGiven, aFinished,
    hCount, hTaskCount, hParts, hCompleted, hGiven

aVars == <<aParts, aCompleted, aGiven, aFinished>>
hVars == <<hCount, hTaskCount, hParts, hCompleted, hGiven>>

Split(source, size, addresses, remote) ==
    [source |-> source, size |-> size, addresses |-> addresses, remote |-> remote]

(* Two sources of each kind.  Splits on two hosts, some of which must be    *)
(* read there, one larger than a partition may be; small ones without a     *)
(* host that reach the limit of the count.                                  *)
ArbitrarySplits ==
    <<Split("scan1", 1, <<"h1", "h2">>, TRUE), Split("scan2", 1, <<"h2", "h1">>, TRUE),
      Split("scan1", 3, <<"h1">>, FALSE), Split("scan1", 0, <<>>, TRUE),
      Split("scan2", 0, <<>>, TRUE), Split("scan1", 1, <<>>, TRUE),
      Split("dim1", 1, <<>>, TRUE), Split("dim2", 1, <<>>, TRUE)>>

Arbitrary == INSTANCE FteArbitrarySplitAssigner WITH
    PartitionedSources <- {"scan1", "scan2"}, ReplicatedSources <- {"dim1", "dim2"}, Splits <- ArbitrarySplits,
    Target <- 2, MaxTaskSplits <- 2, MaxBatch <- 2,
    parts <- aParts, completed <- aCompleted, given <- aGiven, finished <- aFinished

ASSUME ArbitraryAssumption == Arbitrary!SplitsWellFormed

(* Two joined exchanges and a replicated one. *)
HashSplits ==
    <<[source |-> "left", partition |-> 0], [source |-> "left", partition |-> 1],
      [source |-> "right", partition |-> 1], [source |-> "right", partition |-> 0],
      [source |-> "dim", partition |-> 0]>>

Hash == INSTANCE FteHashSplitAssigner WITH
    PartitionedSources <- {"left", "right"}, ReplicatedSources <- {"dim"}, Splits <- HashSplits,
    MaxCount <- 5, MaxBatch <- 2,
    count <- hCount, taskCount <- hTaskCount, parts <- hParts, completed <- hCompleted, given <- hGiven

ASSUME HashAssumption == Hash!SplitsWellFormed

(* Three tasks of two queries, the third as large as the worker.            *)
MCTasks == {"t1", "t2", "t3"}
MCQueryOf == [k \in MCTasks |-> IF k = "t3" THEN "q2" ELSE "q1"]
MCMemory == [k \in MCTasks |-> IF k = "t3" THEN 3 ELSE 1]
MCCreates == [k \in MCTasks |-> IF k = "t1" THEN 2 ELSE 1]

(* Bounds: of the executions the first one of t1 reports progress; t1 is    *)
(* created again on a worker that has not had t3.                           *)
OneReports == publishing \subseteq {<<"t1", 1, s>> : s \in States}
OneAgain == creates["t1"] = 2 => creates["t3"] = 0

MCInit ==
    /\ Init
    /\ Arbitrary!Init
    /\ Hash!Init
    /\ kind \in {"arbitrary", "hash", "worker"}
    /\ kind # "hash" => hCount = 2 /\ hTaskCount = 2

MCNext ==
    \/ kind = "arbitrary" /\ Arbitrary!Next /\ UNCHANGED <<kind, hVars, vars>>
    \/ kind = "hash" /\ Hash!Next /\ UNCHANGED <<kind, aVars, vars>>
    \/ kind = "worker" /\ Next /\ OneReports' /\ OneAgain' /\ UNCHANGED <<kind, aVars, hVars>>

MCSpec == MCInit /\ [][MCNext]_<<vars, aVars, hVars, kind>>

(* No assigner loses a split or hands it to two tasks: ArbitrarySplitAssigner
   puts it into one partition, HashSplitAssigner into the one of its bucket,
   both a replicated split once into every partition. *)
SplitsDelivered == Arbitrary!EverySplitDelivered /\ Hash!EverySplitDelivered

(* Every partition is sealed exactly once, when no source can give it a
   split any more, and refuses none before: with full partitions sealed
   early by ArbitrarySplitAssigner, all at the end by HashSplitAssigner. *)
PartitionsSealed == Arbitrary!SealedInTime /\ Hash!SealedAtTheEnd

(* A partition is what its task can take: within the target size, on a host
   of its splits (ArbitrarySplitAssigner), and the hash buckets spread over
   the partitions evenly (make_hash_task_partition_mapping). *)
PartitionsBalanced == Arbitrary!PartitionsKeepToTarget /\ Arbitrary!PlacedOnOwnHost /\ Hash!MappingBalanced

=============================================================================
