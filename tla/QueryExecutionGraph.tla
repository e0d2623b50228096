------------------------ MODULE QueryExecutionGraph ------------------------
(***************************************************************************)
(* The immutable stage graph of a query, and the resources that are        *)
(* accounted on it: duckdb/runners/ray/query_execution_graph.py.           *)
(***************************************************************************)
EXTENDS ResourceVectors

CONSTANTS
    Topo,       \* topological_stage_ids(), a sequence
    StageSpec   \* the StageResourceSpec of each stage

Stages == Range(Topo)
Backends == {"ray_worker", "ray_task", "ray_actor"}

(* What _validate refuses a graph for.                                     *)
WellFormed ==
    /\ IsInjective(Topo)
    /\ \A s \in Stages :
        /\ StageSpec[s].backend \in Backends
        /\ StageSpec[s].per_task \in Vectors /\ StageSpec[s].resident \in Vectors
        /\ StageSpec[s].window \in Nat
        /\ StageSpec[s].inputs \subseteq Stages
        /\ \A t \in StageSpec[s].inputs : \E i, j \in DOMAIN Topo : i < j /\ Topo[i] = t /\ Topo[j] = s

ASSUME GraphAssumption == WellFormed

-----------------------------------------------------------------------------
(* The graph.                                                              *)

Rank(s) == CHOOSE i \in DOMAIN Topo : Topo[i] = s
ReverseRank(s) == Len(Topo) - Rank(s)
DirectDownstream(s) == {t \in Stages : s \in StageSpec[t].inputs}

(* _reachable_stage_ids: every stage downstream of s.                       *)
ReachableFrom[i \in DOMAIN Topo] ==
    DirectDownstream(Topo[i]) \cup UNION {ReachableFrom[Rank(t)] : t \in DirectDownstream(Topo[i])}
Reachable(s) == ReachableFrom[Rank(s)]
ReachableUdf(s) == {t \in Reachable(s) : StageSpec[t].backend # "ray_worker"}

(* _continuation_parent_stage_ids_by_ray_task.                             *)
ContinuationParents(s) ==
    {p \in Stages : StageSpec[p].backend = "ray_worker" /\ StageSpec[s].backend = "ray_task" /\ s \in ReachableUdf(p)}

(* downstream_fte_stage_ids_requiring_separate_slot: the FTE stages that a  *)
(* path from s reaches through a stage of another backend, s included.     *)
SeparateSlotStages(s) ==
    {t \in Reachable(s) :
        /\ StageSpec[t].backend = "ray_worker"
        /\ \E b \in {s} \cup Reachable(s) : StageSpec[b].backend # "ray_worker" /\ t \in Reachable(b)}

(* _task_commitment: what one task of the stage holds while it runs.        *)
Commitment(s) == Plus(StageSpec[s].per_task, Vec(0, StageSpec[s].window))

(* build_query_demand's task bundles: the nested Ray task, the FTE task and *)
(* the FTE task that drains a producer that is still running.              *)
TaskBundles ==
    LET of(S) == ComponentMax({Commitment(s) : s \in S})
        drains == UNION {SeparateSlotStages(b) : b \in {s \in Stages : StageSpec[s].backend # "ray_worker"}}
        bundles == << of({s \in Stages : StageSpec[s].backend = "ray_task"}),
                      of({s \in Stages : StageSpec[s].backend = "ray_worker"}),
                      of(drains) >>
    IN SelectSeq(bundles, LAMBDA v : v # Zero)

(* Its minimum: these, and the actors with what a call on each commits.     *)
MinimumDemand ==
    LET actor(s) == Total(LAMBDA i : Plus(StageSpec[s].resident, Commitment(s)), 1 .. StageSpec[s].actors)
    IN Plus(Total(LAMBDA i : TaskBundles[i], DOMAIN TaskBundles), Total(actor, Stages))

=============================================================================
