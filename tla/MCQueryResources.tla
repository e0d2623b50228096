-------------------------- MODULE MCQueryResources --------------------------
(***************************************************************************)
(* The leases of a query under one allocation, and the shares of the       *)
(* cluster that the allocations of queries are made of.  mode says which   *)
(* the behaviour is of; the variables of the other stay as they are.       *)
(***************************************************************************)
EXTENDS MCQueryResourceManager

CONSTANTS q1, q2, q3

VARIABLES mode, nodes, order, desired, observed, placed, lost, share, state, used, admitted, submitted

shareVars == <<nodes, order, desired, observed, placed, lost, share, state, used, admitted, submitted>>

(* Two nodes, of which one may go.  The second and third query have an      *)
(* actor; the three together ask for more than there is.                   *)
DemandedActors == q1 :> <<>> @@ q2 :> <<Vec(2, 1)>> @@ q3 :> <<Vec(1, 1)>>
DemandedTasks == q1 :> <<Vec(3, 1)>> @@ q2 :> <<Vec(3, 2)>> @@ q3 :> <<Vec(1, 1)>>
ClusterCapacities == {(1 :> Vec(4, 2)) @@ (2 :> Vec(6, 5)), 1 :> Vec(4, 2)}
Shares == INSTANCE ClusterResourceCoordinator WITH
    Queries <- {q1, q2, q3}, Actors <- DemandedActors, Tasks <- DemandedTasks,
    Capacities <- ClusterCapacities, open <- admitted

ASSUME SharesAssumption == Shares!DemandsWellFormed

MCInit ==
    /\ mode \in {"leases", "shares"}
    /\ Init /\ Shares!Init
    /\ mode = "leases" => DOMAIN nodes = {1}

MCNext ==
    \/ mode = "leases" /\ Next /\ UNCHANGED <<mode, shareVars>>
    \/ mode = "shares" /\ Shares!Next /\ UNCHANGED <<mode, vars>>

(* The fairness is that of the query; of the coordinator safety is checked. *)
MCSpec == MCInit /\ [][MCNext]_<<mode, vars, shareVars>> /\ Fairness

(* The coordinator: no node is promised twice. *)
SharesFitNodes == Shares!NodesNotOversubscribed

(* The coordinator: an admitted query has its whole minimum. *)
AdmittedHaveMinimum == Shares!OpenQueriesHaveMinimum

(* The coordinator: what an admitted query could use is not left idle. *)
SharesWorkConserving == Shares!WorkConserving

(* The coordinator: actors are never moved. *)
SharesActorsStayPut == Shares!ActorsStayPut

=============================================================================
