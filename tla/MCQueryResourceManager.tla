----------------------- MODULE MCQueryResourceManager -----------------------
(***************************************************************************)
(* Instances of QueryResourceManager, sized as query_graph_builder.py      *)
(* sizes a query: blocks of one byte, a generator buffer of two blocks,    *)
(* and a UDF output window no smaller than the next UDF's input.           *)
(*                                                                         *)
(* The chain is an FTE stage with the partitions o and p, a nested UDF,    *)
(* the FTE wrapper of a second nested UDF, that UDF, and the FTE stage     *)
(* that drains it.  In p the attempts a1 and a2 of the first UDF make one  *)
(* block each, and b1 of the second takes both as one batch.               *)
(***************************************************************************)
EXTENDS QueryResourceManager

CONSTANTS s1, u1, w, u2, s2, o, p, a1, a2, b1, q, x1, x2, y, z

Stage(backend, inputs, per_task, window) ==
    [backend |-> backend, inputs |-> inputs, per_task |-> per_task, resident |-> Zero, window |-> window,
     actors |-> 0, concurrency |-> None, prefetch |-> 1]
Fte(inputs, window, partitions) ==
    [Stage("ray_worker", inputs, Vec(1, 0), window) EXCEPT !.concurrency = partitions]

(* The stages of the chain, and of two shorter ones: a nested UDF in both   *)
(* partitions with two FTE stages after it, and an actor with two calls.   *)
First == s1 :> Fte({}, 2, 2) @@ u1 :> Stage("ray_task", {s1}, Vec(1, 1), 2)
Chain == First @@ w :> Fte({u1}, 2, 2) @@ u2 :> Stage("ray_task", {w}, Vec(1, 2), 2) @@ s2 :> Fte({u2}, 1, 1)
ChainTopo == <<s1, u1, w, u2, s2>>
FteChain == First @@ s2 :> Fte({u1}, 2, 1) @@ w :> Fte({s2}, 1, 1)
FteTopo == <<s1, u1, s2, w>>
ActorChain ==
    s1 :> Fte({}, 2, 1) @@ s2 :> Fte({u2}, 1, 1) @@
    u2 :> [Stage("ray_actor", {s1}, Vec(0, 1), 2) EXCEPT !.resident = Vec(1, 0), !.actors = 1, !.prefetch = 2]
ActorTopo == <<s1, u2, s2>>

ChainAttempts == {o, p, a1, a2, b1, q}
ChainStageOf == o :> s1 @@ p :> s1 @@ a1 :> u1 @@ a2 :> u1 @@ b1 :> u2 @@ q :> s2
ChainParentOf == o :> None @@ p :> None @@ a1 :> p @@ a2 :> p @@ b1 :> p @@ q :> None
ChainUpstream == [a \in ChainAttempts |-> IF a = q THEN {o, p} ELSE {}]
ChainRetained == o :> 0 @@ p :> 0 @@ a1 :> 1 @@ a2 :> 1 @@ b1 :> 2 @@ q :> 0
ChainConsumes == [a \in ChainAttempts |-> IF a = b1 THEN {x1, x2} ELSE {}]
ChainBlocks == {x1, x2, y, z}
ChainProducerOf == x1 :> a1 @@ x2 :> a2 @@ y :> b1 @@ z :> q
OneByte == [b \in ChainBlocks |-> 1]

FteAttempts2 == {o, p, a1, a2, q}
FteParentOf == o :> None @@ p :> None @@ a1 :> o @@ a2 :> p @@ q :> None
FteBlocks == {x1, x2}

ActorAttempts == {p, a1, a2, q}
ActorStageOf == p :> s1 @@ a1 :> u2 @@ a2 :> u2 @@ q :> s2
ActorUpstream == [a \in ActorAttempts |-> IF a = q THEN {p} ELSE {}]
ActorBlocks == {x1, x2, z}
NoConsumer == [a \in ChainAttempts |-> {}]

(* What the coordinator allocates: the demanded minimum, one bundle to      *)
(* spare, a pause before the minimum comes back, a node that shrinks, and  *)
(* a second node.                                                          *)
Allocated(nodeOf, isOpen) ==
    [nodes |-> nodeOf, open |-> isOpen,
     placements |-> {[stage |-> s, index |-> 1, node |-> 1] : s \in {t \in Stages : StageSpec[t].backend = "ray_actor"}}]
OneNode == Allocated(1 :> MinimumDemand, TRUE)
AtMinimum == {<<OneNode>>}
WithSpare == {<<Allocated(1 :> Plus(MinimumDemand, Vec(1, 2)), TRUE)>>}
Paused == {<<OneNode, Allocated(1 :> MinimumDemand, FALSE), OneNode>>}
Changing ==
    Paused \cup {<<Allocated(1 :> Plus(MinimumDemand, Vec(2, 4)), TRUE), OneNode>>,
                 <<Allocated(1 :> MinimumDemand @@ 2 :> Vec(1, 4), TRUE)>>}

=============================================================================
