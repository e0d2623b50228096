--------------------------- MODULE MCUdfTaskStream ---------------------------
EXTENDS UdfTaskStream

(* Submissions that yield one block, and one that yields two.  Downstream   *)
(* has room for one block at a time.                                       *)
MCSizes == <<<<1>>, <<2>>, <<1, 2>>>>
OneBlock == [rows |-> 1, bytes |-> 2, item_bytes |-> 2]

Scenario(first, last, fates, steady, teardowns, query_ends) ==
    [first |-> first, last |-> last, fates |-> fates, stalls |-> ~steady, handoffs |-> ~steady,
     teardowns |-> teardowns, query_ends |-> query_ends]

(* A stream of two blocks whose pipeline may be torn down at any time; the  *)
(* same with one block and a pipeline that stalls.                         *)
TornDown == Scenario(3, 3, <<{}, {}, Fates>>, TRUE, TRUE, FALSE)
StalledTornDown == Scenario(1, 1, <<Fates, {}, {}>>, FALSE, TRUE, FALSE)

(* Two blocks for a pipeline that stalls and hands blocks on.               *)
Stalled == Scenario(3, 3, <<{}, {}, {"returns", "dies"}>>, FALSE, FALSE, FALSE)

(* A stream whose query may be closed by the driver at any time.           *)
QueryClosed == Scenario(1, 1, <<Fates, {}, {}>>, FALSE, FALSE, TRUE)

(* Two streams at a time, the first of which raises.                       *)
TwoStreams == Scenario(1, 2, <<{"raises"}, {"returns"}, {}>>, TRUE, FALSE, FALSE)

MCScenarios == {TornDown, StalledTornDown, Stalled, QueryClosed, TwoStreams}
Cancellation == {TornDown}

=============================================================================
