----------------------- MODULE MCFteFragmentExecution -----------------------
(***************************************************************************)
(* FteFragmentExecution with the worker_reservation_callback, as the Ray   *)
(* runner sets it, and without it, when a partition is started at once.    *)
(* Progress is owed, and checked, with it.                                 *)
(***************************************************************************)
EXTENDS FteFragmentExecution

VARIABLE mode

Direct == INSTANCE FteFragmentExecution WITH Reserving <- FALSE

MCInit == Init /\ mode \in {"reserving", "direct"}

MCNext ==
    \/ mode = "reserving" /\ Next /\ UNCHANGED mode
    \/ mode = "direct" /\ Direct!Next /\ UNCHANGED mode

MCSpec == MCInit /\ [][MCNext]_<<vars, mode>> /\ Fairness

(* A sealed partition ends when its worker is reserved first: see           *)
(* SealedPartitionsEnd.                                                    *)
ReservedPartitionsEnd == mode = "reserving" => SealedPartitionsEnd
=============================================================================
