--------------------------- MODULE MCRoomLifecycle ---------------------------
(* Two threads and two rooms; a second object is the other room's or comes   *)
(* from a reset of the first.  FAILED, which most states lead to and which    *)
(* leads nowhere but back to PENDING, is left to the proofs; without it       *)
(* any_failed reads what building_status reads.                              *)
EXTENDS RoomLifecycle, TLC

CONSTANTS t1, t2, r1, r2

Workflow == RoomState \ {"FAILED"}
Interchangeable == Permutations({t1, t2}) \cup Permutations({r1, r2})
=============================================================================
