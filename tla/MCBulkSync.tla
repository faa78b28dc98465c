----------------------------- MODULE MCBulkSync -----------------------------
(* An instance of BulkSync for TLC. *)
EXTENDS BulkSync, TLC

CONSTANTS s1, s2, s3, ra, rb

\* Two sources share a room.
TwoRooms == (s1 :> ra) @@ (s2 :> ra) @@ (s3 :> rb)
=============================================================================
