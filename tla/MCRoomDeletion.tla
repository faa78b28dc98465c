--------------------------- MODULE MCRoomDeletion ---------------------------
(* An instance of RoomDeletion for TLC. *)
EXTENDS RoomDeletion, Naturals, TLC

Symmetric == Permutations(Deletions) \cup Permutations(Properties) \cup Permutations(Rooms)

\* At most three calls in flight: a deletion with two others, of any kind.
InFlight ==
    Cardinality({d \in Deletions : del[d].at # "idle"})
      + Cardinality({s \in Sources : Syncing(s)})
      + Cardinality({p \in Photos : photo[p].at = "stored"}) <= 3
=============================================================================
