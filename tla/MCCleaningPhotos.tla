-------------------------- MODULE MCCleaningPhotos --------------------------
(* An instance of CleaningPhotos for TLC. *)
EXTENDS CleaningPhotos, TLC

CONSTANTS r1, r2, u1, u2

Symmetric == Permutations(Requests) \cup Permutations(Uploads)
=============================================================================
