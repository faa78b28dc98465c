------------------------- MODULE MCReviewCollection -------------------------
(* Small instances of ReviewCollection for TLC.                            *)
EXTENDS ReviewCollection, TLC

Symmetric == Permutations(Jobs) \cup Permutations(Ratings) \cup Permutations(Urls)
=============================================================================
