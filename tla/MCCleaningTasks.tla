--------------------------- MODULE MCCleaningTasks ---------------------------
(* Small instances of CleaningTasks for TLC.                               *)
EXTENDS CleaningTasks, TLC

OneNight  == {<<0, 1>>}
TwoNights == {<<0, 1>>, <<1, 2>>}

Symmetric == Permutations(Uids) \cup Permutations(Tasks) \cup Permutations(Rooms)
=============================================================================
