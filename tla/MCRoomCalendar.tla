--------------------------- MODULE MCRoomCalendar ---------------------------
(* Small instances of RoomCalendar for TLC.                                *)
EXTENDS RoomCalendar, TLC

(* Stays of one and two nights: disjoint, touching, nested and equal ones. *)
Nights == {<<0, 1>>, <<0, 2>>, <<1, 2>>}

Symmetric == Permutations(Sources) \cup Permutations(Uids) \cup Permutations(Rooms)
=============================================================================
