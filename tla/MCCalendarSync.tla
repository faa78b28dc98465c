--------------------------- MODULE MCCalendarSync ---------------------------
(* Small instances of CalendarSync for TLC.                                *)
EXTENDS CalendarSync, TLC

(* Jobs, sync logs, rooms and URLs are interchangeable; used by the runs   *)
(* that check no liveness property.                                        *)
Symmetric ==
    Permutations(Jobs) \cup Permutations(Logs) \cup Permutations(Sources)
      \cup Permutations(Rooms) \cup Permutations(Urls)
=============================================================================
