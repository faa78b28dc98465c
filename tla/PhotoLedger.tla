---------------------------- MODULE PhotoLedger ----------------------------
(***************************************************************************)
(* What the photos of one cleaning task are to everybody outside the       *)
(* server: a limited set of upload ids whose photo is shown, and the ids   *)
(* that were used up by photos that have been removed.  Two sides meet     *)
(* here: CleaningPhotos, the requests and scripts of the server, implements *)
(* this specification, and PhotoUploader, the queue in the browser, relies *)
(* on it.                                                                  *)
(***************************************************************************)
EXTENDS Integers, FiniteSets

CONSTANTS
    Uploads,   \* client upload ids
    MaxCount   \* CLEANING_PHOTO_MAX_COUNT

VARIABLES
    shown,     \* the ids whose photo is shown
    removed    \* the ids whose photo was removed

Init == shown = {} /\ removed = {}

\* An id is used once, for one photo.
Add(u) ==
    /\ u \notin shown \cup removed
    /\ Cardinality(shown) < MaxCount
    /\ shown' = shown \cup {u}
    /\ UNCHANGED removed

Remove(u) ==
    /\ u \in shown
    /\ shown' = shown \ {u}
    /\ removed' = removed \cup {u}

Next == \E u \in Uploads : Add(u) \/ Remove(u)

Spec == Init /\ [][Next]_<<shown, removed>>
=============================================================================
