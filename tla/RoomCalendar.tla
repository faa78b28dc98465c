---------------------------- MODULE RoomCalendar ----------------------------
(***************************************************************************)
(* The reservations mirrored from the OTA calendars of some rooms and the  *)
(* double-booking conflicts computed from them.  Each action is one        *)
(* database transaction: under the locks of CalendarSync the transactions  *)
(* that write the reservations of a source, or the conflicts of a room,    *)
(* follow one another.                                                     *)
(***************************************************************************)
EXTENDS ReservationReconcile

CONSTANTS
    Sources,
    LastDay,   \* bound on the calendar days the model runs through
    Ops        \* operations of this instance beside sync

ASSUME LastDayAssumption == LastDay \in Nat
ASSUME FiniteAssumption == IsFiniteSet(Sources) /\ IsFiniteSet(Uids)
ASSUME OpsAssumption ==
    Ops \subseteq {"replace", "delete", "dismiss", "toggle", "move"}

VARIABLES
    today,       \* the current date in Asia/Tokyo
    source,      \* life and room of each CalendarSource
    activeRooms,
    stays,       \* the reservations stored for each source
    conflict     \* the ReservationConflict row of each pair of reservations

vars == <<today, source, activeRooms, stays, conflict>>

Reservations == Sources \X Uids
Pairs == {p \in SUBSET Reservations : Cardinality(p) = 2}

(* A row remembers its room and the last day of the overlap it recorded.   *)
NoConflict == [status |-> "NONE", room |-> NoRoom, end |-> 0]

Init ==
    /\ today = 0
    /\ source \in [Sources -> [life: {"ACTIVE"}, room: Rooms]]
    /\ activeRooms = Rooms
    /\ stays = [s \in Sources |-> [u \in Uids |-> None]]
    /\ conflict = [p \in Pairs |-> NoConflict]

Present(s) == source[s].life # "GONE"
-----------------------------------------------------------------------------
(* detectRoomReservationConflicts.  Two reservations of a room conflict if *)
(* both are operational and their nights overlap; a check-out and a        *)
(* check-in on the same day do not.                                        *)

(* buildOperationalReservationWhere; unlike Operational it has no date     *)
Eligible(st, r) ==
    LET stay == st[r[1]][r[2]] IN
    /\ stay.status = "CONFIRMED"
    /\ source[r[1]].life = "ACTIVE"
    /\ stay.room \in activeRooms

Detected(st, p) == \A a, b \in p : a # b =>
    LET x == st[a[1]][a[2]]  y == st[b[1]][b[2]] IN
    /\ Eligible(st, a) /\ Eligible(st, b)
    /\ x.room = y.room
    /\ x.start < y.end /\ y.start < x.end

RoomOf(st, p) == (CHOOSE room \in Rooms : \E a \in p : st[a[1]][a[2]].room = room)

OverlapEnd(st, p) ==
    CHOOSE d \in {st[a[1]][a[2]].end : a \in p} :
       \A a \in p : d <= st[a[1]][a[2]].end

(* Bug: a dismissed conflict stays dismissed when it is extended.          *)
RecomputedDismissed(st, room, p, old) ==
    CASE Detected(st, p) /\ RoomOf(st, p) = room ->
           IF old.status = "DISMISSED"
             THEN old
             ELSE [status |-> "ACTIVE", room |-> room, end |-> OverlapEnd(st, p)]
      [] ~Detected(st, p) /\ old.room = room /\ old.status = "ACTIVE" ->
           [old EXCEPT !.status = "RESOLVED"]
      [] OTHER -> old

(* classifyConflicts and the writes that follow it, for one row: a pair    *)
(* detected again is reactivated unless it was dismissed and its overlap   *)
(* is past; an ACTIVE pair no longer detected is resolved.                 *)
Recomputed(st, room, p, old) ==
    CASE Detected(st, p) /\ RoomOf(st, p) = room ->
           IF old.status = "DISMISSED" /\ OverlapEnd(st, p) < today
             THEN old
             ELSE [status |-> "ACTIVE", room |-> room, end |-> OverlapEnd(st, p)]
      [] ~Detected(st, p) /\ old.room = room /\ old.status = "ACTIVE" ->
           [old EXCEPT !.status = "RESOLVED"]
      [] OTHER -> old

(* Bug: the conflict rows of removed reservations are kept.                *)
StoreKeepingConflicts(st, removed, room) ==
    /\ stays' = st
    /\ conflict' = [p \in Pairs |-> Recomputed(st, room, p, conflict[p])]

(* The rows of removed reservations are deleted first.                     *)
Store(st, removed, room) ==
    /\ stays' = st
    /\ conflict' = [p \in Pairs |->
          Recomputed(st, room, p, IF p \cap removed # {} THEN NoConflict ELSE conflict[p])]
-----------------------------------------------------------------------------
(* persistReservationSync of whatever the OTA serves at that moment.  Room *)
(* and historicalBefore are those of the time the sync began: since then   *)
(* the source may have been moved or switched off, which this transaction  *)
(* does not look at, and a day may have passed.  A feed with parse issues  *)
(* is not fully parsed.                                                    *)
Sync(s, room, feed, before, fullyParsed) ==
    LET removed == BlockedDeletion(stays[s], feed, fullyParsed) IN
    /\ Present(s)
    /\ room # source[s].room => "move" \in Ops
    /\ Store([stays EXCEPT ![s] = Reconciled(stays[s], feed, fullyParsed, before, room)],
             {s} \X removed, room)
    /\ UNCHANGED <<today, source, activeRooms>>

(* replaceCalendarSourceUrlTransaction: the submitted URL serves any feed. *)
ReplaceUrl(s, feed) ==
    /\ "replace" \in Ops
    /\ Present(s)
    /\ Store([stays EXCEPT ![s] = Replacement(stays[s], feed, today, source[s].room)],
             {s} \X Replaceable(stays[s], today), source[s].room)
    /\ UNCHANGED <<today, source, activeRooms>>

(* deleteCalendarSourceTransaction recomputes no conflicts; it deletes the *)
(* rows of its reservations.                                               *)
Delete(s) ==
    /\ "delete" \in Ops
    /\ Present(s)
    /\ source' = [source EXCEPT ![s].life = "GONE"]
    /\ stays' = [stays EXCEPT ![s] = [u \in Uids |-> None]]
    /\ conflict' = [p \in Pairs |->
          IF \E u \in Stored(stays[s]) : <<s, u>> \in p THEN NoConflict ELSE conflict[p]]
    /\ UNCHANGED <<today, activeRooms>>

(* dismissReservationConflict                                              *)
Dismiss(p) ==
    /\ "dismiss" \in Ops
    /\ conflict[p].status = "ACTIVE"
    /\ conflict[p].end < today
    /\ conflict' = [conflict EXCEPT ![p].status = "DISMISSED"]
    /\ UNCHANGED <<today, source, activeRooms, stays>>

(* changeCalendarSourceActive and setRoomActive                            *)
ToggleSource(s) ==
    /\ "toggle" \in Ops
    /\ Present(s)
    /\ source' = [source EXCEPT ![s].life = IF @ = "ACTIVE" THEN "INACTIVE" ELSE "ACTIVE"]
    /\ UNCHANGED <<today, activeRooms, stays, conflict>>

ToggleRoom(r) ==
    /\ "toggle" \in Ops
    /\ activeRooms' = IF r \in activeRooms THEN activeRooms \ {r} ELSE activeRooms \cup {r}
    /\ UNCHANGED <<today, source, stays, conflict>>

(* updateCalendarSource with another roomId: the reservations stay behind. *)
Move(s, r) ==
    /\ "move" \in Ops
    /\ Present(s)
    /\ source[s].room # r
    /\ source' = [source EXCEPT ![s].room = r]
    /\ UNCHANGED <<today, activeRooms, stays, conflict>>

NextDay ==
    /\ today < LastDay
    /\ today' = today + 1
    /\ UNCHANGED <<source, activeRooms, stays, conflict>>

(* The current day and the day before, for a sync that began before        *)
(* midnight.                                                               *)
RecentDays == {d \in 0..today : d + 1 >= today}

Next ==
    \/ \E s \in Sources : Delete(s) \/ ToggleSource(s)
    \/ \E s \in Sources, room \in Rooms, feed \in Feeds, before \in RecentDays,
          fullyParsed \in BOOLEAN : Sync(s, room, feed, before, fullyParsed)
    \/ \E s \in Sources, feed \in Feeds : ReplaceUrl(s, feed)
    \/ \E p \in Pairs : Dismiss(p)
    \/ \E r \in Rooms : ToggleRoom(r)
    \/ \E s \in Sources, r \in Rooms : Move(s, r)
    \/ NextDay

Spec == Init /\ [][Next]_vars
-----------------------------------------------------------------------------
(* The open conflicts are exactly the overlapping pairs; one that was      *)
(* dismissed may stay closed only while its overlap is in the past.        *)
Exact(p) ==
    /\ conflict[p].status = "ACTIVE" => Detected(stays, p)
    /\ Detected(stays, p) =>
         \/ conflict[p].status = "ACTIVE" /\ conflict[p].end = OverlapEnd(stays, p)
         \/ conflict[p].status = "DISMISSED" /\ OverlapEnd(stays, p) < today

(* A conflict row refers to reservations that are stored, in the room of   *)
(* both: what the Restrict foreign keys of the schema demand of a removal. *)
Grounded(p) == conflict[p].status # "NONE" =>
    \A r \in p : stays[r[1]][r[2]].room = conflict[p].room

Consistent == \A p \in Pairs : Exact(p) /\ Grounded(p)

(* Nothing is switched, and the reservations are where their sources are.  *)
Unmoved == \A r \in Reservations :
    stays[r[1]][r[2]] # None => stays[r[1]][r[2]].room = source[r[1]].room

Unswitched ==
    /\ activeRooms' = activeRooms
    /\ \A s \in Sources : source'[s].life \in {source[s].life, "GONE"}

(* As long as calendars are neither moved nor switched, no operation makes *)
(* consistent conflicts inconsistent: not a sync, a replacement or a       *)
(* deletion of one of the sources, a dismissal, or the passing of a day.   *)
(* Only a sync that began before its source was moved can.                 *)
ConsistencyKept ==
    [][Consistent /\ ~Consistent' /\ Unmoved /\ Unmoved' /\ Unswitched =>
         \E s \in Sources, room \in Rooms, feed \in Feeds, before \in RecentDays,
            fullyParsed \in BOOLEAN :
              room # source[s].room /\ Sync(s, room, feed, before, fullyParsed)]_vars

(* And a sync that has just been persisted makes the conflicts of its room *)
(* exact whatever was switched off or moved before or during it.           *)
ExactIn(room) == \A p \in Pairs :
    (\E r \in p : stays[r[1]][r[2]].room = room) => Exact(p)

ExactAfterSync == [][\A room \in Rooms : ~ExactIn(room)' =>
    \A s \in Sources, feed \in Feeds, before \in RecentDays, fullyParsed \in BOOLEAN :
        ~Sync(s, room, feed, before, fullyParsed)]_vars
(* After the sync of a fully parsed feed the stays that count from the day *)
(* the sync began are those of the feed; of an event it could not tell the *)
(* stored stay counts as before.  README.md:104: a stay that is over is    *)
(* history, which no feed that has dropped it changes, and no new URL.     *)
MirrorsFeed == \A s \in Sources, feed \in Feeds, room \in Rooms, before \in RecentDays :
    LET synced   == Reconciled(stays[s], feed, TRUE, before, room)
        replaced == Replacement(stays[s], feed, today, room)
    IN  \A u \in Uids :
          /\ Operational(synced[u], before) <=>
               \/ Operational(feed[u], before)
               \/ feed[u].kind = "unknown" /\ Operational(stays[s][u], before)
          /\ stays[s][u].end < before /\ feed[u].kind = "absent" => synced[u] = stays[s][u]
          /\ u \in Stored(stays[s]) /\ stays[s][u].end < today => replaced[u] = stays[s][u]

(* The counts predicted before the statements are those found after them,  *)
(* for a sync and for a replacement: a disagreement aborts the transaction *)
(* and would do so at every attempt.                                       *)
CountsAgree == \A s \in Sources, feed \in Feeds, room \in Rooms, before \in RecentDays :
    /\ \A fullyParsed \in BOOLEAN :
         OperationalCount(Reconciled(stays[s], feed, fullyParsed, before, room), before)
           = ExpectedCount(stays[s], feed, fullyParsed, before)
    /\ OperationalCount(Replacement(stays[s], feed, today, room), today)
         = ReplacementCount(stays[s], feed, today)
=============================================================================
