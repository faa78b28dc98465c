------------------------ MODULE ReservationReconcile ------------------------
(***************************************************************************)
(* How a classified feed turns the stored reservations of one calendar     *)
(* source into the new ones: classifyReservations and the statements of    *)
(* persistReservationSync for a sync, and the replacement plan of a URL    *)
(* change.  Both are functions from stored reservations to stored          *)
(* reservations, indexed by rawUid (@@unique([calendarSourceId, rawUid])). *)
(*                                                                         *)
(* CONFIRMED stands for CONFIRMED and TENTATIVE, which the code treats     *)
(* alike.  Of a reservation the dates and the status are kept; its other   *)
(* fields only decide whether an update is counted.                        *)
(***************************************************************************)
EXTENDS Naturals, FiniteSets

CONSTANTS
    Uids,       \* event UIDs of a feed
    Intervals,  \* the <<start, end>> dates a reservation may have
    Rooms,
    NoRoom

ASSUME IntervalsAssumption ==
    Intervals \subseteq {i \in Nat \X Nat : i[1] < i[2]}
ASSUME NoRoomAssumption == NoRoom \notin Rooms

None == [status |-> "NONE", start |-> 0, end |-> 0, room |-> NoRoom]

Stays == [status: {"CONFIRMED", "CANCELLED"}, start: {i[1] : i \in Intervals},
          end: {i[2] : i \in Intervals}, room: Rooms] \cup {None}

(* What the classifier makes of a UID of the feed: an event that is a      *)
(* reservation, an event that is not one ("blocked"), an event it cannot   *)
(* tell ("unknown"), or no event.                                          *)
Event(status, i) == [kind |-> "reservation", status |-> status,
                     start |-> i[1], end |-> i[2]]
NoEvent(kind)    == [kind |-> kind, status |-> "NONE", start |-> 0, end |-> 0]

Events == {Event(status, i) : status \in {"CONFIRMED", "CANCELLED"}, i \in Intervals}
            \cup {NoEvent(kind) : kind \in {"blocked", "unknown", "absent"}}
Feeds  == [Uids -> Events]

Stored(stays)   == {u \in Uids : stays[u] # None}
Incoming(feed)  == {u \in Uids : feed[u].kind = "reservation"}
Stay(event, room) == [status |-> event.status, start |-> event.start,
                      end |-> event.end, room |-> room]

(* CONFIRMED and not over before the day that begins at historicalBefore   *)
Operational(stay, today) == stay.status = "CONFIRMED" /\ stay.end >= today
-----------------------------------------------------------------------------
(* classifyReservations                                                    *)

Create(stays, feed) == Incoming(feed) \ Stored(stays)

Update(stays, feed) == {u \in Incoming(feed) \cap Stored(stays) :
                          Stay(feed[u], stays[u].room) # stays[u]}

BlockedDeletion(stays, feed, fullyParsed) ==
    {u \in Stored(stays) : fullyParsed /\ feed[u].kind = "blocked"}

(* Bug: a stay that ends today is taken for history.                       *)
FutureCancellation(stays, feed, fullyParsed, today) ==
    {u \in Stored(stays) : /\ fullyParsed
                           /\ feed[u].kind = "absent"
                           /\ Operational(stays[u], today + 1)}

StaleCancellation(stays, feed, fullyParsed, today) ==
    {u \in Stored(stays) : /\ fullyParsed
                           /\ feed[u].kind = "absent"
                           /\ Operational(stays[u], today)}

(* createMany, the raw UPDATE, the stale cancellation and the removal.  An *)
(* update never moves a reservation to another room.                       *)
Reconciled(stays, feed, fullyParsed, today, room) == [u \in Uids |->
    CASE u \in Create(stays, feed) -> Stay(feed[u], room)
      [] u \in Update(stays, feed) -> Stay(feed[u], stays[u].room)
      [] u \in BlockedDeletion(stays, feed, fullyParsed) -> None
      [] u \in StaleCancellation(stays, feed, fullyParsed, today) ->
           [stays[u] EXCEPT !.status = "CANCELLED"]
      [] OTHER -> stays[u]]

OperationalCount(stays, today) ==
    Cardinality({u \in Uids : Operational(stays[u], today)})

(* expectedActiveReservationCount, computed before the statements run      *)
ExpectedCount(stays, feed, fullyParsed, today) ==
    LET gone     == BlockedDeletion(stays, feed, fullyParsed)
                      \cup StaleCancellation(stays, feed, fullyParsed, today)
        incoming == Create(stays, feed) \cup Update(stays, feed)
    IN  Cardinality({u \in incoming : Operational(feed[u], today)})
          + Cardinality({u \in Uids \ (gone \cup incoming) : Operational(stays[u], today)})
-----------------------------------------------------------------------------
(* planCalendarSourceReservationReplacement                                *)

Replaceable(stays, today) == {u \in Stored(stays) : stays[u].end >= today}

(* A retained past reservation keeps its UID: an event of the new feed     *)
(* with that UID is not created.                                           *)
Replacement(stays, feed, today, room) == [u \in Uids |->
    CASE u \in Stored(stays) \ Replaceable(stays, today) -> stays[u]
      [] u \in Replaceable(stays, today) \cap Incoming(feed) -> Stay(feed[u], room)
      [] u \in Incoming(feed) \ Stored(stays) -> Stay(feed[u], room)
      [] OTHER -> None]

(* Bug: events whose UID the history keeps are counted.                    *)
ReplacementCountAll(stays, feed, today) ==
    Cardinality({u \in Incoming(feed) : Operational(feed[u], today)})

ReplacementCount(stays, feed, today) ==
    Cardinality({u \in Incoming(feed) :
                   /\ u \notin Stored(stays) \ Replaceable(stays, today)
                   /\ Operational(feed[u], today)})
=============================================================================
