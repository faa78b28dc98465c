------------------------ MODULE RoomCalendar_proofs ------------------------
(* Proofs about RoomCalendar for every number of sources, rooms, events    *)
(* and days.                                                               *)
EXTENDS RoomCalendar, FiniteSetTheorems, TLAPS

(* The stay a reservation is, in a state of the table.                     *)
StayOf(st, r) == st[r[1]][r[2]]

Tables == [Sources -> [Uids -> Stays]]
Rows == [status : {"NONE", "ACTIVE", "RESOLVED", "DISMISSED"}, room : Rooms \cup {NoRoom}, end : Nat]

ShapeOK ==
    /\ today \in Nat
    /\ source \in [Sources -> [life : {"ACTIVE", "INACTIVE", "GONE"}, room : Rooms]]
    /\ activeRooms \subseteq Rooms
    /\ stays \in Tables
    /\ conflict \in [Pairs -> Rows]
    /\ \A p \in Pairs : conflict[p].status # "NONE" => conflict[p].room \in Rooms

(* Reservations are moved and removed under the conflicts that refer to    *)
(* them only together with these.                                          *)
CalendarInv == ShapeOK /\ \A p \in Pairs : Grounded(p)

-----------------------------------------------------------------------------
(* One reservation at a time                                               *)

(* An event becomes a stay.                                                *)
LEMMA StayType ==
    ASSUME NEW feed \in Feeds, NEW u \in Incoming(feed), NEW r \in Rooms
    PROVE  Stay(feed[u], r) \in Stays \ {None}
<1>1. feed[u] \in Events /\ feed[u].kind = "reservation"
  BY DEF Feeds, Incoming
<1>2. PICK status \in {"CONFIRMED", "CANCELLED"}, i \in Intervals : feed[u] = Event(status, i)
  BY <1>1 DEF Events, NoEvent
<1> QED BY <1>2 DEF Event, Stay, Stays, None

(* An event that is no reservation does not count.                         *)
LEMMA EventKinds ==
    ASSUME NEW feed \in Feeds, NEW u \in Uids
    PROVE  /\ feed[u].kind \in {"reservation", "blocked", "unknown", "absent"}
           /\ feed[u].kind # "reservation" => feed[u].status = "NONE"
<1>1. feed[u] \in Events
  BY DEF Feeds
<1> QED BY <1>1 DEF Events, Event, NoEvent

(* What a reconciliation makes of each UID.                                *)
ByClass(now, table, feed, fullyParsed, day, r, u) ==
    /\ u \in Create(table, feed) => now = Stay(feed[u], r)
    /\ u \in Update(table, feed) => now = Stay(feed[u], table[u].room)
    /\ u \in BlockedDeletion(table, feed, fullyParsed) => now = None
    /\ u \in StaleCancellation(table, feed, fullyParsed, day) =>
         now = [table[u] EXCEPT !.status = "CANCELLED"]
    /\ u \notin Create(table, feed) \cup Update(table, feed)
                  \cup BlockedDeletion(table, feed, fullyParsed)
                  \cup StaleCancellation(table, feed, fullyParsed, day) => now = table[u]

(* The classes exclude one another, so each UID has the stay of its class. *)
LEMMA ReconciledAs ==
    ASSUME NEW table, NEW feed, NEW fullyParsed, NEW day, NEW r, NEW u \in Uids
    PROVE  ByClass(Reconciled(table, feed, fullyParsed, day, r)[u],
                   table, feed, fullyParsed, day, r, u)
<1>1. /\ Create(table, feed) \cap Update(table, feed) = {}
      /\ (Create(table, feed) \cup Update(table, feed))
           \cap (BlockedDeletion(table, feed, fullyParsed)
                   \cup StaleCancellation(table, feed, fullyParsed, day)) = {}
      /\ BlockedDeletion(table, feed, fullyParsed)
           \cap StaleCancellation(table, feed, fullyParsed, day) = {}
  BY DEF Create, Update, BlockedDeletion, StaleCancellation, Incoming
<1> QED BY <1>1 DEF Reconciled, ByClass

(* A reconciliation leaves every stay that it does not remove in its room. *)
LEMMA ReconciledType ==
    ASSUME NEW table \in [Uids -> Stays], NEW feed \in Feeds, NEW fullyParsed \in BOOLEAN,
           NEW day \in Nat, NEW r \in Rooms
    PROVE  LET new == Reconciled(table, feed, fullyParsed, day, r) IN
           /\ new \in [Uids -> Stays]
           /\ \A u \in Stored(table) \ BlockedDeletion(table, feed, fullyParsed) :
                new[u].room = table[u].room
<1> DEFINE new == Reconciled(table, feed, fullyParsed, day, r)
<1>1. ASSUME NEW u \in Uids
      PROVE  /\ new[u] \in Stays
             /\ u \in Stored(table) \ BlockedDeletion(table, feed, fullyParsed) =>
                  new[u].room = table[u].room
  <2>0. ByClass(new[u], table, feed, fullyParsed, day, r, u)
    BY ReconciledAs
  <2> HIDE DEF new
  <2>1. CASE u \in Create(table, feed)
    BY <2>0, <2>1, StayType DEF Create, ByClass
  <2>2. CASE u \in Update(table, feed)
    <3>1. new[u] = Stay(feed[u], table[u].room)
      BY <2>0, <2>2 DEF ByClass
    <3>2. u \in Incoming(feed) /\ table[u].room \in Rooms
      BY <2>2 DEF Update, Stored, Stays
    <3> QED BY <3>1, <3>2, StayType DEF Stay
  <2>3. CASE u \in BlockedDeletion(table, feed, fullyParsed)
    BY <2>0, <2>3 DEF ByClass, Stays
  <2>4. CASE u \in StaleCancellation(table, feed, fullyParsed, day)
    <3>1. new[u] = [table[u] EXCEPT !.status = "CANCELLED"]
      BY <2>0, <2>4 DEF ByClass
    <3>2. table[u] \in Stays \ {None}
      BY <2>4 DEF StaleCancellation, Stored
    <3> QED BY <3>1, <3>2 DEF Stays, None
  <2>5. CASE u \notin Create(table, feed) \cup Update(table, feed)
                     \cup BlockedDeletion(table, feed, fullyParsed)
                     \cup StaleCancellation(table, feed, fullyParsed, day)
    BY <2>0, <2>5 DEF ByClass
  <2> QED BY <2>1, <2>2, <2>3, <2>4, <2>5
<1>2. new = [u \in Uids |-> new[u]]
  BY DEF Reconciled
<1> HIDE DEF new
<1>3. new \in [Uids -> Stays]
  BY <1>1, <1>2
<1> QED BY <1>1, <1>3 DEF new, Stored

(* What a replacement makes of each UID.                                   *)
LEMMA ReplacementAs ==
    ASSUME NEW table \in [Uids -> Stays], NEW feed \in Feeds, NEW day \in Nat, NEW r \in Rooms,
           NEW u \in Uids
    PROVE  LET now == Replacement(table, feed, day, r)[u] IN
           /\ u \in Stored(table) \ Replaceable(table, day) => now = table[u]
           /\ u \in Incoming(feed) /\ u \notin Stored(table) \ Replaceable(table, day) =>
                now = Stay(feed[u], r)
           /\ u \notin Incoming(feed) /\ u \notin Stored(table) \ Replaceable(table, day) =>
                now = None
<1>1. Replaceable(table, day) \subseteq Stored(table)
  BY DEF Replaceable
<1> QED BY <1>1 DEF Replacement

(* A replacement leaves the stays that are over as they are.               *)
LEMMA ReplacementType ==
    ASSUME NEW table \in [Uids -> Stays], NEW feed \in Feeds, NEW day \in Nat, NEW r \in Rooms
    PROVE  LET new == Replacement(table, feed, day, r) IN
           /\ new \in [Uids -> Stays]
           /\ \A u \in Stored(table) \ Replaceable(table, day) : new[u].room = table[u].room
<1> DEFINE new == Replacement(table, feed, day, r)
<1>1. ASSUME NEW u \in Uids
      PROVE  new[u] \in Stays
  <2>1. CASE u \in Stored(table) \ Replaceable(table, day)
    BY <2>1, ReplacementAs
  <2>2. CASE u \in Incoming(feed) /\ u \notin Stored(table) \ Replaceable(table, day)
    BY <2>2, ReplacementAs, StayType
  <2>3. CASE u \notin Incoming(feed) /\ u \notin Stored(table) \ Replaceable(table, day)
    BY <2>3, ReplacementAs DEF Stays
  <2> QED BY <2>1, <2>2, <2>3
<1>2. new = [u \in Uids |-> new[u]]
  BY DEF Replacement
<1>3. \A u \in Stored(table) \ Replaceable(table, day) : new[u] = table[u]
  BY ReplacementAs DEF Stored
<1> HIDE DEF new
<1>4. new \in [Uids -> Stays]
  BY <1>1, <1>2
<1> QED BY <1>3, <1>4 DEF new

-----------------------------------------------------------------------------
(* The feed and the counts                                                 *)

(* A stay that is stored counts as its event does.                         *)
LEMMA CountsAsEvent ==
    ASSUME NEW event, NEW r, NEW day
    PROVE  Operational(Stay(event, r), day) <=> Operational(event, day)
BY DEF Operational, Stay

(* No stay counts that is not there, or was cancelled.                     *)
LEMMA NotCounted ==
    ASSUME NEW day
    PROVE  /\ ~Operational(None, day)
           /\ \A stay \in Stays : ~Operational([stay EXCEPT !.status = "CANCELLED"], day)
BY DEF Operational, None, Stays

(* When a reconciled stay counts.                                          *)
LEMMA ReconciledCounts ==
    ASSUME NEW table \in [Uids -> Stays], NEW feed \in Feeds, NEW fullyParsed \in BOOLEAN,
           NEW day \in Nat, NEW r \in Rooms, NEW u \in Uids
    PROVE  LET gone     == BlockedDeletion(table, feed, fullyParsed)
                             \cup StaleCancellation(table, feed, fullyParsed, day)
               incoming == Create(table, feed) \cup Update(table, feed)
           IN  Operational(Reconciled(table, feed, fullyParsed, day, r)[u], day) <=>
                 \/ u \in incoming /\ Operational(feed[u], day)
                 \/ u \notin gone \cup incoming /\ Operational(table[u], day)
<1> DEFINE now == Reconciled(table, feed, fullyParsed, day, r)[u]
<1>a. ByClass(now, table, feed, fullyParsed, day, r, u)
  BY ReconciledAs
<1> SUFFICES Operational(now, day) <=>
                 \/ /\ u \in Create(table, feed) \cup Update(table, feed)
                    /\ Operational(feed[u], day)
                 \/ /\ u \notin BlockedDeletion(table, feed, fullyParsed)
                                 \cup StaleCancellation(table, feed, fullyParsed, day)
                                 \cup Create(table, feed) \cup Update(table, feed)
                    /\ Operational(table[u], day)
  OBVIOUS
<1> HIDE DEF now
<1>0. (Create(table, feed) \cup Update(table, feed))
        \cap (BlockedDeletion(table, feed, fullyParsed)
                \cup StaleCancellation(table, feed, fullyParsed, day)) = {}
  BY DEF Create, Update, BlockedDeletion, StaleCancellation, Incoming
<1>1. CASE u \in Create(table, feed) \cup Update(table, feed)
  <2>1. \E room : now = Stay(feed[u], room)
    BY <1>a, <1>1 DEF ByClass
  <2> QED BY <1>1, <2>1, CountsAsEvent
<1>2. CASE u \in BlockedDeletion(table, feed, fullyParsed)
                   \cup StaleCancellation(table, feed, fullyParsed, day)
  <2>1. now = None \/ now = [table[u] EXCEPT !.status = "CANCELLED"]
    BY <1>a, <1>2 DEF ByClass
  <2>2. ~Operational(now, day)
    BY <2>1, NotCounted
  <2> QED BY <1>0, <1>2, <2>2
<1>3. CASE u \notin Create(table, feed) \cup Update(table, feed)
                     \cup BlockedDeletion(table, feed, fullyParsed)
                     \cup StaleCancellation(table, feed, fullyParsed, day)
  BY <1>a, <1>3 DEF ByClass
<1> QED BY <1>1, <1>2, <1>3

(* When a replaced stay counts: those that are over do not.                *)
LEMMA ReplacementCounts ==
    ASSUME NEW table \in [Uids -> Stays], NEW feed \in Feeds, NEW day \in Nat, NEW r \in Rooms,
           NEW u \in Uids
    PROVE  Operational(Replacement(table, feed, day, r)[u], day) <=>
             /\ u \in Incoming(feed)
             /\ u \notin Stored(table) \ Replaceable(table, day)
             /\ Operational(feed[u], day)
<1>1. CASE u \in Stored(table) \ Replaceable(table, day)
  <2>1. ~Operational(table[u], day)
    BY <1>1 DEF Replaceable, Operational
  <2> QED BY <1>1, <2>1, ReplacementAs
<1>2. CASE u \notin Stored(table) \ Replaceable(table, day)
  BY <1>2, ReplacementAs, CountsAsEvent, NotCounted
<1> QED BY <1>1, <1>2

(* Two disjoint sets of events have as many as both.                       *)
LEMMA DisjointCount ==
    ASSUME NEW A \in SUBSET Uids, NEW B \in SUBSET Uids, A \cap B = {}
    PROVE  Cardinality(A \cup B) = Cardinality(A) + Cardinality(B)
<1>1. /\ IsFiniteSet(A) /\ IsFiniteSet(B)
      /\ Cardinality(A) \in Nat /\ Cardinality(B) \in Nat /\ Cardinality({}) = 0
  BY FiniteAssumption, FS_Subset, FS_CardinalityType, FS_EmptySet
<1>2. Cardinality(A \cup B) = Cardinality(A) + Cardinality(B) - Cardinality(A \cap B)
  BY <1>1, FS_Union
<1>3. Cardinality(A \cap B) = 0
  BY <1>1, Zenon
<1> QED BY <1>1, <1>2, <1>3

(* The counts predicted before the statements are those found after them,  *)
LEMMA CountsPredicted == ShapeOK => CountsAgree
<1> SUFFICES ASSUME ShapeOK, NEW s \in Sources, NEW feed \in Feeds, NEW room \in Rooms,
                    NEW before \in RecentDays
             PROVE  /\ \A fullyParsed \in BOOLEAN :
                         OperationalCount(Reconciled(stays[s], feed, fullyParsed, before, room), before)
                           = ExpectedCount(stays[s], feed, fullyParsed, before)
                    /\ OperationalCount(Replacement(stays[s], feed, today, room), today)
                         = ReplacementCount(stays[s], feed, today)
  BY DEF CountsAgree
<1>0. stays[s] \in [Uids -> Stays] /\ before \in Nat /\ today \in Nat
  BY DEF ShapeOK, Tables, RecentDays
<1>1. ASSUME NEW fullyParsed \in BOOLEAN
      PROVE  OperationalCount(Reconciled(stays[s], feed, fullyParsed, before, room), before)
               = ExpectedCount(stays[s], feed, fullyParsed, before)
  <2> DEFINE gone     == BlockedDeletion(stays[s], feed, fullyParsed)
                           \cup StaleCancellation(stays[s], feed, fullyParsed, before)
             incoming == Create(stays[s], feed) \cup Update(stays[s], feed)
             A == {u \in incoming : Operational(feed[u], before)}
             B == {u \in Uids \ (gone \cup incoming) : Operational(stays[s][u], before)}
             C == {u \in Uids : Operational(Reconciled(stays[s], feed, fullyParsed, before, room)[u], before)}
  <2>1. incoming \subseteq Uids
    BY DEF Create, Update, Incoming
  <2>2. \A u \in Uids : Operational(Reconciled(stays[s], feed, fullyParsed, before, room)[u], before) <=>
                          \/ u \in incoming /\ Operational(feed[u], before)
                          \/ u \notin gone \cup incoming /\ Operational(stays[s][u], before)
    BY <1>0, ReconciledCounts
  <2> HIDE DEF gone, incoming
  <2>3. C = A \cup B /\ A \in SUBSET Uids /\ B \in SUBSET Uids /\ A \cap B = {}
    BY <2>1, <2>2
  <2>4. Cardinality(C) = Cardinality(A) + Cardinality(B)
    <3> HIDE DEF A, B, C
    <3> QED BY <2>3, DisjointCount
  <2> QED BY <2>4 DEF OperationalCount, ExpectedCount, gone, incoming
<1>2. OperationalCount(Replacement(stays[s], feed, today, room), today)
        = ReplacementCount(stays[s], feed, today)
  <2> DEFINE C == {u \in Uids : Operational(Replacement(stays[s], feed, today, room)[u], today)}
             D == {u \in Incoming(feed) : /\ u \notin Stored(stays[s]) \ Replaceable(stays[s], today)
                                          /\ Operational(feed[u], today)}
  <2>1. C = D
    BY <1>0, ReplacementCounts DEF Incoming
  <2> QED BY <2>1 DEF OperationalCount, ReplacementCount
<1> QED BY <1>1, <1>2

(* and what counts is what the feed says.                                  *)
LEMMA FeedMirrored == ShapeOK => MirrorsFeed
<1> SUFFICES ASSUME ShapeOK, NEW s \in Sources, NEW feed \in Feeds, NEW room \in Rooms,
                    NEW before \in RecentDays, NEW u \in Uids
             PROVE  LET synced   == Reconciled(stays[s], feed, TRUE, before, room)
                        replaced == Replacement(stays[s], feed, today, room)
                    IN  /\ Operational(synced[u], before) <=>
                             \/ Operational(feed[u], before)
                             \/ feed[u].kind = "unknown" /\ Operational(stays[s][u], before)
                        /\ stays[s][u].end < before /\ feed[u].kind = "absent" => synced[u] = stays[s][u]
                        /\ u \in Stored(stays[s]) /\ stays[s][u].end < today => replaced[u] = stays[s][u]
  BY DEF MirrorsFeed
<1>0. /\ stays[s] \in [Uids -> Stays] /\ before \in Nat /\ today \in Nat /\ stays[s][u] \in Stays
      /\ stays[s][u].end \in Nat
  BY IntervalsAssumption DEF ShapeOK, Tables, RecentDays, Stays, None
<1> DEFINE table == stays[s]
           now == Reconciled(table, feed, TRUE, before, room)[u]
<1>a. ByClass(now, table, feed, TRUE, before, room, u)
  BY ReconciledAs
<1>1. /\ u \in Incoming(feed) <=> feed[u].kind = "reservation"
      /\ u \in Stored(table) <=> table[u] # None
  BY DEF Incoming, Stored
<1>2. Operational(now, before) <=>
         \/ Operational(feed[u], before)
         \/ feed[u].kind = "unknown" /\ Operational(table[u], before)
  <2>1. CASE feed[u].kind = "reservation"
    <3>1. CASE u \in Create(table, feed) \cup Update(table, feed)
      BY <1>0, <2>1, <3>1, ReconciledCounts
    <3>2. CASE u \notin Create(table, feed) \cup Update(table, feed)
      <4>1. table[u] = Stay(feed[u], table[u].room)
        BY <1>1, <2>1, <3>2 DEF Create, Update
      <4>2. u \notin BlockedDeletion(table, feed, TRUE) \cup StaleCancellation(table, feed, TRUE, before)
        BY <2>1 DEF BlockedDeletion, StaleCancellation
      <4>3. now = table[u]
        BY <1>a, <3>2, <4>2 DEF ByClass
      <4> QED BY <2>1, <4>1, <4>3, CountsAsEvent
    <3> QED BY <3>1, <3>2
  <2>2. CASE feed[u].kind # "reservation"
    <3>1. ~Operational(feed[u], before)
      BY <2>2, EventKinds DEF Operational
    <3>2. u \notin Create(table, feed) \cup Update(table, feed)
      BY <1>1, <2>2 DEF Create, Update
    <3>3. feed[u].kind \in {"blocked", "absent"} =>
            \/ u \in BlockedDeletion(table, feed, TRUE) \cup StaleCancellation(table, feed, TRUE, before)
            \/ ~Operational(table[u], before)
      BY <1>1, NotCounted DEF BlockedDeletion, StaleCancellation
    <3>4. feed[u].kind = "unknown" =>
            u \notin BlockedDeletion(table, feed, TRUE) \cup StaleCancellation(table, feed, TRUE, before)
      BY DEF BlockedDeletion, StaleCancellation
    <3> HIDE DEF now, table
    <3> QED BY <1>0, <2>2, <3>1, <3>2, <3>3, <3>4, EventKinds, ReconciledCounts DEF now, table
  <2> QED BY <2>1, <2>2
<1>3. table[u].end < before /\ feed[u].kind = "absent" => now = table[u]
  <2> SUFFICES ASSUME table[u].end < before, feed[u].kind = "absent"
               PROVE  now = table[u]
    OBVIOUS
  <2>1. u \notin Create(table, feed) \cup Update(table, feed) \cup BlockedDeletion(table, feed, TRUE)
                   \cup StaleCancellation(table, feed, TRUE, before)
    <3>1. ~(table[u].end >= before)
      BY <1>0
    <3> HIDE DEF table
    <3> QED BY <1>1, <3>1 DEF Create, Update, BlockedDeletion, StaleCancellation, Operational, Incoming
  <2> QED BY <1>a, <2>1 DEF ByClass
<1>4. u \in Stored(table) /\ table[u].end < today => Replacement(table, feed, today, room)[u] = table[u]
  <2> SUFFICES ASSUME u \in Stored(table), table[u].end < today
               PROVE  Replacement(table, feed, today, room)[u] = table[u]
    OBVIOUS
  <2>1. u \notin Replaceable(table, today)
    BY <1>0 DEF Replaceable
  <2> QED BY <1>0, <2>1, ReplacementAs
<1> QED BY <1>2, <1>3, <1>4

-----------------------------------------------------------------------------
(* Two reservations                                                        *)

(* A pair has two members.                                                 *)
LEMMA PairParts ==
    ASSUME NEW p \in Pairs
    PROVE  /\ p \subseteq Reservations
           /\ \E a, b \in p : a # b /\ p = {a, b}
<1>1. IsFiniteSet(Reservations)
  BY FiniteAssumption, FS_Product DEF Reservations
<1>2. p \in SUBSET Reservations /\ Cardinality(p) = 2
  BY DEF Pairs
<1>3. IsFiniteSet(p)
  BY <1>1, <1>2, FS_Subset
<1>4. PICK a : a \in p
  <2>1. p # {}
    BY <1>2, <1>3, FS_EmptySet
  <2> QED BY <2>1
<1>5. Cardinality(p \ {a}) = 1 /\ IsFiniteSet(p \ {a})
  BY <1>2, <1>3, <1>4, FS_RemoveElement
<1>6. PICK b : p \ {a} = {b}
  BY <1>5, FS_Singleton
<1>7. a \in p /\ b \in p /\ a # b /\ p = {a, b}
  BY <1>4, <1>6
<1> QED BY <1>2, <1>7

(* The members of a pair that conflicts are in one room.                   *)
LEMMA DetectedRoom ==
    ASSUME ShapeOK, NEW st \in Tables, NEW p \in Pairs, Detected(st, p)
    PROVE  /\ RoomOf(st, p) \in Rooms
           /\ \A r \in p : StayOf(st, r).room = RoomOf(st, p)
<1>1. PICK a \in p, b \in p : a # b /\ p = {a, b}
  BY PairParts
<1>2. /\ StayOf(st, a).room \in Rooms
      /\ StayOf(st, a).room = StayOf(st, b).room
  BY <1>1 DEF Detected, Eligible, StayOf, ShapeOK
<1>3. \A r \in p : StayOf(st, r).room = StayOf(st, a).room
  BY <1>1, <1>2
<1>4. RoomOf(st, p) = CHOOSE room \in Rooms : \E r \in p : StayOf(st, r).room = room
  BY DEF RoomOf, StayOf
<1>5. \A room \in Rooms : (\E r \in p : StayOf(st, r).room = room) <=> room = StayOf(st, a).room
  BY <1>1, <1>3
<1>6. RoomOf(st, p) = StayOf(st, a).room
  BY <1>2, <1>4, <1>5
<1> QED BY <1>2, <1>3, <1>6

(* The overlap of two stays ends when the first of them does.              *)
LEMMA OverlapEndType ==
    ASSUME NEW st \in Tables, NEW p \in Pairs
    PROVE  /\ OverlapEnd(st, p) \in Nat
           /\ \E r \in p : OverlapEnd(st, p) = StayOf(st, r).end
           /\ \A r \in p : StayOf(st, r).end \in Nat /\ OverlapEnd(st, p) <= StayOf(st, r).end
<1>1. PICK a \in p, b \in p : a # b /\ p = {a, b}
  BY PairParts
<1> DEFINE ends == {StayOf(st, r).end : r \in p}
<1>2. ASSUME NEW r \in p
      PROVE  StayOf(st, r).end \in Nat
  <2>1. r[1] \in Sources /\ r[2] \in Uids
    BY PairParts DEF Reservations
  <2>2. StayOf(st, r) \in Stays
    BY <2>1 DEF StayOf, Tables
  <2> QED BY <2>2, IntervalsAssumption DEF Stays, None
<1>3. \E d \in ends : \A r \in p : d <= StayOf(st, r).end
  <2>1. CASE StayOf(st, a).end <= StayOf(st, b).end
    BY <1>1, <1>2, <2>1
  <2>2. CASE StayOf(st, b).end <= StayOf(st, a).end
    BY <1>1, <1>2, <2>2
  <2> QED BY <1>1, <1>2, <2>1, <2>2
<1>4. OverlapEnd(st, p) = CHOOSE d \in ends : \A r \in p : d <= StayOf(st, r).end
  BY DEF OverlapEnd, StayOf
<1>5. OverlapEnd(st, p) \in ends /\ \A r \in p : OverlapEnd(st, p) <= StayOf(st, r).end
  <2> HIDE DEF ends
  <2> QED BY <1>3, <1>4
<1> QED BY <1>2, <1>5

-----------------------------------------------------------------------------
(* One transaction                                                         *)

(* What Store may be given: the stays of one source change, and those that *)
(* are not removed stay in their room.                                     *)
Handed(st, s, removed, room) ==
    /\ st \in Tables /\ removed \subseteq {s} \X Uids /\ room \in Rooms
    /\ \A r \in Reservations : r[1] # s => StayOf(st, r) = StayOf(stays, r)
    /\ \A r \in Reservations \ removed :
         StayOf(stays, r) # None => StayOf(st, r).room = StayOf(stays, r).room

Stores(st, s, removed, room) ==
    /\ Handed(st, s, removed, room) /\ Store(st, removed, room)
    /\ UNCHANGED <<today, source, activeRooms>>

(* So it is with a sync,                                                   *)
LEMMA SyncStores ==
    ASSUME ShapeOK, NEW s \in Sources, NEW room \in Rooms, NEW feed \in Feeds,
           NEW before \in RecentDays, NEW fullyParsed \in BOOLEAN,
           Sync(s, room, feed, before, fullyParsed)
    PROVE  \E st, removed : Stores(st, s, removed, room)
<1> DEFINE new == Reconciled(stays[s], feed, fullyParsed, before, room)
           st == [stays EXCEPT ![s] = new]
           removed == {s} \X BlockedDeletion(stays[s], feed, fullyParsed)
<1>0. stays \in Tables /\ stays[s] \in [Uids -> Stays] /\ before \in Nat
  BY DEF ShapeOK, Tables, RecentDays
<1>1. /\ new \in [Uids -> Stays]
      /\ \A u \in Stored(stays[s]) \ BlockedDeletion(stays[s], feed, fullyParsed) :
           new[u].room = stays[s][u].room
  BY <1>0, ReconciledType
<1>2. BlockedDeletion(stays[s], feed, fullyParsed) \subseteq Uids
  BY DEF BlockedDeletion, Stored
<1>3. Store(st, removed, room) /\ UNCHANGED <<today, source, activeRooms>>
  BY DEF Sync
<1> HIDE DEF new
<1>4. Handed(st, s, removed, room)
  BY <1>0, <1>1, <1>2 DEF Handed, StayOf, Tables, Reservations, Stored
<1> QED BY <1>3, <1>4 DEF Stores

(* and with a new URL.                                                     *)
LEMMA ReplaceStores ==
    ASSUME ShapeOK, NEW s \in Sources, NEW feed \in Feeds, ReplaceUrl(s, feed)
    PROVE  \E st, removed : Stores(st, s, removed, source[s].room)
<1> DEFINE new == Replacement(stays[s], feed, today, source[s].room)
           st == [stays EXCEPT ![s] = new]
           removed == {s} \X Replaceable(stays[s], today)
<1>0. stays \in Tables /\ stays[s] \in [Uids -> Stays] /\ today \in Nat /\ source[s].room \in Rooms
  BY DEF ShapeOK, Tables
<1>1. /\ new \in [Uids -> Stays]
      /\ \A u \in Stored(stays[s]) \ Replaceable(stays[s], today) : new[u].room = stays[s][u].room
  BY <1>0, ReplacementType
<1>2. Replaceable(stays[s], today) \subseteq Uids
  BY DEF Replaceable, Stored
<1>3. Store(st, removed, source[s].room) /\ UNCHANGED <<today, source, activeRooms>>
  BY DEF ReplaceUrl
<1> HIDE DEF new
<1>4. Handed(st, s, removed, source[s].room)
  BY <1>0, <1>1, <1>2 DEF Handed, StayOf, Tables, Reservations, Stored
<1> QED BY <1>3, <1>4 DEF Stores

(* What a transaction makes of the row of a pair: what is left of it, old,  *)
(* refers to stays that stay.                                              *)
RowMoves(old, st, removed, room, p) ==
    /\ p \cap removed = {} => old = conflict[p]
    /\ old.status # "NONE" => /\ old = conflict[p] /\ old.room \in Rooms
                              /\ \A r \in p : /\ StayOf(stays, r) # None
                                              /\ StayOf(stays, r).room = old.room
                                              /\ StayOf(st, r).room = old.room
    /\ \/ /\ Detected(st, p) /\ RoomOf(st, p) = room
          /\ \/ old.status = "DISMISSED" /\ OverlapEnd(st, p) < today /\ conflict'[p] = old
             \/ conflict'[p] = [status |-> "ACTIVE", room |-> room, end |-> OverlapEnd(st, p)]
       \/ /\ ~Detected(st, p) /\ old.room = room /\ old.status = "ACTIVE"
          /\ conflict'[p] = [old EXCEPT !.status = "RESOLVED"]
       \/ /\ ~(Detected(st, p) /\ RoomOf(st, p) = room)
          /\ ~(~Detected(st, p) /\ old.room = room /\ old.status = "ACTIVE")
          /\ conflict'[p] = old

(* So it does.                                                             *)
LEMMA StoredRow ==
    ASSUME CalendarInv, NEW st, NEW s \in Sources, NEW removed, NEW room, Stores(st, s, removed, room),
           NEW p \in Pairs
    PROVE  \E old \in Rows : RowMoves(old, st, removed, room, p)
<1> DEFINE old == IF p \cap removed # {} THEN NoConflict ELSE conflict[p]
<1>1. conflict'[p] = Recomputed(st, room, p, old)
  BY DEF Stores, Store
<1>2. old \in Rows
  BY DEF CalendarInv, ShapeOK, Rows, NoConflict
<1>3. /\ old.status # "NONE" => old = conflict[p] /\ p \cap removed = {} /\ old.room \in Rooms
      /\ p \cap removed = {} => old = conflict[p]
  BY DEF CalendarInv, ShapeOK, NoConflict
<1>4. ASSUME old.status # "NONE", NEW r \in p
      PROVE  /\ StayOf(stays, r) # None
             /\ StayOf(stays, r).room = old.room
             /\ StayOf(st, r).room = old.room
  <2>1. StayOf(stays, r).room = conflict[p].room
    BY <1>3, <1>4 DEF CalendarInv, Grounded, StayOf
  <2>2. StayOf(stays, r) # None
    BY <1>3, <1>4, <2>1, NoRoomAssumption DEF None
  <2>3. r \in Reservations \ removed
    BY <1>3, <1>4, PairParts
  <2> QED BY <1>3, <1>4, <2>1, <2>2, <2>3 DEF Stores, Handed
<1> HIDE DEF old
<1>5. \/ /\ Detected(st, p) /\ RoomOf(st, p) = room
         /\ \/ old.status = "DISMISSED" /\ OverlapEnd(st, p) < today /\ conflict'[p] = old
            \/ conflict'[p] = [status |-> "ACTIVE", room |-> room, end |-> OverlapEnd(st, p)]
      \/ /\ ~Detected(st, p) /\ old.room = room /\ old.status = "ACTIVE"
         /\ conflict'[p] = [old EXCEPT !.status = "RESOLVED"]
      \/ /\ ~(Detected(st, p) /\ RoomOf(st, p) = room)
         /\ ~(~Detected(st, p) /\ old.room = room /\ old.status = "ACTIVE")
         /\ conflict'[p] = old
  BY <1>1 DEF Recomputed
<1> QED BY <1>2, <1>3, <1>4, <1>5 DEF RowMoves

(* A transaction keeps the rows grounded.                                  *)
LEMMA StoreKeeps ==
    ASSUME CalendarInv, NEW st, NEW s \in Sources, NEW removed, NEW room, Stores(st, s, removed, room)
    PROVE  CalendarInv'
<1>0. st \in Tables /\ room \in Rooms /\ stays' = st /\ UNCHANGED <<today, source, activeRooms>>
  BY DEF Stores, Handed, Store
<1>1. ASSUME NEW p \in Pairs
      PROVE  /\ conflict'[p] \in Rows
             /\ conflict'[p].status # "NONE" => /\ conflict'[p].room \in Rooms
                                                /\ \A r \in p : StayOf(st, r).room = conflict'[p].room
  <2>0. PICK old \in Rows : RowMoves(old, st, removed, room, p)
    BY StoredRow
  <2>1. /\ old.status # "NONE" => /\ old = conflict[p] /\ old.room \in Rooms
                                  /\ \A r \in p : StayOf(st, r).room = old.room
        /\ \/ /\ Detected(st, p) /\ RoomOf(st, p) = room
              /\ \/ conflict'[p] = old
                 \/ conflict'[p] = [status |-> "ACTIVE", room |-> room, end |-> OverlapEnd(st, p)]
           \/ old.status = "ACTIVE" /\ conflict'[p] = [old EXCEPT !.status = "RESOLVED"]
           \/ conflict'[p] = old
    BY <2>0 DEF RowMoves
  <2>2. CASE conflict'[p] = old
    BY <2>1, <2>2
  <2>3. CASE /\ Detected(st, p) /\ RoomOf(st, p) = room
             /\ conflict'[p] = [status |-> "ACTIVE", room |-> room, end |-> OverlapEnd(st, p)]
    <3>1. OverlapEnd(st, p) \in Nat /\ \A r \in p : StayOf(st, r).room = room
      BY <1>0, <2>3, OverlapEndType, DetectedRoom DEF CalendarInv
    <3> QED BY <1>0, <2>3, <3>1 DEF Rows
  <2>4. CASE old.status = "ACTIVE" /\ conflict'[p] = [old EXCEPT !.status = "RESOLVED"]
    <3>1. conflict'[p] \in Rows /\ conflict'[p].room = old.room
      BY <2>4 DEF Rows
    <3> QED BY <2>1, <2>4, <3>1
  <2> QED BY <2>1, <2>2, <2>3, <2>4
<1>2. conflict' = [p \in Pairs |-> conflict'[p]]
  BY DEF Stores, Store
<1>3. conflict' \in [Pairs -> Rows]
  BY <1>1, <1>2
<1>4. ShapeOK'
  BY <1>0, <1>1, <1>3 DEF CalendarInv, ShapeOK
<1>5. \A p \in Pairs : Grounded(p)'
  BY <1>0, <1>1 DEF Grounded, StayOf
<1> QED BY <1>4, <1>5 DEF CalendarInv

(* A pair that has lost a member has no row that is grounded.              *)
LEMMA NoRowWithout ==
    ASSUME CalendarInv, NEW p \in Pairs, NEW r \in p, StayOf(stays, r) = None
    PROVE  conflict[p].status = "NONE"
BY NoRoomAssumption DEF CalendarInv, ShapeOK, Grounded, StayOf, None

(* A deletion removes the rows of the stays it removes.                    *)
LEMMA DeleteKeeps ==
    ASSUME CalendarInv, NEW s \in Sources, Delete(s)
    PROVE  /\ CalendarInv'
           /\ \A r \in Reservations : StayOf(stays', r) = IF r[1] = s THEN None ELSE StayOf(stays, r)
           /\ \A p \in Pairs : IF \E r \in p : r[1] = s THEN conflict'[p].status = "NONE"
                                                         ELSE conflict'[p] = conflict[p]
<1>0. /\ stays' = [stays EXCEPT ![s] = [u \in Uids |-> None]] /\ stays \in Tables
      /\ source' = [source EXCEPT ![s].life = "GONE"] /\ UNCHANGED <<today, activeRooms>>
      /\ conflict \in [Pairs -> Rows]
  BY DEF Delete, CalendarInv, ShapeOK
<1>1. \A r \in Reservations : StayOf(stays', r) = IF r[1] = s THEN None ELSE StayOf(stays, r)
  BY <1>0 DEF StayOf, Reservations, Tables
<1>2. ASSUME NEW p \in Pairs
      PROVE  /\ conflict'[p] \in {conflict[p], NoConflict}
             /\ IF \E r \in p : r[1] = s THEN conflict'[p].status = "NONE"
                                          ELSE conflict'[p] = conflict[p]
  <2>1. conflict'[p] = IF \E u \in Stored(stays[s]) : <<s, u>> \in p THEN NoConflict ELSE conflict[p]
    BY DEF Delete
  <2>2. CASE \E r \in p : r[1] = s
    <3>1. PICK r \in p : r[1] = s
      BY <2>2
    <3>2. r[2] \in Uids /\ r = <<s, r[2]>>
      BY <3>1, PairParts DEF Reservations
    <3>3. CASE StayOf(stays, r) = None
      BY <2>1, <2>2, <3>3, NoRowWithout DEF NoConflict
    <3>4. CASE StayOf(stays, r) # None
      <4>1. r[2] \in Stored(stays[s]) /\ <<s, r[2]>> \in p
        BY <3>1, <3>2, <3>4 DEF Stored, StayOf
      <4> QED BY <2>1, <2>2, <4>1 DEF NoConflict
    <3> QED BY <3>3, <3>4
  <2>3. CASE ~\E r \in p : r[1] = s
    BY <2>1, <2>3
  <2> QED BY <2>1, <2>2, <2>3
<1>3. ShapeOK'
  <2>1. stays' \in Tables
    <3>1. [u \in Uids |-> None] \in [Uids -> Stays]
      BY DEF Stays
    <3> QED BY <1>0, <3>1 DEF Tables
  <2>2. source' \in [Sources -> [life : {"ACTIVE", "INACTIVE", "GONE"}, room : Rooms]]
    BY <1>0 DEF CalendarInv, ShapeOK
  <2>3. conflict' \in [Pairs -> Rows]
    <3>1. conflict' = [p \in Pairs |-> conflict'[p]]
      BY DEF Delete
    <3>2. NoConflict \in Rows
      BY DEF NoConflict, Rows
    <3>3. \A p \in Pairs : conflict'[p] \in Rows
      BY <1>0, <1>2, <3>2
    <3> QED BY <3>1, <3>3
  <2>4. \A p \in Pairs : conflict'[p].status # "NONE" => conflict'[p].room \in Rooms
    BY <1>2 DEF NoConflict, CalendarInv, ShapeOK
  <2> QED BY <1>0, <2>1, <2>2, <2>3, <2>4 DEF CalendarInv, ShapeOK
<1>4. ASSUME NEW p \in Pairs, conflict'[p].status # "NONE"
      PROVE  \A r \in p : StayOf(stays', r).room = conflict'[p].room
  <2>1. conflict'[p] = conflict[p] /\ \A r \in p : r[1] # s
    BY <1>2, <1>4
  <2>2. \A r \in p : StayOf(stays', r) = StayOf(stays, r)
    BY <1>1, <2>1, PairParts
  <2> QED BY <1>4, <2>1, <2>2 DEF CalendarInv, Grounded, StayOf
<1>5. CalendarInv'
  BY <1>3, <1>4 DEF CalendarInv, Grounded, StayOf
<1> QED BY <1>1, <1>2, <1>5

(* What a person does to a row, a source or a room moves no stay.          *)
LEMMA OthersKeep ==
    ASSUME CalendarInv,
           \/ \E p \in Pairs : Dismiss(p)
           \/ \E s \in Sources : ToggleSource(s)
           \/ \E r \in Rooms : ToggleRoom(r)
           \/ \E s \in Sources, r \in Rooms : Move(s, r)
           \/ NextDay
    PROVE  CalendarInv'
<1>1. ASSUME NEW p \in Pairs, Dismiss(p)
      PROVE  CalendarInv'
  <2>1. [conflict[p] EXCEPT !.status = "DISMISSED"] \in Rows
        /\ [conflict[p] EXCEPT !.status = "DISMISSED"].room = conflict[p].room
    BY DEF CalendarInv, ShapeOK, Rows
  <2>2. /\ conflict' = [conflict EXCEPT ![p] = [conflict[p] EXCEPT !.status = "DISMISSED"]]
        /\ conflict[p].status = "ACTIVE"
    BY <1>1 DEF Dismiss, CalendarInv, ShapeOK
  <2>3. UNCHANGED <<today, source, activeRooms, stays>>
    BY <1>1 DEF Dismiss
  <2>4. conflict' \in [Pairs -> Rows] /\ \A q \in Pairs : conflict'[q].status # "NONE" =>
            conflict[q].status # "NONE" /\ conflict'[q].room = conflict[q].room
    BY <2>1, <2>2 DEF CalendarInv, ShapeOK
  <2> QED BY <2>3, <2>4 DEF CalendarInv, ShapeOK, Grounded
<1>2. ASSUME NEW s \in Sources, ToggleSource(s)
      PROVE  CalendarInv'
  <2>1. source' \in [Sources -> [life : {"ACTIVE", "INACTIVE", "GONE"}, room : Rooms]]
    BY <1>2 DEF ToggleSource, CalendarInv, ShapeOK
  <2> QED BY <1>2, <2>1 DEF ToggleSource, CalendarInv, ShapeOK, Grounded
<1>3. ASSUME NEW r \in Rooms, ToggleRoom(r)
      PROVE  CalendarInv'
  BY <1>3 DEF ToggleRoom, CalendarInv, ShapeOK, Grounded
<1>4. ASSUME NEW s \in Sources, NEW r \in Rooms, Move(s, r)
      PROVE  CalendarInv'
  <2>1. source' \in [Sources -> [life : {"ACTIVE", "INACTIVE", "GONE"}, room : Rooms]]
    BY <1>4 DEF Move, CalendarInv, ShapeOK
  <2> QED BY <1>4, <2>1 DEF Move, CalendarInv, ShapeOK, Grounded
<1>5. CASE NextDay
  BY <1>5 DEF NextDay, CalendarInv, ShapeOK, Grounded
<1> QED BY <1>1, <1>2, <1>3, <1>4, <1>5

(* The invariant holds throughout.                                         *)
LEMMA CalendarInvariant == Spec => []CalendarInv
<1>1. Init => CalendarInv
  <2> SUFFICES ASSUME Init PROVE CalendarInv
    OBVIOUS
  <2>1. NoConflict \in Rows /\ NoConflict.status = "NONE" /\ None \in Stays
    BY DEF NoConflict, Rows, Stays
  <2> QED BY <2>1 DEF Init, CalendarInv, ShapeOK, Grounded, Tables
<1>2. CalendarInv /\ [Next]_vars => CalendarInv'
  <2> SUFFICES ASSUME CalendarInv, [Next]_vars PROVE CalendarInv'
    OBVIOUS
  <2>1. ASSUME NEW s \in Sources, Delete(s)
        PROVE  CalendarInv'
    BY <2>1, DeleteKeeps
  <2>2. ASSUME NEW s \in Sources, NEW room \in Rooms, NEW feed \in Feeds, NEW before \in RecentDays,
               NEW fullyParsed \in BOOLEAN, Sync(s, room, feed, before, fullyParsed)
        PROVE  CalendarInv'
    <3>1. PICK st, removed : Stores(st, s, removed, room)
      BY <2>2, SyncStores DEF CalendarInv
    <3> QED BY <3>1, StoreKeeps
  <2>3. ASSUME NEW s \in Sources, NEW feed \in Feeds, ReplaceUrl(s, feed)
        PROVE  CalendarInv'
    <3>1. PICK st, removed : Stores(st, s, removed, source[s].room)
      BY <2>3, ReplaceStores DEF CalendarInv
    <3> QED BY <3>1, StoreKeeps
  <2>4. CASE UNCHANGED vars
    BY <2>4 DEF vars, CalendarInv, ShapeOK, Grounded
  <2> QED BY <2>1, <2>2, <2>3, <2>4, OthersKeep DEF Next
<1> QED BY <1>1, <1>2, PTL DEF Spec

-----------------------------------------------------------------------------
(* Theorems about the feed                                                 *)

(* After the sync of a fully parsed feed the stays that count are those of *)
(* the feed, history is kept, and so does a new URL keep it.               *)
THEOREM FeedIsMirrored == Spec => []MirrorsFeed
<1>1. CalendarInv => MirrorsFeed
  BY FeedMirrored DEF CalendarInv
<1> QED BY <1>1, CalendarInvariant, PTL

(* The counts that are predicted before the statements of a sync or a      *)
(* replacement are those found after them, so none is aborted by them.     *)
THEOREM CountsAlwaysAgree == Spec => []CountsAgree
<1>1. CalendarInv => CountsAgree
  BY CountsPredicted DEF CalendarInv
<1> QED BY <1>1, CalendarInvariant, PTL

-----------------------------------------------------------------------------
(* Theorems about the conflicts                                            *)

(* A pair of which nothing changes conflicts as before.                    *)
LEMMA SamePair ==
    ASSUME ShapeOK, NEW st \in Tables, NEW p \in Pairs, activeRooms' = activeRooms,
           stays' = st,
           \A r \in p : StayOf(st, r) = StayOf(stays, r) /\ source'[r[1]].life = source[r[1]].life
    PROVE  /\ Detected(stays, p)' <=> Detected(stays, p)
           /\ OverlapEnd(stays, p)' = OverlapEnd(stays, p)
<1>1. Detected(stays, p)' <=> Detected(stays, p)
  <2>1. \A r \in p : stays'[r[1]][r[2]] = stays[r[1]][r[2]]
    BY DEF StayOf
  <2>2. \A r \in p : Eligible(stays, r)' <=> Eligible(stays, r)
    BY <2>1 DEF Eligible
  <2>3. \A a, b \in p :
           /\ stays'[a[1]][a[2]].room = stays'[b[1]][b[2]].room <=>
                stays[a[1]][a[2]].room = stays[b[1]][b[2]].room
           /\ stays'[a[1]][a[2]].start < stays'[b[1]][b[2]].end <=>
                stays[a[1]][a[2]].start < stays[b[1]][b[2]].end
    BY <2>1
  <2> QED BY <2>2, <2>3 DEF Detected
<1>2. OverlapEnd(stays, p)' = OverlapEnd(st, p)
  BY DEF OverlapEnd
<1>3. /\ OverlapEnd(st, p) \in Nat /\ OverlapEnd(stays, p) \in Nat
      /\ \E r \in p : OverlapEnd(st, p) = StayOf(st, r).end
      /\ \E r \in p : OverlapEnd(stays, p) = StayOf(stays, r).end
      /\ \A r \in p : OverlapEnd(st, p) <= StayOf(st, r).end
      /\ \A r \in p : OverlapEnd(stays, p) <= StayOf(stays, r).end
  BY OverlapEndType DEF ShapeOK
<1>4. OverlapEnd(st, p) = OverlapEnd(stays, p)
  BY <1>3
<1> QED BY <1>1, <1>2, <1>4

(* Its row stays exact, if that does not change either.                    *)
LEMMA ExactStays ==
    ASSUME ShapeOK, NEW p \in Pairs, activeRooms' = activeRooms, stays' \in Tables,
           \A r \in p : StayOf(stays', r) = StayOf(stays, r) /\ source'[r[1]].life = source[r[1]].life,
           conflict'[p] = conflict[p], today' \in {today, today + 1}, Exact(p)
    PROVE  Exact(p)'
<1>1. /\ Detected(stays, p)' <=> Detected(stays, p)
      /\ OverlapEnd(stays, p)' = OverlapEnd(stays, p)
  BY SamePair
<1>2. OverlapEnd(stays, p) \in Nat /\ today \in Nat
  BY OverlapEndType DEF ShapeOK
<1> QED BY <1>1, <1>2 DEF Exact

(* A transaction makes every pair in its room exact.                       *)
LEMMA ExactInRoom ==
    ASSUME CalendarInv, NEW st, NEW s \in Sources, NEW removed, NEW room, Stores(st, s, removed, room),
           NEW p \in Pairs, NEW r \in p, StayOf(st, r).room = room
    PROVE  Exact(p)'
<1>0. st \in Tables /\ stays' = st /\ UNCHANGED <<today, source, activeRooms>> /\ ShapeOK
  BY DEF Stores, Handed, Store, CalendarInv
<1>1. PICK old \in Rows : RowMoves(old, st, removed, room, p)
  BY StoredRow
<1>2. /\ Detected(stays, p)' <=> Detected(st, p)
      /\ OverlapEnd(stays, p)' = OverlapEnd(st, p)
  BY <1>0 DEF Detected, Eligible, OverlapEnd
<1>3. CASE Detected(st, p)
  <2>1. RoomOf(st, p) = room
    BY <1>0, <1>3, DetectedRoom
  <2>2. \/ old.status = "DISMISSED" /\ OverlapEnd(st, p) < today /\ conflict'[p] = old
        \/ conflict'[p] = [status |-> "ACTIVE", room |-> room, end |-> OverlapEnd(st, p)]
    BY <1>1, <1>3, <2>1 DEF RowMoves
  <2> QED BY <1>0, <1>2, <1>3, <2>2 DEF Exact
<1>4. CASE ~Detected(st, p)
  <2>1. conflict'[p].status # "ACTIVE"
    <3>1. CASE old.status = "ACTIVE"
      <4>1. old.room = room
        BY <1>1, <3>1 DEF RowMoves
      <4>2. conflict'[p] = [old EXCEPT !.status = "RESOLVED"]
        BY <1>1, <1>4, <3>1, <4>1 DEF RowMoves
      <4> QED BY <4>2 DEF Rows
    <3>2. CASE old.status # "ACTIVE"
      BY <1>1, <1>4, <3>2 DEF RowMoves
    <3> QED BY <3>1, <3>2
  <2> QED BY <1>2, <1>4, <2>1 DEF Exact
<1> QED BY <1>3, <1>4

(* A sync that has just been persisted makes the conflicts of its room     *)
(* exact whatever was switched off or moved before or during it.           *)
THEOREM SyncMakesExact == Spec => ExactAfterSync
<1>1. ASSUME CalendarInv, NEW room \in Rooms, NEW s \in Sources, NEW feed \in Feeds,
             NEW before \in RecentDays, NEW fullyParsed \in BOOLEAN,
             Sync(s, room, feed, before, fullyParsed)
      PROVE  ExactIn(room)'
  <2>1. PICK st, removed : Stores(st, s, removed, room)
    BY <1>1, SyncStores DEF CalendarInv
  <2>2. ASSUME NEW p \in Pairs, NEW r \in p, StayOf(stays', r).room = room
        PROVE  Exact(p)'
    <3>1. stays' = st
      BY <2>1 DEF Stores, Store
    <3> QED BY <1>1, <2>1, <2>2, <3>1, ExactInRoom
  <2> QED BY <2>2 DEF ExactIn, StayOf
<1> DEFINE Body == \A room \in Rooms : ~ExactIn(room)' =>
                      \A s \in Sources, feed \in Feeds, before \in RecentDays, fullyParsed \in BOOLEAN :
                         ~Sync(s, room, feed, before, fullyParsed)
<1>2. CalendarInv => Body
  BY <1>1
<1> HIDE DEF Body
<1>3. Spec => [][Body]_vars
  BY <1>2, CalendarInvariant, PTL
<1> QED BY <1>3 DEF ExactAfterSync, Body

(* A transaction that has the room of its source, of which no stay is      *)
(* elsewhere, keeps all conflicts consistent.                              *)
LEMMA StoreConsistent ==
    ASSUME CalendarInv, Consistent, Unmoved', NEW s \in Sources, NEW st, NEW removed,
           Stores(st, s, removed, source[s].room), NEW p \in Pairs
    PROVE  Exact(p)'
<1> DEFINE room == source[s].room
<1>0. /\ st \in Tables /\ stays' = st /\ UNCHANGED <<today, source, activeRooms>> /\ ShapeOK
      /\ removed \subseteq {s} \X Uids /\ room \in Rooms
  BY DEF Stores, Handed, Store, CalendarInv
<1>1. CASE \E r \in p : StayOf(st, r).room = room
  BY <1>1, ExactInRoom
<1>2. CASE ~\E r \in p : StayOf(st, r).room = room
  <2>1. ASSUME NEW r \in p, r[1] = s
        PROVE  StayOf(st, r) = None
    <3>1. r \in Reservations
      BY PairParts
    <3>2. StayOf(st, r) # None => StayOf(st, r).room = source[s].room
      BY <1>0, <2>1, <3>1 DEF Unmoved, StayOf
    <3> QED BY <1>2, <3>2
  <2>2. CASE \E r \in p : r[1] = s
    <3>1. PICK r \in p : r[1] = s
      BY <2>2
    <3>2. StayOf(st, r) = None
      BY <2>1, <3>1
    <3>3. ~Detected(st, p)
      <4>1. StayOf(st, r).room \notin Rooms
        BY <3>2, NoRoomAssumption DEF None
      <4> QED BY <1>0, <4>1, DetectedRoom
    <3>4. PICK old \in Rows : RowMoves(old, st, removed, room, p)
      BY StoredRow
    <3>5. old.status = "NONE"
      BY <3>2, <3>4, NoRoomAssumption DEF RowMoves, None
    <3>6. conflict'[p].status # "ACTIVE"
      BY <3>3, <3>4, <3>5 DEF RowMoves
    <3>7. Detected(stays, p)' <=> Detected(st, p)
      BY <1>0 DEF Detected, Eligible
    <3> QED BY <3>3, <3>6, <3>7 DEF Exact
  <2>3. CASE ~\E r \in p : r[1] = s
    <3>1. \A r \in p : StayOf(st, r) = StayOf(stays, r) /\ r \notin removed
      BY <1>0, <2>3, PairParts DEF Stores, Handed
    <3>2. PICK old \in Rows : RowMoves(old, st, removed, room, p)
      BY StoredRow
    <3>3. old = conflict[p]
      BY <3>1, <3>2 DEF RowMoves
    <3>4. Detected(st, p) <=> Detected(stays, p)
      <4>1. \A r \in p : st[r[1]][r[2]] = stays[r[1]][r[2]]
        BY <3>1 DEF StayOf
      <4>2. \A r \in p : Eligible(st, r) <=> Eligible(stays, r)
        BY <4>1 DEF Eligible
      <4>3. \A a, b \in p :
               /\ st[a[1]][a[2]].room = st[b[1]][b[2]].room <=>
                    stays[a[1]][a[2]].room = stays[b[1]][b[2]].room
               /\ st[a[1]][a[2]].start < st[b[1]][b[2]].end <=>
                    stays[a[1]][a[2]].start < stays[b[1]][b[2]].end
        BY <4>1
      <4> QED BY <4>2, <4>3 DEF Detected
    <3>5. ~(Detected(st, p) /\ RoomOf(st, p) = room)
      <4>1. \E r \in p : TRUE
        BY PairParts
      <4> QED BY <1>0, <1>2, <4>1, DetectedRoom
    <3>6. ~(~Detected(st, p) /\ old.room = room /\ old.status = "ACTIVE")
      BY <3>3, <3>4 DEF Consistent, Exact
    <3>7. conflict'[p] = conflict[p]
      BY <3>2, <3>3, <3>5, <3>6 DEF RowMoves
    <3> QED BY <1>0, <3>1, <3>7, ExactStays DEF Consistent
  <2> QED BY <2>2, <2>3
<1> QED BY <1>1, <1>2

(* As long as calendars are neither moved nor switched, no operation makes *)
(* consistent conflicts inconsistent; only a sync that began before its    *)
(* source was moved can.                                                   *)
THEOREM ConsistencyIsKept == Spec => ConsistencyKept
<1> DEFINE Late == \E s \in Sources, room \in Rooms, feed \in Feeds, before \in RecentDays,
                      fullyParsed \in BOOLEAN :
                        room # source[s].room /\ Sync(s, room, feed, before, fullyParsed)
           Body == Consistent /\ ~Consistent' /\ Unmoved /\ Unmoved' /\ Unswitched => Late
<1>1. ASSUME CalendarInv, CalendarInv', [Next]_vars, Consistent, Unmoved, Unmoved', Unswitched, ~Late
      PROVE  Consistent'
  <2>0. ShapeOK /\ stays' \in Tables /\ \A p \in Pairs : Grounded(p)' /\ Exact(p)
    BY <1>1 DEF CalendarInv, ShapeOK, Consistent
  <2> SUFFICES ASSUME NEW p \in Pairs
               PROVE  Exact(p)'
    BY <2>0 DEF Consistent
  <2>1. ASSUME NEW s \in Sources, Delete(s)
        PROVE  Exact(p)'
    <3>1. CASE \E r \in p : r[1] = s
      <4>1. conflict'[p].status = "NONE"
        BY <1>1, <2>1, <3>1, DeleteKeeps
      <4>2. PICK r \in p : StayOf(stays', r) = None
        BY <1>1, <2>1, <3>1, DeleteKeeps, PairParts
      <4>3. ~Detected(stays, p)'
        <5>1. PICK q \in p : q # r
          BY PairParts
        <5> QED BY <4>2, <5>1 DEF Detected, Eligible, StayOf, None
      <4> QED BY <4>1, <4>3 DEF Exact
    <3>2. CASE ~\E r \in p : r[1] = s
      <4>1. /\ conflict'[p] = conflict[p]
            /\ \A r \in p : StayOf(stays', r) = StayOf(stays, r)
        BY <1>1, <2>1, <3>2, DeleteKeeps, PairParts
      <4>2. /\ \A r \in p : source'[r[1]].life = source[r[1]].life
            /\ UNCHANGED <<today, activeRooms>>
        BY <2>0, <2>1, <3>2, PairParts DEF Delete, Reservations, ShapeOK
      <4> QED BY <2>0, <4>1, <4>2, ExactStays
    <3> QED BY <3>1, <3>2
  <2>2. ASSUME NEW s \in Sources, NEW room \in Rooms, NEW feed \in Feeds, NEW before \in RecentDays,
               NEW fullyParsed \in BOOLEAN, Sync(s, room, feed, before, fullyParsed)
        PROVE  Exact(p)'
    <3>1. room = source[s].room
      BY <1>1, <2>2
    <3>2. PICK st, removed : Stores(st, s, removed, source[s].room)
      BY <2>0, <2>2, <3>1, SyncStores
    <3> QED BY <1>1, <3>2, StoreConsistent
  <2>3. ASSUME NEW s \in Sources, NEW feed \in Feeds, ReplaceUrl(s, feed)
        PROVE  Exact(p)'
    <3>1. PICK st, removed : Stores(st, s, removed, source[s].room)
      BY <2>0, <2>3, ReplaceStores
    <3> QED BY <1>1, <3>1, StoreConsistent
  <2>4. ASSUME NEW q \in Pairs, Dismiss(q)
        PROVE  Exact(p)'
    <3>1. UNCHANGED <<today, source, activeRooms, stays>>
      BY <2>4 DEF Dismiss
    <3>2. CASE p # q
      <4>1. conflict'[p] = conflict[p]
        BY <2>0, <2>4, <3>2 DEF Dismiss, ShapeOK
      <4> QED BY <2>0, <3>1, <4>1, ExactStays
    <3>3. CASE p = q
      <4>1. conflict[p].status = "ACTIVE" /\ conflict[p].end < today
        BY <2>4, <3>3 DEF Dismiss
      <4>2. conflict'[p].status = "DISMISSED"
        BY <2>0, <2>4, <3>3 DEF Dismiss, ShapeOK, Rows
      <4>3. OverlapEnd(stays, p)' = OverlapEnd(stays, p)
        BY <3>1 DEF OverlapEnd
      <4>4. Detected(stays, p)' <=> Detected(stays, p)
        BY <3>1 DEF Detected, Eligible
      <4> QED BY <2>0, <3>1, <4>1, <4>2, <4>3, <4>4 DEF Exact
    <3> QED BY <3>2, <3>3
  <2>5. ASSUME NEW s \in Sources, ToggleSource(s)
        PROVE  FALSE
    BY <1>1, <2>0, <2>5 DEF ToggleSource, Unswitched, Present, ShapeOK
  <2>6. ASSUME NEW r \in Rooms, ToggleRoom(r)
        PROVE  FALSE
    BY <1>1, <2>6 DEF ToggleRoom, Unswitched
  <2>7. ASSUME NEW s \in Sources, NEW r \in Rooms, Move(s, r)
        PROVE  Exact(p)'
    <3>1. UNCHANGED <<today, activeRooms, stays, conflict>>
      BY <2>7 DEF Move
    <3>2. \A t \in Sources : source'[t].life = source[t].life
      BY <2>0, <2>7 DEF Move, ShapeOK
    <3>3. \A a \in p : a[1] \in Sources
      BY PairParts DEF Reservations
    <3> QED BY <2>0, <3>1, <3>2, <3>3, ExactStays
  <2>8. CASE NextDay
    <3>1. today' = today + 1 /\ UNCHANGED <<source, activeRooms, stays, conflict>>
      BY <2>8 DEF NextDay
    <3> QED BY <2>0, <3>1, ExactStays
  <2>9. CASE UNCHANGED vars
    BY <2>0, <2>9, ExactStays DEF vars
  <2> QED BY <1>1, <2>1, <2>2, <2>3, <2>4, <2>5, <2>6, <2>7, <2>8, <2>9 DEF Next
<1> HIDE DEF Late
<1>2. CalendarInv /\ CalendarInv' /\ [Next]_vars => Body
  BY <1>1
<1> HIDE DEF Body
<1>3. Spec => [][Body]_vars
  BY <1>2, CalendarInvariant, PTL DEF Spec
<1> QED BY <1>3 DEF ConsistencyKept, Body, Late
=============================================================================
