----------------------- MODULE CleaningPhotos_proofs -----------------------
(* CleaningPhotos implements PhotoLedger, for every number of requests,    *)
(* upload ids, keys and days, whatever goes wrong.                         *)
EXTENDS CleaningPhotos, FiniteSetTheorems, TLAPS

Spent == {u \in Uploads : photo[u] # None /\ photo[u].key = None}

(* What a request has in hand at each step; rows never go, so the photo    *)
(* that is to be marked as removed still has its row.                      *)
ReqOK(r) ==
    /\ req[r].pc # "idle" => req[r].u \in Uploads
    /\ req[r].pc \in {"check", "count", "insert", "undo", "undoDuplicate", "unlink", "mark"} =>
         req[r].key \in Keys
    /\ req[r].pc \in {"unlink", "mark"} => photo[req[r].u] # None

CleanerOK ==
    /\ cleaner \in [todo : SUBSET (Uploads \X Keys), marking : (Uploads \X Keys) \cup {None}]
    /\ \A c \in cleaner.todo : photo[c[1]] # None

(* The transaction that inserts holds the lock and has room for its photo. *)
RoomLeft ==
    /\ IsFiniteSet(Active)
    /\ Cardinality(Active) <= MaxCount
    /\ \A r \in Requests : At(r, "insert") =>
         lock = r /\ Cardinality(Active) < MaxCount

PhotosInv == TypeOK /\ (\A r \in Requests : ReqOK(r)) /\ CleanerOK /\ RoomLeft

(* What may happen to the photos: nothing the outside sees, one more, one  *)
(* less.                                                                   *)
Unseen == Active' = Active /\ Spent' = Spent

Appears(u) ==
    /\ u \notin Active \cup Spent
    /\ Cardinality(Active) < MaxCount
    /\ Active' = Active \cup {u} /\ Spent' = Spent

Vanishes(u) ==
    /\ u \in Active
    /\ Active' = Active \ {u} /\ Spent' = Spent \cup {u}

(* Dates are moved without touching the photos.                            *)
LEMMA RescheduleUnseen ==
    ASSUME TypeOK, NEW date \in Dates \cup {None}, photo' = Rescheduled(date)
    PROVE  /\ Unseen
           /\ photo' \in [Uploads -> Photo \cup {None}]
           /\ \A u \in Uploads : /\ photo'[u] = None <=> photo[u] = None
                                 /\ Stored(u)' => photo'[u].due = date
<1>1. ASSUME NEW u \in Uploads
      PROVE  /\ photo'[u] \in Photo \cup {None}
             /\ photo'[u] = None <=> photo[u] = None
             /\ photo[u] # None => photo'[u].key = photo[u].key
             /\ Stored(u) => photo'[u].due = date
  <2>1. CASE Stored(u)
    <3>1. photo[u] \in Photo
      BY <2>1 DEF TypeOK, Stored
    <3>2. photo'[u] = [photo[u] EXCEPT !.due = date]
      BY <2>1 DEF Rescheduled
    <3>3. photo'[u] \in Photo /\ photo'[u].key = photo[u].key /\ photo'[u].due = date
      BY <3>1, <3>2 DEF Photo
    <3> QED BY <2>1, <3>3, RowAssumption DEF Stored
  <2>2. CASE ~Stored(u)
    <3>1. photo'[u] = photo[u]
      BY <2>2 DEF Rescheduled
    <3> QED BY <2>2, <3>1 DEF TypeOK
  <2> QED BY <2>1, <2>2
<1>2. photo' \in [Uploads -> Photo \cup {None}]
  BY <1>1 DEF Rescheduled
<1>3. \A u \in Uploads : Stored(u)' <=> Stored(u)
  BY <1>1 DEF Stored
<1>4. Active' = Active
  BY <1>3 DEF Active
<1>5. Spent' = Spent
  BY <1>1 DEF Spent
<1> QED BY <1>1, <1>2, <1>3, <1>4, <1>5 DEF Unseen

(* The row of a removed photo stays, without a key.                        *)
LEMMA RemoveVanishes ==
    ASSUME TypeOK, NEW u \in Uploads, Stored(u), NEW date \in Dates \cup {None},
           photo' = Removed(u, date)
    PROVE  /\ Vanishes(u)
           /\ photo' \in [Uploads -> Photo \cup {None}]
           /\ \A v \in Uploads : photo'[v] = None <=> photo[v] = None
<1>1. [key |-> None, due |-> date] \in Photo
  BY DEF Photo
<1>2. /\ photo'[u] = [key |-> None, due |-> date]
      /\ \A v \in Uploads : v # u => photo'[v] = photo[v]
      /\ photo' \in [Uploads -> Photo \cup {None}]
  BY <1>1 DEF Removed, TypeOK
<1>3. photo'[u] # None /\ photo'[u].key = None
  BY <1>1, <1>2, RowAssumption
<1>4. ~Stored(u)' /\ \A v \in Uploads : v # u => (Stored(v)' <=> Stored(v))
  BY <1>2, <1>3 DEF Stored
<1>5. Active' = Active \ {u} /\ u \in Active
  BY <1>4 DEF Active
<1>6. Spent' = Spent \cup {u}
  BY <1>2, <1>3 DEF Spent
<1> QED BY <1>2, <1>3, <1>5, <1>6 DEF Vanishes, Stored

(* A new row shows one photo more.                                         *)
LEMMA InsertAppears ==
    ASSUME TypeOK, RoomLeft, NEW u \in Uploads, photo[u] = None,
           NEW k \in Keys, NEW date \in Dates \cup {None}, Cardinality(Active) < MaxCount,
           photo' = [photo EXCEPT ![u] = [key |-> k, due |-> date]]
    PROVE  /\ Appears(u)
           /\ photo' \in [Uploads -> Photo \cup {None}]
           /\ \A v \in Uploads : photo'[v] = None => photo[v] = None
<1>1. [key |-> k, due |-> date] \in Photo /\ k # None
  BY NoneAssumption DEF Photo
<1>2. /\ photo'[u] = [key |-> k, due |-> date]
      /\ \A v \in Uploads : v # u => photo'[v] = photo[v]
      /\ photo' \in [Uploads -> Photo \cup {None}]
  BY <1>1 DEF TypeOK
<1>3. photo'[u] # None /\ photo'[u].key # None
  BY <1>1, <1>2, RowAssumption
<1>4. ~Stored(u) /\ Stored(u)' /\ \A v \in Uploads : v # u => (Stored(v)' <=> Stored(v))
  BY <1>2, <1>3 DEF Stored
<1>5. Active' = Active \cup {u} /\ u \notin Active
  BY <1>4 DEF Active
<1>6. Spent' = Spent /\ u \notin Spent
  BY <1>2, <1>3 DEF Spent
<1> QED BY <1>2, <1>5, <1>6 DEF Appears
-----------------------------------------------------------------------------
Ledgered == Unseen \/ \E u \in Uploads : Appears(u) \/ Vanishes(u)

(* What a step leaves when it changes one request and perhaps the lock,    *)
(* and no photo.                                                           *)
ReqSet == [pc : {"idle", "ok", "store", "check", "count", "insert", "undo",
                 "undoDuplicate", "again", "unlink", "mark"},
           u : Uploads \cup {None}, key : Keys \cup {None}, due : Dates \cup {None}]

Handed(q) ==
    /\ q \in ReqSet
    /\ q.pc # "idle" => q.u \in Uploads
    /\ q.pc \in {"check", "count", "insert", "undo", "undoDuplicate", "unlink", "mark"} =>
         q.key \in Keys
    /\ q.pc \in {"unlink", "mark"} => photo[q.u] # None

(* What the invariant says of one request.                                 *)
LEMMA InHand == ASSUME PhotosInv, NEW r \in Requests
                PROVE  Handed(req[r])
BY DEF PhotosInv, TypeOK, ReqOK, Handed, ReqSet

(* A request with nothing in hand is well formed.                          *)
LEMMA QuietHanded == Handed(Quiet)
BY DEF Handed, Quiet, ReqSet

(* A step that leaves the rows alone shows nothing.                        *)
LEMMA PhotoUnseen == ASSUME UNCHANGED photo
                     PROVE  Unseen
BY DEF Unseen, Active, Spent, Stored

(* The photos may only get fewer, and nobody else inserts.                 *)
LEMMA RoomKept ==
    ASSUME RoomLeft, Unseen \/ \E u \in Uploads : Vanishes(u),
           \A r \in Requests : At(r, "insert")' =>
              lock' = r /\ (At(r, "insert") \/ Cardinality(Active) < MaxCount)
    PROVE  RoomLeft'
<1> DEFINE Fewer == /\ IsFiniteSet(Active')
                    /\ Cardinality(Active) \in Nat /\ Cardinality(Active') \in Nat
                    /\ Cardinality(Active') <= Cardinality(Active)
<1>1. Fewer
  <2>1. CASE Active' = Active
    BY <2>1, FS_CardinalityType DEF RoomLeft
  <2>2. ASSUME NEW u \in Uploads, Vanishes(u)
        PROVE  Fewer
    <3>1. u \in Active /\ Active' = Active \ {u} /\ IsFiniteSet(Active)
      BY <2>2 DEF RoomLeft, Vanishes
    <3>2. /\ IsFiniteSet(Active \ {u})
          /\ Cardinality(Active \ {u}) = Cardinality(Active) - 1
          /\ Cardinality(Active) \in Nat
      BY <3>1, FS_RemoveElement, FS_CardinalityType
    <3>3. Cardinality(Active \ {u}) \in Nat
      BY <3>2, FS_CardinalityType
    <3> QED BY <3>1, <3>2, <3>3
  <2> QED BY <2>1, <2>2 DEF Unseen
<1>2. MaxCount \in Nat
  BY BoundsAssumption
<1>3. \A r \in Requests : At(r, "insert") => Cardinality(Active) < MaxCount
  BY DEF RoomLeft
<1>4. Cardinality(Active') <= MaxCount
  BY <1>1, <1>2 DEF RoomLeft
<1>5. \A r \in Requests : At(r, "insert")' => lock' = r /\ Cardinality(Active') < MaxCount
  BY <1>1, <1>2, <1>3
<1> QED BY <1>1, <1>4, <1>5 DEF RoomLeft

(* A step of one request that keeps the rows.                              *)
LEMMA RequestStep ==
    ASSUME PhotosInv, NEW r \in Requests, NEW new,
           req' = [req EXCEPT ![r] = new], Handed(new),
           UNCHANGED <<task, cleaner, day>>, files' \subseteq Keys, mishaps' \subseteq Faults,
           photo' \in [Uploads -> Photo \cup {None}],
           \A u \in Uploads : photo'[u] = None => photo[u] = None,
           \/ UNCHANGED lock /\ (lock = r <=> new.pc = "insert")
           \/ lock = None /\ lock' = r /\ new.pc = "insert"
           \/ lock' = (IF lock = r THEN None ELSE lock) /\ new.pc # "insert"
    PROVE  TypeOK' /\ (\A q \in Requests : ReqOK(q)') /\ CleanerOK'
<1>1. req' \in [Requests -> ReqSet] /\ req'[r] = new
      /\ \A q \in Requests : q # r => req'[q] = req[q]
  BY DEF PhotosInv, TypeOK, Handed, ReqSet
<1>2. /\ lock' \in Requests \cup {None}
      /\ \A q \in Requests : lock' = q => At(q, "insert")'
  BY <1>1, NoneAssumption DEF PhotosInv, TypeOK, At
<1>3. TypeOK'
  BY <1>1, <1>2 DEF PhotosInv, TypeOK, ReqSet
<1>4. ASSUME NEW q \in Requests
      PROVE  ReqOK(q)'
  <2>1. Handed(req'[q])
    BY <1>1, InHand
  <2> QED BY <2>1 DEF Handed, ReqOK
<1>5. CleanerOK'
  <2>1. \A c \in cleaner.todo : c[1] \in Uploads
    BY DEF PhotosInv, CleanerOK
  <2> QED BY <2>1 DEF PhotosInv, CleanerOK
<1> QED BY <1>3, <1>4, <1>5

(* A step of one request that leaves the photos alone.                     *)
LEMMA QuietStep ==
    ASSUME PhotosInv, NEW r \in Requests, NEW new,
           req' = [req EXCEPT ![r] = new], Handed(new),
           UNCHANGED <<task, photo, cleaner, day>>,
           files' \subseteq Keys, mishaps' \subseteq Faults,
           \/ UNCHANGED lock /\ ~At(r, "insert") /\ new.pc # "insert"
           \/ lock = None /\ lock' = r /\ new.pc = "insert" /\ Cardinality(Active) < MaxCount
           \/ lock' = (IF lock = r THEN None ELSE lock) /\ new.pc # "insert"
    PROVE  PhotosInv' /\ Ledgered
<1>1. Unseen
  BY PhotoUnseen
<1>2. req'[r] = new /\ \A q \in Requests : q # r => req'[q] = req[q]
  BY DEF PhotosInv, TypeOK
<1>3. \/ UNCHANGED lock /\ (lock = r <=> new.pc = "insert")
      \/ lock = None /\ lock' = r /\ new.pc = "insert"
      \/ lock' = (IF lock = r THEN None ELSE lock) /\ new.pc # "insert"
  BY DEF PhotosInv, TypeOK
<1>4. TypeOK' /\ (\A q \in Requests : ReqOK(q)') /\ CleanerOK'
  BY <1>3, RequestStep DEF PhotosInv, TypeOK
<1>5. ASSUME NEW q \in Requests, At(q, "insert")'
      PROVE  lock' = q /\ (At(q, "insert") \/ Cardinality(Active) < MaxCount)
  BY <1>2, <1>5, NoneAssumption DEF PhotosInv, RoomLeft, At
<1>6. RoomLeft'
  BY <1>1, <1>5, RoomKept DEF PhotosInv
<1> QED BY <1>1, <1>4, <1>6 DEF PhotosInv, Ledgered

(* An upload begins with the keys it will need, and nothing of it is stored.*)
LEMMA BeginUploadStep ==
    ASSUME PhotosInv, NEW r \in Requests, NEW u \in Uploads, BeginUpload(r, u)
    PROVE  PhotosInv' /\ Ledgered
<1>1. PICK pc \in {"ok", "store"} : req' = [req EXCEPT ![r] = [Quiet EXCEPT !.pc = pc, !.u = u]]
  BY DEF BeginUpload
<1> DEFINE new == [Quiet EXCEPT !.pc = pc, !.u = u]
<1>2. Handed(new) /\ new.pc # "insert"
  BY DEF Handed, Quiet, ReqSet
<1>3. ~At(r, "insert")
  BY DEF BeginUpload, Idle, At
<1> HIDE DEF new
<1>4. req' = [req EXCEPT ![r] = new]
  BY <1>1 DEF new
<1> QED BY <1>2, <1>3, <1>4, QuietStep DEF BeginUpload, PhotosInv, TypeOK

(* The key a file is stored under is new to every row and request.         *)
LEMMA StoreStep == ASSUME PhotosInv, NEW r \in Requests, Store(r)
                   PROVE  PhotosInv' /\ Ledgered
<1>1. req[r] \in ReqSet /\ req[r].u \in Uploads /\ ~At(r, "insert")
  BY InHand DEF Store, At, Handed
<1>2. PICK k \in Keys :
         \/ /\ req' = [req EXCEPT ![r].pc = "check", ![r].key = k]
            /\ files' = files \cup {k} /\ mishaps' = mishaps
         \/ /\ req' = [req EXCEPT ![r] = Quiet]
            /\ files' \in {files, files \cup {k}} /\ mishaps' \subseteq Faults
  BY DEF Store, NewKeys, Smooth, Mishap, PhotosInv, TypeOK
<1> DEFINE new == [req[r] EXCEPT !.pc = "check", !.key = k]
<1>3. Handed(new) /\ new.pc # "insert"
  BY <1>1 DEF Handed, ReqSet
<1>4. CASE req' = [req EXCEPT ![r].pc = "check", ![r].key = k]
  <2>1. req' = [req EXCEPT ![r] = new]
    BY <1>4 DEF PhotosInv, TypeOK
  <2> HIDE DEF new
  <2> QED BY <1>1, <1>2, <1>3, <2>1, QuietStep DEF Store, PhotosInv, TypeOK
<1>5. CASE req' = [req EXCEPT ![r] = Quiet]
  <2>1. Quiet.pc # "insert"
    BY DEF Quiet
  <2> QED BY <1>1, <1>2, <1>5, <2>1, QuietHanded, QuietStep DEF Store, PhotosInv, TypeOK
<1> QED BY <1>2, <1>4, <1>5

(* The lock is taken by a request that has a file in hand.                 *)
LEMMA CheckStep == ASSUME PhotosInv, NEW r \in Requests, Check(r)
                   PROVE  PhotosInv' /\ Ledgered
<1>1. req[r] \in ReqSet /\ req[r].u \in Uploads /\ req[r].key \in Keys /\ ~At(r, "insert")
  BY InHand DEF Check, At, Handed
<1>2. DueFor(task) \in Dates \cup {None}
  BY BoundsAssumption DEF DueFor, PhotosInv, TypeOK, Dates, Days
<1> DEFINE counting == [req[r] EXCEPT !.pc = "count", !.due = DueFor(task)]
           undoing  == [req[r] EXCEPT !.pc = "undo"]
<1>3. /\ Handed(counting) /\ counting.pc # "insert"
      /\ Handed(undoing) /\ undoing.pc # "insert"
  BY <1>1, <1>2 DEF Handed, ReqSet
<1>4. req' = [req EXCEPT ![r] = counting] \/ req' = [req EXCEPT ![r] = undoing]
  BY DEF Check, Goto, PhotosInv, TypeOK
<1> HIDE DEF counting, undoing
<1> QED BY <1>1, <1>3, <1>4, QuietStep DEF Check, PhotosInv, TypeOK

(* The count that lets an upload pass is below the limit, and holds until it*)
(* inserts: the request has the lock.                                      *)
LEMMA CountStep == ASSUME PhotosInv, NEW r \in Requests, Count(r)
                   PROVE  PhotosInv' /\ Ledgered
<1>1. req[r] \in ReqSet /\ req[r].u \in Uploads /\ req[r].key \in Keys /\ ~At(r, "insert")
  BY InHand DEF Count, At, Handed
<1> DEFINE inserting == [req[r] EXCEPT !.pc = "insert"]
           undoing   == [req[r] EXCEPT !.pc = "undo"]
<1>2. /\ Handed(inserting) /\ inserting.pc = "insert"
      /\ Handed(undoing) /\ undoing.pc # "insert"
  BY <1>1 DEF Handed, ReqSet
<1>3. \/ req' = [req EXCEPT ![r] = inserting] /\ lock = None /\ lock' = r
         /\ ~(Cardinality(Active) >= MaxCount)
      \/ req' = [req EXCEPT ![r] = undoing] /\ UNCHANGED lock
  BY DEF Count, Goto, PhotosInv, TypeOK
<1>4. ~(Cardinality(Active) >= MaxCount) => Cardinality(Active) < MaxCount
  BY BoundsAssumption, FS_CardinalityType DEF PhotosInv, RoomLeft
<1> HIDE DEF inserting, undoing
<1> QED BY <1>1, <1>2, <1>3, <1>4, QuietStep DEF Count, PhotosInv, TypeOK

(* The file of a refused upload goes, its request has nothing in hand any more.*)
LEMMA UndoStep == ASSUME PhotosInv, NEW r \in Requests, Undo(r)
                  PROVE  PhotosInv' /\ Ledgered
<1>1. req[r] \in ReqSet /\ req[r].u \in Uploads /\ ~At(r, "insert")
  BY InHand DEF Undo, At, Handed
<1> DEFINE new == [Quiet EXCEPT !.pc = "again", !.u = req[r].u]
<1>2. Handed(new) /\ new.pc # "insert" /\ Quiet.pc # "insert"
  BY <1>1 DEF Handed, ReqSet, Quiet
<1>3. req' = [req EXCEPT ![r] = Quiet] \/ req' = [req EXCEPT ![r] = new]
  BY DEF Undo
<1>4. files' \subseteq Keys /\ mishaps' \subseteq Faults
  BY DEF Undo, Smooth, Mishap, PhotosInv, TypeOK
<1> HIDE DEF new
<1> QED BY <1>1, <1>2, <1>3, <1>4, QuietHanded, QuietStep DEF Undo

(* A repeated upload is answered from the rows and changes none.           *)
LEMMA AgainStep == ASSUME PhotosInv, NEW r \in Requests, Again(r)
                   PROVE  PhotosInv' /\ Ledgered
<1>1. req[r] \in ReqSet /\ req[r].u \in Uploads /\ ~At(r, "insert")
  BY InHand DEF Again, At, Handed
<1> DEFINE new == [req[r] EXCEPT !.pc = "ok"]
<1>2. Handed(new) /\ new.pc # "insert" /\ Quiet.pc # "insert"
  BY <1>1 DEF Handed, ReqSet, Quiet
<1>3. req' = [req EXCEPT ![r] = Quiet] \/ req' = [req EXCEPT ![r] = new]
  BY DEF Again, Goto, PhotosInv, TypeOK
<1> HIDE DEF new
<1> QED BY <1>1, <1>2, <1>3, QuietHanded, QuietStep DEF Again, PhotosInv, TypeOK

(* A deletion begins with a row that has a file.                           *)
LEMMA BeginDeleteStep ==
    ASSUME PhotosInv, NEW r \in Requests, NEW u \in Uploads, BeginDelete(r, u)
    PROVE  PhotosInv' /\ Ledgered
<1> DEFINE new == [Quiet EXCEPT !.pc = "unlink", !.u = u, !.key = photo[u].key]
<1>1. photo[u] # None /\ photo[u].key \in Keys
  BY DEF BeginDelete, Stored, PhotosInv, TypeOK, Photo
<1>2. Handed(new) /\ new.pc # "insert"
  BY <1>1 DEF Handed, ReqSet, Quiet
<1>3. ~At(r, "insert") /\ req' = [req EXCEPT ![r] = new]
  BY DEF BeginDelete, Idle, At
<1> HIDE DEF new
<1> QED BY <1>2, <1>3, QuietStep DEF BeginDelete, PhotosInv, TypeOK

(* The file goes before the row is marked.                                 *)
LEMMA UnlinkStep == ASSUME PhotosInv, NEW r \in Requests, Unlink(r)
                    PROVE  PhotosInv' /\ Ledgered
<1>1. /\ req[r] \in ReqSet /\ req[r].u \in Uploads /\ req[r].key \in Keys
      /\ photo[req[r].u] # None /\ ~At(r, "insert")
  BY InHand DEF Unlink, At, Handed
<1> DEFINE new == [req[r] EXCEPT !.pc = "mark"]
<1>2. Handed(new) /\ new.pc # "insert" /\ Quiet.pc # "insert"
  BY <1>1 DEF Handed, ReqSet, Quiet
<1>3. req' = [req EXCEPT ![r] = Quiet] \/ req' = [req EXCEPT ![r] = new]
  BY DEF Unlink, Goto, PhotosInv, TypeOK
<1>4. files' \subseteq Keys /\ mishaps' \subseteq Faults
  BY DEF Unlink, Smooth, Mishap, PhotosInv, TypeOK
<1> HIDE DEF new
<1> QED BY <1>1, <1>2, <1>3, <1>4, QuietHanded, QuietStep DEF Unlink

(* A request that dies gives its lock back.                                *)
LEMMA CrashStep == ASSUME PhotosInv, NEW r \in Requests, Crash(r)
                   PROVE  PhotosInv' /\ Ledgered
<1>1. Quiet.pc # "insert"
  BY DEF Quiet
<1> QED BY <1>1, QuietHanded, QuietStep DEF Crash, Unlock, Mishap, PhotosInv, TypeOK

(* The deletion removes the photo unless its row has another key by now.   *)
LEMMA MarkStep == ASSUME PhotosInv, NEW r \in Requests, Mark(r)
                  PROVE  PhotosInv' /\ Ledgered
<1>1. /\ req[r] \in ReqSet /\ req[r].u \in Uploads /\ req[r].key \in Keys
      /\ photo[req[r].u] # None /\ ~At(r, "insert")
  BY InHand DEF Mark, At, Handed
<1>2. mishaps' \subseteq Faults
  BY DEF Mark, Smooth, Mishap, PhotosInv, TypeOK
<1>3. CASE UNCHANGED photo
  <2>1. Quiet.pc # "insert"
    BY DEF Quiet
  <2> QED BY <1>1, <1>2, <1>3, <2>1, QuietHanded, QuietStep DEF Mark, PhotosInv, TypeOK
<1>4. CASE photo[req[r].u].key = req[r].key /\ photo' = Removed(req[r].u, None)
  <2>1. Stored(req[r].u)
    BY <1>1, <1>4, NoneAssumption DEF Stored
  <2>2. /\ Vanishes(req[r].u)
        /\ photo' \in [Uploads -> Photo \cup {None}]
        /\ \A v \in Uploads : photo'[v] = None <=> photo[v] = None
    BY <1>1, <1>4, <2>1, RemoveVanishes DEF PhotosInv
  <2>3. Quiet.pc # "insert" /\ lock # r
    BY <1>1 DEF Quiet, PhotosInv, TypeOK
  <2>4. TypeOK' /\ (\A q \in Requests : ReqOK(q)') /\ CleanerOK'
    BY <1>2, <2>2, <2>3, QuietHanded, RequestStep DEF Mark, PhotosInv, TypeOK
  <2>5. \A q \in Requests : At(q, "insert")' => lock' = q /\ At(q, "insert")
    <3>1. req'[r] = Quiet /\ \A q \in Requests : q # r => req'[q] = req[q]
      BY DEF Mark, PhotosInv, TypeOK
    <3> QED BY <2>3, <3>1 DEF Mark, PhotosInv, RoomLeft, At
  <2>6. RoomLeft'
    BY <1>1, <2>2, <2>5, RoomKept DEF PhotosInv
  <2> QED BY <1>1, <2>2, <2>4, <2>6 DEF PhotosInv, Ledgered
<1> QED BY <1>3, <1>4 DEF Mark

(* The insertion adds the photo, or finds the upload id used and adds none.*)
LEMMA InsertStep == ASSUME PhotosInv, NEW r \in Requests, Insert(r)
                    PROVE  PhotosInv' /\ Ledgered
<1> DEFINE u == req[r].u
           done == [Quiet EXCEPT !.pc = "ok", !.u = req[r].u]
           undoing == [req[r] EXCEPT !.pc = "undo"]
           refused == [req[r] EXCEPT !.pc = "undoDuplicate"]
           row == [key |-> req[r].key, due |-> req[r].due]
<1>1. /\ req[r] \in ReqSet /\ req[r].u \in Uploads /\ req[r].key \in Keys
      /\ At(r, "insert")
  BY InHand DEF Insert, At, Handed
<1>2. /\ Handed(done) /\ Handed(undoing) /\ Handed(refused)
      /\ done.pc # "insert" /\ undoing.pc # "insert" /\ refused.pc # "insert"
  BY <1>1 DEF Handed, ReqSet, Quiet
<1>3. mishaps' \subseteq Faults /\ lock' = IF lock = r THEN None ELSE lock
  BY DEF Insert, Smooth, Mishap, PhotosInv, TypeOK, Unlock
<1>4. \/ UNCHANGED photo /\ (req' = [req EXCEPT ![r] = undoing] \/ req' = [req EXCEPT ![r] = refused])
      \/ /\ photo[u] = None /\ photo' = [photo EXCEPT ![u] = row]
         /\ req' = [req EXCEPT ![r] = undoing] \/ req' = [req EXCEPT ![r] = done]
  BY DEF Insert, Goto, PhotosInv, TypeOK
<1>5. CASE UNCHANGED photo /\ (req' = [req EXCEPT ![r] = undoing] \/ req' = [req EXCEPT ![r] = refused])
  <2> HIDE DEF undoing, refused
  <2> QED BY <1>2, <1>3, <1>5, QuietStep DEF Insert, PhotosInv, TypeOK
<1>6. CASE /\ photo[u] = None /\ photo' = [photo EXCEPT ![u] = row]
           /\ req' = [req EXCEPT ![r] = undoing] \/ req' = [req EXCEPT ![r] = done]
  <2>1. req[r].due \in Dates \cup {None} /\ Cardinality(Active) < MaxCount /\ lock = r
    BY <1>1 DEF ReqSet, PhotosInv, RoomLeft
  <2>2. /\ Appears(u)
        /\ photo' \in [Uploads -> Photo \cup {None}]
        /\ \A v \in Uploads : photo'[v] = None => photo[v] = None
    BY <1>1, <1>6, <2>1, InsertAppears DEF PhotosInv
  <2>3. PICK new \in {undoing, done} : req' = [req EXCEPT ![r] = new]
    BY <1>6
  <2>4. Handed(new) /\ new.pc # "insert"
    BY <1>2, <2>3
  <2>5. TypeOK' /\ (\A q \in Requests : ReqOK(q)') /\ CleanerOK'
    BY <1>3, <2>2, <2>3, <2>4, RequestStep DEF Insert, PhotosInv, TypeOK
  <2>6. \A q \in Requests : ~At(q, "insert")'
    <3>1. req'[r] = new /\ \A q \in Requests : q # r => req'[q] = req[q]
      BY <2>3 DEF PhotosInv, TypeOK
    <3> QED BY <2>1, <2>4, <3>1 DEF PhotosInv, RoomLeft, At
  <2>7. IsFiniteSet(Active') /\ Cardinality(Active') <= MaxCount
    <3>1. Active' = Active \cup {u} /\ u \notin Active /\ IsFiniteSet(Active)
      BY <2>2 DEF Appears, PhotosInv, RoomLeft
    <3>2. /\ IsFiniteSet(Active \cup {u})
          /\ Cardinality(Active \cup {u}) = Cardinality(Active) + 1
          /\ Cardinality(Active) \in Nat
      BY <3>1, FS_AddElement, FS_CardinalityType
    <3> QED BY <2>1, <3>1, <3>2, BoundsAssumption
  <2>8. RoomLeft'
    BY <2>6, <2>7 DEF RoomLeft
  <2> QED BY <1>1, <2>2, <2>5, <2>8 DEF PhotosInv, Ledgered
<1> QED BY <1>4, <1>5, <1>6
-----------------------------------------------------------------------------
(* A step that changes no request and no lock.                             *)
LEMMA OtherStep ==
    ASSUME PhotosInv, UNCHANGED <<req, lock>>, TypeOK', CleanerOK',
           \A u \in Uploads : photo'[u] = None => photo[u] = None,
           Unseen \/ \E u \in Uploads : Vanishes(u)
    PROVE  PhotosInv' /\ Ledgered
<1>1. ASSUME NEW q \in Requests
      PROVE  ReqOK(q)'
  BY DEF PhotosInv, ReqOK
<1>2. \A r \in Requests : At(r, "insert")' => lock' = r /\ At(r, "insert")
  BY DEF PhotosInv, RoomLeft, At
<1>3. RoomLeft'
  BY <1>2, RoomKept DEF PhotosInv
<1> QED BY <1>1, <1>3 DEF PhotosInv, Ledgered

(* The task's own operations move dates and never rows.                    *)
LEMMA TaskStep ==
    ASSUME PhotosInv, Complete \/ Revert \/ SyncTask \/ \E d \in Days : Correct(d)
    PROVE  PhotosInv' /\ Ledgered
<1>1. UNCHANGED <<req, lock, files, cleaner, day, mishaps>>
  BY DEF Complete, Revert, SyncTask, Correct
<1>2. /\ task' \in [status : {"OPEN", "COMPLETED", "CANCELLED", "DELETED"},
                    completed : Days \cup {None}]
      /\ task'.status = "COMPLETED" <=> task'.completed # None
  BY NoneAssumption DEF Complete, Revert, SyncTask, Correct, PhotosInv, TypeOK, Days
<1>3. photo' = photo \/ \E date \in Dates \cup {None} : photo' = Rescheduled(date)
  <2>1. \A d \in Days : d + Retention \in Dates
    BY BoundsAssumption DEF Days, Dates
  <2> QED BY <2>1 DEF Complete, Revert, SyncTask, Correct, PhotosInv, TypeOK
<1>4. /\ Unseen
      /\ photo' \in [Uploads -> Photo \cup {None}]
      /\ \A u \in Uploads : photo'[u] = None <=> photo[u] = None
  <2>1. CASE photo' = photo
    BY <2>1, PhotoUnseen DEF PhotosInv, TypeOK
  <2>2. ASSUME NEW date \in Dates \cup {None}, photo' = Rescheduled(date)
        PROVE  <1>4!1 /\ <1>4!2 /\ <1>4!3
    BY <2>2, RescheduleUnseen DEF PhotosInv
  <2> QED BY <1>3, <2>1, <2>2
<1>5. TypeOK'
  BY <1>1, <1>2, <1>4 DEF PhotosInv, TypeOK, At
<1>6. CleanerOK'
  BY <1>1, <1>4 DEF PhotosInv, CleanerOK
<1> QED BY <1>1, <1>4, <1>5, <1>6, OtherStep

(* Nothing but the cleaner, the files and the clock.                       *)
LEMMA BesidesStep ==
    ASSUME PhotosInv, UNCHANGED <<task, photo, req, lock>>,
           files' \subseteq Keys, mishaps' \subseteq Faults, day' \in Days,
           cleaner' \in [todo : SUBSET (Uploads \X Keys), marking : (Uploads \X Keys) \cup {None}],
           \A c \in cleaner'.todo : photo[c[1]] # None,
           cleaner'.marking \in cleaner'.todo \cup {None}
    PROVE  PhotosInv' /\ Ledgered
<1>1. TypeOK'
  BY DEF PhotosInv, TypeOK, At
<1>2. CleanerOK'
  BY DEF CleanerOK
<1> QED BY <1>1, <1>2, PhotoUnseen, OtherStep

(* Until it writes, the clean-up only reads rows and removes files.        *)
LEMMA CleanerStep ==
    ASSUME PhotosInv, Select \/ CleanFails \/ CleanFile \/ CleanerCrash \/ NextDay
    PROVE  PhotosInv' /\ Ledgered
<1>0. /\ Resting.todo = {} /\ Resting.marking = None
      /\ Resting \in [todo : SUBSET (Uploads \X Keys), marking : (Uploads \X Keys) \cup {None}]
  BY DEF Resting
<1>1. CASE Select
  <2>1. PICK B \in Candidates : cleaner' = [Resting EXCEPT !.todo = {<<u, photo[u].key>> : u \in B}]
    BY <1>1 DEF Select
  <2>2. B \subseteq Active
    BY DEF Candidates, Expired
  <2>3. \A u \in B : u \in Uploads /\ photo[u] # None /\ photo[u].key \in Keys
    BY <2>2 DEF Active, Stored, PhotosInv, TypeOK, Photo
  <2>4. /\ {<<u, photo[u].key>> : u \in B} \subseteq Uploads \X Keys
        /\ \A c \in {<<u, photo[u].key>> : u \in B} : photo[c[1]] # None
    BY <2>3
  <2>5. /\ cleaner'.todo = {<<u, photo[u].key>> : u \in B} /\ cleaner'.marking = None
        /\ cleaner' \in [todo : SUBSET (Uploads \X Keys), marking : (Uploads \X Keys) \cup {None}]
    BY <1>0, <2>1, <2>4
  <2> QED BY <1>1, <2>4, <2>5, BesidesStep DEF Select, PhotosInv, TypeOK
<1>2. CASE CleanFails
  <2>1. PICK c \in cleaner.todo : cleaner' = [cleaner EXCEPT !.todo = @ \ {c}]
    BY <1>2 DEF CleanFails
  <2> QED BY <1>2, <2>1, BesidesStep DEF CleanFails, Mishap, PhotosInv, CleanerOK, TypeOK
<1>3. CASE CleanFile
  <2>1. PICK c \in cleaner.todo : /\ files' = files \ {c[2]}
                                  /\ cleaner' = [cleaner EXCEPT !.marking = c]
    BY <1>3 DEF CleanFile
  <2>2. /\ cleaner'.todo = cleaner.todo /\ cleaner'.marking = c
        /\ cleaner' \in [todo : SUBSET (Uploads \X Keys), marking : (Uploads \X Keys) \cup {None}]
    BY <2>1 DEF PhotosInv, CleanerOK
  <2> QED BY <1>3, <2>1, <2>2, BesidesStep DEF CleanFile, PhotosInv, CleanerOK, TypeOK
<1>4. CASE CleanerCrash
  BY <1>0, <1>4, BesidesStep DEF CleanerCrash, Mishap, PhotosInv, TypeOK
<1>5. CASE NextDay
  <2>1. day' \in Days
    BY <1>5, BoundsAssumption DEF NextDay, PhotosInv, TypeOK, Days
  <2> QED BY <1>5, <2>1, BesidesStep DEF NextDay, PhotosInv, CleanerOK, TypeOK
<1> QED BY <1>1, <1>2, <1>3, <1>4, <1>5

(* The row of a file that is gone, unless it has another key by now.       *)
LEMMA CleanRowStep == ASSUME PhotosInv, CleanRow
                      PROVE  PhotosInv' /\ Ledgered
<1> DEFINE u == cleaner.marking[1]
           going == [todo |-> cleaner.todo \ {cleaner.marking}, marking |-> None]
<1>1. /\ cleaner.marking \in cleaner.todo
      /\ u \in Uploads /\ cleaner.marking[2] \in Keys /\ photo[u] # None
  BY DEF CleanRow, PhotosInv, CleanerOK, TypeOK
<1>2. /\ cleaner' \in {going, Resting}
      /\ mishaps' \subseteq Faults
      /\ \/ photo' = photo
         \/ photo[u].key = cleaner.marking[2] /\ photo' = Removed(u, photo[u].due)
  BY DEF CleanRow, Smooth, Mishap, PhotosInv, TypeOK
<1>3. /\ cleaner' \in [todo : SUBSET (Uploads \X Keys), marking : (Uploads \X Keys) \cup {None}]
      /\ cleaner'.todo \subseteq cleaner.todo /\ cleaner'.marking = None
  <2>1. cleaner.todo \in SUBSET (Uploads \X Keys)
    BY DEF PhotosInv, CleanerOK
  <2> QED BY <1>2, <2>1 DEF Resting
<1>4. CASE photo' = photo
  BY <1>2, <1>3, <1>4, BesidesStep DEF CleanRow, PhotosInv, CleanerOK, TypeOK
<1>5. CASE photo[u].key = cleaner.marking[2] /\ photo' = Removed(u, photo[u].due)
  <2>1. Stored(u) /\ photo[u].due \in Dates \cup {None}
    BY <1>1, <1>5, NoneAssumption DEF Stored, PhotosInv, TypeOK, Photo
  <2>2. /\ Vanishes(u)
        /\ photo' \in [Uploads -> Photo \cup {None}]
        /\ \A v \in Uploads : photo'[v] = None <=> photo[v] = None
    BY <1>1, <1>5, <2>1, RemoveVanishes DEF PhotosInv
  <2>3. TypeOK'
    BY <1>2, <1>3, <2>2 DEF CleanRow, PhotosInv, TypeOK, At
  <2>4. CleanerOK'
    BY <1>3, <2>2 DEF PhotosInv, CleanerOK
  <2> QED BY <1>1, <2>2, <2>3, <2>4, OtherStep DEF CleanRow
<1> QED BY <1>2, <1>4, <1>5

(* The invariant holds at the beginning.                                   *)
LEMMA PhotosInit == Init => PhotosInv
<1> SUFFICES ASSUME Init
             PROVE  PhotosInv
  OBVIOUS
<1>1. TypeOK /\ (\A r \in Requests : ReqOK(r)) /\ CleanerOK
  BY BoundsAssumption, NoneAssumption DEF Init, Quiet, Resting, TypeOK, ReqOK, CleanerOK,
     At, Days, Dates
<1>2. Active = {}
  BY DEF Init, Active, Stored
<1>3. RoomLeft
  BY <1>2, FS_EmptySet, BoundsAssumption DEF Init, RoomLeft, At, Quiet
<1> QED BY <1>1, <1>3 DEF PhotosInv

(* Every step keeps the invariant, and is a step of the ledger or shows nothing.*)
LEMMA PhotosStep == PhotosInv /\ [Next]_vars => PhotosInv' /\ Ledgered
<1> SUFFICES ASSUME PhotosInv, [Next]_vars
             PROVE  PhotosInv' /\ Ledgered
  OBVIOUS
<1>1. ASSUME NEW r \in Requests, NEW u \in Uploads, BeginUpload(r, u) \/ BeginDelete(r, u)
      PROVE  PhotosInv' /\ Ledgered
  BY <1>1, BeginUploadStep, BeginDeleteStep
<1>2. ASSUME NEW r \in Requests, Work(r)
      PROVE  PhotosInv' /\ Ledgered
  BY <1>2, StoreStep, CheckStep, CountStep, InsertStep, UndoStep, AgainStep, UnlinkStep,
     MarkStep
     DEF Work
<1>3. ASSUME NEW r \in Requests, Crash(r)
      PROVE  PhotosInv' /\ Ledgered
  BY <1>3, CrashStep
<1>4. CASE Complete \/ Revert \/ SyncTask \/ \E d \in Days : Correct(d)
  BY <1>4, TaskStep
<1>5. CASE Select \/ CleanFails \/ CleanFile \/ CleanRow \/ CleanerCrash \/ NextDay
  BY <1>5, CleanerStep, CleanRowStep
<1>6. CASE UNCHANGED vars
  BY <1>6, BesidesStep DEF vars, PhotosInv, CleanerOK, TypeOK
<1> QED BY <1>1, <1>2, <1>3, <1>4, <1>5, <1>6 DEF Next

(* The invariant holds always.                                             *)
THEOREM PhotosInvariant == Spec => []PhotosInv
<1>1. PhotosInv /\ [Next]_vars => PhotosInv'
  BY PhotosStep
<1> QED BY <1>1, PhotosInit, PTL DEF Spec

(* Types of the requests, the clean-up, the rows and the files (CleaningPhotos).*)
THEOREM PhotosTypeCorrect == Spec => []TypeOK
<1>1. PhotosInv => TypeOK
  BY DEF PhotosInv
<1> QED BY <1>1, PhotosInvariant, PTL

(* Whatever runs at the same time, whatever fails, and however often a     *)
(* request is sent again, the photos are the ledger that the browser's     *)
(* queue relies on.                                                        *)
THEOREM PhotosImplementLedger == Spec => ImplementsLedger
<1>1. Init => Ledger!Init
  BY DEF Init, Ledger!Init, Active, Stored
<1>2. PhotosInv /\ [Next]_vars => [Ledger!Next]_<<Active, Spent>>
  <2> SUFFICES ASSUME Ledgered
               PROVE  [Ledger!Next]_<<Active, Spent>>
    BY PhotosStep
  <2>1. CASE Unseen
    BY <2>1 DEF Unseen
  <2>2. ASSUME NEW u \in Uploads, Appears(u)
        PROVE  Ledger!Next
    <3>1. Ledger!Cardinality(Active) = Cardinality(Active)
      BY DEF Ledger!Cardinality, Cardinality
    <3>2. Ledger!Add(u)
      BY <2>2, <3>1 DEF Appears, Ledger!Add, Spent
    <3> QED BY <3>2 DEF Ledger!Next
  <2>3. ASSUME NEW u \in Uploads, Vanishes(u)
        PROVE  Ledger!Next
    BY <2>3 DEF Vanishes, Ledger!Next, Ledger!Remove, Spent
  <2> QED BY <2>1, <2>2, <2>3 DEF Ledgered
<1>3. ImplementsLedger <=> Ledger!Init /\ [][Ledger!Next]_<<Active, Spent>>
  BY PTL DEF ImplementsLedger, Ledger!Spec, Spent
<1> QED BY <1>1, <1>2, <1>3, PhotosInvariant, PTL DEF Spec

(* However many requests count at the same time, a task never shows more    *)
(* photos than allowed, and a photo that was removed never comes back.      *)
THEOREM PhotosWithinLimit ==
    Spec => [](Cardinality(Active) <= MaxCount) /\ [][Spent \subseteq Spent']_vars
<1>1. PhotosInv => Cardinality(Active) <= MaxCount
  BY DEF PhotosInv, RoomLeft
<1>2. PhotosInv /\ [Next]_vars => [Spent \subseteq Spent']_vars
  BY PhotosStep DEF Ledgered, Unseen, Appears, Vanishes
<1> QED BY <1>1, <1>2, PhotosInvariant, PTL DEF Spec

-----------------------------------------------------------------------------
(* A step after which the photo of u is stored, without a date and its     *)
(* task completed, although it was not before.                             *)
Loses(u) == Unscheduled(u)' /\ ~Unscheduled(u)

(* Nothing is lost when a row goes or stays as it is and the task stays.   *)
LEMMA RemovalLosesNone ==
    ASSUME PhotosInv, UNCHANGED task, NEW u \in Uploads,
           \/ UNCHANGED photo
           \/ \E v \in Uploads, date \in Dates \cup {None} : photo' = Removed(v, date)
    PROVE  ~Loses(u)
<1>1. CASE UNCHANGED photo
  BY <1>1 DEF Loses, Unscheduled, Stored
<1>2. ASSUME NEW v \in Uploads, NEW date \in Dates \cup {None}, photo' = Removed(v, date)
      PROVE  ~Loses(u)
  <2>1. photo'[v].key = None
    BY <1>2 DEF Removed, PhotosInv, TypeOK
  <2>2. u # v => photo'[u] = photo[u]
    BY <1>2 DEF Removed, PhotosInv, TypeOK
  <2> QED BY <2>1, <2>2 DEF Loses, Unscheduled, Stored
<1> QED BY <1>1, <1>2

(* Completing, and correcting the date, give every stored photo a date.    *)
LEMMA SchedulingLosesNone ==
    ASSUME PhotosInv, NEW u \in Uploads, NEW d \in Days, photo' = Rescheduled(d + Retention)
    PROVE  ~Loses(u)
<1>1. d + Retention \in Dates /\ d + Retention # None
  BY BoundsAssumption, NoneAssumption DEF Days, Dates
<1>2. Stored(u)' => photo'[u].due = d + Retention
  BY <1>1, RescheduleUnseen DEF PhotosInv
<1> QED BY <1>1, <1>2 DEF Loses, Unscheduled

(* Only the insertion of an upload that read the task before its completion*)
(* leaves a photo without date.                                            *)
LEMMA InsertLoses ==
    ASSUME PhotosInv, NEW r \in Requests, Insert(r), NEW u \in Uploads, Loses(u)
    PROVE  At(r, "insert") /\ req[r].u = u /\ req[r].due = None
<1> DEFINE v == req[r].u
           row == [key |-> req[r].key, due |-> req[r].due]
<1>1. UNCHANGED photo \/ photo' = [photo EXCEPT ![v] = row]
  BY DEF Insert
<1>2. UNCHANGED task /\ At(r, "insert")
  BY DEF Insert
<1>3. CASE UNCHANGED photo
  BY <1>2, <1>3 DEF Loses, Unscheduled, Stored
<1>4. CASE photo' = [photo EXCEPT ![v] = row]
  <2>1. u # v => photo'[u] = photo[u]
    BY <1>4 DEF PhotosInv, TypeOK
  <2>2. u = v
    BY <1>2, <2>1 DEF Loses, Unscheduled, Stored
  <2>3. photo'[u] = row
    BY <1>4, <2>2 DEF PhotosInv, TypeOK
  <2>4. row.due = None
    BY <2>3 DEF Loses, Unscheduled
  <2> QED BY <1>2, <2>2, <2>4
<1> QED BY <1>1, <1>3, <1>4

(* A photo of a completed task has its date, except one whose upload read  *)
(* the task before the completion and inserted it afterwards.              *)
THEOREM PhotosScheduledUnlessRaced == Spec => ScheduledUnlessRaced
<1> DEFINE Raced(u) == \E r \in Requests : At(r, "insert") /\ req[r].u = u /\ req[r].due = None
<1>1. ASSUME PhotosInv, [Next]_vars, NEW u \in Uploads, Loses(u)
      PROVE  Raced(u)
  <2>1. CASE UNCHANGED <<task, photo>>
    BY <1>1, <2>1, RemovalLosesNone
  <2>2. ASSUME NEW r \in Requests, Insert(r)
        PROVE  Raced(u)
    BY <1>1, <2>2, InsertLoses
  <2>3. ASSUME NEW r \in Requests, Mark(r)
        PROVE  FALSE
    <3>1. UNCHANGED task /\ req[r].u \in Uploads
      BY <1>1, <2>3, InHand DEF Mark, At, Handed
    <3>2. UNCHANGED photo \/ photo' = Removed(req[r].u, None)
      BY <2>3 DEF Mark
    <3> QED BY <1>1, <3>1, <3>2, RemovalLosesNone
  <2>4. CASE CleanRow
    <3>1. UNCHANGED task /\ cleaner.marking[1] \in Uploads
      BY <1>1, <2>4 DEF CleanRow, PhotosInv, CleanerOK
    <3>2. UNCHANGED photo
          \/ (photo[cleaner.marking[1]].key = cleaner.marking[2]
               /\ photo' = Removed(cleaner.marking[1], photo[cleaner.marking[1]].due))
      BY <2>4 DEF CleanRow
    <3>3. photo[cleaner.marking[1]].due \in Dates \cup {None}
      BY <1>1, <2>4, <3>1 DEF CleanRow, PhotosInv, CleanerOK, TypeOK, Photo
    <3> QED BY <1>1, <3>1, <3>2, <3>3, RemovalLosesNone
  <2>5. CASE Complete
    <3>1. day \in Days /\ photo' = Rescheduled(day + Retention)
      BY <1>1, <2>5 DEF Complete, PhotosInv, TypeOK
    <3> QED BY <1>1, <3>1, SchedulingLosesNone
  <2>6. ASSUME NEW d \in Days, Correct(d)
        PROVE  FALSE
    <3>1. photo' = Rescheduled(d + Retention)
      BY <2>6 DEF Correct
    <3> QED BY <1>1, <3>1, SchedulingLosesNone
  <2>7. CASE Revert \/ SyncTask
    <3>1. task'.status # "COMPLETED"
      BY <1>1, <2>7 DEF Revert, SyncTask, PhotosInv, TypeOK
    <3> QED BY <1>1, <3>1 DEF Loses, Unscheduled
  <2>8. ASSUME NEW r \in Requests, Work(r), ~Insert(r), ~Mark(r)
        PROVE  UNCHANGED <<task, photo>>
    BY <2>8 DEF Work, Store, Check, Count, Undo, Again, Unlink
  <2>9. ASSUME NEW r \in Requests,
               Crash(r) \/ \E v \in Uploads : BeginUpload(r, v) \/ BeginDelete(r, v)
        PROVE  UNCHANGED <<task, photo>>
    BY <2>9 DEF Crash, BeginUpload, BeginDelete
  <2>10. ASSUME Select \/ CleanFails \/ CleanFile \/ CleanerCrash \/ NextDay \/ UNCHANGED vars
         PROVE  UNCHANGED <<task, photo>>
    BY <2>10 DEF Select, CleanFails, CleanFile, CleanerCrash, NextDay, vars
  <2> QED
    BY <1>1, <2>1, <2>2, <2>3, <2>4, <2>5, <2>6, <2>7, <2>8, <2>9, <2>10 DEF Next
<1>2. PhotosInv /\ [Next]_vars
        => [\A u \in Uploads : Unscheduled(u)' /\ ~Unscheduled(u) => Raced(u)]_vars
  BY <1>1 DEF Loses
<1>3. Spec => [][\A u \in Uploads : Unscheduled(u)' /\ ~Unscheduled(u) => Raced(u)]_vars
  BY <1>2, PhotosInvariant, PTL DEF Spec
<1> QED BY <1>3 DEF ScheduledUnlessRaced
-----------------------------------------------------------------------------
(* Keys.  As long as no acknowledgement is lost, a key is in one place: in *)
(* the hands of one upload, or in one row and with those who remove it.    *)
Row(u, k) == photo[u] # None /\ photo[u].key = k

Carrying(r) == req[r].pc \in {"check", "count", "insert"}
Holding(r) == Carrying(r) \/ req[r].pc \in {"undo", "undoDuplicate"}
Removing(r) == req[r].pc \in {"unlink", "mark"}

EmptyHanded(r) == ~Holding(r) /\ ~Removing(r) => req[r].key = None

SoleHolder(r) == Holding(r) =>
    /\ \A u \in Uploads : ~Row(u, req[r].key)
    /\ \A q \in Requests \ {r} : req[q].key # req[r].key
    /\ \A c \in cleaner.todo : c[2] # req[r].key

OnlyItsRow(r) == Removing(r) => \A u \in Uploads : Row(u, req[r].key) => u = req[r].u

CarriedFile(r) == Carrying(r) => req[r].key \in files

OneRowPerKey == \A u, v \in Uploads, k \in Keys : Row(u, k) /\ Row(v, k) => u = v
CleanerRows == \A c \in cleaner.todo, u \in Uploads : Row(u, c[2]) => u = c[1]

GoneFiles ==
    /\ \A r \in Requests : At(r, "mark") => req[r].key \notin files
    /\ cleaner.marking # None => cleaner.marking[2] \notin files

KeysOK ==
    /\ OneRowPerKey /\ CleanerRows /\ GoneFiles
    /\ \A r \in Requests :
         EmptyHanded(r) /\ SoleHolder(r) /\ OnlyItsRow(r) /\ CarriedFile(r)

KeysInv == "ackLoss" \notin mishaps => KeysOK

FewerRows == \A u \in Uploads, k \in Keys : Row(u, k)' => Row(u, k)

(* The request that is alone with its key, or drops what it has in hand.   *)
Others(r) == \A q \in Requests : q # r => req'[q] = req[q]

Drops(r) ==
    /\ Others(r)
    /\ req'[r].pc \in {"idle", "ok", "store", "again"} /\ req'[r].key = None

(* The types that the lemmas on keys need.                                 *)
LEMMA KeyTypes ==
    ASSUME PhotosInv
    PROVE  /\ None \notin Keys
           /\ \A u \in Uploads : photo[u] \in Photo \cup {None}
           /\ \A u \in Uploads : Stored(u) => photo[u].key \in Keys
           /\ \A u \in Uploads, k \in Keys : Row(u, k) <=> u \in Active /\ photo[u].key = k
           /\ \A r \in Requests : Holding(r) \/ Removing(r) =>
                req[r].key \in Keys /\ req[r].u \in Uploads
           /\ \A c \in cleaner.todo : c = <<c[1], c[2]>> /\ c[1] \in Uploads /\ c[2] \in Keys
           /\ cleaner.marking # None => cleaner.marking \in cleaner.todo
           /\ files \subseteq Keys
<1>1. \A u \in Uploads : photo[u] \in Photo \cup {None}
  BY DEF PhotosInv, TypeOK
<1>2. \A u \in Uploads : Stored(u) => photo[u].key \in Keys
  BY <1>1 DEF Stored, Photo
<1>3. None \notin Keys
  BY NoneAssumption
<1>4. \A u \in Uploads, k \in Keys : Row(u, k) <=> u \in Active /\ photo[u].key = k
  BY <1>3 DEF Row, Active, Stored
<1>5. ASSUME NEW r \in Requests, Holding(r) \/ Removing(r)
      PROVE  req[r].key \in Keys /\ req[r].u \in Uploads
  BY <1>5, InHand DEF Holding, Carrying, Removing, Handed
<1>6. cleaner.todo \subseteq Uploads \X Keys /\ files \subseteq Keys
      /\ (cleaner.marking # None => cleaner.marking \in cleaner.todo)
  BY DEF PhotosInv, TypeOK
<1>7. \A c \in cleaner.todo : c = <<c[1], c[2]>> /\ c[1] \in Uploads /\ c[2] \in Keys
  BY <1>6
<1> QED BY <1>1, <1>2, <1>3, <1>4, <1>5, <1>6, <1>7

(* Whoever drops what it has in hand, and removes its file if that was its *)
(* own, leaves the others' keys alone.                                     *)
LEMMA DropKeys ==
    ASSUME PhotosInv, KeysOK, NEW r \in Requests, Drops(r), FewerRows, UNCHANGED cleaner,
           files' = files \/ (Holding(r) /\ files' = files \ {req[r].key})
    PROVE  KeysOK'
<1>0. ~Holding(r)' /\ ~Removing(r)' /\ ~At(r, "mark")' /\ EmptyHanded(r)'
  BY DEF Drops, Holding, Carrying, Removing, At, EmptyHanded
<1>1. \A q \in Requests : q # r =>
        /\ req'[q] = req[q]
        /\ Holding(q)' <=> Holding(q)
        /\ Carrying(q)' <=> Carrying(q)
        /\ Removing(q)' <=> Removing(q)
        /\ At(q, "mark")' <=> At(q, "mark")
  BY DEF Drops, Others, Holding, Carrying, Removing, At
<1>2. OneRowPerKey'
  BY DEF KeysOK, OneRowPerKey, FewerRows
<1>3. CleanerRows'
  BY KeyTypes DEF KeysOK, CleanerRows, FewerRows
<1>4. GoneFiles'
  BY <1>0, <1>1 DEF KeysOK, GoneFiles
<1>5. ASSUME NEW q \in Requests, q # r
      PROVE  EmptyHanded(q)' /\ OnlyItsRow(q)'
  BY <1>1, <1>5, KeyTypes DEF KeysOK, EmptyHanded, OnlyItsRow, FewerRows
<1>6. ASSUME NEW q \in Requests, q # r
      PROVE  SoleHolder(q)'
  <2>1. CASE ~Holding(q)
    BY <1>1, <1>6, <2>1 DEF SoleHolder
  <2>2. CASE Holding(q)
    <3>1. req[q].key \in Keys /\ req'[q].key = req[q].key /\ req[q].key # None
      BY <1>1, <1>6, <2>2, KeyTypes
    <3>2. \A v \in Uploads : ~Row(v, req[q].key)'
      BY <2>2, <3>1, <1>6 DEF KeysOK, SoleHolder, FewerRows, Row
    <3>3. \A p \in Requests \ {q} : req'[p].key # req[q].key
      BY <1>1, <2>2, <3>1 DEF KeysOK, SoleHolder, Drops
    <3> QED BY <2>2, <3>1, <3>2, <3>3 DEF KeysOK, SoleHolder, Row
  <2> QED BY <2>1, <2>2
<1>7. ASSUME NEW q \in Requests, q # r
      PROVE  CarriedFile(q)'
  <2>1. CASE ~Carrying(q)
    BY <1>1, <1>7, <2>1 DEF CarriedFile
  <2>2. CASE Carrying(q)
    <3>1. req[q].key \in files /\ req'[q].key = req[q].key
      BY <1>1, <1>7, <2>2 DEF KeysOK, CarriedFile
    <3>2. Holding(r) => req[q].key # req[r].key
      BY <1>7 DEF KeysOK, SoleHolder
    <3> QED BY <3>1, <3>2 DEF CarriedFile
  <2> QED BY <2>1, <2>2
<1>8. \A q \in Requests : EmptyHanded(q)' /\ SoleHolder(q)' /\ OnlyItsRow(q)' /\ CarriedFile(q)'
  BY <1>0, <1>5, <1>6, <1>7 DEF SoleHolder, OnlyItsRow, CarriedFile, Holding
<1> QED BY <1>2, <1>3, <1>4, <1>8 DEF KeysOK

(* An upload goes on with the key it has.                                  *)
LEMMA HoldKeys ==
    ASSUME PhotosInv, KeysOK, NEW r \in Requests, Others(r), Holding(r), Holding(r)',
           req'[r].key = req[r].key, Carrying(r)' => Carrying(r),
           UNCHANGED <<photo, files, cleaner>>
    PROVE  KeysOK'
<1>1. \A q \in Requests : q # r => req'[q] = req[q]
  BY DEF Others
<1>2. \A q \in Requests :
        /\ req'[q].key = req[q].key
        /\ Holding(q)' <=> Holding(q)
        /\ Carrying(q)' => Carrying(q)
        /\ Removing(q)' <=> Removing(q)
        /\ At(q, "mark")' <=> At(q, "mark")
        /\ Removing(q) => req'[q].u = req[q].u
  BY <1>1 DEF Holding, Carrying, Removing, At
<1>3. OneRowPerKey' /\ CleanerRows'
  BY DEF KeysOK, OneRowPerKey, CleanerRows, Row
<1>4. GoneFiles'
  BY <1>2 DEF KeysOK, GoneFiles
<1>5. ASSUME NEW q \in Requests
      PROVE  EmptyHanded(q)' /\ OnlyItsRow(q)' /\ CarriedFile(q)'
  BY <1>2 DEF KeysOK, EmptyHanded, OnlyItsRow, CarriedFile, Row
<1>6. ASSUME NEW q \in Requests
      PROVE  SoleHolder(q)'
  BY <1>2 DEF KeysOK, SoleHolder, Row
<1> QED BY <1>3, <1>4, <1>5, <1>6 DEF KeysOK

(* A new key is in nobody's hands and in no row.                           *)
LEMMA NewKey ==
    ASSUME PhotosInv, NEW k \in NewKeys
    PROVE  /\ k \in Keys /\ k \notin files
           /\ \A u \in Uploads : ~Row(u, k)
           /\ \A q \in Requests : req[q].key # k
           /\ \A c \in cleaner.todo : c[2] # k
           /\ cleaner.marking # None => cleaner.marking[2] # k
<1>1. Free(k) /\ k \in Keys
  BY DEF NewKeys
<1>2. \A u \in Active : photo[u].key # k
  BY <1>1 DEF Free
<1> QED BY <1>1, <1>2, KeyTypes DEF Free

(* Storing a file takes a new key in hand, or leaves part of it behind.    *)
LEMMA StoreKeys ==
    ASSUME PhotosInv, KeysOK, NEW r \in Requests, Store(r)
    PROVE  KeysOK'
<1>1. UNCHANGED <<photo, cleaner>> /\ At(r, "store")
  BY DEF Store
<1>2. PICK k \in NewKeys :
         \/ files' = files \cup {k} /\ req' = [req EXCEPT ![r].pc = "check", ![r].key = k]
         \/ files' \in {files, files \cup {k}} /\ req' = [req EXCEPT ![r] = Quiet]
  BY DEF Store
<1>3. /\ k \in Keys /\ k \notin files
      /\ \A u \in Uploads : ~Row(u, k)
      /\ \A q \in Requests : req[q].key # k
      /\ \A c \in cleaner.todo : c[2] # k
      /\ cleaner.marking # None => cleaner.marking[2] # k
  BY NewKey
<1>4. Others(r)
  BY <1>2 DEF Others, PhotosInv, TypeOK
<1>5. /\ files \subseteq files' /\ files' \subseteq files \cup {k}
      /\ \/ Carrying(r)' /\ req'[r].key = k /\ k \in files'
         \/ Drops(r)
  BY <1>2, <1>4 DEF Carrying, Drops, Quiet, PhotosInv, TypeOK
<1>6. ~Removing(r)' /\ ~At(r, "mark")' /\ EmptyHanded(r)' /\ CarriedFile(r)'
  BY <1>5 DEF Drops, Carrying, Removing, Holding, At, EmptyHanded, CarriedFile
<1>7. \A q \in Requests : q # r =>
        /\ req'[q] = req[q]
        /\ Holding(q)' <=> Holding(q)
        /\ Carrying(q)' <=> Carrying(q)
        /\ Removing(q)' <=> Removing(q)
        /\ At(q, "mark")' <=> At(q, "mark")
  BY <1>4 DEF Others, Holding, Carrying, Removing, At
<1>8. OneRowPerKey' /\ CleanerRows'
  BY <1>1 DEF KeysOK, OneRowPerKey, CleanerRows, Row
<1>9. GoneFiles'
  BY <1>1, <1>3, <1>5, <1>6, <1>7 DEF KeysOK, GoneFiles
<1>10. ASSUME NEW q \in Requests, q # r
       PROVE  EmptyHanded(q)' /\ OnlyItsRow(q)' /\ CarriedFile(q)'
  BY <1>1, <1>5, <1>7, <1>10 DEF KeysOK, EmptyHanded, OnlyItsRow, CarriedFile, Row
<1>11. ASSUME NEW q \in Requests, q # r
       PROVE  SoleHolder(q)'
  <2>1. CASE ~Holding(q)
    BY <1>7, <1>11, <2>1 DEF SoleHolder
  <2>2. CASE Holding(q)
    <3>1. req[q].key \in Keys /\ req[q].key # None /\ req[q].key # k /\ req'[q].key = req[q].key
      BY <1>3, <1>7, <1>11, <2>2, KeyTypes
    <3>2. \A p \in Requests \ {q} : req'[p].key # req[q].key
      BY <1>5, <1>7, <2>2, <3>1 DEF KeysOK, SoleHolder, Drops
    <3> QED BY <1>1, <2>2, <3>1, <3>2 DEF KeysOK, SoleHolder, Row
  <2> QED BY <2>1, <2>2
<1>12. SoleHolder(r)'
  <2>1. CASE Drops(r)
    BY <2>1 DEF Drops, SoleHolder, Holding, Carrying
  <2>2. CASE req'[r].key = k
    BY <1>1, <1>3, <1>7, <2>2 DEF SoleHolder, Row
  <2> QED BY <1>5, <2>1, <2>2
<1> QED BY <1>6, <1>8, <1>9, <1>10, <1>11, <1>12 DEF KeysOK, OnlyItsRow

(* An insertion hands the key over to the new row.                         *)
LEMMA InsertKeys ==
    ASSUME PhotosInv, KeysOK, NEW r \in Requests, Carrying(r), NEW u \in Uploads, Drops(r),
           UNCHANGED <<files, cleaner>>, photo[u] = None,
           \A v \in Uploads, k \in Keys :
              Row(v, k)' <=> Row(v, k) \/ (v = u /\ k = req[r].key)
    PROVE  KeysOK'
<1> DEFINE k == req[r].key
<1>1. /\ Holding(r) /\ k \in Keys
      /\ \A v \in Uploads : ~Row(v, k)
      /\ \A q \in Requests : q # r => req[q].key # k
      /\ \A c \in cleaner.todo : c[2] # k
  BY KeyTypes DEF Holding, KeysOK, SoleHolder
<1> HIDE DEF k
<1>2. \A v \in Uploads, j \in Keys : Row(v, j)' <=> Row(v, j) \/ (v = u /\ j = k)
  BY DEF k
<1>3. ~Holding(r)' /\ ~Removing(r)' /\ ~At(r, "mark")' /\ EmptyHanded(r)'
  BY DEF Drops, Holding, Carrying, Removing, At, EmptyHanded
<1>4. \A q \in Requests : q # r =>
        /\ req'[q] = req[q]
        /\ Holding(q)' <=> Holding(q)
        /\ Carrying(q)' <=> Carrying(q)
        /\ Removing(q)' <=> Removing(q)
        /\ At(q, "mark")' <=> At(q, "mark")
  BY DEF Drops, Others, Holding, Carrying, Removing, At
<1>5. OneRowPerKey'
  BY <1>1, <1>2 DEF KeysOK, OneRowPerKey
<1>6. CleanerRows'
  BY <1>1, <1>2, KeyTypes DEF KeysOK, CleanerRows
<1>7. GoneFiles'
  BY <1>3, <1>4 DEF KeysOK, GoneFiles
<1>8. ASSUME NEW q \in Requests, q # r
      PROVE  EmptyHanded(q)' /\ OnlyItsRow(q)' /\ CarriedFile(q)'
  BY <1>1, <1>2, <1>4, <1>8, KeyTypes DEF KeysOK, EmptyHanded, OnlyItsRow, CarriedFile
<1>9. ASSUME NEW q \in Requests, q # r
      PROVE  SoleHolder(q)'
  <2>1. CASE ~Holding(q)
    BY <1>4, <1>9, <2>1 DEF SoleHolder
  <2>2. CASE Holding(q)
    <3>1. req[q].key \in Keys /\ req[q].key # None /\ req[q].key # k /\ req'[q].key = req[q].key
      BY <1>1, <1>4, <1>9, <2>2, KeyTypes
    <3>2. \A v \in Uploads : ~Row(v, req[q].key)'
      BY <1>2, <2>2, <3>1 DEF KeysOK, SoleHolder
    <3>3. \A p \in Requests \ {q} : req'[p].key # req[q].key
      BY <1>4, <2>2, <3>1 DEF KeysOK, SoleHolder, Drops
    <3> QED BY <2>2, <3>1, <3>2, <3>3 DEF KeysOK, SoleHolder, Row
  <2> QED BY <2>1, <2>2
<1> QED BY <1>3, <1>5, <1>6, <1>7, <1>8, <1>9 DEF KeysOK, SoleHolder, OnlyItsRow,
           CarriedFile, Holding

(* A deletion takes the key of its row in hand, and no other row has it.   *)
LEMMA BeginDeleteKeys ==
    ASSUME PhotosInv, KeysOK, NEW r \in Requests, NEW u \in Uploads, BeginDelete(r, u)
    PROVE  KeysOK'
<1> DEFINE k == photo[u].key
<1>1. Stored(u) /\ k \in Keys /\ Row(u, k) /\ UNCHANGED <<photo, files, cleaner>>
  BY KeyTypes DEF BeginDelete, Stored, Row
<1>2. req'[r].pc = "unlink" /\ req'[r].u = u /\ req'[r].key = k /\ Others(r)
  BY DEF BeginDelete, Others, Quiet, PhotosInv, TypeOK
<1>3. \A q \in Requests : q # r =>
        /\ req'[q] = req[q]
        /\ Holding(q)' <=> Holding(q)
        /\ Carrying(q)' <=> Carrying(q)
        /\ Removing(q)' <=> Removing(q)
        /\ At(q, "mark")' <=> At(q, "mark")
  BY <1>2 DEF Others, Holding, Carrying, Removing, At
<1>4. ~Holding(r)' /\ ~Carrying(r)' /\ Removing(r)' /\ ~At(r, "mark")'
  BY <1>2 DEF Holding, Carrying, Removing, At
<1> HIDE DEF k
<1>5. OneRowPerKey' /\ CleanerRows'
  BY <1>1 DEF KeysOK, OneRowPerKey, CleanerRows, Row
<1>6. GoneFiles'
  BY <1>1, <1>3, <1>4 DEF KeysOK, GoneFiles
<1>7. ASSUME NEW q \in Requests, q # r
      PROVE  EmptyHanded(q)' /\ SoleHolder(q)' /\ OnlyItsRow(q)' /\ CarriedFile(q)'
  <2>1. Holding(q) => k # req[q].key
    BY <1>1 DEF KeysOK, SoleHolder
  <2> QED BY <1>1, <1>2, <1>3, <1>7, <2>1
        DEF KeysOK, EmptyHanded, SoleHolder, OnlyItsRow, CarriedFile, Row
<1>8. OnlyItsRow(r)'
  BY <1>1, <1>2 DEF KeysOK, OneRowPerKey, OnlyItsRow, Row
<1> QED BY <1>4, <1>5, <1>6, <1>7, <1>8 DEF KeysOK, EmptyHanded, SoleHolder, CarriedFile

(* The file goes, and only its own request or the clean-up still has its key.*)
LEMMA UnlinkKeys ==
    ASSUME PhotosInv, KeysOK, NEW r \in Requests, Unlink(r)
    PROVE  KeysOK'
<1> DEFINE k == req[r].key
<1>1. Removing(r) /\ ~Holding(r) /\ k \in Keys /\ UNCHANGED <<photo, cleaner>>
  BY KeyTypes DEF Unlink, At, Removing, Holding, Carrying
<1>2. Others(r)
  BY DEF Unlink, Goto, Others, PhotosInv, TypeOK
<1>3. CASE req' = [req EXCEPT ![r] = Quiet] /\ UNCHANGED files
  <2>1. Drops(r)
    BY <1>2, <1>3 DEF Drops, Quiet, PhotosInv, TypeOK
  <2> QED BY <1>1, <1>3, <2>1, DropKeys DEF FewerRows, Row
<1>4. CASE Goto(r, "mark") /\ files' = files \ {k}
  <2>1. req'[r].pc = "mark" /\ req'[r].key = k /\ req'[r].u = req[r].u
    BY <1>4 DEF Goto, PhotosInv, TypeOK
  <2>2. \A q \in Requests :
          /\ req'[q].key = req[q].key
          /\ req'[q].u = req[q].u
          /\ Holding(q)' <=> Holding(q)
          /\ Carrying(q)' <=> Carrying(q)
          /\ Removing(q)' <=> Removing(q)
          /\ q # r => (At(q, "mark")' <=> At(q, "mark"))
    BY <1>1, <1>2, <2>1 DEF Others, Holding, Carrying, Removing, At
  <2> HIDE DEF k
  <2>3. OneRowPerKey' /\ CleanerRows'
    BY <1>1 DEF KeysOK, OneRowPerKey, CleanerRows, Row
  <2>4. GoneFiles'
    BY <1>1, <1>4, <2>1, <2>2 DEF KeysOK, GoneFiles
  <2>5. ASSUME NEW q \in Requests
        PROVE  EmptyHanded(q)' /\ SoleHolder(q)' /\ OnlyItsRow(q)'
    BY <1>1, <2>2 DEF KeysOK, EmptyHanded, SoleHolder, OnlyItsRow, Row
  <2>6. ASSUME NEW q \in Requests, Carrying(q)
        PROVE  req[q].key \in files'
    <3>1. q # r /\ Holding(q) /\ req[q].key \in files
      BY <1>1, <2>6 DEF Holding, KeysOK, CarriedFile
    <3>2. req[q].key # k
      BY <3>1 DEF KeysOK, SoleHolder, k
    <3> QED BY <1>4, <3>1, <3>2
  <2> QED BY <2>2, <2>3, <2>4, <2>5, <2>6 DEF KeysOK, CarriedFile
<1> QED BY <1>3, <1>4 DEF Unlink

(* What the clean-up may do: select rows with their keys, remove files of  *)
(* what it selected, and be about to update the row of a file that is gone.*)
CleanerMoves ==
    /\ \A c \in cleaner'.todo : c \in cleaner.todo \/ (Row(c[1], c[2]) /\ c \in Active \X Keys)
    /\ UNCHANGED files \/ \E c \in cleaner.todo : files' = files \ {c[2]}
    /\ cleaner'.marking # None => cleaner'.marking[2] \notin files'

(* Nothing but the clean-up, rows that go, and files nobody carries.       *)
LEMMA CleanerKeys ==
    ASSUME PhotosInv, KeysOK, UNCHANGED req, FewerRows, CleanerMoves
    PROVE  KeysOK'
<1>1. \A r \in Requests : /\ Holding(r)' <=> Holding(r)
                          /\ Carrying(r)' <=> Carrying(r)
                          /\ Removing(r)' <=> Removing(r)
                          /\ At(r, "mark")' <=> At(r, "mark")
                          /\ EmptyHanded(r)
  BY DEF Holding, Carrying, Removing, At, KeysOK
<1>2. OneRowPerKey'
  BY DEF KeysOK, OneRowPerKey, FewerRows
<1>3. CleanerRows'
  BY KeyTypes DEF CleanerMoves, KeysOK, CleanerRows, OneRowPerKey, FewerRows, Active
<1>4. GoneFiles'
  BY <1>1 DEF CleanerMoves, KeysOK, GoneFiles
<1>5. ASSUME NEW r \in Requests
      PROVE  EmptyHanded(r)' /\ OnlyItsRow(r)'
  BY <1>1, KeyTypes DEF KeysOK, EmptyHanded, OnlyItsRow, FewerRows
<1>6. ASSUME NEW r \in Requests, Holding(r)
      PROVE  SoleHolder(r)' /\ CarriedFile(r)'
  <2>1. /\ req[r].key \in Keys /\ SoleHolder(r) /\ CarriedFile(r)
        /\ \A c \in cleaner.todo : c[2] # req[r].key
    BY <1>6, KeyTypes DEF KeysOK, SoleHolder
  <2>2. \A u \in Uploads : ~Row(u, req[r].key) /\ ~Row(u, req[r].key)'
    BY <1>6, <2>1 DEF SoleHolder, FewerRows, Row
  <2>3. \A c \in cleaner'.todo : c[2] # req[r].key
    BY <2>1, <2>2 DEF CleanerMoves, Active
  <2>4. CarriedFile(r)'
    BY <1>1, <2>1 DEF CleanerMoves, CarriedFile
  <2> QED BY <1>6, <2>1, <2>2, <2>3, <2>4 DEF SoleHolder, Row
<1> QED BY <1>1, <1>2, <1>3, <1>4, <1>5, <1>6 DEF KeysOK, SoleHolder, CarriedFile, Holding

(* What has gone wrong stays so; the steps that may go wrong say how.      *)
LEMMA MishapsStay == ASSUME [Next]_vars PROVE mishaps \subseteq mishaps'
<1>1. ASSUME NEW r \in Requests, Work(r)
      PROVE  mishaps \subseteq mishaps'
  BY <1>1 DEF Work, Store, Check, Count, Insert, Undo, Again, Unlink, Mark, Smooth, Mishap
<1>2. ASSUME NEW r \in Requests, Crash(r) \/ \E u \in Uploads : BeginUpload(r, u) \/ BeginDelete(r, u)
      PROVE  mishaps \subseteq mishaps'
  BY <1>2 DEF Crash, BeginUpload, BeginDelete, Mishap
<1>3. CASE Complete \/ Revert \/ SyncTask \/ \E d \in Days : Correct(d)
  BY <1>3 DEF Complete, Revert, SyncTask, Correct
<1>4. CASE Select \/ CleanFails \/ CleanFile \/ CleanRow \/ CleanerCrash \/ NextDay
  BY <1>4 DEF Select, CleanFails, CleanFile, CleanRow, CleanerCrash, NextDay, Smooth, Mishap
<1> QED BY <1>1, <1>2, <1>3, <1>4 DEF Next, vars

(* Dates are moved without touching keys, and a removed row has none.      *)
LEMMA RowsReschedule ==
    ASSUME PhotosInv, NEW date \in Dates \cup {None}, photo' = Rescheduled(date),
           NEW u \in Uploads, NEW k \in Keys
    PROVE  Row(u, k)' <=> Row(u, k)
<1>1. photo'[u] = None <=> photo[u] = None
  BY RescheduleUnseen DEF PhotosInv
<1>2. CASE Stored(u)
  <2>1. photo'[u] = [photo[u] EXCEPT !.due = date] /\ photo[u] \in Photo
    BY <1>2, KeyTypes DEF Rescheduled, Stored
  <2>2. photo'[u].key = photo[u].key
    BY <2>1 DEF Photo
  <2> QED BY <1>1, <2>2 DEF Row
<1>3. CASE ~Stored(u)
  BY <1>3 DEF Rescheduled, Row
<1> QED BY <1>2, <1>3

(* A removed row has no key, the others keep theirs.                       *)
LEMMA RowsRemove ==
    ASSUME PhotosInv, NEW v \in Uploads, NEW date, photo' = Removed(v, date),
           NEW u \in Uploads, NEW k \in Keys
    PROVE  Row(u, k)' <=> Row(u, k) /\ u # v
<1>1. photo'[v] = [key |-> None, due |-> date] /\ (u # v => photo'[u] = photo[u])
  BY DEF Removed, PhotosInv, TypeOK
<1>2. ~Row(v, k)'
  <2>1. photo'[v].key = None
    BY <1>1
  <2> QED BY <2>1, NoneAssumption DEF Row
<1> QED BY <1>1, <1>2 DEF Row

(* Answered, or starting, a request has nothing in hand.                   *)
LEMMA DropsTo ==
    ASSUME PhotosInv, NEW r \in Requests, NEW pc \in {"idle", "ok", "store", "again"}, NEW u,
           req' = [req EXCEPT ![r] = [Quiet EXCEPT !.pc = pc, !.u = u]]
    PROVE  Drops(r)
<1> DEFINE new == [Quiet EXCEPT !.pc = pc, !.u = u]
<1>1. new.pc = pc /\ new.key = None
  BY DEF Quiet
<1> HIDE DEF new
<1>2. req' = [req EXCEPT ![r] = new]
  BY DEF new
<1>3. req'[r] = new /\ \A q \in Requests : q # r => req'[q] = req[q]
  BY <1>2 DEF PhotosInv, TypeOK
<1> QED BY <1>1, <1>3 DEF Drops, Others

(* A request that ends badly neither.                                      *)
LEMMA DropsAll ==
    ASSUME PhotosInv, NEW r \in Requests, req' = [req EXCEPT ![r] = Quiet]
    PROVE  Drops(r)
BY DEF Drops, Others, Quiet, PhotosInv, TypeOK

(* A request that inserts its row hands over its key.                      *)
LEMMA RowsInsert ==
    ASSUME PhotosInv, NEW r \in Requests, Insert(r), ~UNCHANGED photo
    PROVE  /\ Carrying(r) /\ req[r].u \in Uploads /\ req[r].key \in Keys
           /\ photo[req[r].u] = None
           /\ \A v \in Uploads, k \in Keys :
                Row(v, k)' <=> Row(v, k) \/ (v = req[r].u /\ k = req[r].key)
           /\ Drops(r) \/ "ackLoss" \in mishaps'
<1> DEFINE u == req[r].u
           row == [key |-> req[r].key, due |-> req[r].due]
<1>1. Carrying(r) /\ u \in Uploads /\ req[r].key \in Keys
  BY KeyTypes DEF Insert, At, Carrying, Holding
<1>2. photo[u] = None /\ photo' = [photo EXCEPT ![u] = row]
  BY DEF Insert
<1>3. photo'[u] = row /\ \A v \in Uploads : v # u => photo'[v] = photo[v]
  BY <1>1, <1>2 DEF PhotosInv, TypeOK
<1>4. row \in Photo
  BY <1>1, InHand DEF Handed, ReqSet, Photo
<1>5. row.key = req[r].key /\ row # None
  BY <1>4, RowAssumption
<1>6. ASSUME NEW v \in Uploads, NEW k \in Keys
      PROVE  Row(v, k)' <=> Row(v, k) \/ (v = u /\ k = req[r].key)
  <2> HIDE DEF row
  <2>1. CASE v = u
    BY <1>2, <1>3, <1>5, <2>1 DEF Row
  <2>2. CASE v # u
    BY <1>3, <2>2 DEF Row
  <2> QED BY <2>1, <2>2
<1>7. req' = [req EXCEPT ![r] = [Quiet EXCEPT !.pc = "ok", !.u = u]] \/ "ackLoss" \in mishaps'
  BY DEF Insert, Mishap
<1>8. Drops(r) \/ "ackLoss" \in mishaps'
  BY <1>7, DropsTo
<1> QED BY <1>1, <1>2, <1>6, <1>8

(* An upload that is checked, counted or refused goes on with its key.     *)
LEMMA UploadGoesOn ==
    ASSUME PhotosInv, NEW r \in Requests,
           Check(r) \/ Count(r) \/ (Insert(r) /\ UNCHANGED photo)
    PROVE  /\ Others(r) /\ req'[r].key = req[r].key /\ UNCHANGED <<photo, files, cleaner>>
           /\ Carrying(r) /\ req'[r].pc \in {"count", "insert", "undo", "undoDuplicate"}
<1>1. CASE Check(r)
  BY <1>1 DEF Check, Goto, At, Others, Carrying, PhotosInv, TypeOK
<1>2. CASE Count(r)
  BY <1>2 DEF Count, Goto, At, Others, Carrying, PhotosInv, TypeOK
<1>3. CASE Insert(r) /\ UNCHANGED photo
  <2>1. req[r].u \in Uploads /\ req[r].key \in Keys /\ Carrying(r)
    BY <1>3, KeyTypes DEF Insert, At, Carrying, Holding
  <2>2. PICK pc \in {"undo", "undoDuplicate"} : Goto(r, pc)
    <3>1. ASSUME photo[req[r].u] = None,
                 photo' = [photo EXCEPT ![req[r].u] = [key |-> req[r].key, due |-> req[r].due]]
          PROVE  FALSE
      <4>1. [key |-> req[r].key, due |-> req[r].due] \in Photo
        BY <2>1, InHand DEF Handed, ReqSet, Photo
      <4> QED BY <1>3, <2>1, <3>1, <4>1, RowAssumption DEF PhotosInv, TypeOK
    <3> QED BY <1>3, <3>1 DEF Insert
  <2> QED BY <1>3, <2>1, <2>2 DEF Insert, Goto, Others, PhotosInv, TypeOK
<1> QED BY <1>1, <1>2, <1>3

(* Every step of a request keeps keys apart, unless it loses an acknowledgement.*)
LEMMA RequestKeys ==
    ASSUME PhotosInv, KeysOK, "ackLoss" \notin mishaps', NEW r \in Requests,
           Work(r) \/ Crash(r) \/ \E u \in Uploads : BeginUpload(r, u) \/ BeginDelete(r, u)
    PROVE  KeysOK'
<1>1. ASSUME NEW u \in Uploads, BeginUpload(r, u)
      PROVE  KeysOK'
  <2>1. UNCHANGED <<photo, files, cleaner>>
    BY <1>1 DEF BeginUpload
  <2>2. Drops(r)
    BY <1>1, DropsTo DEF BeginUpload
  <2> QED BY <2>1, <2>2, DropKeys DEF FewerRows, Row
<1>2. ASSUME NEW u \in Uploads, BeginDelete(r, u)
      PROVE  KeysOK'
  BY <1>2, BeginDeleteKeys
<1>3. CASE Store(r)
  BY <1>3, StoreKeys
<1>4. CASE Check(r) \/ Count(r) \/ (Insert(r) /\ UNCHANGED photo)
  <2>1. /\ Others(r) /\ req'[r].key = req[r].key /\ UNCHANGED <<photo, files, cleaner>>
        /\ Carrying(r) /\ req'[r].pc \in {"count", "insert", "undo", "undoDuplicate"}
    BY <1>4, UploadGoesOn
  <2>2. Holding(r) /\ Holding(r)'
    BY <2>1 DEF Holding, Carrying
  <2> QED BY <2>1, <2>2, HoldKeys
<1>5. CASE Insert(r) /\ ~UNCHANGED photo
  <2>1. UNCHANGED <<files, cleaner>>
    BY <1>5 DEF Insert
  <2> QED BY <1>5, <2>1, RowsInsert, InsertKeys
<1>6. CASE Undo(r)
  <2>1. Holding(r) /\ UNCHANGED <<photo, cleaner>> /\ files' \in {files, files \ {req[r].key}}
    BY <1>6 DEF Undo, Holding
  <2>2. Drops(r)
    BY <1>6, DropsTo, DropsAll DEF Undo
  <2> QED BY <2>1, <2>2, DropKeys DEF FewerRows, Row
<1>7. CASE Again(r)
  <2>1. UNCHANGED <<photo, files, cleaner>>
    BY <1>7 DEF Again
  <2>2. req[r].key = None
    BY <1>7 DEF Again, At, KeysOK, EmptyHanded, Holding, Carrying, Removing
  <2>3. Drops(r)
    BY <1>7, <2>2 DEF Again, Goto, Drops, Others, Quiet, PhotosInv, TypeOK
  <2> QED BY <2>1, <2>3, DropKeys DEF FewerRows, Row
<1>8. CASE Unlink(r)
  BY <1>8, UnlinkKeys
<1>9. CASE Mark(r)
  <2>1. UNCHANGED <<files, cleaner>> /\ req[r].u \in Uploads
    BY <1>9, KeyTypes DEF Mark, At, Removing
  <2>2. Drops(r)
    BY <1>9, DropsAll DEF Mark
  <2>3. photo' = photo \/ photo' = Removed(req[r].u, None)
    BY <1>9 DEF Mark
  <2>4. FewerRows
    BY <2>1, <2>3, RowsRemove DEF FewerRows, Row
  <2> QED BY <2>1, <2>2, <2>4, DropKeys
<1>10. CASE Crash(r)
  <2>1. UNCHANGED <<photo, files, cleaner>>
    BY <1>10 DEF Crash
  <2>2. Drops(r)
    BY <1>10, DropsAll DEF Crash
  <2> QED BY <2>1, <2>2, DropKeys DEF FewerRows, Row
<1> QED BY <1>1, <1>2, <1>3, <1>4, <1>5, <1>6, <1>7, <1>8, <1>9, <1>10 DEF Work

(* So do the task, the clean-up and the clock.                             *)
LEMMA OtherKeys ==
    ASSUME PhotosInv, KeysOK,
           \/ Complete \/ Revert \/ SyncTask \/ (\E d \in Days : Correct(d))
           \/ Select \/ CleanFails \/ CleanFile \/ CleanRow \/ CleanerCrash
           \/ NextDay \/ UNCHANGED vars
    PROVE  KeysOK'
<1>0. cleaner.marking # None => cleaner.marking[2] \notin files
  BY DEF KeysOK, GoneFiles
<1>1. CASE Complete \/ Revert \/ SyncTask \/ (\E d \in Days : Correct(d)) \/ NextDay \/ UNCHANGED vars
  <2>1. UNCHANGED <<req, files, cleaner>>
    BY <1>1 DEF Complete, Revert, SyncTask, Correct, NextDay, vars
  <2>2. photo' = photo \/ \E date \in Dates \cup {None} : photo' = Rescheduled(date)
    <3>1. \A d \in Days : d + Retention \in Dates
      BY BoundsAssumption DEF Days, Dates
    <3>2. day \in Days
      BY DEF PhotosInv, TypeOK
    <3> QED BY <1>1, <3>1, <3>2 DEF Complete, Revert, SyncTask, Correct, NextDay, vars
  <2>3. FewerRows
    BY <2>2, RowsReschedule DEF FewerRows, Row
  <2>4. /\ \A c \in cleaner'.todo : c \in cleaner.todo
        /\ cleaner'.marking # None => cleaner'.marking[2] \notin files'
    BY <1>0, <2>1
  <2>5. CleanerMoves
    BY <2>1, <2>4 DEF CleanerMoves
  <2> QED BY <2>1, <2>3, <2>5, CleanerKeys
<1>2. CASE Select
  <2>1. PICK B \in Candidates : cleaner' = [Resting EXCEPT !.todo = {<<u, photo[u].key>> : u \in B}]
    BY <1>2 DEF Select
  <2>2. B \subseteq Active
    BY DEF Candidates, Expired
  <2>3. cleaner'.todo = {<<u, photo[u].key>> : u \in B} /\ cleaner'.marking = None
    BY <2>1 DEF Resting
  <2>4. \A u \in B : Row(u, photo[u].key) /\ photo[u].key \in Keys
    BY <2>2, KeyTypes DEF Active, Row, Stored
  <2>5. \A c \in cleaner'.todo : Row(c[1], c[2]) /\ c \in Active \X Keys
    BY <2>2, <2>3, <2>4
  <2>6. FewerRows /\ UNCHANGED <<req, files>>
    BY <1>2 DEF Select, FewerRows, Row
  <2>7. CleanerMoves
    BY <2>3, <2>5, <2>6 DEF CleanerMoves
  <2> QED BY <2>6, <2>7, CleanerKeys
<1>3. CASE CleanFails
  <2>1. cleaner'.todo \subseteq cleaner.todo /\ cleaner'.marking = None
    BY <1>3 DEF CleanFails, PhotosInv, CleanerOK
  <2>2. FewerRows /\ UNCHANGED req /\ UNCHANGED files
    BY <1>3 DEF CleanFails, FewerRows, Row
  <2>3. CleanerMoves
    BY <2>1, <2>2 DEF CleanerMoves
  <2> QED BY <2>2, <2>3, CleanerKeys
<1>4. CASE CleanFile
  <2>1. PICK c \in cleaner.todo : files' = files \ {c[2]} /\ cleaner' = [cleaner EXCEPT !.marking = c]
    BY <1>4 DEF CleanFile
  <2>2. cleaner'.todo = cleaner.todo /\ cleaner'.marking = c
    BY <2>1 DEF PhotosInv, CleanerOK
  <2>3. FewerRows /\ UNCHANGED req
    BY <1>4 DEF CleanFile, FewerRows, Row
  <2>4. CleanerMoves
    BY <2>1, <2>2 DEF CleanerMoves
  <2> QED BY <2>3, <2>4, CleanerKeys
<1>5. CASE CleanRow
  <2> DEFINE u == cleaner.marking[1]
  <2>1. cleaner'.todo \subseteq cleaner.todo /\ cleaner'.marking = None
    BY <1>5 DEF CleanRow, Resting
  <2>2. u \in Uploads
    BY <1>5, KeyTypes DEF CleanRow
  <2>3. photo' = photo \/ photo' = Removed(u, photo[u].due)
    BY <1>5 DEF CleanRow
  <2>4. FewerRows
    BY <2>2, <2>3, RowsRemove DEF FewerRows, Row
  <2>5. UNCHANGED req /\ UNCHANGED files
    BY <1>5 DEF CleanRow
  <2>6. CleanerMoves
    BY <2>1, <2>5 DEF CleanerMoves
  <2> QED BY <2>4, <2>5, <2>6, CleanerKeys
<1>6. CASE CleanerCrash
  <2>1. cleaner'.todo = {} /\ cleaner'.marking = None
    BY <1>6 DEF CleanerCrash, Resting
  <2>2. FewerRows /\ UNCHANGED <<req, files>>
    BY <1>6 DEF CleanerCrash, FewerRows, Row
  <2>3. CleanerMoves
    BY <2>1, <2>2 DEF CleanerMoves
  <2> QED BY <2>2, <2>3, CleanerKeys
<1> QED BY <1>1, <1>2, <1>3, <1>4, <1>5, <1>6

(* What the properties say of one key.                                     *)
Reachable(k) == k \in files \/ BeingRemoved(k)
HasOwner(k) == (\E u \in Uploads : Row(u, k)) \/ (\E r \in Requests : req[r].key = k)

Readable == \A u \in Uploads, k \in Keys : Row(u, k) => Reachable(k)
Owned == \A k \in files : HasOwner(k)

TidyInv ==
    /\ KeysInv
    /\ mishaps \subseteq {"storage"} => Readable
    /\ mishaps \subseteq {"dbError"} => Owned

(* What is left of the properties by a step, and what it has to show.      *)
TidyNow ==
    /\ mishaps' \subseteq {"storage"} => Readable
    /\ mishaps' \subseteq {"dbError"} => Owned

TidyNext ==
    /\ mishaps' \subseteq {"storage"} => Readable'
    /\ mishaps' \subseteq {"dbError"} => Owned'

(* A request that keeps its key, or has none, does no harm while the files *)
(* and rows stay.                                                          *)
LEMMA KeepsTidy ==
    ASSUME PhotosInv, TidyNow,
           NEW r \in Requests, Others(r), ~At(r, "mark"), UNCHANGED <<photo, files, cleaner>>,
           req[r].key = None \/ req'[r].key = req[r].key \/ "storage" \in mishaps'
    PROVE  TidyNext
<1>1. \A k \in Keys : BeingRemoved(k) => BeingRemoved(k)'
  BY DEF BeingRemoved, Others, At
<1>2. Readable => Readable'
  BY <1>1 DEF Readable, Reachable, Row
<1>3. ASSUME Owned, mishaps' \subseteq {"dbError"}
      PROVE  Owned'
  BY <1>3, KeyTypes DEF Owned, HasOwner, Row, Others
<1> QED BY <1>2, <1>3 DEF TidyNow, TidyNext

(* A stored file is in the hands of the request that stored it.            *)
LEMMA StoreTidy ==
    ASSUME PhotosInv, KeysOK, TidyNow, NEW r \in Requests, Store(r)
    PROVE  TidyNext
<1>1. UNCHANGED <<photo, cleaner>> /\ At(r, "store")
  BY DEF Store
<1>2. PICK k \in NewKeys :
         \/ files' = files \cup {k} /\ req' = [req EXCEPT ![r].pc = "check", ![r].key = k]
         \/ /\ files' \in {files, files \cup {k}} /\ req' = [req EXCEPT ![r] = Quiet]
            /\ "storage" \in mishaps'
  BY DEF Store, Mishap
<1>3. Others(r) /\ files \subseteq files'
  BY <1>2 DEF Others, PhotosInv, TypeOK
<1>4. \A j \in Keys : BeingRemoved(j) => BeingRemoved(j)'
  BY <1>1, <1>3 DEF BeingRemoved, Others, At
<1>5. Readable => Readable'
  BY <1>1, <1>3, <1>4 DEF Readable, Reachable, Row
<1>6. ASSUME Owned, mishaps' \subseteq {"dbError"}
      PROVE  Owned'
  <2>1. files' = files \cup {k} /\ req' = [req EXCEPT ![r].pc = "check", ![r].key = k]
    BY <1>2, <1>6
  <2>2. req'[r].key = k
    BY <2>1 DEF PhotosInv, TypeOK
  <2>3. req[r].key = None /\ None \notin files
    BY <1>1, KeyTypes DEF KeysOK, EmptyHanded, At, Holding, Carrying, Removing
  <2> QED BY <1>1, <1>3, <1>6, <2>1, <2>2, <2>3 DEF Owned, HasOwner, Row, Others
<1> QED BY <1>5, <1>6 DEF TidyNow, TidyNext

(* The file that is removed again has no row.                              *)
LEMMA UndoTidy ==
    ASSUME PhotosInv, KeysOK, TidyNow, NEW r \in Requests, Undo(r)
    PROVE  TidyNext
<1>1. /\ Holding(r) /\ ~At(r, "mark") /\ UNCHANGED <<photo, cleaner>>
      /\ files' \in {files, files \ {req[r].key}}
      /\ files' = files \ {req[r].key} \/ "storage" \in mishaps'
  BY DEF Undo, Holding, At, Mishap
<1>2. Drops(r)
  BY DropsTo, DropsAll DEF Undo
<1>3. \A j \in Keys : BeingRemoved(j) => BeingRemoved(j)'
  BY <1>1, <1>2 DEF BeingRemoved, Drops, Others, At
<1>4. \A u \in Uploads : ~Row(u, req[r].key)
  BY <1>1 DEF KeysOK, SoleHolder
<1>5. Readable => Readable'
  BY <1>1, <1>3, <1>4 DEF Readable, Reachable, Row
<1>6. ASSUME Owned, mishaps' \subseteq {"dbError"}
      PROVE  Owned'
  <2>1. files' = files \ {req[r].key}
    BY <1>1, <1>6
  <2> QED BY <1>1, <1>2, <1>6, <2>1 DEF Owned, HasOwner, Row, Drops, Others
<1> QED BY <1>5, <1>6 DEF TidyNow, TidyNext

(* A new row has the file of the request that inserts it.                  *)
LEMMA InsertTidy ==
    ASSUME PhotosInv, KeysOK, TidyNow, "ackLoss" \notin mishaps',
           NEW r \in Requests, Insert(r), ~UNCHANGED photo
    PROVE  TidyNext
<1> DEFINE k == req[r].key
<1>1. /\ Carrying(r) /\ req[r].u \in Uploads /\ Drops(r) /\ ~At(r, "mark")
      /\ \A v \in Uploads, j \in Keys : Row(v, j)' <=> Row(v, j) \/ (v = req[r].u /\ j = k)
  BY RowsInsert DEF Carrying, At
<1>2. UNCHANGED <<files, cleaner>> /\ k \in files
  BY <1>1 DEF Insert, KeysOK, CarriedFile
<1> HIDE DEF k
<1>3. \A j \in Keys : BeingRemoved(j) => BeingRemoved(j)'
  BY <1>1, <1>2 DEF BeingRemoved, Drops, Others, At
<1>4. Readable => Readable'
  BY <1>1, <1>2, <1>3 DEF Readable, Reachable
<1>5. ASSUME Owned
      PROVE  Owned'
  <2>1. ASSUME NEW j \in files
        PROVE  HasOwner(j)'
    <3>1. j \in Keys /\ HasOwner(j)
      BY <1>5, KeyTypes DEF Owned
    <3>2. CASE \E u \in Uploads : Row(u, j)
      BY <1>1, <3>1, <3>2 DEF HasOwner
    <3>3. CASE j = k
      BY <1>1, <3>1, <3>3 DEF HasOwner
    <3>4. ASSUME NEW q \in Requests, q # r, req[q].key = j
          PROVE  HasOwner(j)'
      BY <1>1, <3>4 DEF HasOwner, Drops, Others
    <3> QED BY <3>1, <3>2, <3>3, <3>4 DEF HasOwner, k
  <2> QED BY <1>2, <2>1 DEF Owned
<1> QED BY <1>4, <1>5 DEF TidyNow, TidyNext

(* While its file is gone and its row is not, a photo is being removed.    *)
LEMMA UnlinkTidy ==
    ASSUME PhotosInv, KeysOK, TidyNow, NEW r \in Requests, Unlink(r)
    PROVE  TidyNext
<1>1. At(r, "unlink") /\ ~At(r, "mark") /\ UNCHANGED <<photo, cleaner>>
  BY DEF Unlink, At
<1>2. Others(r)
  BY DEF Unlink, Goto, Others, PhotosInv, TypeOK
<1>3. CASE UNCHANGED files /\ "storage" \in mishaps'
  BY <1>1, <1>2, <1>3, KeepsTidy
<1>4. CASE Goto(r, "mark") /\ files' = files \ {req[r].key}
  <2>1. req'[r].pc = "mark" /\ req'[r].key = req[r].key
    BY <1>4 DEF Goto, PhotosInv, TypeOK
  <2>2. PICK k \in Keys : k = req[r].key
    BY <1>1, KeyTypes DEF At, Removing
  <2>3. \A j \in Keys : BeingRemoved(j) \/ j = k => BeingRemoved(j)'
    BY <1>1, <1>2, <2>1, <2>2 DEF BeingRemoved, Others, At
  <2>4. Readable => Readable'
    BY <1>1, <1>4, <2>2, <2>3 DEF Readable, Reachable, Row
  <2>5. Owned => Owned'
    BY <1>1, <1>2, <1>4, <2>1 DEF Owned, HasOwner, Row, Others
  <2> QED BY <2>4, <2>5 DEF TidyNow, TidyNext
<1> QED BY <1>3, <1>4 DEF Unlink, Mishap

(* When the row is updated it was the only one with the key.               *)
LEMMA MarkTidy ==
    ASSUME PhotosInv, KeysOK, TidyNow, NEW r \in Requests, Mark(r)
    PROVE  TidyNext
<1>0. /\ Removing(r) /\ req[r].key \notin files
      /\ UNCHANGED <<files, cleaner>>
  BY DEF Mark, At, Removing, KeysOK, GoneFiles
<1>1. PICK k \in Keys, u \in Uploads : k = req[r].key /\ u = req[r].u
  BY <1>0, KeyTypes
<1>2. Drops(r)
  BY DropsAll DEF Mark
<1>3. \/ photo' = photo /\ (photo[u].key # k \/ "dbError" \in mishaps')
      \/ photo[u].key = k /\ photo' = Removed(u, None)
  BY <1>1 DEF Mark, Mishap
<1>4. \A v \in Uploads : Row(v, k) => v = u
  BY <1>0, <1>1 DEF KeysOK, OnlyItsRow
<1>5. ASSUME NEW v \in Uploads, NEW j \in Keys
      PROVE  /\ Row(v, j)' => Row(v, j)
             /\ Row(v, j) /\ j # k => Row(v, j)'
             /\ ~Row(v, k)' \/ "dbError" \in mishaps'
  <2>1. CASE photo' = photo /\ (photo[u].key # k \/ "dbError" \in mishaps')
    BY <1>4, <2>1 DEF Row
  <2>2. CASE photo[u].key = k /\ photo' = Removed(u, None)
    <3>1. /\ Row(v, j)' <=> Row(v, j) /\ v # u
          /\ Row(v, k)' <=> Row(v, k) /\ v # u
      BY <2>2, RowsRemove
    <3>2. Row(v, j) /\ v = u => j = k
      BY <2>2 DEF Row
    <3> QED BY <1>4, <3>1, <3>2
  <2> QED BY <1>3, <2>1, <2>2
<1>6. \A j \in Keys : j # k /\ BeingRemoved(j) => BeingRemoved(j)'
  BY <1>0, <1>1, <1>2 DEF BeingRemoved, Drops, Others, At
<1>7. ASSUME Readable, mishaps' \subseteq {"storage"}
      PROVE  Readable'
  <2>1. ASSUME NEW v \in Uploads, NEW j \in Keys, Row(v, j)'
        PROVE  Reachable(j)'
    <3>1. Row(v, j) /\ j # k
      BY <1>5, <1>7, <2>1
    <3> QED BY <1>0, <1>6, <1>7, <3>1 DEF Readable, Reachable
  <2> QED BY <2>1 DEF Readable
<1>8. ASSUME Owned
      PROVE  Owned'
  <2>1. ASSUME NEW j \in files
        PROVE  HasOwner(j)'
    <3>1. j \in Keys /\ j # k /\ HasOwner(j)
      BY <1>0, <1>1, <1>8, KeyTypes DEF Owned
    <3> QED BY <1>1, <1>2, <1>5, <3>1 DEF HasOwner, Drops, Others
  <2> QED BY <1>0, <2>1 DEF Owned
<1> QED BY <1>7, <1>8 DEF TidyNow, TidyNext

(* Every step of a request.                                                *)
LEMMA RequestTidy ==
    ASSUME PhotosInv, KeysOK, TidyNow, "ackLoss" \notin mishaps', NEW r \in Requests,
           Work(r) \/ Crash(r) \/ \E u \in Uploads : BeginUpload(r, u) \/ BeginDelete(r, u)
    PROVE  TidyNext
<1>1. ASSUME NEW u \in Uploads, BeginUpload(r, u) \/ BeginDelete(r, u)
      PROVE  TidyNext
  <2>1. ~At(r, "mark") /\ UNCHANGED <<photo, files, cleaner>> /\ req[r].pc \in {"idle", "ok"}
    BY <1>1 DEF BeginUpload, BeginDelete, Idle, At
  <2>2. req[r].key = None
    BY <2>1 DEF KeysOK, EmptyHanded, Holding, Carrying, Removing
  <2>3. Others(r)
    BY <1>1 DEF BeginUpload, BeginDelete, Others, PhotosInv, TypeOK
  <2> QED BY <2>1, <2>2, <2>3, KeepsTidy
<1>2. CASE Check(r) \/ Count(r) \/ (Insert(r) /\ UNCHANGED photo)
  <2>1. Others(r) /\ req'[r].key = req[r].key /\ UNCHANGED <<photo, files, cleaner>> /\ Carrying(r)
    BY <1>2, UploadGoesOn
  <2>2. ~At(r, "mark")
    BY <2>1 DEF Carrying, At
  <2> QED BY <2>1, <2>2, KeepsTidy
<1>3. CASE Again(r)
  <2>1. ~At(r, "mark") /\ UNCHANGED <<photo, files, cleaner>> /\ At(r, "again")
    BY <1>3 DEF Again, At
  <2>2. req[r].key = None
    BY <2>1 DEF At, KeysOK, EmptyHanded, Holding, Carrying, Removing
  <2>3. Others(r)
    BY <1>3 DEF Again, Goto, Others, PhotosInv, TypeOK
  <2> QED BY <2>1, <2>2, <2>3, KeepsTidy
<1>4. CASE Crash(r)
  BY <1>4 DEF Crash, Mishap, TidyNext
<1> QED BY <1>1, <1>2, <1>3, <1>4, StoreTidy, InsertTidy, UndoTidy, UnlinkTidy, MarkTidy
           DEF Work

(* The clean-up removes a file, then updates the one row that had it.      *)
LEMMA CleanRowTidy ==
    ASSUME PhotosInv, KeysOK, TidyNow, CleanRow
    PROVE  TidyNext
<1>0. cleaner.marking # None /\ UNCHANGED <<files, req>> /\ cleaner'.marking = None
  BY DEF CleanRow, Resting
<1>1. PICK u \in Uploads, k \in Keys : cleaner.marking = <<u, k>>
  BY <1>0, KeyTypes
<1>2. k \notin files /\ \A v \in Uploads : Row(v, k) => v = u
  BY <1>0, <1>1, KeyTypes DEF KeysOK, GoneFiles, CleanerRows
<1>3. \/ photo' = photo /\ (photo[u].key # k \/ "dbError" \in mishaps')
      \/ photo[u].key = k /\ photo' = Removed(u, photo[u].due)
  BY <1>1 DEF CleanRow, Mishap
<1>4. PICK date : photo' = photo \/ photo' = Removed(u, date)
  BY <1>3
<1>5. ASSUME NEW v \in Uploads, NEW j \in Keys
      PROVE  /\ Row(v, j)' => Row(v, j)
             /\ Row(v, j) /\ j # k => Row(v, j)'
             /\ ~Row(v, k)' \/ "dbError" \in mishaps'
  <2>1. CASE photo' = photo /\ (photo[u].key # k \/ "dbError" \in mishaps')
    BY <1>2, <2>1 DEF Row
  <2>2. CASE photo[u].key = k /\ photo' = Removed(u, photo[u].due)
    <3>1. /\ Row(v, j)' <=> Row(v, j) /\ v # u
          /\ Row(v, k)' <=> Row(v, k) /\ v # u
      BY <2>2, RowsRemove
    <3>2. Row(v, j) /\ v = u => j = k
      BY <2>2 DEF Row
    <3> QED BY <1>2, <3>1, <3>2
  <2> QED BY <1>3, <2>1, <2>2
<1>6. \A j \in Keys : j # k /\ BeingRemoved(j) => BeingRemoved(j)'
  BY <1>0, <1>1 DEF BeingRemoved, At
<1>7. ASSUME Readable, mishaps' \subseteq {"storage"}
      PROVE  Readable'
  <2>1. ASSUME NEW v \in Uploads, NEW j \in Keys, Row(v, j)'
        PROVE  Reachable(j)'
    <3>1. Row(v, j) /\ j # k
      BY <1>5, <1>7, <2>1
    <3> QED BY <1>0, <1>6, <1>7, <3>1 DEF Readable, Reachable
  <2> QED BY <2>1 DEF Readable
<1>8. ASSUME Owned
      PROVE  Owned'
  <2>1. ASSUME NEW j \in files
        PROVE  HasOwner(j)'
    <3>1. j \in Keys /\ j # k /\ HasOwner(j)
      BY <1>2, <1>8, KeyTypes DEF Owned
    <3> QED BY <1>0, <1>5, <3>1 DEF HasOwner
  <2> QED BY <1>0, <2>1 DEF Owned
<1> QED BY <1>7, <1>8 DEF TidyNow, TidyNext

(* The other steps of the clean-up, the task and the clock.                *)
LEMMA OtherTidy ==
    ASSUME PhotosInv, KeysOK, TidyNow,
           \/ Complete \/ Revert \/ SyncTask \/ (\E d \in Days : Correct(d))
           \/ Select \/ CleanFails \/ CleanFile \/ CleanerCrash
           \/ NextDay \/ UNCHANGED vars
    PROVE  TidyNext
<1>1. CASE Complete \/ Revert \/ SyncTask \/ (\E d \in Days : Correct(d)) \/ NextDay \/ UNCHANGED vars
  <2>1. UNCHANGED <<req, files, cleaner>>
    BY <1>1 DEF Complete, Revert, SyncTask, Correct, NextDay, vars
  <2>2. photo' = photo \/ \E date \in Dates \cup {None} : photo' = Rescheduled(date)
    <3>1. \A d \in Days : d + Retention \in Dates
      BY BoundsAssumption DEF Days, Dates
    <3>2. day \in Days
      BY DEF PhotosInv, TypeOK
    <3> QED BY <1>1, <3>1, <3>2 DEF Complete, Revert, SyncTask, Correct, NextDay, vars
  <2>3. \A u \in Uploads, k \in Keys : Row(u, k)' <=> Row(u, k)
    BY <2>2, RowsReschedule DEF Row
  <2>4. Readable => Readable'
    BY <2>1, <2>3 DEF Readable, Reachable, BeingRemoved, At
  <2>5. Owned => Owned'
    BY <2>1, <2>3, KeyTypes DEF Owned, HasOwner
  <2> QED BY <2>4, <2>5 DEF TidyNow, TidyNext
<1>2. CASE Select \/ CleanFails
  <2>1. /\ UNCHANGED <<photo, req, files>>
        /\ cleaner.marking = None
    BY <1>2 DEF Select, CleanFails, Resting
  <2>2. Readable => Readable'
    BY <2>1 DEF Readable, Reachable, BeingRemoved, At, Row
  <2>3. Owned => Owned'
    BY <2>1 DEF Owned, HasOwner, Row
  <2> QED BY <2>2, <2>3 DEF TidyNow, TidyNext
<1>3. CASE CleanFile
  <2>1. PICK c \in cleaner.todo : files' = files \ {c[2]} /\ cleaner' = [cleaner EXCEPT !.marking = c]
    BY <1>3 DEF CleanFile
  <2>2. /\ cleaner'.marking = c /\ c # None /\ cleaner.marking = None
        /\ UNCHANGED <<photo, req>>
    BY <1>3, <2>1, NoneAssumption DEF CleanFile, PhotosInv, CleanerOK
  <2>3. Readable => Readable'
    BY <2>1, <2>2 DEF Readable, Reachable, BeingRemoved, At, Row
  <2>4. Owned => Owned'
    BY <2>1, <2>2 DEF Owned, HasOwner, Row
  <2> QED BY <2>3, <2>4 DEF TidyNow, TidyNext
<1>4. CASE CleanerCrash
  BY <1>4 DEF CleanerCrash, Mishap, TidyNext
<1> QED BY <1>1, <1>2, <1>3, <1>4

(* At the beginning there is nothing to be found or lost.                  *)
LEMMA TidyInit == Init => TidyInv
<1> SUFFICES ASSUME Init
             PROVE  TidyInv
  OBVIOUS
<1>1. /\ \A r \in Requests : req[r].pc = "idle" /\ req[r].key = None
      /\ \A u \in Uploads : photo[u] = None
      /\ files = {} /\ cleaner.todo = {} /\ cleaner.marking = None
  BY DEF Init, Quiet, Resting
<1>2. KeysOK
  BY <1>1 DEF KeysOK, OneRowPerKey, CleanerRows, GoneFiles, EmptyHanded, SoleHolder,
     OnlyItsRow,
              CarriedFile, Carrying, Holding, Removing, Row, At
<1>3. Readable /\ Owned
  BY <1>1 DEF Readable, Owned, Row
<1> QED BY <1>2, <1>3 DEF TidyInv, KeysInv

(* Every step keeps keys apart, photos readable and files owned, up to     *)
(* what has gone wrong.                                                    *)
LEMMA TidyStep == PhotosInv /\ TidyInv /\ [Next]_vars => TidyInv'
<1> SUFFICES ASSUME PhotosInv, TidyInv, [Next]_vars, "ackLoss" \notin mishaps'
             PROVE  KeysOK' /\ TidyNext
  BY DEF TidyInv, TidyNext, KeysInv
<1>1. KeysOK /\ TidyNow
  BY MishapsStay DEF TidyInv, KeysInv, TidyNow
<1>2. ASSUME NEW r \in Requests,
             Work(r) \/ Crash(r) \/ \E u \in Uploads : BeginUpload(r, u) \/ BeginDelete(r, u)
      PROVE  KeysOK' /\ TidyNext
  BY <1>1, <1>2, RequestKeys, RequestTidy
<1>3. CASE \/ Complete \/ Revert \/ SyncTask \/ (\E d \in Days : Correct(d))
           \/ Select \/ CleanFails \/ CleanFile \/ CleanerCrash \/ NextDay \/ UNCHANGED vars
  BY <1>1, <1>3, OtherKeys, OtherTidy
<1>4. CASE CleanRow
  BY <1>1, <1>4, OtherKeys, CleanRowTidy
<1> QED BY <1>2, <1>3, <1>4 DEF Next

(* So it holds throughout.                                                 *)
THEOREM TidyInvariant == Spec => []TidyInv
<1>1. PhotosInv /\ TidyInv /\ [Next]_vars => TidyInv'
  BY TidyStep
<1> QED BY <1>1, TidyInit, PhotosInvariant, PTL DEF Spec

(* A photo that the lists show can be read, except while it is being       *)
(* removed, whatever the storage refuses, as long as no process dies, the  *)
(* database answers and no acknowledgement is lost.                        *)
THEOREM ShownCanBeRead == Spec => []ShownPhotosReadable
<1>1. PhotosInv /\ TidyInv => ShownPhotosReadable
  <2> SUFFICES ASSUME PhotosInv, Readable, NEW u \in Active
               PROVE  photo[u].key \in files \/ BeingRemoved(photo[u].key)
    BY DEF TidyInv, ShownPhotosReadable
  <2>1. u \in Uploads /\ photo[u].key \in Keys /\ Row(u, photo[u].key)
    BY KeyTypes DEF Active, Stored, Row
  <2> QED BY <2>1 DEF Readable, Reachable
<1> QED BY <1>1, PhotosInvariant, TidyInvariant, PTL

(* Every file belongs to a row or to a request that has not ended, whatever*)
(* transactions fail, as long as the storage obeys and no process dies.    *)
THEOREM FilesHaveOwners == Spec => []NoOrphanFiles
<1>1. PhotosInv /\ TidyInv => NoOrphanFiles
  <2> SUFFICES ASSUME PhotosInv, Owned, NEW k \in files
               PROVE  \/ \E u \in Active : photo[u].key = k
                      \/ \E r \in Requests : req[r].key = k
    BY DEF TidyInv, NoOrphanFiles
  <2>1. k \in Keys /\ HasOwner(k)
    BY KeyTypes DEF Owned
  <2> QED BY <2>1, KeyTypes DEF HasOwner
<1> QED BY <1>1, PhotosInvariant, TidyInvariant, PTL
=============================================================================
