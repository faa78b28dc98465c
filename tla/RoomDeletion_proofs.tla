------------------------- MODULE RoomDeletion_proofs -------------------------
(* Proofs about RoomDeletion for every number of properties, rooms,        *)
(* sources, notes and claims, photos and deletions.                        *)
EXTENDS RoomDeletion, TLAPS

Places == [room : Rooms, property : Properties]
Uploads == [at : {"stored", "row"}, of : Owners]
Locking == [at : {"locked"}, room : Rooms, property : Properties]
Persisting == [at : {"persist"}, room : Rooms, property : Properties,
               had : BOOLEAN, booked : BOOLEAN]
Scopes == [at : {"asked", "locked"}, whole : BOOLEAN, property : Properties,
           rooms : SUBSET Rooms, sources : SUBSET Sources]
Cleanups == [at : {"files"}, whole : BOOLEAN, property : Properties,
             rooms : SUBSET Rooms, sources : SUBSET Sources,
             keys : SUBSET Photos, failed : SUBSET Photos]

(* What TypeOK leaves open: the records behind the references.             *)
ShapeOK ==
    /\ stay \in [Sources -> Places \cup {None}]
    /\ record \in [Records -> Places \cup {None}]
    /\ task \in [Tasks -> Properties \cup {None}]
    /\ photo \in [Photos -> Uploads \cup {NoPhoto}]
    /\ sync \in [Sources -> Locking \cup Persisting \cup {NoSync}]
    /\ del \in [Deletions -> Scopes \cup Cleanups \cup {NoDel}]

(* What a reservation, a task and a record refer to, as TypeOK has it.     *)
StayRefers(s) == stay[s] # None =>
    Live(s) /\ Exists(stay[s].room) /\ stay[s].property \in properties
RecordRefers(n) == Kept(n) => Exists(record[n].room) /\ record[n].property \in properties
TaskRefers(t) == task[t] # None =>
    stay[t[1]] # None /\ Exists(t[2]) /\ task[t] \in properties

(* A sync and a deletion that holds its keys have no key in common.        *)
Excluded ==
    \A s \in Sources, d \in Deletions : Syncing(s) /\ Locked(d) =>
        s \notin del[d].sources /\ sync[s].room \notin del[d].rooms

(* The photos a deletion has taken over: their rows are gone.              *)
Taken(d) == IF del[d].at = "files" THEN del[d].keys \cup del[d].failed ELSE {}

(* A file is in one hand at a time, and a reported one in nobody's.        *)
OneHand ==
    /\ \A p \in Photos : photo[p].at # "none" => p \in files \ reported
    /\ \A d \in Deletions :
         /\ Taken(d) \subseteq {p \in files \ reported : photo[p].at = "none"}
         /\ del[d].at = "files" => del[d].keys \cap del[d].failed = {}
         /\ \A e \in Deletions : e # d => Taken(d) \cap Taken(e) = {}

DeletionInv == TypeOK /\ ShapeOK /\ Excluded /\ OneHand

(* Rooms without sources, reservations, tasks and photos.                  *)
LEMMA RoomsInit == Init => DeletionInv
<1> SUFFICES ASSUME Init PROVE DeletionInv
  OBVIOUS
<1>1. TypeOK
  BY NamesAssumption DEF Init, TypeOK, NoSync, NoDel, NoPhoto, Tasks, Live, Exists, Kept
<1>2. ShapeOK
  BY DEF Init, ShapeOK
<1>3. Excluded
  BY DEF Init, Excluded, Syncing, Locked, NoSync, NoDel
<1>4. OneHand
  BY DEF Init, OneHand, Taken, NoDel, NoPhoto
<1> QED BY <1>1, <1>2, <1>3, <1>4 DEF DeletionInv

(* A step that leaves the rows alone.                                      *)
LEMMA RowsKept ==
    ASSUME TypeOK, UNCHANGED rows,
           photo' = photo, files' = files, reported' = reported,
           \A s \in Sources : sync'[s].at \in {"idle", "locked", "persist"},
           \A d \in Deletions : del'[d].at \in {"idle", "asked", "locked", "files"}
    PROVE  TypeOK'
BY DEF TypeOK, rows, Exists, Live, HasRow, Kept

(* The steps of a sync that write nothing.                                 *)
LEMMA SyncKeeps ==
    ASSUME DeletionInv, NEW s \in Sources, NEW booked \in BOOLEAN,
           StartSync(s) \/ BeginPersist(s, booked) \/ FailSync(s)
    PROVE  DeletionInv'
<1>1. /\ UNCHANGED rows /\ photo' = photo /\ files' = files /\ reported' = reported
      /\ del' = del
  BY DEF StartSync, BeginPersist, FailSync, stored
<1>2. /\ sync' \in [Sources -> Locking \cup Persisting \cup {NoSync}]
      /\ \A t \in Sources \ {s} : sync'[t] = sync[t]
  <2>1. CASE StartSync(s)
    <3>1. room[s] \in Rooms /\ property[room[s]] \in Properties
      BY <2>1, NamesAssumption DEF StartSync, Live, DeletionInv, TypeOK, Exists
    <3> QED BY <2>1, <3>1 DEF StartSync, DeletionInv, ShapeOK, Locking
  <2>2. CASE BeginPersist(s, booked)
    <3>1. sync[s] \in Locking
      BY <2>2 DEF BeginPersist, DeletionInv, ShapeOK, Locking, Persisting, NoSync
    <3> QED BY <2>2, <3>1 DEF BeginPersist, DeletionInv, ShapeOK, Locking, Persisting
  <2>3. CASE FailSync(s)
    BY <2>3 DEF FailSync, DeletionInv, ShapeOK
  <2> QED BY <2>1, <2>2, <2>3
<1>3. TypeOK'
  <2>1. \A t \in Sources : sync'[t].at \in {"idle", "locked", "persist"}
    BY <1>2 DEF Locking, Persisting, NoSync
  <2>2. \A d \in Deletions : del'[d].at \in {"idle", "asked", "locked", "files"}
    BY <1>1 DEF DeletionInv, TypeOK
  <2> QED BY <1>1, <2>1, <2>2, RowsKept DEF DeletionInv
<1>4. ShapeOK'
  BY <1>1, <1>2 DEF DeletionInv, ShapeOK, rows
<1>5. Excluded'
  <2>1. CASE StartSync(s)
    BY <1>1, <1>2, <2>1 DEF StartSync, DeletionInv, ShapeOK, Excluded, Syncing, Locked,
       SourceFree, RoomFree
  <2>2. CASE BeginPersist(s, booked)
    BY <1>1, <1>2, <2>2 DEF BeginPersist, DeletionInv, ShapeOK, Excluded, Syncing, Locked
  <2>3. CASE FailSync(s)
    BY <1>1, <1>2, <2>3 DEF FailSync, DeletionInv, ShapeOK, Excluded, Syncing, Locked,
       NoSync
  <2> QED BY <2>1, <2>2, <2>3
<1>6. OneHand'
  BY <1>1 DEF DeletionInv, OneHand, Taken
<1> QED BY <1>3, <1>4, <1>5, <1>6 DEF DeletionInv

(* A commit writes rows that refer to what is there.                       *)
LEMMA PersistKeeps ==
    ASSUME DeletionInv, NEW s \in Sources, Persist(s)
    PROVE  DeletionInv'
<1>1. /\ properties' = properties /\ property' = property /\ room' = room /\ del' = del
      /\ photo' = photo /\ files' = files /\ reported' = reported /\ record' = record
      /\ sync' = [sync EXCEPT ![s] = NoSync]
  BY DEF Persist, stored
<1>2. sync[s] \in Persisting
  BY DEF Persist, DeletionInv, ShapeOK, Locking, Persisting, NoSync
<1>3. /\ Live(s) /\ Exists(sync[s].room) /\ sync[s].property \in properties
      /\ sync[s].room \in Rooms
  BY <1>2 DEF Persist, Referable, Persisting
<1>4. /\ Merged(s) \in Places \cup {None}
      /\ Merged(s) # None => Exists(Merged(s).room) /\ Merged(s).property \in properties
      /\ stay[s] # None => Merged(s) # None
  <2>1. stay[s] # None => /\ stay[s] \in Places
                          /\ Exists(stay[s].room) /\ stay[s].property \in properties
    BY DEF DeletionInv, ShapeOK, TypeOK
  <2>2. CASE sync[s].booked /\ ~sync[s].had
    BY <1>2, <1>3, <2>2, NamesAssumption DEF Merged, Places, Persisting
  <2>3. CASE ~(sync[s].booked /\ ~sync[s].had)
    <3>1. Merged(s) = stay[s]
      BY <2>3 DEF Merged
    <3> QED BY <2>1, <3>1
  <2> QED BY <2>2, <2>3
<1>5. /\ stay' = [stay EXCEPT ![s] = Merged(s)]
      /\ stay' \in [Sources -> Places \cup {None}]
  BY <1>4 DEF Persist, DeletionInv, ShapeOK
<1>6. /\ task' \in [Tasks -> Properties \cup {None}]
      /\ \A t \in Tasks : \/ task'[t] = task[t]
                         \/ /\ t = <<s, sync[s].room>> /\ task'[t] = sync[s].property
                            /\ Merged(s) # None
  BY <1>2 DEF Persist, Counted, DeletionInv, ShapeOK, Tasks, Persisting
<1>7. TypeOK'
  <2>1. ASSUME NEW t \in Sources
        PROVE  StayRefers(t)'
    <3>1. CASE t = s
      <4>1. stay'[t] = Merged(s)
        BY <1>5, <3>1 DEF DeletionInv, ShapeOK
      <4> QED BY <1>1, <1>3, <1>4, <3>1, <4>1 DEF StayRefers, Live, Exists
    <3>2. CASE t # s
      <4>1. stay'[t] = stay[t]
        BY <1>5, <3>2 DEF DeletionInv, ShapeOK
      <4> QED BY <1>1, <4>1 DEF StayRefers, DeletionInv, TypeOK, Live, Exists
    <3> QED BY <3>1, <3>2
  <2>2. ASSUME NEW t \in Tasks
        PROVE  TaskRefers(t)'
    <3>0. t[1] \in Sources
      BY DEF Tasks
    <3>1. CASE task'[t] = task[t]
      BY <1>1, <1>4, <1>5, <3>0, <3>1 DEF TaskRefers, DeletionInv, TypeOK, ShapeOK, Exists
    <3>2. CASE t = <<s, sync[s].room>> /\ task'[t] = sync[s].property /\ Merged(s) # None
      BY <1>1, <1>3, <1>5, <3>0, <3>2 DEF TaskRefers, DeletionInv, ShapeOK, Exists
    <3> QED BY <1>6, <3>1, <3>2
  <2>3. \A p \in Photos : photo'[p].at = "row" => HasRow(photo[p].of)'
    <3> SUFFICES ASSUME NEW p \in Photos, photo[p].at = "row"
                 PROVE  HasRow(photo[p].of)'
      BY <1>1
    <3>1. photo[p].of \in Owners
      BY DEF DeletionInv, ShapeOK, Uploads, NoPhoto
    <3>2. HasRow(photo[p].of)
      BY DEF DeletionInv, TypeOK
    <3> QED BY <1>1, <1>2, <1>6, <3>1, <3>2, NamesAssumption DEF Persisting, HasRow, Owners, Kept
  <2>4. /\ \A t \in Sources : sync'[t].at \in {"idle", "locked", "persist"}
        /\ \A d \in Deletions : del'[d].at \in {"idle", "asked", "locked", "files"}
    BY <1>1 DEF DeletionInv, TypeOK, ShapeOK, NoSync
  <2>5. /\ properties' \subseteq Properties
        /\ property' \in [Rooms -> properties' \cup {None, Gone}]
        /\ (room \in [Sources -> {r \in Rooms : Exists(r)} \cup {None, Gone}])'
        /\ files' \subseteq Photos /\ reported' \subseteq files'
    BY <1>1 DEF DeletionInv, TypeOK, Exists
  <2>6. \A n \in Records : RecordRefers(n)'
    BY <1>1 DEF DeletionInv, TypeOK, Exists, RecordRefers, Kept
  <2> QED BY <1>1, <2>1, <2>2, <2>3, <2>4, <2>5, <2>6 DEF TypeOK, StayRefers, TaskRefers, RecordRefers
<1>8. ShapeOK'
  BY <1>1, <1>5, <1>6 DEF DeletionInv, ShapeOK
<1>9. Excluded'
  BY <1>1 DEF DeletionInv, ShapeOK, Excluded, Syncing, Locked, NoSync
<1>10. OneHand'
  BY <1>1 DEF DeletionInv, OneHand, Taken
<1> QED BY <1>7, <1>8, <1>9, <1>10 DEF DeletionInv

(* Creating and moving rooms and sources.                                  *)
LEMMA EditKeeps ==
    ASSUME DeletionInv,
           \/ \E r \in Rooms, p \in Properties : CreateRoom(r, p) \/ MoveRoom(r, p)
           \/ \E s \in Sources, r \in Rooms : CreateSource(s, r) \/ MoveSource(s, r)
    PROVE  DeletionInv'
<1>1. /\ properties' = properties /\ stay' = stay /\ task' = task /\ photo' = photo
      /\ record' = record /\ files' = files /\ reported' = reported /\ sync' = sync /\ del' = del
  BY DEF CreateRoom, MoveRoom, CreateSource, MoveSource, stored
<1>2. /\ property' \in [Rooms -> properties \cup {None, Gone}]
      /\ \A r \in Rooms : Exists(r) => Exists(r)'
  <2>1. ASSUME NEW r \in Rooms, NEW p \in Properties, CreateRoom(r, p) \/ MoveRoom(r, p)
        PROVE  /\ property' \in [Rooms -> properties \cup {None, Gone}]
               /\ \A q \in Rooms : Exists(q) => Exists(q)'
    BY <2>1 DEF CreateRoom, MoveRoom, DeletionInv, TypeOK, Exists
  <2>2. ASSUME NEW s \in Sources, NEW r \in Rooms, CreateSource(s, r) \/ MoveSource(s, r)
        PROVE  property' = property
    BY <2>2 DEF CreateSource, MoveSource
  <2> QED BY <2>1, <2>2 DEF DeletionInv, TypeOK, Exists
<1>3. /\ (room \in [Sources -> {r \in Rooms : Exists(r)} \cup {None, Gone}])'
      /\ \A s \in Sources : Live(s) => Live(s)'
  <2>1. ASSUME NEW s \in Sources, NEW r \in Rooms, CreateSource(s, r) \/ MoveSource(s, r)
        PROVE  /\ room' = [room EXCEPT ![s] = r]
               /\ Exists(r)'
    BY <1>2, <2>1 DEF CreateSource, MoveSource
  <2>2. ASSUME NEW r \in Rooms, NEW p \in Properties, CreateRoom(r, p) \/ MoveRoom(r, p)
        PROVE  room' = room
    BY <2>2 DEF CreateRoom, MoveRoom
  <2> QED BY <1>2, <2>1, <2>2 DEF DeletionInv, TypeOK, Live
<1>4. TypeOK'
  <2>1. ASSUME NEW s \in Sources
        PROVE  StayRefers(s)'
    <3>1. stay[s] # None => stay[s].room \in Rooms
      BY DEF DeletionInv, ShapeOK, Places
    <3>2. stay[s] # None => Exists(stay[s].room)'
      BY <1>1, <1>2, <3>1 DEF DeletionInv, TypeOK, Exists
    <3> QED BY <1>1, <1>3, <3>2 DEF StayRefers, DeletionInv, TypeOK
  <2>2. ASSUME NEW t \in Tasks
        PROVE  TaskRefers(t)'
    <3>1. t[2] \in Rooms
      BY DEF Tasks
    <3> QED BY <1>1, <1>2, <3>1 DEF TaskRefers, DeletionInv, TypeOK
  <2>3. (room \in [Sources -> {r \in Rooms : Exists(r)} \cup {None, Gone}])'
    BY <1>3
  <2>4. ASSUME NEW n \in Records
        PROVE  RecordRefers(n)'
    <3>1. Kept(n) => record[n].room \in Rooms
      BY DEF DeletionInv, ShapeOK, Places, Kept
    <3>2. Kept(n) => Exists(record[n].room)'
      BY <1>1, <1>2, <3>1 DEF DeletionInv, TypeOK, Exists
    <3> QED BY <1>1, <3>2 DEF RecordRefers, Kept, DeletionInv, TypeOK
  <2>5. \A p \in Photos : photo'[p].at = "row" => HasRow(photo[p].of)'
    BY <1>1 DEF DeletionInv, TypeOK, HasRow, Kept
  <2> QED BY <1>1, <1>2, <2>1, <2>2, <2>3, <2>4, <2>5
          DEF DeletionInv, TypeOK, StayRefers, TaskRefers, RecordRefers
<1>5. ShapeOK'
  BY <1>1 DEF DeletionInv, ShapeOK
<1>6. Excluded'
  BY <1>1 DEF DeletionInv, Excluded, Syncing, Locked
<1>7. OneHand'
  BY <1>1 DEF DeletionInv, OneHand, Taken
<1> QED BY <1>4, <1>5, <1>6, <1>7 DEF DeletionInv

(* A note or a claim is made for a room that is there.                     *)
LEMMA CreateRecordKeeps ==
    ASSUME DeletionInv, NEW n \in Records, NEW r \in Rooms, CreateRecord(n, r)
    PROVE  DeletionInv'
<1>1. /\ UNCHANGED <<properties, property, room, stay, task, photo, files, reported, sync, del>>
      /\ record' = [record EXCEPT ![n] = [room |-> r, property |-> property[r]]]
      /\ Exists(r)
  BY DEF CreateRecord, stored
<1>2. /\ property[r] \in properties /\ property[r] \in Properties
      /\ record' \in [Records -> Places \cup {None}]
      /\ \A m \in Records : Kept(m) => Kept(m)'
  <2>1. property[r] \in properties /\ property[r] \in Properties
    BY <1>1, NamesAssumption DEF DeletionInv, TypeOK, Exists
  <2> QED BY <1>1, <2>1, NamesAssumption DEF DeletionInv, ShapeOK, Places, Kept
<1>3. TypeOK'
  <2>1. \A m \in Records : RecordRefers(m)'
    BY <1>1, <1>2 DEF DeletionInv, TypeOK, ShapeOK, RecordRefers, Kept, Exists
  <2>2. \A p \in Photos : photo'[p].at = "row" => HasRow(photo[p].of)'
    BY <1>1, <1>2 DEF DeletionInv, TypeOK, HasRow
  <2> QED BY <1>1, <2>1, <2>2 DEF DeletionInv, TypeOK, RecordRefers, Live, Exists
<1>4. ShapeOK'
  BY <1>1, <1>2 DEF DeletionInv, ShapeOK
<1>5. Excluded'
  BY <1>1 DEF DeletionInv, Excluded, Syncing, Locked
<1>6. OneHand'
  BY <1>1 DEF DeletionInv, OneHand, Taken
<1> QED BY <1>3, <1>4, <1>5, <1>6 DEF DeletionInv

(* With a note or a claim go its photo rows, and files only of those.      *)
LEMMA DeleteRecordKeeps ==
    ASSUME DeletionInv, NEW n \in Records, DeleteRecord(n)
    PROVE  DeletionInv'
<1> DEFINE its == {p \in Photos : photo[p].at = "row" /\ photo[p].of = n}
<1>1. /\ UNCHANGED <<properties, property, room, stay, task, reported, sync, del>>
      /\ record' = [record EXCEPT ![n] = None]
      /\ photo' = [p \in Photos |-> IF p \in its THEN NoPhoto ELSE photo[p]]
      /\ files' \subseteq files /\ files \ files' \subseteq its
  BY DEF DeleteRecord
<1>2. /\ record' \in [Records -> Places \cup {None}]
      /\ \A m \in Records \ {n} : record'[m] = record[m]
      /\ record'[n] = None
  BY <1>1 DEF DeletionInv, ShapeOK
<1>3. TypeOK'
  <2>1. \A m \in Records : RecordRefers(m)'
    BY <1>1, <1>2 DEF DeletionInv, TypeOK, RecordRefers, Kept, Exists
  <2>2. ASSUME NEW p \in Photos, photo'[p].at = "row"
        PROVE  HasRow(photo[p].of)'
    <3>1. p \notin its /\ photo'[p] = photo[p]
      BY <1>1, <2>2 DEF NoPhoto
    <3>2. HasRow(photo[p].of) /\ photo[p].of # n
      BY <2>2, <3>1 DEF DeletionInv, TypeOK
    <3> QED BY <1>1, <1>2, <3>1, <3>2 DEF HasRow, Kept
  <2>3. files' \subseteq Photos /\ reported' \subseteq files'
    BY <1>1 DEF DeletionInv, TypeOK, OneHand
  <2> QED BY <1>1, <2>1, <2>2, <2>3 DEF DeletionInv, TypeOK, RecordRefers, Live, Exists
<1>4. ShapeOK'
  BY <1>1, <1>2 DEF DeletionInv, ShapeOK
<1>5. Excluded'
  BY <1>1 DEF DeletionInv, Excluded, Syncing, Locked
<1>6. OneHand'
  <2>1. \A d \in Deletions : Taken(d)' = Taken(d)
    BY <1>1 DEF Taken
  <2>2. \A p \in Photos : photo'[p].at # "none" => p \in files' \ reported'
    BY <1>1 DEF DeletionInv, OneHand, NoPhoto
  <2>3. \A d \in Deletions : Taken(d) \subseteq {p \in files' \ reported' : photo'[p].at = "none"}
    BY <1>1 DEF DeletionInv, OneHand, TypeOK, NoPhoto
  <2> QED BY <1>1, <2>1, <2>2, <2>3 DEF DeletionInv, OneHand
<1> QED BY <1>3, <1>4, <1>5, <1>6 DEF DeletionInv

(* An upload takes up a file nobody has, and then leaves it to its row, or *)
(* gives it up.                                                            *)
LEMMA UploadKeeps ==
    ASSUME DeletionInv, NEW p \in Photos,
           (\E o \in Owners : StoreFile(p, o)) \/ InsertPhoto(p) \/ TakeBack(p)
    PROVE  DeletionInv'
<1>1. UNCHANGED rows /\ reported' = reported /\ sync' = sync /\ del' = del
  BY DEF StoreFile, InsertPhoto, TakeBack
<1>2. /\ photo' \in [Photos -> Uploads \cup {NoPhoto}]
      /\ \A q \in Photos \ {p} : photo'[q] = photo[q]
      /\ photo'[p].at = "row" => HasRow(photo[p].of)'
      /\ photo'[p].at # "none" => files' = files \cup {p} /\ p \notin reported
      /\ photo'[p].at = "none" => /\ files' \in {files \ {p}, files}
                                  /\ p \notin reported /\ photo[p].at # "none"
  <2>1. CASE \E o \in Owners : StoreFile(p, o)
    <3>1. PICK o \in Owners : StoreFile(p, o)
      BY <2>1
    <3> QED BY <3>1 DEF StoreFile, DeletionInv, ShapeOK, Uploads
  <2>2. CASE InsertPhoto(p)
    <3>1. photo[p] \in Uploads /\ p \in files \ reported
      BY <2>2 DEF InsertPhoto, DeletionInv, ShapeOK, OneHand, NoPhoto
    <3>2. photo' = [photo EXCEPT ![p].at = "row"] /\ files' = files /\ HasRow(photo[p].of)
      BY <2>2 DEF InsertPhoto
    <3>3. photo'[p] = [photo[p] EXCEPT !.at = "row"]
      BY <3>2 DEF DeletionInv, ShapeOK
    <3>4. photo'[p] \in Uploads /\ photo'[p].at = "row" /\ photo'[p].of = photo[p].of
      BY <3>1, <3>3 DEF Uploads
    <3>5. HasRow(photo[p].of)'
      BY <1>1, <3>2, <3>4 DEF HasRow, Kept, rows
    <3> QED BY <3>1, <3>2, <3>4, <3>5 DEF DeletionInv, ShapeOK
  <2>3. CASE TakeBack(p)
    <3>1. p \in files \ reported
      BY <2>3 DEF TakeBack, DeletionInv, OneHand
    <3> QED BY <2>3, <3>1 DEF TakeBack, DeletionInv, ShapeOK, NoPhoto
  <2> QED BY <2>1, <2>2, <2>3
<1>3. TypeOK'
  <2>1. \A q \in Photos : photo'[q].at = "row" => HasRow(photo[q].of)'
    BY <1>1, <1>2 DEF DeletionInv, TypeOK, HasRow, Kept, rows
  <2>2. files' \subseteq Photos /\ reported' \subseteq files'
    BY <1>1, <1>2 DEF DeletionInv, TypeOK
  <2> QED BY <1>1, <2>1, <2>2 DEF DeletionInv, TypeOK, rows, Live, Exists, Kept
<1>4. ShapeOK'
  BY <1>1, <1>2 DEF DeletionInv, ShapeOK, rows
<1>5. Excluded'
  BY <1>1 DEF DeletionInv, Excluded, Syncing, Locked
<1>6. OneHand'
  <2>1. \A d \in Deletions : p \notin Taken(d)
    <3>1. photo[p].at # "none" \/ p \notin files
      BY DEF StoreFile, InsertPhoto, TakeBack
    <3> QED BY <3>1 DEF DeletionInv, OneHand
  <2>2. \A d \in Deletions : Taken(d)' = Taken(d)
    BY <1>1 DEF Taken
  <2>3. \A q \in Photos : photo'[q].at # "none" => q \in files' \ reported'
    BY <1>1, <1>2 DEF DeletionInv, OneHand
  <2>4. \A d \in Deletions : Taken(d)' \subseteq {q \in files' \ reported' : photo'[q].at = "none"}
    <3> SUFFICES ASSUME NEW d \in Deletions, NEW q \in Taken(d)
                 PROVE  q \in files' \ reported' /\ photo'[q].at = "none"
      BY <2>2
    <3>1. q \in files \ reported /\ photo[q].at = "none" /\ q # p /\ q \in Photos
      BY <2>1 DEF DeletionInv, OneHand, TypeOK
    <3> QED BY <1>1, <1>2, <3>1
  <2> QED BY <1>1, <2>2, <2>3, <2>4 DEF DeletionInv, OneHand
<1> QED BY <1>3, <1>4, <1>5, <1>6 DEF DeletionInv

(* A deletion up to its keys, and one that gives up, touch nothing.        *)
LEMMA ScopeKeeps ==
    ASSUME DeletionInv, NEW d \in Deletions,
           \/ \E r \in Rooms : AskRoom(d, r)
           \/ \E p \in Properties : AskProperty(d, p)
           \/ Lock(d) \/ GiveUp(d)
    PROVE  DeletionInv'
<1>1. UNCHANGED rows /\ photo' = photo /\ files' = files /\ reported' = reported /\ sync' = sync
  BY DEF AskRoom, AskProperty, Lock, GiveUp, stored
<1>2. /\ del' \in [Deletions -> Scopes \cup Cleanups \cup {NoDel}]
      /\ \A e \in Deletions \ {d} : del'[e] = del[e]
      /\ del[d].at # "files" /\ del'[d] \in Scopes \cup {NoDel}
      /\ Locked(d)' => Lock(d) /\ del'[d].rooms = del[d].rooms /\ del'[d].sources = del[d].sources
  <2>1. ASSUME NEW r \in Rooms, AskRoom(d, r)
        PROVE  del' = [del EXCEPT ![d] = del'[d]] /\ del'[d] \in Scopes /\ del'[d].at = "asked"
    BY <2>1 DEF AskRoom, DeletionInv, TypeOK, ShapeOK, Scopes, Exists, SourcesIn
  <2>2. ASSUME NEW p \in Properties, AskProperty(d, p)
        PROVE  del' = [del EXCEPT ![d] = del'[d]] /\ del'[d] \in Scopes /\ del'[d].at = "asked"
    BY <2>2 DEF AskProperty, DeletionInv, TypeOK, ShapeOK, Scopes, SourcesIn, RoomsOf
  <2>3. CASE Lock(d)
    <3>1. del[d] \in Scopes
      BY <2>3 DEF Lock, DeletionInv, ShapeOK, Scopes, Cleanups, NoDel
    <3>2. del'[d] = [del[d] EXCEPT !.at = "locked"]
      BY <2>3 DEF Lock, DeletionInv, ShapeOK
    <3>3. /\ del'[d] \in Scopes
          /\ del'[d].rooms = del[d].rooms /\ del'[d].sources = del[d].sources
      BY <3>1, <3>2 DEF Scopes
    <3> QED BY <2>3, <3>3 DEF Lock, DeletionInv, ShapeOK
  <2>4. CASE GiveUp(d)
    BY <2>4 DEF GiveUp, DeletionInv, ShapeOK, NoDel, Locked
  <2>5. del[d].at # "files"
    BY DEF AskRoom, AskProperty, Lock, GiveUp
  <2> QED BY <2>1, <2>2, <2>3, <2>4, <2>5 DEF DeletionInv, ShapeOK, Locked
<1>3. TypeOK'
  <2>1. \A e \in Deletions : del'[e].at \in {"idle", "asked", "locked", "files"}
    BY <1>2 DEF Scopes, Cleanups, NoDel
  <2>2. \A t \in Sources : sync'[t].at \in {"idle", "locked", "persist"}
    BY <1>1 DEF DeletionInv, TypeOK
  <2> QED BY <1>1, <2>1, <2>2, RowsKept DEF DeletionInv
<1>4. ShapeOK'
  BY <1>1, <1>2 DEF DeletionInv, ShapeOK, rows
<1>5. Excluded'
  <2> SUFFICES ASSUME NEW s \in Sources, NEW e \in Deletions, Syncing(s)', Locked(e)'
               PROVE  s \notin del'[e].sources /\ sync'[s].room \notin del'[e].rooms
    BY DEF Excluded
  <2>1. CASE e = d
    BY <1>1, <1>2, <2>1 DEF Lock, SourceFree, RoomFree, Syncing
  <2>2. CASE e # d
    BY <1>1, <1>2, <2>2 DEF DeletionInv, Excluded, Syncing, Locked
  <2> QED BY <2>1, <2>2
<1>6. OneHand'
  <2>1. ASSUME NEW e \in Deletions
        PROVE  Taken(e)' = Taken(e)
    <3>1. CASE e = d
      <4>1. del[d].at # "files" /\ del'[d].at # "files"
        BY <1>2 DEF Scopes, NoDel
      <4> QED BY <3>1, <4>1 DEF Taken
    <3>2. CASE e # d
      BY <1>2, <3>2 DEF Taken
    <3> QED BY <3>1, <3>2
  <2>2. \A e \in Deletions : del'[e].at = "files" => del'[e].keys \cap del'[e].failed = {}
    BY <1>2 DEF DeletionInv, OneHand, Scopes, NoDel
  <2> QED BY <1>1, <2>1, <2>2 DEF DeletionInv, OneHand
<1> QED BY <1>3, <1>4, <1>5, <1>6 DEF DeletionInv

(* What a scope that is as it was read says of the rooms and sources.      *)
LEMMA ScopeFacts ==
    ASSUME DeletionInv, NEW d \in Deletions, del[d].at = "locked", SameScope(d)
    PROVE  /\ del[d] \in Scopes
           /\ \A r \in del[d].rooms : property[r] = del[d].property
           /\ del[d].whole => \A r \in Rooms : property[r] = del[d].property => r \in del[d].rooms
           /\ \A s \in Sources : s \in del[d].sources <=> room[s] \in del[d].rooms
<1>1. del[d] \in Scopes
  BY DEF DeletionInv, ShapeOK, Scopes, Cleanups, NoDel
<1> QED BY <1>1 DEF SameScope, RoomsOf, SourcesIn, Scopes

(* The transaction deletes every row that refers to what it deletes.       *)
LEMMA DeleteTxType ==
    ASSUME DeletionInv, NEW d \in Deletions, DeleteTx(d)
    PROVE  TypeOK'
<1> DEFINE rs == del[d].rooms
<1>1. /\ del[d].at = "locked" /\ SameScope(d) /\ ~Restricted(d)
      /\ files' = files /\ reported' = reported /\ sync' = sync
  BY DEF DeleteTx
<1>2. /\ del[d] \in Scopes /\ rs \subseteq Rooms /\ del[d].property \in Properties
      /\ \A r \in rs : property[r] = del[d].property
      /\ del[d].whole => \A r \in Rooms : property[r] = del[d].property => r \in rs
      /\ \A s \in Sources : s \in del[d].sources <=> room[s] \in rs
  BY <1>1, ScopeFacts DEF Scopes
<1>3. /\ properties' \subseteq Properties
      /\ properties' = IF del[d].whole THEN properties \ {del[d].property} ELSE properties
      /\ property' = [r \in Rooms |-> IF r \in rs THEN Gone ELSE property[r]]
      /\ property' \in [Rooms -> properties' \cup {None, Gone}]
      /\ \A r \in Rooms : Exists(r) /\ r \notin rs => Exists(r)'
  <2>1. /\ properties' = IF del[d].whole THEN properties \ {del[d].property} ELSE properties
        /\ property' = [r \in Rooms |-> IF r \in rs THEN Gone ELSE property[r]]
    BY DEF DeleteTx
  <2>2. property \in [Rooms -> properties \cup {None, Gone}] /\ properties \subseteq Properties
    BY DEF DeletionInv, TypeOK
  <2> QED BY <1>2, <2>1, <2>2 DEF Exists
<1>4. /\ room' = [s \in Sources |-> IF room[s] \in rs THEN Gone ELSE room[s]]
      /\ (room \in [Sources -> {r \in Rooms : Exists(r)} \cup {None, Gone}])'
      /\ \A s \in Sources : Live(s) /\ room[s] \notin rs => Live(s)'
  <2>1. room' = [s \in Sources |-> IF room[s] \in rs THEN Gone ELSE room[s]]
    BY DEF DeleteTx
  <2>2. room \in [Sources -> {r \in Rooms : Exists(r)} \cup {None, Gone}]
    BY DEF DeletionInv, TypeOK
  <2> QED BY <1>3, <2>1, <2>2 DEF Live
<1>5. \A s \in Sources : stay'[s] = IF s \in DoomedStays(d) THEN None ELSE stay[s]
  BY DEF DeleteTx
<1>6. \A t \in Tasks : task'[t] = IF t \in DoomedTasks(d) THEN None ELSE task[t]
  BY DEF DeleteTx
<1>7. ASSUME NEW s \in Sources
      PROVE  StayRefers(s)'
  <2> SUFFICES ASSUME s \notin DoomedStays(d), stay[s] # None
               PROVE  StayRefers(s)'
    BY <1>5 DEF StayRefers
  <2>1. stay'[s] = stay[s]
    BY <1>5
  <2>2. stay[s].room \notin rs /\ room[s] \notin rs
    BY DEF DoomedStays
  <2>3. ~(del[d].whole /\ stay[s].property = del[d].property)
    BY <1>1 DEF Restricted
  <2>4. stay[s].room \in Rooms /\ Exists(stay[s].room)
    BY DEF DeletionInv, TypeOK, ShapeOK, Places
  <2>5. Exists(stay[s].room)'
    BY <1>3, <2>1, <2>2, <2>4 DEF Exists
  <2>6. Live(s)'
    BY <1>4, <2>2 DEF DeletionInv, TypeOK
  <2> QED BY <1>3, <2>1, <2>3, <2>5, <2>6 DEF StayRefers, DeletionInv, TypeOK
<1>8. ASSUME NEW t \in Tasks
      PROVE  TaskRefers(t)'
  <2> SUFFICES ASSUME t \notin DoomedTasks(d), task[t] # None
               PROVE  TaskRefers(t)'
    BY <1>6 DEF TaskRefers
  <2>1. task'[t] = task[t] /\ t[1] \in Sources /\ t[2] \in Rooms
    BY <1>6 DEF Tasks
  <2>2. t[2] \notin rs /\ t[1] \notin DoomedStays(d)
    BY DEF DoomedTasks
  <2>3. ~(del[d].whole /\ task[t] = del[d].property)
    BY <1>1 DEF Restricted
  <2>4. stay'[t[1]] # None
    BY <1>5, <2>1, <2>2 DEF DeletionInv, TypeOK
  <2>5. Exists(t[2])'
    BY <1>3, <2>1, <2>2 DEF DeletionInv, TypeOK
  <2> QED BY <1>3, <2>1, <2>3, <2>4, <2>5 DEF TaskRefers, DeletionInv, TypeOK
<1>a. \A n \in Records : record'[n] = IF n \in DoomedRecords(d) THEN None ELSE record[n]
  BY DEF DeleteTx
<1>b. ASSUME NEW n \in Records
      PROVE  RecordRefers(n)'
  <2> SUFFICES ASSUME n \notin DoomedRecords(d), Kept(n)
               PROVE  RecordRefers(n)'
    BY <1>a DEF RecordRefers, Kept
  <2>1. record'[n] = record[n] /\ record[n].room \in Rooms
    BY <1>a DEF DeletionInv, ShapeOK, Places, Kept
  <2>2. record[n].room \notin rs
    BY DEF DoomedRecords
  <2>3. ~(del[d].whole /\ record[n].property = del[d].property)
    BY <1>1 DEF Restricted
  <2>4. Exists(record[n].room)'
    BY <1>3, <2>1, <2>2 DEF DeletionInv, TypeOK, Exists
  <2> QED BY <1>3, <2>1, <2>3, <2>4 DEF RecordRefers, DeletionInv, TypeOK
<1>9. \A p \in Photos : photo'[p].at = "row" => HasRow(photo[p].of)'
  <2> SUFFICES ASSUME NEW p \in Photos, photo'[p].at = "row"
               PROVE  HasRow(photo[p].of)'
    OBVIOUS
  <2>1. p \notin DoomedPhotos(d) /\ photo'[p] = photo[p]
    BY DEF DeleteTx, NoPhoto
  <2>2. photo[p].of \in Owners /\ HasRow(photo[p].of)
    BY <2>1 DEF DeletionInv, TypeOK, ShapeOK, Uploads, NoPhoto
  <2>3. photo[p].of \notin DoomedTasks(d) /\ photo[p].of \notin DoomedRecords(d)
    BY <2>1 DEF DoomedPhotos
  <2> QED BY <1>6, <1>a, <2>1, <2>2, <2>3 DEF HasRow, Owners, Kept
<1>10. /\ \A s \in Sources : sync'[s].at \in {"idle", "locked", "persist"}
       /\ \A e \in Deletions : del'[e].at \in {"idle", "asked", "locked", "files"}
       /\ files' \subseteq Photos /\ reported' \subseteq files'
  BY <1>1 DEF DeleteTx, DeletionInv, TypeOK, ShapeOK
<1> QED BY <1>3, <1>4, <1>7, <1>8, <1>b, <1>9, <1>10
       DEF TypeOK, StayRefers, TaskRefers, RecordRefers

(* It takes over the files of the rows it deletes.                         *)
LEMMA DeleteTxKeeps ==
    ASSUME DeletionInv, NEW d \in Deletions, DeleteTx(d)
    PROVE  DeletionInv'
<1>1. /\ files' = files /\ reported' = reported /\ sync' = sync
      /\ del[d].at = "locked" /\ del[d] \in Scopes
  BY ScopeFacts DEF DeleteTx
<1>2. /\ del'[d] = [at |-> "files", whole |-> del[d].whole, property |-> del[d].property,
                    rooms |-> del[d].rooms, sources |-> del[d].sources,
                    keys |-> Keys(d), failed |-> {}]
      /\ \A e \in Deletions \ {d} : del'[e] = del[e]
      /\ del' \in [Deletions -> Scopes \cup Cleanups \cup {NoDel}]
  <2>1. Keys(d) \subseteq Photos
    BY DEF Keys, DoomedPhotos
  <2> QED BY <1>1, <2>1 DEF DeleteTx, DeletionInv, ShapeOK, Scopes, Cleanups
<1>3. TypeOK'
  BY DeleteTxType
<1>4. ShapeOK'
  BY <1>1, <1>2 DEF DeleteTx, DeletionInv, ShapeOK
<1>5. Excluded'
  BY <1>1, <1>2 DEF DeletionInv, Excluded, Syncing, Locked
<1>6. OneHand'
  <2>1. /\ Taken(d)' = Keys(d) /\ Taken(d) = {}
        /\ \A e \in Deletions \ {d} : Taken(e)' = Taken(e)
    BY <1>1, <1>2 DEF Taken
  <2>2. \A p \in Photos : photo'[p] = IF p \in DoomedPhotos(d) THEN NoPhoto ELSE photo[p]
    BY DEF DeleteTx
  <2>3. Keys(d) \subseteq {p \in files \ reported : photo'[p].at = "none"}
    BY <2>2 DEF Keys, DoomedPhotos, DeletionInv, OneHand, NoPhoto
  <2>4. \A e \in Deletions : Taken(e) \cap Keys(d) = {}
    BY DEF Keys, DoomedPhotos, DeletionInv, OneHand
  <2>5. \A p \in Photos : photo'[p].at # "none" => p \in files \ reported
    BY <2>2 DEF DeletionInv, OneHand, NoPhoto
  <2>6. \A e \in Deletions : Taken(e) \subseteq {p \in files \ reported : photo'[p].at = "none"}
    BY <2>2 DEF DeletionInv, OneHand, NoPhoto, TypeOK
  <2>7. \A e \in Deletions : del'[e].at = "files" => del'[e].keys \cap del'[e].failed = {}
    BY <1>2 DEF DeletionInv, OneHand
  <2>8. \A e \in Deletions : Taken(e)' \subseteq {p \in files \ reported : photo'[p].at = "none"}
    BY <2>1, <2>3, <2>6
  <2>9. \A e, f \in Deletions : f # e => Taken(e)' \cap Taken(f)' = {}
    BY <2>1, <2>4 DEF DeletionInv, OneHand
  <2> QED BY <1>1, <2>5, <2>7, <2>8, <2>9 DEF OneHand
<1> QED BY <1>3, <1>4, <1>5, <1>6 DEF DeletionInv

(* Files in the hands of a deletion leave them as removed or reported.     *)
Released(d) ==
    /\ del'[d] \in Cleanups \cup {NoDel}
    /\ del' = [del EXCEPT ![d] = del'[d]]
    /\ del'[d].at = "files" =>
         /\ del'[d].rooms = del[d].rooms /\ del'[d].sources = del[d].sources
         /\ del'[d].keys \cap del'[d].failed = {}
    /\ Taken(d)' \subseteq Taken(d)
    /\ files' \subseteq files /\ files \ files' \subseteq Taken(d) \ Taken(d)'
    /\ reported' \subseteq reported \cup (Taken(d) \ Taken(d)')
    /\ reported' \subseteq files'

(* The removal of the files, and the report of those that stayed.          *)
LEMMA CleanupKeeps ==
    ASSUME DeletionInv, NEW d \in Deletions,
           (\E p \in Photos : Unlink(d, p)) \/ Finish(d) \/ ReportFails(d)
    PROVE  DeletionInv'
<1>1. UNCHANGED rows /\ photo' = photo /\ sync' = sync /\ del[d].at = "files"
  BY DEF Unlink, Finish, ReportFails, stored
<1>2. del[d] \in Cleanups
  BY <1>1 DEF DeletionInv, ShapeOK, Scopes, NoDel
<1>3. Released(d)
  <2>0. del[d].keys \cap del[d].failed = {} /\ Taken(d) = del[d].keys \cup del[d].failed
    BY <1>1 DEF DeletionInv, OneHand, Taken
  <2>1. ASSUME NEW p \in Photos, Unlink(d, p)
        PROVE  Released(d)
    <3>1. PICK failed \in {del[d].failed, del[d].failed \cup {p}} :
            /\ del'[d] = [del[d] EXCEPT !.keys = @ \ {p}, !.failed = failed]
            /\ del' = [del EXCEPT ![d] = del'[d]]
            /\ \/ files' = files \ {p} /\ failed = del[d].failed
               \/ files' = files /\ failed = del[d].failed \cup {p}
      <4>1. CASE /\ files' = files \ {p}
                 /\ del' = [del EXCEPT ![d].keys = @ \ {p}]
        BY <1>2, <4>1 DEF DeletionInv, ShapeOK, Cleanups
      <4>2. CASE /\ del' = [del EXCEPT ![d].keys = @ \ {p}, ![d].failed = @ \cup {p}]
                 /\ files' = files
        BY <1>2, <4>2 DEF DeletionInv, ShapeOK, Cleanups
      <4> QED BY <2>1, <4>1, <4>2 DEF Unlink
    <3>2. /\ del'[d] \in Cleanups /\ del'[d].keys = del[d].keys \ {p} /\ del'[d].failed = failed
          /\ del'[d].rooms = del[d].rooms /\ del'[d].sources = del[d].sources
      BY <1>2, <3>1 DEF Cleanups
    <3>3. Taken(d)' = (del[d].keys \ {p}) \cup failed
      BY <3>2 DEF Taken, Cleanups
    <3>4. p \in del[d].keys /\ p \notin reported /\ reported' = reported
      BY <1>1, <2>0, <2>1 DEF Unlink, DeletionInv, OneHand
    <3> QED BY <2>0, <3>1, <3>2, <3>3, <3>4 DEF Released, DeletionInv, TypeOK
  <2>2. CASE Finish(d) \/ ReportFails(d)
    <3>1. /\ del'[d] = NoDel /\ del' = [del EXCEPT ![d] = del'[d]]
          /\ files' = files /\ Taken(d)' = {}
          /\ reported' \subseteq reported \cup del[d].failed
      BY <2>2 DEF Finish, ReportFails, DeletionInv, ShapeOK, NoDel, Taken, stored
    <3> QED BY <2>0, <3>1 DEF Released, DeletionInv, TypeOK, OneHand, NoDel
  <2> QED BY <2>1, <2>2
<1>4. /\ del' \in [Deletions -> Scopes \cup Cleanups \cup {NoDel}]
      /\ \A e \in Deletions \ {d} : del'[e] = del[e] /\ Taken(e)' = Taken(e)
  BY <1>3 DEF Released, DeletionInv, ShapeOK, Taken
<1>5. TypeOK'
  <2>1. \A e \in Deletions : del'[e].at \in {"idle", "asked", "locked", "files"}
    BY <1>4 DEF Scopes, Cleanups, NoDel
  <2> QED BY <1>1, <1>3, <2>1 DEF Released, DeletionInv, TypeOK, rows, Exists, Live, HasRow, Kept
<1>6. ShapeOK'
  BY <1>1, <1>4 DEF DeletionInv, ShapeOK, rows
<1>7. Excluded'
  BY <1>1, <1>3, <1>4 DEF Released, DeletionInv, Excluded, Syncing, Locked, Cleanups, NoDel
<1>8. OneHand'
  <2>1. \A p \in Photos : photo'[p].at # "none" => p \in files' \ reported'
    BY <1>1, <1>3 DEF Released, DeletionInv, OneHand
  <2>2. \A e \in Deletions : Taken(e)' \subseteq {p \in files' \ reported' : photo'[p].at = "none"}
    <3> SUFFICES ASSUME NEW e \in Deletions, NEW p \in Taken(e)'
                 PROVE  p \in files' \ reported' /\ photo'[p].at = "none"
      OBVIOUS
    <3>1. p \in Taken(e)
      BY <1>3, <1>4 DEF Released
    <3>2. p \in files \ reported /\ photo[p].at = "none"
      BY <3>1 DEF DeletionInv, OneHand
    <3>3. p \notin Taken(d) \ Taken(d)'
      BY <3>1 DEF DeletionInv, OneHand
    <3> QED BY <1>1, <1>3, <3>2, <3>3 DEF Released
  <2>3. \A e \in Deletions : del'[e].at = "files" => del'[e].keys \cap del'[e].failed = {}
    BY <1>3, <1>4 DEF Released, DeletionInv, OneHand
  <2>4. \A e, f \in Deletions : f # e => Taken(e)' \cap Taken(f)' = {}
    BY <1>3, <1>4 DEF Released, DeletionInv, OneHand
  <2> QED BY <2>1, <2>2, <2>3, <2>4 DEF OneHand
<1> QED BY <1>5, <1>6, <1>7, <1>8 DEF DeletionInv

(* A crash ends everything at work; the rows and the files stay.           *)
LEMMA CrashKeeps == DeletionInv /\ Crash => DeletionInv'
<1> SUFFICES ASSUME DeletionInv, Crash
             PROVE  DeletionInv'
  OBVIOUS
<1>1. /\ UNCHANGED rows /\ files' = files /\ reported' = reported
      /\ \A s \in Sources : sync'[s] = NoSync
      /\ \A d \in Deletions : del'[d] = NoDel
      /\ \A p \in Photos : photo'[p] = IF photo[p].at = "stored" THEN NoPhoto ELSE photo[p]
  BY DEF Crash
<1>2. TypeOK'
  BY <1>1 DEF DeletionInv, TypeOK, rows, Exists, Live, HasRow, Kept, NoSync, NoDel, NoPhoto
<1>3. ShapeOK'
  BY <1>1 DEF Crash, DeletionInv, ShapeOK, rows
<1>4. Excluded'
  BY <1>1 DEF Excluded, Syncing, NoSync
<1>5. OneHand'
  BY <1>1 DEF DeletionInv, OneHand, Taken, NoDel, NoPhoto
<1> QED BY <1>2, <1>3, <1>4, <1>5 DEF DeletionInv

(* Every step keeps the invariant.                                         *)
LEMMA DeletionStep == DeletionInv /\ [Next]_vars => DeletionInv'
<1> SUFFICES ASSUME DeletionInv, [Next]_vars
             PROVE  DeletionInv'
  OBVIOUS
<1>1. ASSUME NEW s \in Sources, StartSync(s) \/ FailSync(s)
      PROVE  DeletionInv'
  BY <1>1, SyncKeeps
<1>2. ASSUME NEW s \in Sources, NEW booked \in BOOLEAN, BeginPersist(s, booked)
      PROVE  DeletionInv'
  BY <1>2, SyncKeeps
<1>3. ASSUME NEW s \in Sources, Persist(s)
      PROVE  DeletionInv'
  BY <1>3, PersistKeeps
<1>4. CASE \/ \E r \in Rooms, p \in Properties : CreateRoom(r, p) \/ MoveRoom(r, p)
           \/ \E s \in Sources, r \in Rooms : CreateSource(s, r) \/ MoveSource(s, r)
  BY <1>4, EditKeeps
<1>5. ASSUME NEW p \in Photos,
             (\E o \in Owners : StoreFile(p, o)) \/ InsertPhoto(p) \/ TakeBack(p)
      PROVE  DeletionInv'
  BY <1>5, UploadKeeps
<1>a. ASSUME NEW n \in Records, NEW r \in Rooms, CreateRecord(n, r)
      PROVE  DeletionInv'
  BY <1>a, CreateRecordKeeps
<1>b. ASSUME NEW n \in Records, DeleteRecord(n)
      PROVE  DeletionInv'
  BY <1>b, DeleteRecordKeeps
<1>6. ASSUME NEW d \in Deletions,
             \/ \E r \in Rooms : AskRoom(d, r)
             \/ \E p \in Properties : AskProperty(d, p)
             \/ Lock(d) \/ GiveUp(d)
      PROVE  DeletionInv'
  BY <1>6, ScopeKeeps
<1>7. ASSUME NEW d \in Deletions, DeleteTx(d)
      PROVE  DeletionInv'
  BY <1>7, DeleteTxKeeps
<1>8. ASSUME NEW d \in Deletions,
             (\E p \in Photos : Unlink(d, p)) \/ Finish(d) \/ ReportFails(d)
      PROVE  DeletionInv'
  BY <1>8, CleanupKeeps
<1>9. CASE Crash
  BY <1>9, CrashKeeps
<1>10. CASE UNCHANGED vars
  BY <1>10 DEF vars, DeletionInv, TypeOK, ShapeOK, Excluded, OneHand, Taken,
               Exists, Live, HasRow, Kept, Syncing, Locked
<1> QED
  BY <1>1, <1>2, <1>3, <1>4, <1>5, <1>a, <1>b, <1>6, <1>7, <1>8, <1>9, <1>10 DEF Next

(* So it holds throughout.                                                 *)
LEMMA DeletionInvariant == Spec => []DeletionInv
<1> QED BY RoomsInit, DeletionStep, PTL DEF Spec

(* Whatever is deleted, moved, synced or uploaded at the same time, every  *)
(* row refers to rows that are there, and what is reported as left behind  *)
(* is in the storage.                                                      *)
THEOREM RoomsTypeCorrect == Spec => []TypeOK
<1>1. DeletionInv => TypeOK
  BY DEF DeletionInv
<1> QED BY <1>1, DeletionInvariant, PTL

(* Only what was written for a room before the room left the property       *)
(* stands in the way of a deletion that holds its keys and whose scope has *)
(* not changed: reservations, tasks, notes and claims.                     *)
THEOREM LockedDeletionGoesThrough == Spec => []DeletionGoesThrough
<1>1. DeletionInv => DeletionGoesThrough
  <2> SUFFICES ASSUME DeletionInv, NEW d \in Deletions,
                      del[d].at = "locked", SameScope(d), Restricted(d)
               PROVE  del[d].whole /\ Stray(del[d].property)
    BY DEF DeletionGoesThrough
  <2>1. /\ del[d].whole => \A r \in Rooms : property[r] = del[d].property => r \in del[d].rooms
        /\ \A s \in Sources : s \in del[d].sources <=> room[s] \in del[d].rooms
    BY ScopeFacts
  <2>2. ASSUME NEW s \in Sources, stay[s] # None, s \notin DoomedStays(d),
               \/ stay[s].room \in del[d].rooms
               \/ s \in del[d].sources
               \/ del[d].whole /\ stay[s].property = del[d].property
        PROVE  del[d].whole /\ Stray(del[d].property)
    <3>1. stay[s].room \notin del[d].rooms /\ room[s] \notin del[d].rooms
      BY <2>2 DEF DoomedStays
    <3>2. stay[s].room \in Rooms
      BY <2>2 DEF DeletionInv, ShapeOK, Places
    <3> QED BY <2>1, <2>2, <3>1, <3>2 DEF Stray
  <2>3. ASSUME NEW t \in Tasks, task[t] # None, t \notin DoomedTasks(d),
               t[2] \in del[d].rooms \/ (del[d].whole /\ task[t] = del[d].property)
        PROVE  del[d].whole /\ Stray(del[d].property)
    <3>1. t[2] \notin del[d].rooms /\ t[2] \in Rooms
      BY <2>3 DEF DoomedTasks, Tasks
    <3> QED BY <2>1, <2>3, <3>1 DEF Stray
  <2>4. ASSUME NEW n \in Records, Kept(n), n \notin DoomedRecords(d),
               del[d].whole, record[n].property = del[d].property
        PROVE  del[d].whole /\ Stray(del[d].property)
    <3>1. record[n].room \notin del[d].rooms /\ record[n].room \in Rooms
      BY <2>4 DEF DoomedRecords, DeletionInv, ShapeOK, Places, Kept
    <3> QED BY <2>1, <2>4, <3>1 DEF Stray
  <2> QED BY <2>2, <2>3, <2>4 DEF Restricted
<1> QED BY <1>1, DeletionInvariant, PTL

(* A deletion takes no source that is being synced and no room such a sync *)
(* writes to: the keys exclude them.                                       *)
THEOREM NothingDeletedUnderSync == Spec => NotUnderSync
<1>1. ASSUME DeletionInv, [Next]_vars, NEW s \in Sources, Syncing(s)
      PROVE  /\ Live(s) => room'[s] # Gone
             /\ Exists(sync[s].room) => property'[sync[s].room] # Gone
  <2>0. sync[s].room \in Rooms
    BY <1>1 DEF Syncing, DeletionInv, ShapeOK, Locking, Persisting, NoSync
  <2>1. ASSUME NEW d \in Deletions, DeleteTx(d)
        PROVE  /\ Live(s) => room'[s] # Gone
               /\ Exists(sync[s].room) => property'[sync[s].room] # Gone
    <3>1. /\ Locked(d) /\ s \notin del[d].sources /\ sync[s].room \notin del[d].rooms
          /\ room[s] \notin del[d].rooms
      BY <1>1, <2>1, ScopeFacts DEF DeleteTx, Locked, DeletionInv, Excluded
    <3>2. room'[s] = room[s] /\ property'[sync[s].room] = property[sync[s].room]
      BY <2>0, <2>1, <3>1 DEF DeleteTx
    <3> QED BY <3>2, NamesAssumption DEF Live, Exists
  <2>2. ASSUME NEW r \in Rooms, NEW p \in Properties, CreateRoom(r, p) \/ MoveRoom(r, p)
        PROVE  /\ Live(s) => room'[s] # Gone
               /\ Exists(sync[s].room) => property'[sync[s].room] # Gone
    BY <1>1, <2>0, <2>2, NamesAssumption DEF CreateRoom, MoveRoom, Live, Exists,
       DeletionInv, TypeOK
  <2>3. ASSUME NEW t \in Sources, NEW r \in Rooms, CreateSource(t, r) \/ MoveSource(t, r)
        PROVE  /\ Live(s) => room'[s] # Gone
               /\ Exists(sync[s].room) => property'[sync[s].room] # Gone
    BY <1>1, <2>3, NamesAssumption DEF CreateSource, MoveSource, Live, Exists,
       DeletionInv, TypeOK
  <2>4. CASE UNCHANGED <<property, room>>
    BY <2>4, NamesAssumption DEF Live, Exists
  <2> QED BY <1>1, <2>1, <2>2, <2>3, <2>4
          DEF Next, vars, rows, StartSync, BeginPersist, Persist, FailSync, StoreFile, InsertPhoto,
              TakeBack, CreateRecord, DeleteRecord, AskRoom, AskProperty, Lock, GiveUp, Unlink, Finish, ReportFails, Crash
<1>2. DeletionInv /\ [Next]_vars
        => [\A s \in Sources : Syncing(s) =>
              /\ Live(s) => room'[s] # Gone
              /\ Exists(sync[s].room) => property'[sync[s].room] # Gone]_vars
  BY <1>1
<1>3. Spec => [][\A s \in Sources : Syncing(s) =>
              /\ Live(s) => room'[s] # Gone
              /\ Exists(sync[s].room) => property'[sync[s].room] # Gone]_vars
  BY <1>2, DeletionInvariant, PTL DEF Spec
<1> QED BY <1>3 DEF NotUnderSync

(* A file in somebody's care stays in it, is removed, or is reported,      *)
(* except by a crash, a report that fails, and the removals of a file whose *)
(* failure nobody hears of; never by the deletion of a room or property.   *)
THEOREM FilesStayAccounted == Spec => FilesAccounted
<1> DEFINE Accounted(p) ==
             p \notin files' \/ p \in reported' \/ Unheard(p)
<1>1. ASSUME DeletionInv, [Next]_vars, NEW p \in Photos, InCare(p), ~InCare(p)'
      PROVE  Accounted(p)
  <2> SUFFICES ASSUME p \in files'
               PROVE  p \in reported' \/ Unheard(p)
    OBVIOUS
  <2>1. /\ p \in files
        /\ photo[p].at # "none" \/ \E d \in Deletions : p \in Taken(d)
        /\ photo'[p].at = "none"
        /\ \A d \in Deletions : p \notin Taken(d)'
    BY <1>1 DEF InCare, Taken
  <2>2. ASSUME NEW d \in Deletions, DeleteTx(d)
        PROVE  FALSE
    <3>1. /\ del[d].at = "locked" /\ del'[d].at = "files" /\ del'[d].keys = Keys(d)
          /\ \A e \in Deletions \ {d} : del'[e] = del[e]
      BY <1>1, <2>2 DEF DeleteTx, DeletionInv, ShapeOK
    <3>2. \A e \in Deletions : p \notin Taken(e)
      BY <2>1, <3>1 DEF Taken
    <3>3. p \in DoomedPhotos(d) /\ p \notin Keys(d)
      BY <2>1, <2>2, <3>1, <3>2 DEF DeleteTx, Taken
    <3> QED BY <3>3 DEF Keys
  <2>3. ASSUME NEW d \in Deletions, Finish(d)
        PROVE  p \in reported'
    <3>1. \A e \in Deletions \ {d} : Taken(e)' = Taken(e)
      BY <1>1, <2>3 DEF Finish, DeletionInv, ShapeOK, Taken
    <3>2. p \in Taken(d)
      BY <2>1, <2>3, <3>1 DEF Finish
    <3> QED BY <2>3, <3>2 DEF Finish, Taken
  <2>4. ASSUME NEW d \in Deletions, ReportFails(d)
        PROVE  Unheard(p)
    <3>1. \A e \in Deletions \ {d} : Taken(e)' = Taken(e)
      BY <1>1, <2>4 DEF ReportFails, DeletionInv, ShapeOK, Taken
    <3>2. p \in Taken(d)
      BY <2>1, <2>4, <3>1 DEF ReportFails, stored
    <3> QED BY <2>4, <3>2 DEF ReportFails, Taken, Unheard
  <2>5. ASSUME NEW d \in Deletions, NEW q \in Photos, Unlink(d, q)
        PROVE  FALSE
    <3>1. del[d] \in Cleanups
      BY <1>1, <2>5 DEF Unlink, DeletionInv, ShapeOK, Scopes, NoDel
    <3>2. /\ \A e \in Deletions \ {d} : Taken(e)' = Taken(e)
          /\ del'[d].at = "files"
      <4>1. /\ del'[d].at = "files"
            /\ \A e \in Deletions \ {d} : del'[e] = del[e]
        BY <1>1, <2>5, <3>1 DEF Unlink, DeletionInv, ShapeOK, Cleanups
      <4> QED BY <4>1 DEF Taken
    <3>3. CASE files' = files \ {q} /\ del' = [del EXCEPT ![d].keys = @ \ {q}]
      <4>1. Taken(d)' = (del[d].keys \ {q}) \cup del[d].failed
        BY <1>1, <3>1, <3>2, <3>3 DEF DeletionInv, ShapeOK, Taken, Cleanups
      <4> QED BY <2>1, <2>5, <3>2, <3>3, <4>1 DEF Unlink, Taken
    <3>4. CASE del' = [del EXCEPT ![d].keys = @ \ {q}, ![d].failed = @ \cup {q}]
      <4>1. Taken(d)' = (del[d].keys \ {q}) \cup (del[d].failed \cup {q})
        BY <1>1, <3>1, <3>2, <3>4 DEF DeletionInv, ShapeOK, Taken, Cleanups
      <4> QED BY <2>1, <2>5, <3>2, <4>1 DEF Unlink, Taken
    <3> QED BY <2>5, <3>3, <3>4 DEF Unlink
  <2>6. ASSUME NEW q \in Photos, \E o \in Owners : StoreFile(q, o)
        PROVE  FALSE
    <3>1. q # p
      BY <2>1, <2>6 DEF StoreFile
    <3> QED BY <1>1, <2>1, <2>6, <3>1 DEF StoreFile, DeletionInv, ShapeOK, Taken
  <2>7. ASSUME NEW q \in Photos, InsertPhoto(q)
        PROVE  FALSE
    <3>1. photo[q] \in Uploads /\ photo' = [photo EXCEPT ![q].at = "row"]
      BY <1>1, <2>7 DEF InsertPhoto, DeletionInv, ShapeOK, NoPhoto
    <3> QED BY <1>1, <2>1, <2>7, <3>1 DEF InsertPhoto, DeletionInv, ShapeOK, Uploads, Taken
  <2>a. ASSUME NEW q \in Photos, TakeBack(q)
        PROVE  Unheard(p)
    <3>1. photo' = [photo EXCEPT ![q] = NoPhoto] /\ del' = del
      BY <2>a DEF TakeBack
    <3>2. q = p
      BY <1>1, <2>1, <3>1 DEF DeletionInv, ShapeOK, Taken
    <3> QED BY <2>a, <3>2 DEF Unheard
  <2>b. ASSUME NEW n \in Records, DeleteRecord(n)
        PROVE  Unheard(p)
    <3>1. photo[p].at # "none"
      BY <2>1, <2>b DEF DeleteRecord, Taken
    <3>2. photo[p].of = n
      BY <2>1, <2>b, <3>1 DEF DeleteRecord
    <3> QED BY <2>b, <3>2 DEF Unheard
  <2>c. CASE Crash
    BY <2>c DEF Unheard
  <2>8. ASSUME NEW d \in Deletions,
               \/ \E r \in Rooms : AskRoom(d, r)
               \/ \E q \in Properties : AskProperty(d, q)
               \/ Lock(d) \/ GiveUp(d)
        PROVE  FALSE
    <3>1. photo' = photo /\ del[d].at # "files" /\ \A e \in Deletions \ {d} : del'[e] = del[e]
      BY <1>1, <2>8 DEF AskRoom, AskProperty, Lock, GiveUp, stored, DeletionInv, ShapeOK
    <3> QED BY <2>1, <3>1 DEF Taken
  <2>9. CASE UNCHANGED <<photo, files, del>>
    BY <2>1, <2>9 DEF Taken
  <2> QED BY <1>1, <2>2, <2>3, <2>4, <2>5, <2>6, <2>7, <2>a, <2>b, <2>c, <2>8, <2>9
          DEF Next, vars, stored, StartSync, BeginPersist, Persist, FailSync, CreateRoom, MoveRoom,
              CreateSource, MoveSource, CreateRecord
<1>2. DeletionInv /\ [Next]_vars
        => [\A p \in Photos : InCare(p) /\ ~InCare(p)' => Accounted(p)]_vars
  BY <1>1
<1>3. Spec => [][\A p \in Photos : InCare(p) /\ ~InCare(p)' => Accounted(p)]_vars
  BY <1>2, DeletionInvariant, PTL DEF Spec
<1> QED BY <1>3 DEF FilesAccounted
=============================================================================
