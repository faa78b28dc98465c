---------------------------- MODULE RoomDeletion ----------------------------
(***************************************************************************)
(* The deletion of a room or of a property with everything that belongs to *)
(* it, against syncs, edits and uploads that go on meanwhile.  What is to  *)
(* be deleted is read first; then the keys of its sources and rooms are    *)
(* tried; one serializable transaction compares and deletes; and at last   *)
(* the files of the deleted photo rows are removed.                        *)
(*                                                                         *)
(* A serializable transaction whose rows change under it fails, so it is   *)
(* one action.  The transaction of a sync is not serializable: its reads   *)
(* and its writes are two.  A source has one reservation at most here,     *)
(* confirmed or cancelled (RoomCalendar tells which), and the keys of a     *)
(* call are tried at once (CalendarSync tries them singly).                *)
(***************************************************************************)
EXTENDS FiniteSets

CONSTANTS
    Properties, Rooms, Sources, Photos, Deletions,
    Records, \* notes written by hand and insurance claims, which belong to a room
    None,    \* no room, no property, no row
    Gone,    \* of a room or source that was deleted: its id does not return
    Ops      \* operations of this instance beside sync, upload and deletion

ASSUME OpsAssumption == Ops \subseteq {"create", "moveSource", "moveRoom", "record", "crash"}
ASSUME NamesAssumption ==
    /\ {None, Gone} \cap (Properties \cup Rooms) = {}
    /\ None \notin [room : Rooms, property : Properties]

VARIABLES
    properties,   \* those that exist
    property,     \* the property of each room, None if there is no such room
    room,         \* the room of each source, None if there is no such source
    stay,         \* the reservation of each source: its room and property
    task,         \* the cleaning task of a source's reservation in a room: its property
    record,       \* the room and the property of each note or claim
    photo,        \* each photo row, or upload not yet inserted: of a task or a record
    files,        \* the photos in the storage
    reported,     \* those an audit row reports as left behind
    sync, del     \* the syncs and deletions at work

vars == <<properties, property, room, stay, task, record, photo, files, reported, sync, del>>
rows == <<properties, property, room, stay, task, record>>
stored == <<photo, files, reported>>

NoSync == [at |-> "idle"]
NoDel  == [at |-> "idle"]
NoPhoto == [at |-> "none"]

Exists(r) == property[r] \in Properties
Live(s)   == room[s] \in Rooms
Tasks     == Sources \X Rooms
Kept(n)   == record[n] # None

\* A photo belongs to a cleaning task, or to a note or claim; the notes that come
\* from a cleaning have none.
Owners   == Tasks \cup Records
HasRow(o) == IF o \in Records THEN Kept(o) ELSE task[o] # None

-----------------------------------------------------------------------------
(* Keys                                                                    *)

Syncing(s) == sync[s].at # "idle"
Locked(d)  == del[d].at \in {"locked", "files"}

RoomFree(r) ==
    /\ \A s \in Sources : Syncing(s) => sync[s].room # r
    /\ \A d \in Deletions : Locked(d) => r \notin del[d].rooms
SourceFree(s) ==
    /\ ~Syncing(s)
    /\ \A d \in Deletions : Locked(d) => s \notin del[d].sources

-----------------------------------------------------------------------------
(* Syncs: CalendarSync up to the lock, reread and persist                  *)

StartSync(s) ==
    /\ Live(s) /\ SourceFree(s) /\ RoomFree(room[s])
    /\ sync' = [sync EXCEPT ![s] = [at |-> "locked", room |-> room[s], property |-> property[room[s]]]]
    /\ UNCHANGED <<rows, stored, del>>

\* The rows of the source are read, and compared with what the OTA serves.
BeginPersist(s, booked) ==
    /\ sync[s].at = "locked"
    /\ sync' = [sync EXCEPT ![s] = [at |-> "persist", room |-> @.room, property |-> @.property,
                                    had |-> stay[s] # None, booked |-> booked]]
    /\ UNCHANGED <<rows, stored, del>>

\* createMany makes the row that was not there; the raw UPDATE writes one that was by
\* its id, and nothing if it has gone.
Merged(s) == IF sync[s].booked /\ ~sync[s].had
               THEN [room |-> sync[s].room, property |-> sync[s].property]
               ELSE stay[s]

\* currentSourceActiveReservationCount against the expected one
Counted(s) == sync[s].booked => Merged(s) # None

\* What the new rows refer to is still there.
Referable(s) == Live(s) /\ Exists(sync[s].room) /\ sync[s].property \in properties

Persist(s) ==
    /\ sync[s].at = "persist" /\ Counted(s) /\ Referable(s)
    /\ stay' = [stay EXCEPT ![s] = Merged(s)]
    /\ task' = [task EXCEPT ![<<s, sync[s].room>>] =
                  IF @ = None /\ sync[s].booked THEN sync[s].property ELSE @]
    /\ sync' = [sync EXCEPT ![s] = NoSync]
    /\ UNCHANGED <<properties, property, room, record, stored, del>>

\* An error anywhere, with nothing persisted.
FailSync(s) ==
    /\ Syncing(s) /\ sync' = [sync EXCEPT ![s] = NoSync]
    /\ UNCHANGED <<rows, stored, del>>

-----------------------------------------------------------------------------
(* Edits, none of which takes a key                                        *)

CreateRoom(r, p) ==
    /\ "create" \in Ops /\ property[r] = None /\ p \in properties
    /\ property' = [property EXCEPT ![r] = p]
    /\ UNCHANGED <<properties, room, stay, task, record, stored, sync, del>>

CreateSource(s, r) ==
    /\ "create" \in Ops /\ room[s] = None /\ Exists(r)
    /\ room' = [room EXCEPT ![s] = r]
    /\ UNCHANGED <<properties, property, stay, task, record, stored, sync, del>>

\* updateCalendarSource; the reservations stay in the old room.
MoveSource(s, r) ==
    /\ "moveSource" \in Ops /\ Live(s) /\ Exists(r) /\ r # room[s]
    /\ room' = [room EXCEPT ![s] = r]
    /\ UNCHANGED <<properties, property, stay, task, record, stored, sync, del>>

\* updateRoom; its reservations, tasks, notes and claims keep the old property.
MoveRoom(r, p) ==
    /\ "moveRoom" \in Ops /\ Exists(r) /\ p \in properties \ {property[r]}
    /\ property' = [property EXCEPT ![r] = p]
    /\ UNCHANGED <<properties, room, stay, task, record, stored, sync, del>>

\* createManualRoomNote, createInsuranceClaim.  A name of the model is used again
\* when nothing refers to the record that had it.
CreateRecord(n, r) ==
    /\ "record" \in Ops /\ record[n] = None /\ Exists(r)
    /\ \A p \in Photos : photo[p].at = "stored" => photo[p].of # n
    /\ record' = [record EXCEPT ![n] = [room |-> r, property |-> property[r]]]
    /\ UNCHANGED <<properties, property, room, stay, task, stored, sync, del>>

\* deleteRoomNote, deleteProcessedInsuranceClaim: the photo rows go with the row, the
\* files after it as far as they can be removed; nobody hears of the others.
DeleteRecord(n) ==
    /\ Kept(n)
    /\ record' = [record EXCEPT ![n] = None]
    /\ LET its == {p \in Photos : photo[p].at = "row" /\ photo[p].of = n} IN
         /\ photo' = [p \in Photos |-> IF p \in its THEN NoPhoto ELSE photo[p]]
         /\ \E gone \in SUBSET its : files' = files \ gone
    /\ UNCHANGED <<properties, property, room, stay, task, reported, sync, del>>

-----------------------------------------------------------------------------
(* Uploads: the file first, then the row, or the file is taken back        *)

StoreFile(p, o) ==
    /\ photo[p] = NoPhoto /\ p \notin files /\ p \notin reported
    /\ HasRow(o)
    /\ photo' = [photo EXCEPT ![p] = [at |-> "stored", of |-> o]]
    /\ files' = files \cup {p}
    /\ UNCHANGED <<rows, reported, sync, del>>

InsertPhoto(p) ==
    /\ photo[p].at = "stored" /\ HasRow(photo[p].of)
    /\ photo' = [photo EXCEPT ![p].at = "row"]
    /\ UNCHANGED <<rows, files, reported, sync, del>>

\* The row is refused, for want of what it belongs to or for any other reason.  The
\* file is taken back; when that fails too it stays, and nobody hears of it.
TakeBack(p) ==
    /\ photo[p].at = "stored"
    /\ photo' = [photo EXCEPT ![p] = NoPhoto]
    /\ files' = files \ {p} \/ UNCHANGED files
    /\ UNCHANGED <<rows, reported, sync, del>>

-----------------------------------------------------------------------------
(* Deletions                                                               *)

SourcesIn(rs) == {s \in Sources : room[s] \in rs}

\* findRoomDeleteTarget
AskRoom(d, r) ==
    /\ del[d].at = "idle" /\ Exists(r)
    /\ del' = [del EXCEPT ![d] = [at |-> "asked", whole |-> FALSE, property |-> property[r],
                                  rooms |-> {r}, sources |-> SourcesIn({r})]]
    /\ UNCHANGED <<rows, stored, sync>>

RoomsOf(p) == {r \in Rooms : property[r] = p}

\* findPropertyDeleteTarget
AskProperty(d, p) ==
    /\ del[d].at = "idle" /\ p \in properties
    /\ del' = [del EXCEPT ![d] = [at |-> "asked", whole |-> TRUE, property |-> p,
                                  rooms |-> RoomsOf(p), sources |-> SourcesIn(RoomsOf(p))]]
    /\ UNCHANGED <<rows, stored, sync>>

\* roomRelatedOperationLockKeys: refused if any key is held by another.
Lock(d) ==
    /\ del[d].at = "asked"
    /\ \A r \in del[d].rooms : RoomFree(r)
    /\ \A s \in del[d].sources : SourceFree(s)
    /\ del[d].whole => ~\E e \in Deletions : Locked(e) /\ del[e].whole /\ del[e].property = del[d].property
    /\ del' = [del EXCEPT ![d].at = "locked"]
    /\ UNCHANGED <<rows, stored, sync>>

\* Bug: only that the rooms are still there is checked.
SameRooms(d) ==
    /\ \A r \in del[d].rooms : property[r] = del[d].property
    /\ del[d].whole => del[d].property \in properties /\ del[d].rooms = RoomsOf(del[d].property)

\* The ids read again in the transaction are those that were asked for.
SameScope(d) ==
    /\ \A r \in del[d].rooms : property[r] = del[d].property
    /\ del[d].whole => del[d].property \in properties /\ del[d].rooms = RoomsOf(del[d].property)
    /\ SourcesIn(del[d].rooms) = del[d].sources

\* Bug: reservations are deleted by their room alone.
StaysInRooms(d) == {s \in Sources : stay[s] # None /\ stay[s].room \in del[d].rooms}

\* Those of the rooms and those of the sources, wherever either has moved.
DoomedStays(d) == {s \in Sources : stay[s] # None /\
                     (stay[s].room \in del[d].rooms \/ room[s] \in del[d].rooms)}

DoomedTasks(d) == {t \in Tasks : task[t] # None /\
                     (t[2] \in del[d].rooms \/ t[1] \in DoomedStays(d))}

DoomedRecords(d) == {n \in Records : Kept(n) /\ record[n].room \in del[d].rooms}

DoomedPhotos(d) == {p \in Photos : photo[p].at = "row" /\
                      photo[p].of \in DoomedTasks(d) \cup DoomedRecords(d)}

\* Bug: only the files of photos in the deleted rooms are removed.
KeysInRooms(d) == {p \in DoomedPhotos(d) : photo[p].of \in Records \/ photo[p].of[2] \in del[d].rooms}

\* photoStorageKeys
Keys(d) == DoomedPhotos(d)

\* Bug: the foreign keys to a property are missing.
RestrictedByRooms(d) ==
    \/ \E s \in Sources : stay[s] # None /\ s \notin DoomedStays(d) /\
         (stay[s].room \in del[d].rooms \/ s \in del[d].sources)
    \/ \E t \in Tasks : task[t] # None /\ t \notin DoomedTasks(d) /\ t[2] \in del[d].rooms

\* A Restrict foreign key of a row that would remain.
Restricted(d) ==
    \/ \E s \in Sources : stay[s] # None /\ s \notin DoomedStays(d) /\
         \/ stay[s].room \in del[d].rooms
         \/ s \in del[d].sources
         \/ del[d].whole /\ stay[s].property = del[d].property
    \/ \E t \in Tasks : task[t] # None /\ t \notin DoomedTasks(d) /\
         (t[2] \in del[d].rooms \/ (del[d].whole /\ task[t] = del[d].property))
    \/ \E n \in Records : Kept(n) /\ n \notin DoomedRecords(d) /\
         del[d].whole /\ record[n].property = del[d].property

\* deleteRoomRelatedData and what deleteRoomTransaction or
\* deletePropertyTransaction delete after it.
DeleteTx(d) ==
    /\ del[d].at = "locked" /\ SameScope(d) /\ ~Restricted(d)
    /\ properties' = IF del[d].whole THEN properties \ {del[d].property} ELSE properties
    /\ property' = [r \in Rooms |-> IF r \in del[d].rooms THEN Gone ELSE property[r]]
    /\ room' = [s \in Sources |-> IF room[s] \in del[d].rooms THEN Gone ELSE room[s]]
    /\ stay' = [s \in Sources |-> IF s \in DoomedStays(d) THEN None ELSE stay[s]]
    /\ task' = [t \in Tasks |-> IF t \in DoomedTasks(d) THEN None ELSE task[t]]
    /\ record' = [n \in Records |-> IF n \in DoomedRecords(d) THEN None ELSE record[n]]
    /\ photo' = [p \in Photos |-> IF p \in DoomedPhotos(d) THEN NoPhoto ELSE photo[p]]
    /\ del' = [del EXCEPT ![d] = [at |-> "files", whole |-> @.whole, property |-> @.property,
                                  rooms |-> @.rooms, sources |-> @.sources,
                                  keys |-> Keys(d), failed |-> {}]]
    /\ UNCHANGED <<files, reported, sync>>

\* Refused keys, a changed scope, a foreign key, a failing statement.
GiveUp(d) ==
    /\ del[d].at \in {"asked", "locked"}
    /\ del' = [del EXCEPT ![d] = NoDel]
    /\ UNCHANGED <<rows, stored, sync>>

\* deleteCleaningPhotoFiles
Unlink(d, p) ==
    /\ del[d].at = "files" /\ p \in del[d].keys
    /\ \/ /\ files' = files \ {p}
          /\ del' = [del EXCEPT ![d].keys = @ \ {p}]
       \/ /\ del' = [del EXCEPT ![d].keys = @ \ {p}, ![d].failed = @ \cup {p}]
          /\ UNCHANGED files
    /\ UNCHANGED <<rows, photo, reported, sync>>

\* ROOM_PHOTO_FILE_CLEANUP_FAILED
Finish(d) ==
    /\ del[d].at = "files" /\ del[d].keys = {}
    /\ reported' = reported \cup del[d].failed
    /\ del' = [del EXCEPT ![d] = NoDel]
    /\ UNCHANGED <<rows, photo, files, sync>>

\* The audit row itself is refused: the caller is told of an error.
ReportFails(d) ==
    /\ del[d].at = "files" /\ del[d].keys = {} /\ del[d].failed # {}
    /\ del' = [del EXCEPT ![d] = NoDel]
    /\ UNCHANGED <<rows, stored, sync>>

\* The server process ends, and with it all it was about to do.
Crash ==
    /\ "crash" \in Ops
    /\ sync' = [s \in Sources |-> NoSync]
    /\ del' = [d \in Deletions |-> NoDel]
    /\ photo' = [p \in Photos |-> IF photo[p].at = "stored" THEN NoPhoto ELSE photo[p]]
    /\ UNCHANGED <<rows, files, reported>>

-----------------------------------------------------------------------------

Init ==
    /\ properties = Properties
    /\ property \in [Rooms -> Properties \cup {None}]
    /\ room = [s \in Sources |-> None]
    /\ stay = [s \in Sources |-> None]
    /\ task = [t \in Tasks |-> None]
    /\ record = [n \in Records |-> None]
    /\ photo = [p \in Photos |-> NoPhoto]
    /\ files = {} /\ reported = {}
    /\ sync = [s \in Sources |-> NoSync]
    /\ del = [d \in Deletions |-> NoDel]

Next ==
    \/ \E s \in Sources : StartSync(s) \/ Persist(s) \/ FailSync(s)
    \/ \E s \in Sources, booked \in BOOLEAN : BeginPersist(s, booked)
    \/ \E r \in Rooms, p \in Properties : CreateRoom(r, p) \/ MoveRoom(r, p)
    \/ \E s \in Sources, r \in Rooms : CreateSource(s, r) \/ MoveSource(s, r)
    \/ \E n \in Records, r \in Rooms : CreateRecord(n, r)
    \/ \E n \in Records : DeleteRecord(n)
    \/ \E p \in Photos, o \in Owners : StoreFile(p, o)
    \/ \E p \in Photos : InsertPhoto(p) \/ TakeBack(p)
    \/ \E d \in Deletions, r \in Rooms : AskRoom(d, r)
    \/ \E d \in Deletions, p \in Properties : AskProperty(d, p)
    \/ \E d \in Deletions : Lock(d) \/ DeleteTx(d) \/ GiveUp(d) \/ Finish(d) \/ ReportFails(d)
    \/ \E d \in Deletions, p \in Photos : Unlink(d, p)
    \/ Crash

Spec == Init /\ [][Next]_vars

-----------------------------------------------------------------------------
(* Properties                                                              *)

\* Types, and that every row refers to rows that exist.
TypeOK ==
    /\ properties \subseteq Properties
    /\ property \in [Rooms -> properties \cup {None, Gone}]
    /\ room \in [Sources -> {r \in Rooms : Exists(r)} \cup {None, Gone}]
    /\ \A s \in Sources : stay[s] # None =>
         Live(s) /\ Exists(stay[s].room) /\ stay[s].property \in properties
    /\ \A t \in Tasks : task[t] # None =>
         stay[t[1]] # None /\ Exists(t[2]) /\ task[t] \in properties
    /\ \A n \in Records : Kept(n) => Exists(record[n].room) /\ record[n].property \in properties
    /\ \A p \in Photos : photo[p].at = "row" => HasRow(photo[p].of)
    /\ files \subseteq Photos /\ reported \subseteq files
    /\ \A s \in Sources : sync[s].at \in {"idle", "locked", "persist"}
    /\ \A d \in Deletions : del[d].at \in {"idle", "asked", "locked", "files"}

\* room-deletion.test.ts:47: nothing is deleted under a sync of it.  The keys
\* are those of the ids read before; that the ids are compared again makes
\* them the right ones, whatever was created or moved in between.
NotUnderSync ==
    [][\A s \in Sources : Syncing(s) =>
         /\ Live(s) => room'[s] # Gone
         /\ Exists(sync[s].room) => property'[sync[s].room] # Gone]_vars

\* A deletion that holds its keys and whose scope has not changed goes through:
\* it covers every row that refers to what it deletes, also where sources have
\* moved away or come from elsewhere.  Only what was written for a room before that
\* room was moved out of the property (reservations, tasks, notes and claims keep
\* the property they were made with) keeps the property from being deleted.
Stray(p) ==
    \/ \E s \in Sources : stay[s] # None /\ stay[s].property = p /\ property[stay[s].room] # p
    \/ \E t \in Tasks : task[t] = p /\ property[t[2]] # p
    \/ \E n \in Records : Kept(n) /\ record[n].property = p /\ property[record[n].room] # p

DeletionGoesThrough ==
    \A d \in Deletions : del[d].at = "locked" /\ SameScope(d) /\ Restricted(d) =>
        del[d].whole /\ Stray(del[d].property)

\* property-deletion.test.ts:52: files go after their rows.  The deletion of a room or
\* property loses no file: one in somebody's care falls out of it only removed or
\* reported; except by a crash, by a report that is refused, and by the two removals
\* of files whose failure the code keeps to itself, that of an upload which got no
\* row and that of a single note or claim.
InCare(p) == p \in files /\
    (photo[p].at # "none" \/ \E d \in Deletions : del[d].at = "files" /\ p \in del[d].keys \cup del[d].failed)

Unheard(p) ==
    \/ Crash
    \/ \E d \in Deletions : ReportFails(d) /\ p \in del[d].failed
    \/ TakeBack(p)
    \/ \E n \in Records : DeleteRecord(n) /\ photo[p].of = n

FilesAccounted ==
    [][\A p \in Photos : InCare(p) /\ ~InCare(p)' =>
         p \notin files' \/ p \in reported' \/ Unheard(p)]_vars
=============================================================================
