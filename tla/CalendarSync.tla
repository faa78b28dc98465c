---------------------------- MODULE CalendarSync ----------------------------
(***************************************************************************)
(* The jobs that read and write a calendar source and the PostgreSQL       *)
(* advisory locks some of them hold.  A job is one server call in flight:  *)
(* it advances by one database statement, transaction or OTA request at a  *)
(* time and other jobs run in between.                                     *)
(*                                                                         *)
(*   "sync"     syncCalendarSource               under both locks          *)
(*   "replace"  replaceCalendarSourceUrlSafely   under both locks          *)
(*   "delete"   deleteCalendarSourceSafely       under both locks          *)
(*   "edit"     updateCalendarSourceSafely       no lock                   *)
(*   "form"     updateRoomWithCalendarSources    no lock                   *)
(*   "toggle"   changeCalendarSourceActive       no lock                   *)
(*                                                                         *)
(* The content of a feed is abstracted to the URL it came from; what a     *)
(* persisted feed does to reservations is the subject of RoomCalendar.     *)
(***************************************************************************)
CONSTANTS
    Jobs,       \* calls that may be in flight at the same time
    Sources,    \* CalendarSource ids
    Rooms,      \* Room ids
    Urls,       \* calendar URLs
    Logs,       \* SyncLog ids, the bound on sync attempts
    None,       \* no job, no URL, no log
    Ops,        \* the operations the application offers in this instance
    Faults      \* a subset of {"crash", "sessionLoss", "ackLoss", "dbError"}

ASSUME NoneAssumption == None \notin Jobs \cup Sources \cup Urls \cup Logs

ASSUME OpsAssumption ==
    Ops \subseteq {"sync", "replace", "delete", "edit", "form", "toggle"}

VARIABLES
    row,         \* the CalendarSource row of each source
    activeRooms, \* rooms that are active with their property and company
    log,         \* the SyncLog rows
    feed,        \* the URL whose feed the stored reservations come from
    sourceLock,  \* the session holding calendar-source:<id>
    roomLock,    \* the session holding reservation-conflicts-room:<id>
    pc,          \* what each job does next
    arg,         \* the arguments of each job and what it has read
    overtaken,   \* history: syncs during which a URL changed without their lock
    unseen       \* history: syncs whose log a deletion had no chance to see

rowVars  == <<row, activeRooms, feed>>
lockVars == <<sourceLock, roomLock, overtaken, unseen>>
vars     == <<row, activeRooms, log, feed, sourceLock, roomLock, pc, arg, overtaken,
              unseen>>

(* "GONE" is a deleted row; the others are isActive of a row that exists. *)
Life   == {"ACTIVE", "INACTIVE", "GONE"}
Status == {"NORMAL", "RECONNECT_REQUIRED"}
Row    == [life: Life, room: Rooms, url: Urls, status: Status]

Terminal  == {"SUCCESS", "FAILED", "TIMEOUT"}
LogStatus == {"UNUSED", "RUNNING", "DELETED"} \cup Terminal
Log       == [source: Sources \cup {None}, status: LogStatus, age: {"fresh", "stale"}]
NoRow(status) == [source |-> None, status |-> status, age |-> "fresh"]

(* The sections of a job, by what it holds.                               *)
LoggedPcs   == {"fetch", "validate", "persist", "fail", "quarantine"}
SyncPcs     == {"reread", "markStale", "createLog"} \cup LoggedPcs
CriticalPcs == SyncPcs \cup {"prepare", "replaceTx", "replaceWrite", "deleteTx",
                            "deleteRows", "unlockRoom"}
LockedPcs   == CriticalPcs \cup {"tryRoom", "unlockSource"}
UnlockedPcs == {"idle", "trySource", "checkEdit", "writeEdit", "writeForm", "writeLife"}
Pcs         == LockedPcs \cup UnlockedPcs

Arg   == [op: Ops, src: Sources, room: Rooms, url: Urls \cup {None},
          prev: Urls \cup {None}, life: Life, log: Logs \cup {None}]
NoArg == [op |-> "none"]

Present(s) == row[s].life # "GONE"

(* Database constraint @@unique([roomId, calendarUrl]) for a row about to  *)
(* be written; also what findDuplicateCalendarUrl looks for.               *)
Unique(s, r, u) ==
    \A t \in Sources \ {s} : Present(t) => row[t].room # r \/ row[t].url # u

Goto(j, label) == pc' = [pc EXCEPT ![j] = label]

(* The call returns or throws; nothing of it is left.                     *)
Return(j) ==
    /\ Goto(j, "idle")
    /\ arg' = [arg EXCEPT ![j] = NoArg]

(* lines 28-31 and again 36-39: a sync refuses what it may not touch      *)
Syncable(s) ==
    /\ row[s].life = "ACTIVE"
    /\ row[s].room \in activeRooms
    /\ row[s].status = "NORMAL"

Init ==
    /\ row \in [Sources -> [life: {"ACTIVE", "INACTIVE"}, room: Rooms,
                            url: Urls, status: {"NORMAL"}]]
    /\ \A s, t \in Sources :
          s # t => row[s].room # row[t].room \/ row[s].url # row[t].url
    /\ activeRooms \in SUBSET Rooms
    /\ log = [l \in Logs |-> NoRow("UNUSED")]
    /\ feed = [s \in Sources |-> None]
    /\ sourceLock = [s \in Sources |-> None]
    /\ roomLock = [r \in Rooms |-> None]
    /\ pc = [j \in Jobs |-> "idle"]
    /\ arg = [j \in Jobs |-> NoArg]
    /\ overtaken = {}
    /\ unseen = {}
-----------------------------------------------------------------------------
(* The first statement of each operation: a read outside any lock.         *)

Begin(j, label, op, s, r, u, life) ==
    /\ op \in Ops
    /\ pc[j] = "idle"
    /\ Present(s)
    /\ arg' = [arg EXCEPT ![j] = [op |-> op, src |-> s, room |-> r, url |-> u,
                                  prev |-> None, life |-> life, log |-> None]]
    /\ Goto(j, label)
    /\ UNCHANGED <<rowVars, lockVars, log>>

StartSync(j) == \E s \in Sources :
    /\ Syncable(s)
    /\ Begin(j, "trySource", "sync", s, row[s].room, None, row[s].life)

(* The submitted URL is any URL; validation of its form is not modelled.   *)
StartReplace(j) == \E s \in Sources, u \in Urls :
    Begin(j, "trySource", "replace", s, row[s].room, u, row[s].life)

StartDelete(j) == \E s \in Sources :
    Begin(j, "trySource", "delete", s, row[s].room, None, row[s].life)

(* The edit form may name another room and another isActive; the URL is    *)
(* the one read here.                                                      *)
StartEdit(j) == \E s \in Sources, r \in Rooms, life \in {"ACTIVE", "INACTIVE"} :
    Begin(j, "checkEdit", "edit", s, r, row[s].url, life)

(* The form submits one source of its room, with the URL it reads here.    *)
StartForm(j) == \E s \in Sources, life \in {"ACTIVE", "INACTIVE"} :
    Begin(j, "writeForm", "form", s, row[s].room, row[s].url, life)

StartToggle(j) == \E s \in Sources, life \in {"ACTIVE", "INACTIVE"} :
    /\ row[s].life # life
    /\ Begin(j, "writeLife", "toggle", s, row[s].room, None, life)
-----------------------------------------------------------------------------
(* withPostgresAdvisoryLocks: pg_try_advisory_lock on the source key, then *)
(* on the room key of the room read before; a refusal unlocks what was     *)
(* taken and reports CalendarSyncAlreadyRunningError.                      *)

TrySource(j) ==
    /\ pc[j] = "trySource"
    /\ IF sourceLock[arg[j].src] = None
         THEN /\ sourceLock' = [sourceLock EXCEPT ![arg[j].src] = j]
              /\ Goto(j, "tryRoom")
              /\ UNCHANGED arg
         ELSE /\ Return(j)
              /\ UNCHANGED sourceLock
    /\ UNCHANGED <<rowVars, log, roomLock, overtaken, unseen>>

(* Bug: a deletion enters the body of a replacement.                       *)
EntryMixedUp(op) == IF op = "sync" THEN "reread" ELSE "prepare"

Entry(op) == CASE op = "sync"    -> "reread"
               [] op = "replace" -> "prepare"
               [] OTHER          -> "deleteTx"

(* Bug: the room key is not waited for.                                    *)
TryRoomUnchecked(j) ==
    /\ pc[j] = "tryRoom"
    /\ roomLock' = [roomLock EXCEPT ![arg[j].room] = j]
    /\ Goto(j, Entry(arg[j].op))
    /\ UNCHANGED <<rowVars, log, sourceLock, overtaken, unseen, arg>>

(* Bug: a refused room key leaves the source key locked.                   *)
TryRoomLeaking(j) ==
    /\ pc[j] = "tryRoom"
    /\ IF roomLock[arg[j].room] = None
         THEN /\ roomLock' = [roomLock EXCEPT ![arg[j].room] = j]
              /\ Goto(j, Entry(arg[j].op))
              /\ UNCHANGED arg
         ELSE Return(j) /\ UNCHANGED roomLock
    /\ UNCHANGED <<rowVars, log, sourceLock, overtaken, unseen>>

TryRoom(j) ==
    /\ pc[j] = "tryRoom"
    /\ IF roomLock[arg[j].room] = None
         THEN /\ roomLock' = [roomLock EXCEPT ![arg[j].room] = j]
              /\ Goto(j, Entry(arg[j].op))
         ELSE /\ Goto(j, "unlockSource")
              /\ UNCHANGED roomLock
    /\ UNCHANGED <<rowVars, log, sourceLock, overtaken, unseen, arg>>

(* The finally block unlocks in reverse order.  A session that was lost no *)
(* longer holds the key and pg_advisory_unlock changes nothing.            *)
UnlockRoom(j) ==
    /\ pc[j] = "unlockRoom"
    /\ roomLock' = [roomLock EXCEPT ![arg[j].room] = IF @ = j THEN None ELSE @]
    /\ overtaken' = overtaken \ {j}
    /\ unseen' = unseen \ {j}
    /\ Goto(j, "unlockSource")
    /\ UNCHANGED <<rowVars, log, sourceLock, arg>>

UnlockSource(j) ==
    /\ pc[j] = "unlockSource"
    /\ sourceLock' = [sourceLock EXCEPT ![arg[j].src] = IF @ = j THEN None ELSE @]
    /\ Return(j)
    /\ UNCHANGED <<rowVars, log, roomLock, overtaken, unseen>>
-----------------------------------------------------------------------------
(* syncCalendarSource, inside the locks.                                   *)

(* Bug: the source is not checked again under the lock.                    *)
RereadUnchecked(j) ==
    /\ pc[j] = "reread"
    /\ arg' = [arg EXCEPT ![j].url = row[arg[j].src].url]
    /\ Goto(j, "markStale")
    /\ UNCHANGED <<rowVars, lockVars, log>>

Reread(j) ==
    LET s == arg[j].src IN
    /\ pc[j] = "reread"
    /\ IF Syncable(s) /\ row[s].room = arg[j].room
         THEN /\ arg' = [arg EXCEPT ![j].url = row[s].url]
              /\ Goto(j, "markStale")
         ELSE /\ Goto(j, "unlockRoom")
              /\ UNCHANGED arg
    /\ UNCHANGED <<rowVars, lockVars, log>>

(* Bug: every old log times out, not only a RUNNING one.                   *)
TimedOutAnyStatus(l, s) == log[l].source = s /\ log[l].age = "stale"

TimedOut(l, s) ==
    log[l].source = s /\ log[l].status = "RUNNING" /\ log[l].age = "stale"

MarkStale(j) ==
    /\ pc[j] = "markStale"
    /\ log' = [l \in Logs |-> IF TimedOut(l, arg[j].src)
                                THEN [log[l] EXCEPT !.status = "TIMEOUT"]
                                ELSE log[l]]
    /\ Goto(j, "createLog")
    /\ UNCHANGED <<rowVars, lockVars, arg>>

(* A deletion of s has looked for syncs in progress and has yet to delete. *)
Deleting(s) == \E i \in Jobs : pc[i] = "deleteRows" /\ arg[i].src = s

(* The row may be gone (foreign key): the error leaves no log behind.      *)
CreateLog(j) ==
    LET s == arg[j].src IN
    /\ pc[j] = "createLog"
    /\ \/ /\ Present(s)
          /\ \E l \in Logs :
                /\ log[l].status = "UNUSED"
                /\ log' = [log EXCEPT ![l] =
                             [source |-> s, status |-> "RUNNING", age |-> "fresh"]]
                /\ arg' = [arg EXCEPT ![j].log = l]
          /\ unseen' = IF Deleting(s) THEN unseen \cup {j} ELSE unseen
          /\ Goto(j, "fetch")
       \/ /\ ~Present(s) \/ \A l \in Logs : log[l].status # "UNUSED"
          /\ Goto(j, "unlockRoom")
          /\ UNCHANGED <<log, arg, unseen>>
    /\ UNCHANGED <<rowVars, sourceLock, roomLock, overtaken>>

(* The OTA request and the parse: an HTTP error, an abort or an unreadable *)
(* document ends in the catch block.                                       *)
Fetch(j) ==
    /\ pc[j] = "fetch"
    /\ \E next \in {"validate", "fail"} : Goto(j, next)
    /\ UNCHANGED <<rowVars, lockVars, log, arg>>

(* findCalendarFeedSafetyContext, validateCalendarFeedTransition: the feed *)
(* is accepted or quarantined; without its source the sync fails.          *)
Validate(j) ==
    /\ pc[j] = "validate"
    /\ \E next \in {"persist", "quarantine", "fail"} :
          /\ ~Present(arg[j].src) => next = "fail"
          /\ Goto(j, next)
    /\ UNCHANGED <<rowVars, lockVars, log, arg>>

(* persistReservationSync is one transaction; both updates at its end fail *)
(* when their row is gone, and so does any other statement of it.          *)
PersistTx(j) ==
    LET s == arg[j].src  l == arg[j].log IN
    /\ pc[j] = "persist"
    /\ Present(s)
    /\ log[l].status # "DELETED"
    /\ log' = [log EXCEPT ![l].status = "SUCCESS"]
    /\ row' = [row EXCEPT ![s].status = "NORMAL"]
    /\ feed' = [feed EXCEPT ![s] = arg[j].url]
    /\ \/ Goto(j, "unlockRoom")
       \/ "ackLoss" \in Faults /\ Goto(j, "fail")
    /\ UNCHANGED <<activeRooms, lockVars, arg>>

PersistRollback(j) ==
    /\ pc[j] = "persist"
    /\ \/ ~Present(arg[j].src)
       \/ log[arg[j].log].status = "DELETED"
       \/ "dbError" \in Faults
    /\ Goto(j, "fail")
    /\ UNCHANGED <<rowVars, lockVars, log, arg>>

(* The catch block: failSyncLog updates the log by id whatever its status, *)
(* and the source too when the feed was quarantined, or nothing at all.    *)
FailTx(j) ==
    LET s == arg[j].src  l == arg[j].log IN
    /\ pc[j] \in {"fail", "quarantine"}
    /\ log[l].status # "DELETED"
    /\ log' = [log EXCEPT ![l].status = "FAILED"]
    /\ IF pc[j] = "quarantine"
         THEN /\ Present(s)
              /\ row' = [row EXCEPT ![s].status = "RECONNECT_REQUIRED"]
         ELSE UNCHANGED row
    /\ Goto(j, "unlockRoom")
    /\ UNCHANGED <<activeRooms, feed, lockVars, arg>>

FailRollback(j) ==
    /\ pc[j] \in {"fail", "quarantine"}
    /\ \/ log[arg[j].log].status = "DELETED"
       \/ ~Present(arg[j].src)
       \/ "dbError" \in Faults
    /\ Goto(j, "unlockRoom")
    /\ UNCHANGED <<rowVars, lockVars, log, arg>>
-----------------------------------------------------------------------------
(* History: the URL changes, by a call that does not hold the key of the   *)
(* source, under syncs that have read it.                                  *)
Overtake(j) ==
    LET s == arg[j].src IN
    /\ overtaken' = IF row'[s].url = row[s].url \/ sourceLock[s] = j THEN overtaken
                    ELSE overtaken \cup
                        {i \in Jobs : pc[i] \in SyncPcs \ {"reread"} /\ arg[i].src = s}
    /\ UNCHANGED unseen
-----------------------------------------------------------------------------
(* replaceCalendarSourceUrlSafely, inside the locks.                       *)

(* Re-read, guards and the OTA request for the submitted URL, which may    *)
(* fail; the URL about to be replaced is remembered.                       *)
Prepare(j) ==
    LET s == arg[j].src IN
    /\ pc[j] = "prepare"
    /\ \/ /\ Present(s)
          /\ row[s].room = arg[j].room
          /\ row[s].url # arg[j].url
          /\ Unique(s, arg[j].room, arg[j].url)
          /\ arg' = [arg EXCEPT ![j].prev = row[s].url]
          /\ Goto(j, "replaceTx")
       \/ /\ Goto(j, "unlockRoom")
          /\ UNCHANGED arg
    /\ UNCHANGED <<rowVars, lockVars, log>>

(* The transaction is READ COMMITTED: it reads the row and looks for a      *)
(* duplicate first, and writes the row by its id afterwards.               *)
ReplaceTx(j) ==
    LET s == arg[j].src IN
    /\ pc[j] = "replaceTx"
    /\ Present(s)
    /\ row[s].room = arg[j].room
    /\ row[s].url = arg[j].prev
    /\ Unique(s, arg[j].room, arg[j].url)
    /\ Goto(j, "replaceWrite")
    /\ UNCHANGED <<rowVars, lockVars, log, arg>>

(* Bug: the URL changes and the reservations of the old feed stay.         *)
ReplaceWriteKeepingFeed(j) ==
    LET s == arg[j].src IN
    /\ pc[j] = "replaceWrite"
    /\ Present(s)
    /\ row' = [row EXCEPT ![s].url = arg[j].url, ![s].status = "NORMAL"]
    /\ Overtake(j)
    /\ Goto(j, "unlockRoom")
    /\ UNCHANGED <<activeRooms, feed, log, sourceLock, roomLock, arg>>

(* The reservations of the old feed are replaced; the log it creates is    *)
(* already SUCCESS when others can see it.                                 *)
ReplaceWrite(j) ==
    LET s == arg[j].src IN
    /\ pc[j] = "replaceWrite"
    /\ Present(s)
    /\ Unique(s, row[s].room, arg[j].url)
    /\ row' = [row EXCEPT ![s].url = arg[j].url, ![s].status = "NORMAL"]
    /\ feed' = [feed EXCEPT ![s] = arg[j].url]
    /\ \E l \in Logs :
          /\ log[l].status = "UNUSED"
          /\ log' = [log EXCEPT ![l] =
                       [source |-> s, status |-> "SUCCESS", age |-> "fresh"]]
    /\ Overtake(j)
    /\ Goto(j, "unlockRoom")
    /\ UNCHANGED <<activeRooms, sourceLock, roomLock, arg>>

(* NOT_FOUND, SCOPE_CHANGED, DUPLICATE or a database error.                *)
ReplaceRollback(j) ==
    /\ pc[j] \in {"replaceTx", "replaceWrite"}
    /\ Goto(j, "unlockRoom")
    /\ UNCHANGED <<rowVars, lockVars, log, arg>>
-----------------------------------------------------------------------------
(* deleteCalendarSourceTransaction, inside the locks.                      *)

(* Bug: the age limit is compared the wrong way round.                     *)
SyncLongRunning(s) == \E l \in Logs :
    log[l].source = s /\ log[l].status = "RUNNING" /\ log[l].age = "stale"

(* The newest RUNNING log is young enough exactly when some RUNNING log is.*)
SyncInProgress(s) == \E l \in Logs :
    log[l].source = s /\ log[l].status = "RUNNING" /\ log[l].age = "fresh"

(* The transaction is READ COMMITTED: it reads the row and its newest      *)
(* RUNNING log first.                                                      *)
DeleteTx(j) ==
    LET s == arg[j].src IN
    /\ pc[j] = "deleteTx"
    /\ Present(s)
    /\ row[s].room = arg[j].room
    /\ ~SyncInProgress(s)
    /\ Goto(j, "deleteRows")
    /\ UNCHANGED <<rowVars, lockVars, log, arg>>

(* The update of isActive locks the row until the commit; the logs deleted *)
(* are those there are by then, and a log inserted later still makes the   *)
(* deletion of the row fail (foreign key), which is a rollback.            *)
DeleteRows(j) ==
    LET s == arg[j].src IN
    /\ pc[j] = "deleteRows"
    /\ Present(s)
    /\ row' = [row EXCEPT ![s].life = "GONE"]
    /\ feed' = [feed EXCEPT ![s] = None]
    /\ log' = [l \in Logs |-> IF log[l].source = s THEN NoRow("DELETED") ELSE log[l]]
    /\ Goto(j, "unlockRoom")
    /\ UNCHANGED <<activeRooms, lockVars, arg>>

(* NOT_FOUND, SCOPE_CHANGED, SYNC_IN_PROGRESS or a database error.         *)
DeleteRollback(j) ==
    /\ pc[j] \in {"deleteTx", "deleteRows"}
    /\ Goto(j, "unlockRoom")
    /\ UNCHANGED <<rowVars, lockVars, log, arg>>
-----------------------------------------------------------------------------
(* The writers that take no lock.  Each writes what it read or was given,  *)
(* whatever happened since; a missing row or a duplicate is an error.      *)

CheckEdit(j) ==
    /\ pc[j] = "checkEdit"
    /\ IF Unique(arg[j].src, arg[j].room, arg[j].url)
         THEN Goto(j, "writeEdit") /\ UNCHANGED arg
         ELSE Return(j)
    /\ UNCHANGED <<rowVars, lockVars, log>>

WriteRow(j) ==
    LET s == arg[j].src IN
    /\ IF Present(s) /\ Unique(s, arg[j].room, arg[j].url)
         THEN row' = [row EXCEPT ![s].room = arg[j].room, ![s].url = arg[j].url,
                                 ![s].life = arg[j].life]
         ELSE UNCHANGED row
    /\ Overtake(j)
    /\ Return(j)
    /\ UNCHANGED <<activeRooms, feed, sourceLock, roomLock, log>>

WriteEdit(j) == pc[j] = "writeEdit" /\ WriteRow(j)

(* updateMany where id and roomId: a source moved meanwhile is a conflict. *)
WriteForm(j) ==
    /\ pc[j] = "writeForm"
    /\ IF row[arg[j].src].room = arg[j].room
         THEN WriteRow(j)
         ELSE Return(j) /\ UNCHANGED <<rowVars, lockVars, log>>

WriteLife(j) ==
    LET s == arg[j].src IN
    /\ pc[j] = "writeLife"
    /\ IF Present(s)
         THEN row' = [row EXCEPT ![s].life = arg[j].life]
         ELSE UNCHANGED row
    /\ Return(j)
    /\ UNCHANGED <<activeRooms, feed, lockVars, log>>
-----------------------------------------------------------------------------
(* setRoomActive, or the same on the room's property or company.           *)
ToggleRoom(r) ==
    /\ "toggle" \in Ops
    /\ activeRooms' = IF r \in activeRooms THEN activeRooms \ {r}
                                           ELSE activeRooms \cup {r}
    /\ UNCHANGED <<row, feed, log, lockVars, pc, arg>>

(* More than CALENDAR_SYNC_STALE_RUNNING_MS have passed since startedAt.   *)
Elapse(l) ==
    /\ log[l].status = "RUNNING" /\ log[l].age = "fresh"
    /\ log' = [log EXCEPT ![l].age = "stale"]
    /\ UNCHANGED <<rowVars, lockVars, pc, arg>>

Freed(lock, j) == [k \in DOMAIN lock |-> IF lock[k] = j THEN None ELSE lock[k]]

(* The process of a job dies: PostgreSQL ends its session and its locks.   *)
Crash(j) ==
    /\ "crash" \in Faults
    /\ pc[j] # "idle"
    /\ sourceLock' = Freed(sourceLock, j)
    /\ roomLock' = Freed(roomLock, j)
    /\ overtaken' = overtaken \ {j}
    /\ unseen' = unseen \ {j}
    /\ Return(j)
    /\ UNCHANGED <<rowVars, log>>

(* Only the lock session dies; Prisma's own connections do not notice.     *)
(* Earlier the next statement on the session throws, which Crash covers.   *)
LoseSession(j) ==
    /\ "sessionLoss" \in Faults
    /\ pc[j] \in CriticalPcs
    /\ sourceLock[arg[j].src] = j
    /\ sourceLock' = Freed(sourceLock, j)
    /\ roomLock' = Freed(roomLock, j)
    /\ UNCHANGED <<rowVars, log, overtaken, unseen, pc, arg>>
-----------------------------------------------------------------------------
Start(j) ==
    \/ StartSync(j) \/ StartReplace(j) \/ StartDelete(j)
    \/ StartEdit(j) \/ StartForm(j) \/ StartToggle(j)

Advance(j) ==
    \/ TrySource(j) \/ TryRoom(j) \/ UnlockRoom(j) \/ UnlockSource(j)
    \/ Reread(j) \/ MarkStale(j) \/ CreateLog(j) \/ Fetch(j) \/ Validate(j)
    \/ PersistTx(j) \/ PersistRollback(j) \/ FailTx(j) \/ FailRollback(j)
    \/ Prepare(j) \/ ReplaceTx(j) \/ ReplaceWrite(j) \/ ReplaceRollback(j)
    \/ DeleteTx(j) \/ DeleteRows(j) \/ DeleteRollback(j)
    \/ CheckEdit(j) \/ WriteEdit(j) \/ WriteForm(j) \/ WriteLife(j)

Next ==
    \/ \E j \in Jobs : Start(j) \/ Advance(j) \/ Crash(j) \/ LoseSession(j)
    \/ \E r \in Rooms : ToggleRoom(r)
    \/ \E l \in Logs : Elapse(l)

Spec == Init /\ [][Next]_vars

(* A call that has begun is driven to its end by the event loop: every     *)
(* statement returns or throws and the OTA request has a timeout.          *)
FairSpec == Spec /\ \A j \in Jobs : WF_vars(Advance(j))
-----------------------------------------------------------------------------
(* What a job has in hand at each label.                                  *)
ArgOK(j) ==
    /\ pc[j] # "idle" => arg[j] \in Arg
    /\ pc[j] \in LoggedPcs => arg[j].log \in Logs
    /\ pc[j] \in {"trySource", "tryRoom"} /\ arg[j].op = "replace" => arg[j].url \in Urls
    /\ pc[j] \in {"prepare", "replaceTx", "replaceWrite", "checkEdit", "writeEdit",
                 "writeForm"} => arg[j].url \in Urls

TypeOK ==
    /\ row \in [Sources -> Row]
    /\ activeRooms \subseteq Rooms
    /\ log \in [Logs -> Log]
    /\ feed \in [Sources -> Urls \cup {None}]
    /\ sourceLock \in [Sources -> Jobs \cup {None}]
    /\ roomLock \in [Rooms -> Jobs \cup {None}]
    /\ pc \in [Jobs -> Pcs]
    /\ arg \in [Jobs -> Arg \cup {NoArg}]
    /\ overtaken \subseteq Jobs
    /\ unseen \subseteq Jobs
    /\ \A j \in Jobs : ArgOK(j)

(* What makes the properties below inductive.  A job holds the keys its    *)
(* label says, a sync past its check works on a NORMAL source, a prepared  *)
(* replacement brings another URL and an unfinished sync owns a RUNNING    *)
(* log of its source.                                                      *)
LockInv ==
    /\ \A j \in Jobs : pc[j] \in LockedPcs => sourceLock[arg[j].src] = j
    /\ \A j \in Jobs : pc[j] \in CriticalPcs => roomLock[arg[j].room] = j

StatusInv == \A j \in Jobs :
    /\ pc[j] \in SyncPcs \ {"reread"} => row[arg[j].src].status = "NORMAL"
    /\ pc[j] \in {"replaceTx", "replaceWrite"} => arg[j].prev # arg[j].url

OpenLogInv == \A j \in Jobs : pc[j] \in LoggedPcs =>
    log[arg[j].log].status = "RUNNING" /\ log[arg[j].log].source = arg[j].src

(* A writer without a lock does not write a deleted row, and a sync that    *)
(* holds its source key and was not overtaken has the URL of the row.      *)
LifeInv == \A j \in Jobs :
    pc[j] \in {"checkEdit", "writeEdit", "writeForm", "writeLife"} => arg[j].life # "GONE"

UrlInv == \A j \in Jobs :
    pc[j] \in SyncPcs \ {"reread"} /\ sourceLock[arg[j].src] = j /\ j \notin overtaken
      => arg[j].url = row[arg[j].src].url

(* While a deletion is between its check and its deletes, only the logs    *)
(* opened since are young and running.                                     *)
UnseenInv == \A j \in Jobs : pc[j] \in LoggedPcs =>
    /\ log[arg[j].log].status # "UNUSED"
    /\ log[arg[j].log].status # "DELETED" => log[arg[j].log].source = arg[j].src
    /\ Deleting(arg[j].src) /\ j \notin unseen
         => log[arg[j].log].status # "RUNNING" \/ log[arg[j].log].age = "stale"

(* Two locked calls never work on one source, and never recompute the      *)
(* conflicts of one room, even for different sources: the room key is that *)
(* of the room they read.                                                  *)
SourceExclusion == \A i, j \in Jobs :
    i # j /\ pc[i] \in CriticalPcs /\ pc[j] \in CriticalPcs
      => arg[i].src # arg[j].src

RoomExclusion == \A i, j \in Jobs :
    i # j /\ pc[i] \in CriticalPcs /\ pc[j] \in CriticalPcs
      => arg[i].room # arg[j].room

(* README.md:104: whatever instances run, locked calls exclude each other. *)
MutualExclusion == SourceExclusion /\ RoomExclusion

(* A quarantined source comes back to NORMAL only by a replacement that    *)
(* brings another URL than the one it has just found in the row: no sync   *)
(* that was already past its check may lift the quarantine.                *)
QuarantineSticky == [][\A s \in Sources :
    row[s].status = "RECONNECT_REQUIRED" /\ row'[s].status = "NORMAL" =>
        \E j \in Jobs : /\ pc[j] = "replaceWrite" /\ arg[j].src = s
                        /\ row'[s].url = arg[j].url /\ arg[j].url # arg[j].prev]_vars

(* The outcome recorded for a sync attempt is final: neither the catch     *)
(* block nor a later sync rewrites a SUCCESS, FAILED or TIMEOUT log.       *)
OutcomeFinal == [][\A l \in Logs :
    log[l].status \in Terminal /\ log'[l].status # log[l].status
      => log'[l].status = "DELETED"]_vars

(* A source is not deleted under a sync whose log is young and RUNNING,    *)
(* but for a log opened after the deletion had looked: the deletion checks *)
(* and deletes in separate statements, and only the keys keep a sync out   *)
(* of the time between, so one of the two must have lost its lock session. *)
DeleteSparesSync == [][\A s \in Sources, j \in Jobs :
    Present(s) /\ ~Present(s)' /\ pc[j] \in LoggedPcs /\ arg[j].src = s
      => \/ log[arg[j].log] # [source |-> s, status |-> "RUNNING", age |-> "fresh"]
         \/ j \in unseen]_vars

(* The stored reservations of a source come from its current URL, however  *)
(* syncs and replacements overlap and whatever commits are not             *)
(* acknowledged.  Only three things can leave those of another URL: a form *)
(* or an edit that writes the URL it read; a sync that has lost its lock;  *)
(* and a sync whose URL was changed meanwhile by a form, an edit, or a     *)
(* replacement that has lost its lock.                                     *)
Follows(s) == Present(s) /\ feed[s] # None => feed[s] = row[s].url

FeedFollowsUrl == [][\A s \in Sources : Follows(s) /\ ~Follows(s)' =>
    \E j \in Jobs :
        /\ \/ pc[j] \in {"writeEdit", "writeForm"}
           \/ pc[j] = "persist" /\ (sourceLock[s] # j \/ j \in overtaken)
        /\ arg[j].src = s]_vars

(* update-room-with-calendar-sources.ts:168: an existing URL changes only  *)
(* through the URL replacement, which also replaces the reservations.      *)
UrlChangesByReplacement == [][\A s \in Sources :
    row'[s].url # row[s].url => feed'[s] = row'[s].url]_vars

(* No path through an operation keeps an advisory lock: a key that is held *)
(* is released again.                                                      *)
LocksReleased ==
    /\ \A s \in Sources : sourceLock[s] # None ~> sourceLock[s] = None
    /\ \A r \in Rooms : roomLock[r] # None ~> roomLock[r] = None
=============================================================================
