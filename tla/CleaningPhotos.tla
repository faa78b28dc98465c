--------------------------- MODULE CleaningPhotos ---------------------------
(***************************************************************************)
(* The photos of one cleaning task: rows in the database, files in the     *)
(* storage, and the requests that change both without a transaction that   *)
(* spans the two.                                                          *)
(*                                                                         *)
(*   upload    file first, then a transaction that inserts the row, and    *)
(*             the file is removed again when the transaction fails        *)
(*             (api/cleaning/tasks/[taskId]/photos/route.ts)               *)
(*   deletion  file first, then the row (api/cleaning/photos/[photoId])    *)
(*   clean-up  the daily script that removes expired photos                *)
(*             (scripts/cleanup-cleaning-photos.ts)                        *)
(*                                                                         *)
(* Staff complete the task, correct or revert its completion, and a sync   *)
(* cancels, reopens or deletes it, in between any two steps.               *)
(***************************************************************************)
EXTENDS Integers, FiniteSets

CONSTANTS
    Requests,    \* HTTP requests that may be in flight at the same time
    Uploads,     \* client upload ids, one per chosen file
    Keys,        \* storage keys, numbered; a forgotten one stands for a new random one
    None,        \* no row, no key, no date, no request, nothing at work
    MaxCount,    \* CLEANING_PHOTO_MAX_COUNT
    Retention,   \* CLEANING_PHOTO_RETENTION_DAYS
    Batch,       \* CLEANING_PHOTO_DELETE_BATCH_SIZE
    LastDay,     \* bound of the clock
    Ops,         \* the operations of an instance
    Faults,      \* what may go wrong in it
    MaxKinds     \* bound of the kinds of faults in one behaviour

AllOps == {"UPLOAD", "DELETE", "COMPLETE", "CORRECT", "REVERT", "SYNC", "CLEANUP"}
AllFaults == {"storage", "dbError", "ackLoss", "crash"}

ASSUME BoundsAssumption ==
    /\ MaxCount \in Nat \ {0} /\ Batch \in Nat \ {0}
    /\ Retention \in Nat /\ LastDay \in Nat
ASSUME NoneAssumption ==
    None \notin Uploads \cup Keys \cup Requests \cup Int \cup (Uploads \X Keys)
ASSUME ChoiceAssumption == Ops \subseteq AllOps /\ Faults \subseteq AllFaults

VARIABLES
    task,     \* status and completedAt of the CleaningTask
    photo,    \* the CleaningPhoto rows by clientUploadId
    files,    \* the keys that name a stored file
    req,      \* what each request is doing and has in hand
    lock,     \* who holds pg_advisory_xact_lock(hashtext(taskId))
    cleaner,  \* what the clean-up has still to do
    day,
    mishaps   \* history: what has gone wrong so far

vars == <<task, photo, files, req, lock, cleaner, day, mishaps>>

Days == 0 .. LastDay
Dates == 0 .. LastDay + Retention

-----------------------------------------------------------------------------

\* A row keeps its upload id for ever: a removed photo is a row with no key.
Photo == [key : Keys \cup {None}, due : Dates \cup {None}]
ASSUME RowAssumption == None \notin Photo
Stored(u) == photo[u] # None /\ photo[u].key # None
Active == {u \in Uploads : Stored(u)}

Quiet == [pc |-> "idle", u |-> None, key |-> None, due |-> None]
Idle(r) == req[r].pc \in {"idle", "ok"}

\* Files are named by a new UUID.  Which one is of no importance: the least that
\* nothing refers to stands for it.
Free(k) ==
    /\ k \notin files \cup {photo[u].key : u \in Active} \cup {req[r].key : r \in Requests}
    /\ \A c \in cleaner.todo : c[2] # k
NewKeys == {k \in Keys : Free(k) /\ \A j \in Keys : Free(j) => k <= j}

\* Every role that may work on a task may also work on a completed one.
Workable(status) == status \in {"OPEN", "COMPLETED"}

\* The date the row of an upload gets: of the completion its transaction saw.
DueFor(t) == IF t.status = "COMPLETED" THEN t.completed + Retention ELSE None

\* All photos that are still stored get the same date.
Rescheduled(date) ==
    [u \in Uploads |-> IF Stored(u) THEN [photo[u] EXCEPT !.due = date] ELSE photo[u]]

Removed(u, date) == [photo EXCEPT ![u] = [key |-> None, due |-> date]]

Smooth == UNCHANGED mishaps
Mishap(fault) ==
    /\ fault \in Faults
    /\ mishaps' = mishaps \cup {fault}
    /\ Cardinality(mishaps') <= MaxKinds

At(r, pc) == req[r].pc = pc
Goto(r, pc) == req' = [req EXCEPT ![r].pc = pc]

-----------------------------------------------------------------------------
(* Upload                                                                  *)

\* An upload id whose photo is stored is answered at once; otherwise the
\* status decides.  A refused request changes nothing.
BeginUpload(r, u) ==
    /\ "UPLOAD" \in Ops /\ Idle(r)
    /\ task.status # "DELETED"
    /\ \/ Stored(u) /\ req' = [req EXCEPT ![r] = [Quiet EXCEPT !.pc = "ok", !.u = u]]
       \/ /\ ~Stored(u) /\ Workable(task.status)
          /\ req' = [req EXCEPT ![r] = [Quiet EXCEPT !.pc = "store", !.u = u]]
    /\ UNCHANGED <<task, photo, files, lock, cleaner, day, mishaps>>

\* A write that fails may leave part of the file behind.
Store(r) ==
    /\ At(r, "store")
    /\ \E k \in NewKeys :
         \/ /\ files' = files \cup {k} /\ Smooth
            /\ req' = [req EXCEPT ![r].pc = "check", ![r].key = k]
         \/ /\ Mishap("storage")
            /\ files' \in {files, files \cup {k}}
            /\ req' = [req EXCEPT ![r] = Quiet]
    /\ UNCHANGED <<task, photo, lock, cleaner, day>>

\* The transaction reads the task before it takes the lock.
Check(r) ==
    /\ At(r, "check")
    /\ IF Workable(task.status)
         THEN req' = [req EXCEPT ![r].pc = "count", ![r].due = DueFor(task)]
         ELSE Goto(r, "undo")
    /\ UNCHANGED <<task, photo, files, lock, cleaner, day, mishaps>>

\* The lock waits, and lasts until the transaction ends.
Count(r) ==
    /\ At(r, "count") /\ lock = None
    /\ IF Cardinality(Active) >= MaxCount
         THEN Goto(r, "undo") /\ UNCHANGED lock
         ELSE Goto(r, "insert") /\ lock' = r
    /\ UNCHANGED <<task, photo, files, cleaner, day, mishaps>>

\* Bug: the lock outlives its transaction.
UnlockNever(r) == UNCHANGED lock

Unlock(r) == lock' = IF lock = r THEN None ELSE lock

\* Bug: a removed photo's row is taken again.
InsertAgain(r) ==
    /\ At(r, "insert")
    /\ LET u == req[r].u IN
         /\ photo' = [photo EXCEPT ![u] = [key |-> req[r].key, due |-> req[r].due]]
         /\ req' = [req EXCEPT ![r] = [Quiet EXCEPT !.pc = "ok", !.u = u]]
    /\ lock' = IF lock = r THEN None ELSE lock
    /\ UNCHANGED <<task, files, cleaner, day, mishaps>>

\* The unique key refuses an upload id that has a row, even of a removed photo.
\* A commit whose acknowledgement is lost looks like an error.
Insert(r) ==
    /\ At(r, "insert")
    /\ LET u == req[r].u
           inserted == [photo EXCEPT ![u] = [key |-> req[r].key, due |-> req[r].due]]
       IN  \/ /\ photo[u] # None /\ Smooth
              /\ Goto(r, "undoDuplicate") /\ UNCHANGED photo
           \/ /\ photo[u] = None /\ task.status # "DELETED"
              /\ photo' = inserted
              /\ \/ req' = [req EXCEPT ![r] = [Quiet EXCEPT !.pc = "ok", !.u = u]] /\ Smooth
                 \/ Goto(r, "undo") /\ Mishap("ackLoss")
           \/ /\ (task.status = "DELETED" /\ Smooth) \/ Mishap("dbError")
              /\ Goto(r, "undo") /\ UNCHANGED photo
    /\ Unlock(r)
    /\ UNCHANGED <<task, files, cleaner, day>>

\* Bug: the file stays when the transaction fails.
UndoKeepingFile(r) ==
    /\ req[r].pc \in {"undo", "undoDuplicate"}
    /\ IF At(r, "undo") THEN req' = [req EXCEPT ![r] = Quiet] ELSE Goto(r, "again")
    /\ UNCHANGED <<task, photo, files, lock, cleaner, day, mishaps>>

\* deleteUploadedFile; its own failure is only logged.
Undo(r) ==
    /\ req[r].pc \in {"undo", "undoDuplicate"}
    /\ \/ files' = files \ {req[r].key} /\ Smooth
       \/ UNCHANGED files /\ Mishap("storage")
    /\ IF At(r, "undo")
         THEN req' = [req EXCEPT ![r] = Quiet]
         ELSE req' = [req EXCEPT ![r] = [Quiet EXCEPT !.pc = "again", !.u = req[r].u]]
    /\ UNCHANGED <<task, photo, lock, cleaner, day>>

\* The loser of two requests with one upload id answers with the winner's photo.
Again(r) ==
    /\ At(r, "again")
    /\ IF Stored(req[r].u) THEN Goto(r, "ok") ELSE req' = [req EXCEPT ![r] = Quiet]
    /\ UNCHANGED <<task, photo, files, lock, cleaner, day, mishaps>>

-----------------------------------------------------------------------------
(* Deletion by a user                                                      *)

BeginDelete(r, u) ==
    /\ "DELETE" \in Ops /\ Idle(r)
    /\ Stored(u)
    /\ req' = [req EXCEPT ![r] = [Quiet EXCEPT !.pc = "unlink", !.u = u, !.key = photo[u].key]]
    /\ UNCHANGED <<task, photo, files, lock, cleaner, day, mishaps>>

Unlink(r) ==
    /\ At(r, "unlink")
    /\ \/ Goto(r, "mark") /\ files' = files \ {req[r].key} /\ Smooth
       \/ req' = [req EXCEPT ![r] = Quiet] /\ UNCHANGED files /\ Mishap("storage")
    /\ UNCHANGED <<task, photo, lock, cleaner, day>>

\* updateMany on the key that was read; a second deletion finds nothing.
Mark(r) ==
    /\ At(r, "mark")
    /\ \/ /\ Smooth
          /\ photo' = IF photo[req[r].u].key = req[r].key
                        THEN Removed(req[r].u, None) ELSE photo
       \/ UNCHANGED photo /\ Mishap("dbError")
    /\ req' = [req EXCEPT ![r] = Quiet]
    /\ UNCHANGED <<task, files, lock, cleaner, day>>

-----------------------------------------------------------------------------
(* The task                                                                *)

\* Bug: a completion leaves the photos without a date.
CompleteUnscheduled ==
    /\ "COMPLETE" \in Ops /\ task.status = "OPEN"
    /\ task' = [status |-> "COMPLETED", completed |-> day]
    /\ UNCHANGED <<photo, files, req, lock, cleaner, day, mishaps>>

Complete ==
    /\ "COMPLETE" \in Ops /\ task.status = "OPEN"
    /\ task' = [status |-> "COMPLETED", completed |-> day]
    /\ photo' = Rescheduled(day + Retention)
    /\ UNCHANGED <<files, req, lock, cleaner, day, mishaps>>

\* The date of a completion may be corrected to any day.
Correct(d) ==
    /\ "CORRECT" \in Ops /\ task.status = "COMPLETED"
    /\ task' = [task EXCEPT !.completed = d]
    /\ photo' = Rescheduled(d + Retention)
    /\ UNCHANGED <<files, req, lock, cleaner, day, mishaps>>

Revert ==
    /\ "REVERT" \in Ops /\ task.status = "COMPLETED"
    /\ task' = [status |-> "OPEN", completed |-> None]
    /\ photo' = Rescheduled(None)
    /\ UNCHANGED <<files, req, lock, cleaner, day, mishaps>>

\* A sync cancels an open task, takes the cancellation back, or deletes a task
\* nobody has worked on: one that never had a photo.
SyncTask ==
    /\ "SYNC" \in Ops
    /\ \/ task.status = "OPEN" /\ task' = [task EXCEPT !.status = "CANCELLED"]
       \/ task.status = "CANCELLED" /\ task' = [task EXCEPT !.status = "OPEN"]
       \/ /\ task.status = "OPEN" /\ \A u \in Uploads : photo[u] = None
          /\ task' = [task EXCEPT !.status = "DELETED"]
    /\ UNCHANGED <<photo, files, req, lock, cleaner, day, mishaps>>

-----------------------------------------------------------------------------
(* The clean-up script                                                     *)

Resting == [todo |-> {}, marking |-> None]

Expired == {u \in Active : photo[u].due # None /\ photo[u].due <= day}

\* The oldest expired photos of completed tasks, with their keys.
Candidates ==
    IF task.status # "COMPLETED" THEN {{}}
    ELSE {B \in SUBSET Expired :
            /\ Cardinality(B) = IF Cardinality(Expired) < Batch THEN Cardinality(Expired)
                                                                ELSE Batch
            /\ \A b \in B, u \in Expired \ B : photo[b].due <= photo[u].due}

Select ==
    /\ "CLEANUP" \in Ops /\ cleaner = Resting
    /\ \E B \in Candidates :
         cleaner' = [Resting EXCEPT !.todo = {<<u, photo[u].key>> : u \in B}]
    /\ UNCHANGED <<task, photo, files, req, lock, day, mishaps>>

\* A file that cannot be removed is left for the next run.
CleanFails ==
    /\ cleaner.marking = None /\ Mishap("storage")
    /\ \E c \in cleaner.todo : cleaner' = [cleaner EXCEPT !.todo = @ \ {c}]
    /\ UNCHANGED <<task, photo, files, req, lock, day>>

CleanFile ==
    /\ cleaner.marking = None
    /\ \E c \in cleaner.todo :
         /\ files' = files \ {c[2]}
         /\ cleaner' = [cleaner EXCEPT !.marking = c]
    /\ UNCHANGED <<task, photo, req, lock, day, mishaps>>

\* Bug: the row keeps the key of the file that is gone.
CleanRowKeepingKey ==
    /\ cleaner.marking # None
    /\ cleaner' = [todo |-> cleaner.todo \ {cleaner.marking}, marking |-> None]
    /\ UNCHANGED <<task, photo, files, req, lock, day, mishaps>>

\* When the statement fails, so may the one that records the failure: the run ends.
CleanRow ==
    /\ cleaner.marking # None
    /\ LET u == cleaner.marking[1]
           going == [todo |-> cleaner.todo \ {cleaner.marking}, marking |-> None]
       IN  \/ /\ photo' = IF photo[u].key = cleaner.marking[2]
                             THEN Removed(u, photo[u].due) ELSE photo
              /\ cleaner' = going /\ Smooth
           \/ /\ cleaner' \in {going, Resting} /\ UNCHANGED photo
              /\ Mishap("dbError")
    /\ UNCHANGED <<task, files, req, lock, day>>

-----------------------------------------------------------------------------

\* The process that serves a request ends: its transaction is rolled back.
Crash(r) ==
    /\ ~Idle(r) /\ Mishap("crash")
    /\ req' = [req EXCEPT ![r] = Quiet]
    /\ Unlock(r)
    /\ UNCHANGED <<task, photo, files, cleaner, day>>

CleanerCrash ==
    /\ cleaner # Resting /\ Mishap("crash")
    /\ cleaner' = Resting
    /\ UNCHANGED <<task, photo, files, req, lock, day>>

NextDay ==
    /\ day < LastDay /\ day' = day + 1
    /\ UNCHANGED <<task, photo, files, req, lock, cleaner, mishaps>>

Init ==
    /\ task = [status |-> "OPEN", completed |-> None]
    /\ photo = [u \in Uploads |-> None]
    /\ files = {}
    /\ req = [r \in Requests |-> Quiet]
    /\ lock = None
    /\ cleaner = Resting
    /\ day = 0
    /\ mishaps = {}

Work(r) ==
    \/ Store(r) \/ Check(r) \/ Count(r)
    \/ Insert(r) \/ Undo(r) \/ Again(r) \/ Unlink(r) \/ Mark(r)

Next ==
    \/ \E r \in Requests :
         \/ \E u \in Uploads : BeginUpload(r, u) \/ BeginDelete(r, u)
         \/ Work(r)
         \/ Crash(r)
    \/ Complete \/ Revert \/ SyncTask \/ (\E d \in Days : Correct(d))
    \/ Select \/ CleanFails \/ CleanFile \/ CleanRow \/ CleanerCrash
    \/ NextDay

Spec == Init /\ [][Next]_vars

-----------------------------------------------------------------------------
(* Properties                                                              *)

\* The values the code can hold, and what each step has in hand.
TypeOK ==
    /\ task \in [status : {"OPEN", "COMPLETED", "CANCELLED", "DELETED"},
                 completed : Days \cup {None}]
    /\ task.status = "COMPLETED" <=> task.completed # None
    /\ photo \in [Uploads -> Photo \cup {None}]
    /\ files \subseteq Keys
    /\ req \in [Requests -> [pc : {"idle", "ok", "store", "check", "count", "insert", "undo",
                                   "undoDuplicate", "again", "unlink", "mark"},
                             u : Uploads \cup {None}, key : Keys \cup {None},
                             due : Dates \cup {None}]]
    /\ \A r \in Requests : lock = r => At(r, "insert")
    /\ lock \in Requests \cup {None}
    /\ cleaner.todo \subseteq Uploads \X Keys
    /\ cleaner.marking \in cleaner.todo \cup {None}
    /\ day \in Days
    /\ mishaps \subseteq Faults

\* Someone has removed the file of this key and is about to update its row.
BeingRemoved(k) ==
    \/ \E r \in Requests : At(r, "mark") /\ req[r].key = k
    \/ cleaner.marking # None /\ cleaner.marking[2] = k

\* A photo that the lists show can be read, except while it is being removed,
\* as long as no process dies, the database answers and no acknowledgement is lost.
ShownPhotosReadable == mishaps \subseteq {"storage"} =>
    \A u \in Active : photo[u].key \in files \/ BeingRemoved(photo[u].key)

\* Every file belongs to a row or to a request that has not ended: whatever
\* refuses an upload, its file is removed again.  Holds with failing
\* transactions, but not when the storage refuses or a process dies.
NoOrphanFiles == mishaps \subseteq {"dbError"} =>
    \A k \in files :
        \/ \E u \in Active : photo[u].key = k
        \/ \E r \in Requests : req[r].key = k

\* To everybody outside, the requests, the scripts and their races are a ledger:
\* an upload id is used for one photo, once, also when requests are sent again,
\* a photo comes and goes at once, and however many uploads run at the same time
\* there are never more than allowed.
Ledger == INSTANCE PhotoLedger WITH
    shown <- Active,
    removed <- {u \in Uploads : photo[u] # None /\ photo[u].key = None}

ImplementsLedger == Ledger!Spec

\* A photo of a completed task has its date, so that the clean-up will find it.
\* The only way to one without is an upload whose transaction read the task
\* before the completion; nothing but that upload's own insertion leaves one.
Unscheduled(u) == task.status = "COMPLETED" /\ Stored(u) /\ photo[u].due = None

ScheduledUnlessRaced ==
    [][\A u \in Uploads : Unscheduled(u)' /\ ~Unscheduled(u) =>
         \E r \in Requests : At(r, "insert") /\ req[r].u = u /\ req[r].due = None]_vars
=============================================================================
