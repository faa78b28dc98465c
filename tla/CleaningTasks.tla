---------------------------- MODULE CleaningTasks ----------------------------
(***************************************************************************)
(* The cleaning tasks derived from the reservations of one calendar source *)
(* and the staff who work on them.  A sync, a URL replacement or a         *)
(* deletion of the source runs under its lock, so there is at most one; it *)
(* reads the tasks it is about to remove in one statement and writes them  *)
(* in later ones, and staff transactions commit in between.                *)
(*                                                                         *)
(* A staff transaction reads a task, plans, and writes it under the        *)
(* condition that updatedAt is unchanged: it is one action.  Every one of  *)
(* them writes a CleaningTaskLog.                                          *)
(***************************************************************************)
EXTENDS ReservationReconcile

CONSTANTS
    Tasks,     \* CleaningTask ids, the bound on tasks that exist at a time
    LastDay,   \* bound on the calendar days the model runs through
    Detached,  \* the reservationId of a task without reservation
    Ops        \* a subset of {"replace", "delete", "move", "revert"}

ASSUME LastDayAssumption == LastDay \in Nat
ASSUME DetachedAssumption == Detached \notin Uids

VARIABLES
    today,
    room,   \* the room of the source; NoRoom once the source is deleted
    resv,   \* the reservations of the source
    task,   \* the CleaningTask rows
    plan    \* what the transaction in progress has read and decided

vars == <<today, room, resv, task, plan>>

Actionable == {"PENDING", "IN_PROGRESS"}
Statuses   == Actionable \cup {"COMPLETED", "CANCELLED"}

(* logged: some CleaningTaskLog refers to the task; prev: previousStatus   *)
(* of its last COMPLETED log.  Whatever else makes a task audited (an      *)
(* assignee, a start, a note, a photo) has written a log.                  *)
NoTask == [ref |-> Detached, room |-> NoRoom, status |-> "NONE",
           logged |-> FALSE, day |-> 0, prev |-> "PENDING"]
Task   == [ref: Uids \cup {Detached}, room: Rooms, status: Statuses,
           logged: BOOLEAN, day: Nat, prev: Actionable]
Live(t) == task[t] # NoTask

NoPlan == [op |-> "none"]
Plan   == [op: {"sync", "replace", "delete"}, room: Rooms, after: [Uids -> Stays],
           disposable: SUBSET Tasks, cancellable: SUBSET Tasks, detached: SUBSET Tasks]

Init ==
    /\ today = 0
    /\ room \in Rooms
    /\ resv = [u \in Uids |-> None]
    /\ task = [t \in Tasks |-> NoTask]
    /\ plan = NoPlan
-----------------------------------------------------------------------------
(* removeCalendarSourceReservations up to its first write: the tasks of    *)
(* the reservations to be removed, as they are now.                        *)
Disposable(removed) ==
    {t \in Tasks : task[t].ref \in removed /\ task[t].status = "PENDING" /\ ~task[t].logged}

Cancellable(removed) ==
    {t \in Tasks : task[t].ref \in removed /\ task[t].status \in Actionable}
       \ Disposable(removed)

Begin(op, after, removed) ==
    /\ plan = NoPlan
    /\ room # NoRoom
    /\ plan' = [op |-> op, room |-> room, after |-> after,
                disposable |-> Disposable(removed), cancellable |-> Cancellable(removed),
                detached |-> {t \in Tasks : task[t].ref \in removed} \ Disposable(removed)]
    /\ UNCHANGED <<today, room, resv, task>>

(* persistReservationSync removes the reservations of blocked events.      *)
BeginSync == \E feed \in Feeds, fullyParsed \in BOOLEAN :
    Begin("sync", Reconciled(resv, feed, fullyParsed, today, room),
          BlockedDeletion(resv, feed, fullyParsed))

(* replaceCalendarSourceUrlTransaction removes those that are not over.    *)
BeginReplace == \E feed \in Feeds :
    /\ "replace" \in Ops
    /\ Begin("replace", Replacement(resv, feed, today, room), Replaceable(resv, today))

(* deleteCalendarSourceTransaction removes them all.                       *)
BeginDelete ==
    /\ "delete" \in Ops
    /\ Begin("delete", [u \in Uids |-> None], Stored(resv))
-----------------------------------------------------------------------------
(* Bug: the tasks of removed reservations are detached but not cancelled.  *)
RemovedUncancelled == [t \in Tasks |->
    CASE t \in plan.disposable -> NoTask
      [] t \in plan.detached   -> [task[t] EXCEPT !.ref = Detached]
      [] OTHER                 -> task[t]]

(* The writes of the removal go by the ids that were read, whatever became *)
(* of the tasks since.                                                     *)
Removed == [t \in Tasks |->
    CASE t \in plan.disposable  -> NoTask
      [] t \in plan.cancellable -> [task[t] EXCEPT !.status = "CANCELLED", !.ref = Detached]
      [] t \in plan.detached \ plan.cancellable -> [task[t] EXCEPT !.ref = Detached]
      [] OTHER                  -> task[t]]

(* Bugs: a completed, a started task or a task of another room decides     *)
(* whether a reservation has its task.                                     *)
CoveredUnfinished(tasks, u) == \E t \in Tasks :
    tasks[t].ref = u /\ tasks[t].room = plan.room /\ tasks[t].status # "COMPLETED"
CoveredAnywhere(tasks, u) == \E t \in Tasks : tasks[t].ref = u

(* syncCleaningTasksForCalendarSource.  createMany skips a reservation     *)
(* that has a task in this room (@@unique([reservationId, roomId])).       *)
Confirmed(stays) == {u \in Uids : stays[u].status = "CONFIRMED"}
Covered(tasks, u) == \E t \in Tasks : tasks[t].ref = u /\ tasks[t].room = plan.room

NewTask(u) == [ref |-> u, room |-> plan.room, status |-> "PENDING", logged |-> FALSE,
               day |-> plan.after[u].end, prev |-> "PENDING"]

Created(tasks, ids) == [t \in Tasks |->
    IF \E u \in DOMAIN ids : ids[u] = t
      THEN NewTask(CHOOSE u \in DOMAIN ids : ids[u] = t)
      ELSE tasks[t]]

(* Bug: whatever is not cancelled yet is cancelled with its reservation.   *)
RefreshedCompleted(row) ==
    IF row.ref \in Uids /\ plan.after[row.ref].status = "CANCELLED"
      THEN [row EXCEPT !.status = "CANCELLED"]
      ELSE row

(* The raw UPDATE and the cancellation.  Neither touches a completed task, *)
(* and the first leaves the tasks of another room alone.                   *)
Refreshed(row) ==
    CASE /\ row.ref \in Confirmed(plan.after)
         /\ row.room = plan.room
         /\ row.status \in Actionable \cup {"CANCELLED"} ->
           [row EXCEPT !.day = plan.after[row.ref].end,
                       !.status = IF @ = "CANCELLED" THEN "PENDING" ELSE @]
      [] /\ row.ref \in Uids
         /\ plan.after[row.ref].status = "CANCELLED"
         /\ row.status \in Actionable ->
           [row EXCEPT !.status = "CANCELLED"]
      [] OTHER -> row

(* Bug: the foreign key cascades.                                          *)
LogsCascade == TRUE

(* The foreign key of CleaningTaskLog (Restrict) refuses the deletion of a *)
(* task that got a log after it was found disposable.                      *)
LogsRestrict == \A t \in plan.disposable : ~task[t].logged

Commit ==
    /\ plan # NoPlan
    /\ LogsRestrict
    /\ LET missing == {u \in Confirmed(plan.after) : ~Covered(Removed, u)}
           free    == {t \in Tasks : Removed[t] = NoTask}
       IN \E ids \in [missing -> free] :
            /\ \A u, v \in missing : u # v => ids[u] # ids[v]
            /\ task' = [t \in Tasks |-> Refreshed(Created(Removed, ids)[t])]
    /\ resv' = plan.after
    /\ room' = IF plan.op = "delete" THEN NoRoom ELSE room
    /\ plan' = NoPlan
    /\ UNCHANGED today

(* Any statement may fail; nothing of the transaction remains.             *)
Rollback ==
    /\ plan # NoPlan
    /\ plan' = NoPlan
    /\ UNCHANGED <<today, room, resv, task>>

(* updateCalendarSource with another roomId takes no lock.                 *)
MoveRoom(r) ==
    /\ "move" \in Ops
    /\ room # NoRoom
    /\ room # r
    /\ room' = r
    /\ UNCHANGED <<today, resv, task, plan>>
-----------------------------------------------------------------------------
(* cleaning-task.service.ts                                                *)

Write(t, row) ==
    /\ task' = [task EXCEPT ![t] = [row EXCEPT !.logged = TRUE]]
    /\ UNCHANGED <<today, room, resv, plan>>

Assign(t) == task[t].status \in Actionable /\ Write(t, task[t])

SaveNote(t) == task[t].status \in Actionable /\ Write(t, task[t])

StartCleaning(t) ==
    /\ task[t].status = "PENDING"
    /\ Write(t, [task[t] EXCEPT !.status = "IN_PROGRESS"])

CancelStart(t) ==
    /\ task[t].status = "IN_PROGRESS"
    /\ Write(t, [task[t] EXCEPT !.status = "PENDING"])

(* A task may be completed without having been started.                    *)
Complete(t) ==
    /\ task[t].status \in Actionable
    /\ Write(t, [task[t] EXCEPT !.status = "COMPLETED", !.prev = task[t].status])

(* planCleaningCompletionReversion: back to the status it was completed    *)
(* from, whatever became of its reservation.                               *)
Revert(t) ==
    /\ "revert" \in Ops
    /\ task[t].status = "COMPLETED"
    /\ Write(t, [task[t] EXCEPT !.status = task[t].prev])

NextDay ==
    /\ today < LastDay
    /\ today' = today + 1
    /\ UNCHANGED <<room, resv, task, plan>>

Staff(t) ==
    \/ Assign(t) \/ SaveNote(t) \/ StartCleaning(t)
    \/ CancelStart(t) \/ Complete(t) \/ Revert(t)

Next ==
    \/ BeginSync \/ BeginReplace \/ BeginDelete
    \/ Commit \/ Rollback
    \/ \E r \in Rooms : MoveRoom(r)
    \/ \E t \in Tasks : Staff(t)
    \/ NextDay

Spec == Init /\ [][Next]_vars
-----------------------------------------------------------------------------
(* A reservation never has two tasks in one room, the schema's unique key; *)
(* and a task refers to a reservation that exists, its foreign key.        *)
TypeOK ==
    /\ today \in 0..LastDay
    /\ room \in Rooms \cup {NoRoom}
    /\ resv \in [Uids -> Stays]
    /\ task \in [Tasks -> Task \cup {NoTask}]
    /\ plan \in Plan \cup {NoPlan}
    /\ \A t, v \in Tasks :
         t # v /\ task[t].ref = task[v].ref /\ task[t].room = task[v].room
           => task[t].ref = Detached
    /\ \A t \in Tasks : task[t].ref \in Stored(resv) \cup {Detached}

(* calendar-source-reservation-removal.ts:15-17: a task somebody worked on *)
(* is retained with its log, through every race with a removal.            *)
AuditKept == [][\A t \in Tasks : task[t].logged => task'[t].logged]_vars

(* A task is completed until it is reverted, except that a removal which   *)
(* read it unfinished overwrites it.                                       *)
CompletionRespected == [][\A t \in Tasks :
    task[t].status = "COMPLETED" /\ task'[t].status # "COMPLETED"
      => Revert(t) \/ t \in plan.cancellable]_vars

(* cleaning-task-sync-policy.test.ts:29: only unfinished tasks are         *)
(* cancelled.                                                              *)
OnlyUnfinishedCancelled == [][\A t \in Tasks :
    task[t].status = "COMPLETED" => task'[t].status # "CANCELLED"]_vars

(* After a sync or a replacement every confirmed stay has its task in the  *)
(* room, done or due on the check-out day, and no cancelled stay has one   *)
(* left to do.                                                             *)
CommitSettles == [][Commit => \A u \in Uids :
    /\ plan.after[u].status = "CONFIRMED" => \E t \in Tasks :
         /\ task'[t].ref = u /\ task'[t].room = plan.room
         /\ \/ task'[t].status = "COMPLETED"
            \/ task'[t].status \in Actionable /\ task'[t].day = plan.after[u].end
    /\ plan.after[u].status # "CONFIRMED" => \A t \in Tasks :
         task'[t].ref = u => task'[t].status \notin Actionable]_vars

(* A task left to do has its stay, confirmed and not removed, unless its   *)
(* completion was reverted after, or while, the stay was removed.          *)
Orphaned(t) == task[t].status \in Actionable /\ task[t].ref \notin Confirmed(resv)

OrphanedByReversion == [][\A t \in Tasks : ~Orphaned(t) /\ Orphaned(t)' =>
    Revert(t) \/ (Commit /\ t \notin plan.disposable \cup plan.cancellable)]_vars
=============================================================================
