------------------------ MODULE CleaningTasks_proofs ------------------------
(* Proofs about CleaningTasks for every number of reservations, tasks,     *)
(* rooms and days.                                                         *)
EXTENDS CleaningTasks, TLAPS

(* What a plan leaves to a commit: a task whose reservation will be gone is*)
(* in its hands, for a task never changes its reservation otherwise.       *)
PlanOK == plan # NoPlan =>
    /\ plan.disposable \cap (plan.cancellable \cup plan.detached) = {}
    /\ plan.cancellable \subseteq plan.detached
    /\ \A t \in plan.detached : task[t] # NoTask
    /\ \A t \in Tasks : task[t].ref \in Stored(plan.after) \cup {Detached}
                          \/ t \in plan.disposable \cup plan.detached

(* Completing a task has written a log.                                    *)
CompletedLogged == \A t \in Tasks : task[t].status = "COMPLETED" => task[t].logged

TasksInv == TypeOK /\ PlanOK /\ CompletedLogged

(* An event that is a reservation makes a stay.                            *)
LEMMA StayType ==
    ASSUME NEW feed \in Feeds, NEW u \in Incoming(feed), NEW r \in Rooms
    PROVE  Stay(feed[u], r) \in Stays \ {None}
<1>1. feed[u] \in Events /\ feed[u].kind = "reservation"
  BY DEF Feeds, Incoming
<1>2. PICK status \in {"CONFIRMED", "CANCELLED"}, i \in Intervals : feed[u] = Event(status, i)
  BY <1>1 DEF Events, NoEvent
<1> QED BY <1>2 DEF Event, Stay, Stays, None

(* A reconciliation keeps every stored stay that is not a blocked event,   *)
LEMMA ReconciledType ==
    ASSUME NEW stays \in [Uids -> Stays], NEW feed \in Feeds, NEW fullyParsed \in BOOLEAN,
           NEW day \in Nat, NEW r \in Rooms
    PROVE  /\ Reconciled(stays, feed, fullyParsed, day, r) \in [Uids -> Stays]
           /\ Stored(stays) \ BlockedDeletion(stays, feed, fullyParsed)
                \subseteq Stored(Reconciled(stays, feed, fullyParsed, day, r))
<1> DEFINE new == Reconciled(stays, feed, fullyParsed, day, r)
<1>0. /\ Create(stays, feed) \cap Update(stays, feed) = {}
      /\ (Create(stays, feed) \cup Update(stays, feed))
           \cap (BlockedDeletion(stays, feed, fullyParsed)
                   \cup StaleCancellation(stays, feed, fullyParsed, day)) = {}
      /\ BlockedDeletion(stays, feed, fullyParsed)
           \cap StaleCancellation(stays, feed, fullyParsed, day) = {}
  BY DEF Create, Update, BlockedDeletion, StaleCancellation, Incoming
<1>1. ASSUME NEW u \in Uids
      PROVE  /\ new[u] \in Stays
             /\ u \in Stored(stays) \ BlockedDeletion(stays, feed, fullyParsed) => new[u] # None
  <2>1. CASE u \in Create(stays, feed)
    <3>1. new[u] = Stay(feed[u], r)
      BY <1>0, <2>1 DEF Reconciled
    <3> QED BY <2>1, <3>1, StayType DEF Create
  <2>2. CASE u \in Update(stays, feed)
    <3>1. new[u] = Stay(feed[u], stays[u].room)
      BY <1>0, <2>2 DEF Reconciled
    <3>2. u \in Incoming(feed) /\ stays[u].room \in Rooms
      BY <2>2 DEF Update, Stored, Stays
    <3> QED BY <3>1, <3>2, StayType
  <2>3. CASE u \in BlockedDeletion(stays, feed, fullyParsed)
    <3>1. new[u] = None
      BY <1>0, <2>3 DEF Reconciled
    <3> QED BY <2>3, <3>1 DEF Stays
  <2>4. CASE u \in StaleCancellation(stays, feed, fullyParsed, day)
    <3>1. new[u] = [stays[u] EXCEPT !.status = "CANCELLED"]
      BY <1>0, <2>4 DEF Reconciled
    <3>2. stays[u] \in Stays \ {None}
      BY <2>4 DEF StaleCancellation, Stored
    <3> QED BY <3>1, <3>2 DEF Stays, None
  <2>5. CASE u \notin Create(stays, feed) \cup Update(stays, feed)
                     \cup BlockedDeletion(stays, feed, fullyParsed)
                     \cup StaleCancellation(stays, feed, fullyParsed, day)
    <3>1. new[u] = stays[u]
      BY <2>5 DEF Reconciled
    <3> QED BY <3>1 DEF Stored
  <2> QED BY <2>1, <2>2, <2>3, <2>4, <2>5
<1>2. new = [u \in Uids |-> new[u]]
  BY DEF Reconciled
<1> HIDE DEF new
<1>3. new \in [Uids -> Stays]
  BY <1>1, <1>2
<1> QED BY <1>1, <1>3 DEF new, Stored

(* and a replacement those that are over.                                  *)
LEMMA ReplacementType ==
    ASSUME NEW stays \in [Uids -> Stays], NEW feed \in Feeds, NEW day \in Nat, NEW r \in Rooms
    PROVE  /\ Replacement(stays, feed, day, r) \in [Uids -> Stays]
           /\ Stored(stays) \ Replaceable(stays, day)
                \subseteq Stored(Replacement(stays, feed, day, r))
<1> DEFINE new == Replacement(stays, feed, day, r)
<1>1. ASSUME NEW u \in Uids
      PROVE  /\ new[u] \in Stays
             /\ u \in Stored(stays) \ Replaceable(stays, day) => new[u] # None
  <2>1. CASE u \in Stored(stays) \ Replaceable(stays, day)
    <3>1. new[u] = stays[u]
      BY <2>1 DEF Replacement
    <3> QED BY <2>1, <3>1 DEF Stored
  <2>2. CASE u \in Incoming(feed) /\ u \notin Stored(stays) \ Replaceable(stays, day)
    <3>1. new[u] = Stay(feed[u], r)
      BY <2>2 DEF Replacement, Replaceable
    <3> QED BY <2>2, <3>1, StayType
  <2>3. CASE u \notin Incoming(feed) /\ u \notin Stored(stays) \ Replaceable(stays, day)
    <3>1. new[u] = None
      BY <2>3 DEF Replacement
    <3> QED BY <2>3, <3>1 DEF Stays
  <2> QED BY <2>1, <2>2, <2>3
<1>2. new = [u \in Uids |-> new[u]]
  BY DEF Replacement
<1> HIDE DEF new
<1>3. new \in [Uids -> Stays]
  BY <1>1, <1>2
<1> QED BY <1>1, <1>3 DEF new, Stored

(* Nothing is stored in the beginning.                                     *)
LEMMA TasksInit == Init => TasksInv
<1> SUFFICES ASSUME Init PROVE TasksInv
  OBVIOUS
<1>1. TypeOK
  BY LastDayAssumption DEF Init, TypeOK, NoTask, Stays, Stored
<1>2. PlanOK /\ CompletedLogged
  BY DEF Init, PlanOK, CompletedLogged, NoTask
<1> QED BY <1>1, <1>2 DEF TasksInv

(* A removal begins with the tasks as they are.                            *)
LEMMA BeginKeeps ==
    ASSUME TasksInv, NEW op \in {"sync", "replace", "delete"}, NEW after \in [Uids -> Stays],
           NEW removed \in SUBSET Stored(resv), Stored(resv) \ removed \subseteq Stored(after),
           Begin(op, after, removed)
    PROVE  TasksInv'
<1>1. UNCHANGED <<today, room, resv, task>>
  BY DEF Begin
<1>2. /\ plan' \in Plan
      /\ plan'.after = after /\ plan'.disposable = Disposable(removed)
      /\ plan'.cancellable = Cancellable(removed)
      /\ plan'.detached = {t \in Tasks : task[t].ref \in removed} \ Disposable(removed)
  <2>1. /\ Disposable(removed) \subseteq Tasks /\ Cancellable(removed) \subseteq Tasks
        /\ room \in Rooms
    BY DEF Begin, Disposable, Cancellable, TasksInv, TypeOK
  <2> QED BY <2>1 DEF Begin, Plan
<1>3. TypeOK'
  BY <1>1, <1>2 DEF TasksInv, TypeOK, Stored
<1>4. PlanOK'
  <2>1. /\ Disposable(removed) \cap (Cancellable(removed) \cup plan'.detached) = {}
        /\ Cancellable(removed) \subseteq plan'.detached
    BY <1>2 DEF Cancellable
  <2>2. \A t \in plan'.detached : task[t] # NoTask
    BY <1>2, DetachedAssumption DEF Stored, NoTask
  <2>3. \A t \in Tasks : task[t].ref \in Stored(after) \cup {Detached}
                           \/ t \in plan'.disposable \cup plan'.detached
    BY <1>2 DEF TasksInv, TypeOK
  <2> QED BY <1>1, <1>2, <2>1, <2>2, <2>3 DEF PlanOK, Stored
<1> QED BY <1>1, <1>3, <1>4 DEF TasksInv, CompletedLogged

(* Each kind of removal is one that BeginKeeps is about.                   *)
LEMMA BeginsKeep ==
    ASSUME TasksInv, BeginSync \/ BeginReplace \/ BeginDelete
    PROVE  TasksInv'
<1>1. plan = NoPlan /\ room \in Rooms /\ resv \in [Uids -> Stays] /\ today \in Nat
  BY LastDayAssumption DEF BeginSync, BeginReplace, BeginDelete, Begin, TasksInv, TypeOK
<1>2. CASE BeginSync
  <2>1. PICK feed \in Feeds, fullyParsed \in BOOLEAN :
          Begin("sync", Reconciled(resv, feed, fullyParsed, today, room),
                BlockedDeletion(resv, feed, fullyParsed))
    BY <1>2 DEF BeginSync
  <2>2. BlockedDeletion(resv, feed, fullyParsed) \in SUBSET Stored(resv)
    BY DEF BlockedDeletion
  <2> QED BY <1>1, <2>1, <2>2, ReconciledType, BeginKeeps
<1>3. CASE BeginReplace
  <2>1. PICK feed \in Feeds :
          Begin("replace", Replacement(resv, feed, today, room), Replaceable(resv, today))
    BY <1>3 DEF BeginReplace
  <2>2. Replaceable(resv, today) \in SUBSET Stored(resv)
    BY DEF Replaceable
  <2> QED BY <1>1, <2>1, <2>2, ReplacementType, BeginKeeps
<1>4. CASE BeginDelete
  <2>1. [u \in Uids |-> None] \in [Uids -> Stays]
    BY DEF Stays
  <2>2. Begin("delete", [u \in Uids |-> None], Stored(resv))
    BY <1>4 DEF BeginDelete
  <2> QED BY <2>1, <2>2, BeginKeeps
<1> QED BY <1>2, <1>3, <1>4

(* Rows with the reservation and the room of a task.                       *)
RowsLike(t) == {row \in Task : row.ref = task[t].ref /\ row.room = task[t].room}

(* What the staff write keeps a task with its reservation and in its room. *)
LEMMA StaffWrites ==
    ASSUME TasksInv, NEW t \in Tasks, Staff(t)
    PROVE  /\ UNCHANGED <<today, room, resv, plan>>
           /\ task' \in [Tasks -> Task \cup {NoTask}]
           /\ \A v \in Tasks \ {t} : task'[v] = task[v]
           /\ task[t] \in Task /\ task'[t] \in Task
           /\ task'[t].ref = task[t].ref /\ task'[t].room = task[t].room /\ task'[t].logged
           /\ task[t].status \notin Actionable => Revert(t)
<1>1. task[t] \in Task
  BY DEF Staff, Assign, SaveNote, StartCleaning, CancelStart, Complete, Revert,
         TasksInv, TypeOK, NoTask, Actionable
<1>2. Actionable \subseteq Statuses /\ {"PENDING", "IN_PROGRESS"} \subseteq Actionable
  BY DEF Statuses, Actionable
<1>3. task[t].status \in Statuses /\ task[t].prev \in Actionable
  BY <1>1 DEF Task
<1>4. ASSUME NEW status \in Statuses, NEW prev \in Actionable
      PROVE  /\ [task[t] EXCEPT !.status = status] \in RowsLike(t)
             /\ [task[t] EXCEPT !.status = status, !.prev = prev] \in RowsLike(t)
             /\ task[t] \in RowsLike(t)
  BY <1>1 DEF Task, RowsLike
<1>5. \E row \in RowsLike(t) : Write(t, row)
  <2>1. CASE Assign(t) \/ SaveNote(t)
    BY <1>3, <1>4, <2>1 DEF Assign, SaveNote
  <2>2. CASE StartCleaning(t)
    BY <1>2, <1>3, <1>4, <2>2 DEF StartCleaning
  <2>3. CASE CancelStart(t)
    BY <1>2, <1>3, <1>4, <2>3 DEF CancelStart
  <2>4. CASE Complete(t)
    <3>1. "COMPLETED" \in Statuses /\ task[t].status \in Actionable
      BY <2>4 DEF Statuses, Complete
    <3> QED BY <1>4, <2>4, <3>1 DEF Complete
  <2>5. CASE Revert(t)
    BY <1>2, <1>3, <1>4, <2>5 DEF Revert
  <2> QED BY <2>1, <2>2, <2>3, <2>4, <2>5 DEF Staff
<1>6. PICK row \in RowsLike(t) : Write(t, row)
  BY <1>5
<1>7. /\ [row EXCEPT !.logged = TRUE] \in Task
      /\ [row EXCEPT !.logged = TRUE].ref = task[t].ref
      /\ [row EXCEPT !.logged = TRUE].room = task[t].room
      /\ [row EXCEPT !.logged = TRUE].logged
  BY DEF RowsLike, Task
<1>8. /\ task' = [task EXCEPT ![t] = [row EXCEPT !.logged = TRUE]]
      /\ UNCHANGED <<today, room, resv, plan>>
  BY <1>6 DEF Write
<1>9. task[t].status \notin Actionable => Revert(t)
  BY DEF Staff, Assign, SaveNote, StartCleaning, CancelStart, Complete, Actionable
<1>10. task'[t] = [row EXCEPT !.logged = TRUE]
  BY <1>8 DEF TasksInv, TypeOK
<1> QED BY <1>1, <1>7, <1>8, <1>9, <1>10 DEF TasksInv, TypeOK

(* So the staff keep the invariant.                                        *)
LEMMA StaffKeeps ==
    ASSUME TasksInv, NEW t \in Tasks, Staff(t)
    PROVE  TasksInv'
<1>1. /\ UNCHANGED <<today, room, resv, plan>>
      /\ task' \in [Tasks -> Task \cup {NoTask}]
      /\ \A v \in Tasks : task'[v].ref = task[v].ref
      /\ \A v \in Tasks \ {t} : task'[v] = task[v]
      /\ task'[t].room = task[t].room /\ task'[t].logged
  BY StaffWrites
<1>2. TypeOK'
  BY <1>1 DEF TasksInv, TypeOK, Stored
<1>3. PlanOK'
  <2>1. \A v \in Tasks : task[v] # NoTask => task'[v] # NoTask
    BY StaffWrites DEF Task, NoTask, Statuses, Actionable
  <2> QED BY <1>1, <2>1 DEF TasksInv, TypeOK, PlanOK, Stored, Plan
<1>4. CompletedLogged'
  BY <1>1 DEF TasksInv, CompletedLogged
<1> QED BY <1>2, <1>3, <1>4 DEF TasksInv

(* What the removal leaves of each task.                                   *)
LEMMA RemovedFacts ==
    ASSUME TasksInv, plan # NoPlan, NEW t \in Tasks
    PROVE  /\ Removed[t] \in Task \cup {NoTask}
           /\ Removed[t].ref \in Stored(plan.after) \cup {Detached}
           /\ Removed[t].ref # Detached => Removed[t] = task[t]
           /\ t \in plan.disposable => Removed[t] = NoTask
           /\ t \notin plan.disposable =>
                /\ task[t] = NoTask <=> Removed[t] = NoTask
                /\ Removed[t].logged = task[t].logged
                /\ Removed[t].status = IF t \in plan.cancellable THEN "CANCELLED" ELSE task[t].status
<1>1. plan \in Plan /\ PlanOK
  BY DEF TasksInv, TypeOK
<1>2. CASE t \in plan.disposable
  <2>1. Removed[t] = NoTask
    BY <1>1, <1>2 DEF Removed, PlanOK
  <2>2. NoTask.ref = Detached
    BY DEF NoTask
  <2> QED BY <1>2, <2>1, <2>2
<1>3. CASE t \in plan.cancellable
  <2>1. Removed[t] = [task[t] EXCEPT !.status = "CANCELLED", !.ref = Detached]
    BY <1>1, <1>3 DEF Removed, PlanOK
  <2>2. task[t] \in Task /\ t \notin plan.disposable
    BY <1>1, <1>3 DEF TasksInv, TypeOK, PlanOK
  <2>3. /\ Removed[t] \in Task /\ Removed[t].ref = Detached /\ Removed[t].status = "CANCELLED"
        /\ Removed[t].logged = task[t].logged
    BY <2>1, <2>2 DEF Task, Statuses
  <2>4. NoTask \notin Task
    BY DEF NoTask, Task, Statuses, Actionable
  <2> QED BY <1>3, <2>2, <2>3, <2>4
<1>4. CASE t \in plan.detached \ plan.cancellable
  <2>1. Removed[t] = [task[t] EXCEPT !.ref = Detached]
    BY <1>1, <1>4 DEF Removed, PlanOK
  <2>2. task[t] \in Task /\ t \notin plan.disposable
    BY <1>1, <1>4 DEF TasksInv, TypeOK, PlanOK
  <2> QED BY <1>4, <2>1, <2>2 DEF Task, NoTask, Statuses, Actionable
<1>5. CASE t \notin plan.disposable \cup plan.cancellable \cup plan.detached
  <2>1. Removed[t] = task[t]
    BY <1>5 DEF Removed
  <2> QED BY <1>1, <1>5, <2>1 DEF TasksInv, TypeOK, PlanOK
<1> QED BY <1>2, <1>3, <1>4, <1>5

(* The refresh leaves the reservation, the room and the log of a task, and *)
(* a completed task altogether.                                            *)
LEMMA RefreshedFacts ==
    ASSUME plan \in Plan, NEW row \in Task
    PROVE  /\ Refreshed(row) \in Task
           /\ Refreshed(row).ref = row.ref
           /\ Refreshed(row).room = row.room
           /\ Refreshed(row).logged = row.logged
           /\ Refreshed(row).status = "COMPLETED" <=> row.status = "COMPLETED"
           /\ row.ref \notin Uids => Refreshed(row) = row
           /\ row.ref \in Confirmed(plan.after) /\ row.room = plan.room /\ row.status # "COMPLETED"
                => Refreshed(row).status \in Actionable /\ Refreshed(row).day = plan.after[row.ref].end
           /\ row.ref \in Uids /\ plan.after[row.ref].status = "CANCELLED"
                => Refreshed(row).status \notin Actionable
<1> DEFINE status == IF row.status = "CANCELLED" THEN "PENDING" ELSE row.status
<1>1. /\ row.status \in Statuses
      /\ row.ref \in Uids => plan.after[row.ref].end \in Nat
  BY IntervalsAssumption DEF Task, Plan, Stays, None
<1>2. CASE /\ row.ref \in Confirmed(plan.after)
           /\ row.room = plan.room
           /\ row.status \in Actionable \cup {"CANCELLED"}
  <2>1. Refreshed(row) = [row EXCEPT !.day = plan.after[row.ref].end, !.status = status]
    BY <1>2 DEF Refreshed, Confirmed, Task
  <2>2. row.ref \in Uids /\ plan.after[row.ref].status = "CONFIRMED" /\ status \in Actionable
    BY <1>2 DEF Confirmed, Actionable
  <2> QED BY <1>1, <1>2, <2>1, <2>2 DEF Task, Statuses, Actionable
<1>3. CASE /\ row.ref \in Uids
           /\ plan.after[row.ref].status = "CANCELLED"
           /\ row.status \in Actionable
  <2>1. Refreshed(row) = [row EXCEPT !.status = "CANCELLED"]
    BY <1>3 DEF Refreshed, Confirmed
  <2> QED BY <1>3, <2>1 DEF Task, Statuses, Actionable, Confirmed
<1>4. CASE /\ ~(/\ row.ref \in Confirmed(plan.after)
               /\ row.room = plan.room
               /\ row.status \in Actionable \cup {"CANCELLED"})
           /\ ~(/\ row.ref \in Uids
               /\ plan.after[row.ref].status = "CANCELLED"
               /\ row.status \in Actionable)
  <2>1. Refreshed(row) = row
    BY <1>4 DEF Refreshed
  <2> QED BY <1>1, <1>4, <2>1 DEF Statuses, Confirmed
<1> QED BY <1>2, <1>3, <1>4

(* The confirmed stays that get a new task.                                *)
Missing == {u \in Confirmed(plan.after) : ~Covered(Removed, u)}

(* A new task is what a refresh would make it.                             *)
LEMMA NewTaskFacts ==
    ASSUME plan \in Plan, NEW u \in Confirmed(plan.after)
    PROVE  /\ NewTask(u) \in Task /\ Refreshed(NewTask(u)) = NewTask(u)
           /\ NewTask(u).ref = u /\ NewTask(u).room = plan.room
           /\ NewTask(u).status = "PENDING" /\ NewTask(u).day = plan.after[u].end
<1>1. u \in Uids /\ plan.after[u].end \in Nat /\ plan.room \in Rooms
  BY IntervalsAssumption DEF Confirmed, Plan, Stays, None
<1>2. NewTask(u) \in Task
  BY <1>1 DEF NewTask, Task, Statuses, Actionable
<1>3. Refreshed(NewTask(u)) = [NewTask(u) EXCEPT !.day = plan.after[u].end, !.status = "PENDING"]
  BY <1>1 DEF NewTask, Refreshed, Confirmed, Actionable
<1> QED BY <1>2, <1>3 DEF NewTask

(* A commit gives every confirmed stay without a task in the room one of   *)
(* its own, in a place the removal left free, and refreshes the rest.      *)
LEMMA CommitFacts ==
    ASSUME TasksInv, Commit
    PROVE  \E ids \in [Missing -> Tasks] :
             /\ \A u, v \in Missing : u # v => ids[u] # ids[v]
             /\ \A u \in Missing : Removed[ids[u]] = NoTask /\ task'[ids[u]] = NewTask(u)
             /\ \A t \in Tasks : (\A u \in Missing : ids[u] # t) => task'[t] = Refreshed(Removed[t])
<1>1. PICK ids \in [Missing -> {t \in Tasks : Removed[t] = NoTask}] :
        /\ \A u, v \in Missing : u # v => ids[u] # ids[v]
        /\ task' = [t \in Tasks |-> Refreshed(Created(Removed, ids)[t])]
  BY DEF Commit, Missing
<1>2. plan \in Plan
  BY DEF Commit, TasksInv, TypeOK
<1>3. ASSUME NEW u \in Missing
      PROVE  task'[ids[u]] = NewTask(u)
  <2>1. (CHOOSE v \in Missing : ids[v] = ids[u]) = u
    BY <1>1
  <2>2. Created(Removed, ids)[ids[u]] = NewTask(u)
    BY <2>1 DEF Created
  <2> QED BY <1>1, <1>2, <2>2, NewTaskFacts DEF Missing
<1>4. ASSUME NEW t \in Tasks, \A u \in Missing : ids[u] # t
      PROVE  task'[t] = Refreshed(Removed[t])
  BY <1>1, <1>4 DEF Created
<1> QED BY <1>1, <1>3, <1>4

(* Every task after a commit: a new one in a free place, or an old one.    *)
LEMMA CommittedTask ==
    ASSUME TasksInv, Commit, NEW t \in Tasks
    PROVE  \/ \E u \in Missing : task'[t] = NewTask(u) /\ Removed[t] = NoTask
           \/ Removed[t] \in Task /\ task'[t] = Refreshed(Removed[t])
           \/ Removed[t] = NoTask /\ task'[t] = NoTask
<1>1. PICK ids \in [Missing -> Tasks] :
             /\ \A u \in Missing : Removed[ids[u]] = NoTask /\ task'[ids[u]] = NewTask(u)
             /\ \A v \in Tasks : (\A u \in Missing : ids[u] # v) => task'[v] = Refreshed(Removed[v])
  BY CommitFacts
<1>2. Refreshed(NoTask) = NoTask
  BY DetachedAssumption DEF Refreshed, NoTask, Confirmed
<1>3. Removed[t] \in Task \cup {NoTask}
  BY RemovedFacts DEF Commit
<1> QED BY <1>1, <1>2, <1>3

(* A commit keeps the invariant.                                           *)
LEMMA CommitKeeps ==
    ASSUME TasksInv, Commit
    PROVE  TasksInv'
<1>1. /\ plan \in Plan /\ plan # NoPlan /\ LogsRestrict
      /\ resv' = plan.after /\ plan' = NoPlan /\ today' = today
      /\ room' \in Rooms \cup {NoRoom}
  BY DEF Commit, TasksInv, TypeOK
<1>2. ASSUME NEW t \in Tasks
      PROVE  /\ task'[t] \in Task \cup {NoTask}
             /\ task'[t].ref \in Stored(plan.after) \cup {Detached}
             /\ task'[t].status = "COMPLETED" => task'[t].logged
  <2>1. CASE \E u \in Missing : task'[t] = NewTask(u)
    <3>1. PICK u \in Missing : task'[t] = NewTask(u)
      BY <2>1
    <3>2. u \in Confirmed(plan.after) /\ u \in Stored(plan.after)
      BY DEF Missing, Confirmed, Stored, None
    <3> QED BY <1>1, <3>1, <3>2, NewTaskFacts
  <2>2. CASE Removed[t] \in Task /\ task'[t] = Refreshed(Removed[t])
    <3>1. /\ Removed[t].ref \in Stored(plan.after) \cup {Detached}
          /\ Removed[t].status = "COMPLETED" => Removed[t].logged
      BY <1>1, <2>2, RemovedFacts DEF TasksInv, CompletedLogged, NoTask
    <3> QED BY <1>1, <2>2, <3>1, RefreshedFacts
  <2>3. CASE task'[t] = NoTask
    BY <2>3 DEF NoTask
  <2> QED BY <2>1, <2>2, <2>3, CommittedTask
<1>3. task' = [t \in Tasks |-> task'[t]]
  BY DEF Commit
<1>4. ASSUME NEW t \in Tasks, NEW v \in Tasks, t # v,
             task'[t].ref = task'[v].ref, task'[t].room = task'[v].room
      PROVE  task'[t].ref = Detached
  <2> SUFFICES ASSUME task'[t].ref # Detached
               PROVE  FALSE
    OBVIOUS
  <2>1. PICK ids \in [Missing -> Tasks] :
             /\ \A u, w \in Missing : u # w => ids[u] # ids[w]
             /\ \A u \in Missing : Removed[ids[u]] = NoTask /\ task'[ids[u]] = NewTask(u)
             /\ \A w \in Tasks : (\A u \in Missing : ids[u] # w) => task'[w] = Refreshed(Removed[w])
    BY CommitFacts
  <2>2. ASSUME NEW w \in Tasks, task'[w].ref # Detached
        PROVE  \/ task'[w].ref \in Missing /\ ids[task'[w].ref] = w
               \/ /\ Removed[w] = task[w] /\ task'[w].ref = task[w].ref /\ task'[w].room = task[w].room
                  /\ task'[w].ref \in Missing => task'[w].room # plan.room
    <3>1. CASE \E u \in Missing : ids[u] = w
      <4>1. PICK u \in Missing : ids[u] = w
        BY <3>1
      <4>2. task'[w] = NewTask(u) /\ u \in Confirmed(plan.after)
        BY <2>1, <4>1 DEF Missing
      <4> QED BY <1>1, <4>1, <4>2, NewTaskFacts
    <3>2. CASE \A u \in Missing : ids[u] # w
      <4>1. task'[w] = Refreshed(Removed[w])
        BY <2>1, <3>2
      <4>2. Removed[w] \in Task
        <5>1. Refreshed(NoTask) = NoTask
          BY DetachedAssumption DEF Refreshed, NoTask, Confirmed
        <5>2. NoTask.ref = Detached
          BY DEF NoTask
        <5>3. Removed[w] # NoTask
          BY <2>2, <4>1, <5>1, <5>2
        <5> QED BY <1>1, <5>3, RemovedFacts
      <4>3. task'[w].ref = Removed[w].ref /\ task'[w].room = Removed[w].room
        BY <1>1, <4>1, <4>2, RefreshedFacts
      <4>4. Removed[w] = task[w]
        BY <1>1, <2>2, <4>3, RemovedFacts
      <4>5. task'[w].ref \in Missing => task'[w].room # plan.room
        BY <4>3 DEF Missing, Covered
      <4> QED BY <4>3, <4>4, <4>5
    <3> QED BY <3>1, <3>2
  <2>3. ASSUME NEW w \in Tasks, task'[w].ref \in Missing, ids[task'[w].ref] = w
        PROVE  task'[w].room = plan.room
    <3>1. task'[w] = NewTask(task'[w].ref) /\ task'[w].ref \in Confirmed(plan.after)
      BY <2>1, <2>3 DEF Missing
    <3> QED BY <1>1, <3>1, NewTaskFacts
  <2>4. task'[v].ref # Detached
    BY <1>4
  <2>5. CASE task'[t].ref \in Missing /\ ids[task'[t].ref] = t
    BY <1>4, <2>2, <2>3, <2>4, <2>5
  <2>6. CASE task'[v].ref \in Missing /\ ids[task'[v].ref] = v
    BY <1>4, <2>2, <2>3, <2>4, <2>6
  <2> QED BY <1>4, <2>2, <2>4, <2>5, <2>6 DEF TasksInv, TypeOK
<1>5. TypeOK'
  <2>1. plan.after \in [Uids -> Stays]
    BY <1>1 DEF Plan
  <2>2. task' \in [Tasks -> Task \cup {NoTask}]
    BY <1>2, <1>3
  <2> QED BY <1>1, <1>2, <1>4, <2>1, <2>2 DEF TasksInv, TypeOK, Stored
<1> QED BY <1>1, <1>2, <1>5 DEF TasksInv, PlanOK, CompletedLogged

(* Every step keeps the invariant.                                         *)
LEMMA TasksStep == TasksInv /\ [Next]_vars => TasksInv'
<1> SUFFICES ASSUME TasksInv, [Next]_vars
             PROVE  TasksInv'
  OBVIOUS
<1>1. CASE BeginSync \/ BeginReplace \/ BeginDelete
  BY <1>1, BeginsKeep
<1>2. CASE Commit
  BY <1>2, CommitKeeps
<1>3. CASE Rollback
  BY <1>3 DEF Rollback, TasksInv, TypeOK, PlanOK, CompletedLogged, Stored
<1>4. ASSUME NEW r \in Rooms, MoveRoom(r)
      PROVE  TasksInv'
  BY <1>4 DEF MoveRoom, TasksInv, TypeOK, PlanOK, CompletedLogged, Stored
<1>5. ASSUME NEW t \in Tasks, Staff(t)
      PROVE  TasksInv'
  BY <1>5, StaffKeeps
<1>6. CASE NextDay
  BY <1>6, LastDayAssumption DEF NextDay, TasksInv, TypeOK, PlanOK, CompletedLogged, Stored
<1>7. CASE UNCHANGED vars
  BY <1>7 DEF vars, TasksInv, TypeOK, PlanOK, CompletedLogged, Stored
<1> QED BY <1>1, <1>2, <1>3, <1>4, <1>5, <1>6, <1>7 DEF Next

(* So it holds throughout.                                                 *)
LEMMA TasksInvariant == Spec => []TasksInv
<1> QED BY TasksInit, TasksStep, PTL DEF Spec

(* A reservation never has two tasks in one room, and no task refers to a  *)
(* reservation that is gone, whatever the staff do during a removal.       *)
THEOREM TasksTypeCorrect == Spec => []TypeOK
<1>1. TasksInv => TypeOK
  BY DEF TasksInv
<1> QED BY <1>1, TasksInvariant, PTL

(* What a commit does to one task.                                         *)
LEMMA CommitOnTask ==
    ASSUME TasksInv, Commit, NEW t \in Tasks
    PROVE  /\ task[t].logged => task'[t].logged
           /\ task[t].status = "COMPLETED" /\ task'[t].status # "COMPLETED" => t \in plan.cancellable
           /\ t \in plan.disposable \cup plan.cancellable /\ task'[t].status \in Actionable
                => task'[t].ref \in Confirmed(plan.after)
<1>1. plan \in Plan /\ plan # NoPlan /\ LogsRestrict
  BY DEF Commit, TasksInv, TypeOK
<1>2. CASE t \in plan.disposable
  <2>1. ~task[t].logged /\ Removed[t] = NoTask
    BY <1>1, <1>2, RemovedFacts DEF LogsRestrict
  <2>2. NoTask \notin Task
    BY DEF NoTask, Task, Statuses, Actionable
  <2>3. task'[t].status \in Actionable => task'[t].ref \in Confirmed(plan.after)
    <3>1. ASSUME NEW u \in Missing, task'[t] = NewTask(u)
          PROVE  task'[t].ref \in Confirmed(plan.after)
      BY <1>1, <3>1, NewTaskFacts DEF Missing
    <3>2. task'[t] = NoTask => task'[t].status \notin Actionable
      BY DEF NoTask, Actionable
    <3> QED BY <2>1, <2>2, <3>1, <3>2, CommittedTask
  <2> QED BY <2>1, <2>3 DEF TasksInv, CompletedLogged
<1>3. CASE t \notin plan.disposable
  <2>1. /\ Removed[t].logged = task[t].logged
        /\ Removed[t].status = IF t \in plan.cancellable THEN "CANCELLED" ELSE task[t].status
        /\ task[t] = NoTask <=> Removed[t] = NoTask
    BY <1>1, <1>3, RemovedFacts
  <2>2. CASE Removed[t] = NoTask
    <3>1. task[t] = NoTask /\ t \notin plan.cancellable
      BY <1>1, <2>1, <2>2 DEF TasksInv, PlanOK
    <3> QED BY <1>3, <3>1 DEF NoTask
  <2>3. CASE Removed[t] \in Task /\ task'[t] = Refreshed(Removed[t])
    <3>1. /\ task'[t].logged = task[t].logged
          /\ task'[t].status = "COMPLETED" <=> Removed[t].status = "COMPLETED"
      BY <1>1, <2>1, <2>3, RefreshedFacts
    <3>2. t \in plan.cancellable => Removed[t].ref = Detached
      BY <1>1 DEF Removed, TasksInv, TypeOK, PlanOK, Plan, Task
    <3>3. t \in plan.cancellable => task'[t].status \notin Actionable
      BY <1>1, <2>1, <2>3, <3>2, DetachedAssumption, RefreshedFacts DEF Actionable
    <3> QED BY <1>3, <2>1, <3>1, <3>3
  <2> QED BY <1>3, <2>2, <2>3, CommittedTask
<1> QED BY <1>2, <1>3

(* A task that somebody worked on keeps its log through every removal.     *)
THEOREM WorkedOnIsRetained == Spec => AuditKept
<1>1. ASSUME TasksInv, [Next]_vars, NEW t \in Tasks, task[t].logged
      PROVE  task'[t].logged
  <2>1. CASE Commit
    BY <1>1, <2>1, CommitOnTask
  <2>2. ASSUME NEW v \in Tasks, Staff(v)
        PROVE  task'[t].logged
    BY <1>1, <2>2, StaffWrites
  <2>3. CASE UNCHANGED task
    BY <1>1, <2>3
  <2> QED BY <1>1, <2>1, <2>2, <2>3
          DEF Next, vars, BeginSync, BeginReplace, BeginDelete, Begin, Rollback, MoveRoom, NextDay
<1>2. TasksInv /\ [Next]_vars => [\A t \in Tasks : task[t].logged => task'[t].logged]_vars
  BY <1>1
<1>3. Spec => [][\A t \in Tasks : task[t].logged => task'[t].logged]_vars
  BY <1>2, TasksInvariant, PTL DEF Spec
<1> QED BY <1>3 DEF AuditKept

(* A completion is undone by its reversion only, or by a removal that read *)
(* the task unfinished.                                                    *)
THEOREM CompletionsRespected == Spec => CompletionRespected
<1> DEFINE Undone(t) == task[t].status = "COMPLETED" /\ task'[t].status # "COMPLETED"
<1>1. ASSUME TasksInv, [Next]_vars, NEW t \in Tasks, Undone(t)
      PROVE  Revert(t) \/ t \in plan.cancellable
  <2>1. CASE Commit
    BY <1>1, <2>1, CommitOnTask
  <2>2. ASSUME NEW v \in Tasks, Staff(v)
        PROVE  Revert(t)
    BY <1>1, <2>2, StaffWrites DEF Actionable
  <2>3. CASE UNCHANGED task
    BY <1>1, <2>3
  <2> QED BY <1>1, <2>1, <2>2, <2>3
          DEF Next, vars, BeginSync, BeginReplace, BeginDelete, Begin, Rollback, MoveRoom, NextDay
<1>2. TasksInv /\ [Next]_vars
        => [\A t \in Tasks : Undone(t) => Revert(t) \/ t \in plan.cancellable]_vars
  BY <1>1
<1>3. Spec => [][\A t \in Tasks : Undone(t) => Revert(t) \/ t \in plan.cancellable]_vars
  BY <1>2, TasksInvariant, PTL DEF Spec
<1> QED BY <1>3 DEF CompletionRespected

(* A task left to do whose stay is gone was reverted into that state, or   *)
(* its reservation was removed while it was not to do.                     *)
THEOREM OrphansByReversion == Spec => OrphanedByReversion
<1> DEFINE Excused(t) == Revert(t) \/ (Commit /\ t \notin plan.disposable \cup plan.cancellable)
<1>1. ASSUME TasksInv, [Next]_vars, NEW t \in Tasks, ~Orphaned(t), Orphaned(t)'
      PROVE  Excused(t)
  <2>1. CASE Commit
    <3>1. resv' = plan.after
      BY <2>1 DEF Commit
    <3> QED BY <1>1, <2>1, <3>1, CommitOnTask DEF Orphaned, Confirmed
  <2>2. ASSUME NEW v \in Tasks, Staff(v)
        PROVE  Revert(t)
    <3>1. /\ resv' = resv /\ task'[t].ref = task[t].ref
          /\ v = t \/ task'[t] = task[t]
          /\ task[v].status \notin Actionable => Revert(v)
      BY <1>1, <2>2, StaffWrites
    <3> QED BY <1>1, <3>1 DEF Orphaned, Confirmed
  <2>3. CASE UNCHANGED <<task, resv>>
    BY <1>1, <2>3 DEF Orphaned, Confirmed
  <2> QED BY <1>1, <2>1, <2>2, <2>3
          DEF Next, vars, BeginSync, BeginReplace, BeginDelete, Begin, Rollback, MoveRoom, NextDay
<1>2. TasksInv /\ [Next]_vars
        => [\A t \in Tasks : ~Orphaned(t) /\ Orphaned(t)' => Excused(t)]_vars
  BY <1>1
<1>3. Spec => [][\A t \in Tasks : ~Orphaned(t) /\ Orphaned(t)' => Excused(t)]_vars
  BY <1>2, TasksInvariant, PTL DEF Spec
<1> QED BY <1>3 DEF OrphanedByReversion

(* After a commit every confirmed stay has its task in the room, done or   *)
(* due on its last day, and no other stay has one left to do.              *)
THEOREM CommitsSettle == Spec => CommitSettles
<1> DEFINE HasTask(u) == \E t \in Tasks :
             /\ task'[t].ref = u /\ task'[t].room = plan.room
             /\ \/ task'[t].status = "COMPLETED"
                \/ task'[t].status \in Actionable /\ task'[t].day = plan.after[u].end
           Settled(u) ==
             /\ plan.after[u].status = "CONFIRMED" => HasTask(u)
             /\ plan.after[u].status # "CONFIRMED" =>
                  \A t \in Tasks : task'[t].ref = u => task'[t].status \notin Actionable
<1>1. ASSUME TasksInv, Commit, NEW u \in Uids, plan.after[u].status = "CONFIRMED"
      PROVE  HasTask(u)
  <2>1. plan \in Plan /\ plan # NoPlan /\ u \in Confirmed(plan.after)
    BY <1>1 DEF Commit, TasksInv, TypeOK, Confirmed
  <2>2. CASE u \in Missing
    <3>1. \E t \in Tasks : task'[t] = NewTask(u)
      BY <1>1, <2>2, CommitFacts
    <3> QED BY <2>1, <3>1, NewTaskFacts DEF Actionable
  <2>3. CASE u \notin Missing
    <3>1. PICK t \in Tasks : Removed[t].ref = u /\ Removed[t].room = plan.room
      BY <2>1, <2>3 DEF Missing, Covered
    <3>2. Removed[t] \in Task
      BY <1>1, <2>1, <3>1, DetachedAssumption, RemovedFacts DEF NoTask
    <3>3. task'[t] = Refreshed(Removed[t])
      BY <1>1, <3>2, CommittedTask DEF NoTask, Task, Statuses, Actionable
    <3>4. /\ task'[t].ref = u /\ task'[t].room = plan.room
          /\ \/ task'[t].status = "COMPLETED"
             \/ task'[t].status \in Actionable /\ task'[t].day = plan.after[u].end
      BY <2>1, <3>1, <3>2, <3>3, RefreshedFacts
    <3> QED BY <3>4
  <2> QED BY <2>2, <2>3
<1>2. ASSUME TasksInv, Commit, NEW u \in Uids, plan.after[u].status # "CONFIRMED",
             NEW t \in Tasks, task'[t].ref = u
      PROVE  task'[t].status \notin Actionable
  <2>1. plan \in Plan /\ plan # NoPlan
    BY <1>2 DEF Commit, TasksInv, TypeOK
  <2>2. Removed[t] \in Task /\ task'[t] = Refreshed(Removed[t])
    <3>1. ASSUME NEW v \in Missing, task'[t] = NewTask(v)
          PROVE  FALSE
      BY <1>2, <2>1, <3>1, NewTaskFacts DEF Missing, Confirmed
    <3>2. task'[t] # NoTask
      BY <1>2, DetachedAssumption DEF NoTask
    <3> QED BY <1>2, <3>1, <3>2, CommittedTask
  <2>3. Removed[t].ref = u /\ u \in Stored(plan.after)
    BY <1>2, <2>1, <2>2, DetachedAssumption, RefreshedFacts, RemovedFacts
  <2>4. plan.after[u].status = "CANCELLED"
    BY <1>2, <2>1, <2>3 DEF Stored, Plan, Stays
  <2> QED BY <2>1, <2>2, <2>3, <2>4, RefreshedFacts
<1>3. TasksInv /\ [Next]_vars => [Commit => \A u \in Uids : Settled(u)]_vars
  BY <1>1, <1>2
<1>4. Spec => [][Commit => \A u \in Uids : Settled(u)]_vars
  BY <1>3, TasksInvariant, PTL DEF Spec
<1> QED BY <1>4 DEF CommitSettles
=============================================================================
