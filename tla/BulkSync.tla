------------------------------ MODULE BulkSync ------------------------------
(***************************************************************************)
(* Syncs of many calendar sources: the scheduler that picks the sources    *)
(* whose last success is too long ago (automatic-calendar-sync.ts), the    *)
(* call that works through a list of sources room by room                  *)
(* (sync-calendar-sources.ts), started by it or by a user, and the SyncRun *)
(* rows that record each room's part.  The sync of a single source, all of *)
(* CalendarSync, is here a source and a room key that are held between the *)
(* attempt and the outcome.                                                *)
(***************************************************************************)
EXTENDS Integers, Sequences, FiniteSets, SequencesExt

CONSTANTS
    Sources, Rooms,
    RoomOf,        \* the room of each source
    Broken,        \* sources whose OTA never answers
    BatchSize,     \* CALENDAR_AUTO_SYNC_BATCH_SIZE
    Concurrency,   \* CALENDAR_SYNC_CONCURRENCY
    RoomBatch,     \* CALENDAR_SYNC_ROOM_BATCH_SIZE
    Scheduler, User,   \* who calls
    None,          \* no call, no source
    MaxUserCalls, MaxFaults   \* bounds

Outcomes == {"SUCCESS", "FAILED", "SKIPPED"}

\* What syncCalendarSources knows: its list, the progress of each room, the
\* sources left and being synced there, the outcomes, the SyncRun rows and those
\* that could not be closed, and whether its time is over.
CallType ==
    [targets : Seq(Sources), at : [Rooms -> {"waiting", "open", "done"}],
     left : [Rooms -> SUBSET Sources], current : [Rooms -> Sources \cup {None}],
     result : [Sources -> Outcomes \cup {"NONE"}],
     run : [Rooms -> {"NONE", "RUNNING", "SUCCESS", "FAILED"}],
     unsaved : SUBSET Rooms, aborted : BOOLEAN]

\* Sources that always fail keep the head of the line; a batch is larger than
\* their number, or no other source is ever reached.
Assumptions ==
    /\ IsFiniteSet(Sources)
    /\ RoomOf \in [Sources -> Rooms]
    /\ {BatchSize, Concurrency, RoomBatch} \subseteq Nat \ {0}
    /\ {MaxUserCalls, MaxFaults} \subseteq Nat
    /\ Broken \subseteq Sources /\ Cardinality(Broken) < BatchSize
    /\ Scheduler # User /\ None \notin Sources \cup CallType

ASSUME ConstantAssumption == Assumptions

VARIABLES
    line,      \* the sources in the order of lastSyncedAt, oldest first
    due,       \* how many of them were synced too long ago
    sched,     \* "timer" is set, "listing", a "cycle" is under way, "down"
    call,      \* the call of each caller with its SyncRun rows, or None
    userCalls,
    faults     \* how many crashes, time limits, failing statements and fetches

vars == <<line, due, sched, call, userCalls, faults>>

Callers == {Scheduler, User}

IsDue(s) == \E i \in 1 .. due : line[i] = s
Resynced(s) == Append(RemoveAt(line, CHOOSE i \in DOMAIN line : line[i] = s), s)
Fault == faults < MaxFaults /\ faults' = faults + 1

-----------------------------------------------------------------------------
(* A call                                                                  *)

\* The rooms that come up in a list of sources before room r does.
RoomsBefore(targets, r) ==
    {q \in Rooms : \E i \in DOMAIN targets :
        RoomOf[targets[i]] = q /\ \A j \in 1 .. i : RoomOf[targets[j]] # r}

\* chunkItems: the number of the batch that room r is in.
BatchOf(targets, r) == Cardinality(RoomsBefore(targets, r)) \div RoomBatch

NewCall(targets) ==
    [targets |-> targets,
     at      |-> [r \in Rooms |-> IF \E s \in Range(targets) : RoomOf[s] = r THEN "waiting" ELSE "done"],
     left    |-> [r \in Rooms |-> {s \in Range(targets) : RoomOf[s] = r}],
     current |-> [r \in Rooms |-> None],
     result  |-> [s \in Sources |-> "NONE"],
     run     |-> [r \in Rooms |-> "NONE"],
     unsaved |-> {},
     aborted |-> FALSE]

Running(c) == call[c] # None
\* The keys that are held by syncs at work, of any caller.
HeldBy(c) == {call[c].current[r] : r \in Rooms} \ {None}
Held == UNION {HeldBy(c) : c \in {d \in Callers : Running(d)}}

\* The rooms before r were taken, and those of earlier batches are done.
InTurn(k, r) ==
    \A q \in RoomsBefore(k.targets, r) :
        IF BatchOf(k.targets, q) < BatchOf(k.targets, r) THEN k.at[q] = "done" ELSE k.at[q] # "waiting"

\* Rooms are taken in order by a few workers, and batch after batch.
MayStart(c, r) ==
    /\ call[c].at[r] = "waiting"
    /\ Cardinality({q \in Rooms : call[c].at[q] = "open"}) < Concurrency
    /\ InTurn(call[c], r)

\* Bug: sources are grouped, and worked on at the same time, one by one.
MayStartSourceAtOnce(c, r) ==
    /\ call[c].at[r] = "open" /\ call[c].left[r] # {}

MayStartSource(c, r) ==
    /\ call[c].at[r] = "open" /\ call[c].left[r] # {} /\ call[c].current[r] = None

\* The source of a room that comes up in the list before the others that are left.
IsNext(c, r, s) ==
    \E i \in DOMAIN call[c].targets :
        /\ call[c].targets[i] = s /\ s \in call[c].left[r]
        /\ \A j \in 1 .. i - 1 : call[c].targets[j] \notin call[c].left[r]

All(c, r, outcome) ==
    [s \in Sources |-> IF s \in call[c].left[r] THEN outcome ELSE call[c].result[s]]

\* Bug: the sources of a room that was not reached are forgotten.
RefuseRoomSilently(c, r, outcome) ==
    call' = [call EXCEPT ![c].at[r] = "done", ![c].left[r] = {}]

RefuseRoom(c, r, outcome) ==
    call' = [call EXCEPT ![c].at[r] = "done", ![c].result = All(c, r, outcome), ![c].left[r] = {}]

\* Nothing is begun after the time limit; without its row a room is not synced.
StartRoom(c, r) ==
    /\ Running(c) /\ MayStart(c, r)
    /\ \/ call[c].aborted /\ RefuseRoom(c, r, "SKIPPED") /\ UNCHANGED faults
       \/ ~call[c].aborted /\ RefuseRoom(c, r, "FAILED") /\ Fault
       \/ /\ ~call[c].aborted
          /\ call' = [call EXCEPT ![c].at[r] = "open", ![c].run[r] = "RUNNING"]
          /\ UNCHANGED faults
    /\ UNCHANGED <<line, due, sched, userCalls>>

Refused(c, s) ==
    \/ call[c].aborted
    \/ \E h \in Held : h = s \/ RoomOf[h] = RoomOf[s]

\* One source of a room at a time; keys held by someone else are not waited for.
StartSource(c, r) ==
    /\ Running(c) /\ MayStartSource(c, r)
    /\ \E s \in Sources :
         /\ IsNext(c, r, s)
         /\ call' = IF Refused(c, s)
                      THEN [call EXCEPT ![c].left[r] = @ \ {s}, ![c].result[s] = "SKIPPED"]
                      ELSE [call EXCEPT ![c].left[r] = @ \ {s}, ![c].current[r] = s]
    /\ UNCHANGED <<line, due, sched, userCalls, faults>>

EndSource(c, r, outcome) ==
    /\ Running(c) /\ call[c].current[r] # None
    /\ call' = [call EXCEPT ![c].current[r] = None, ![c].result[call[c].current[r]] = outcome]
    /\ UNCHANGED <<sched, userCalls>>

\* persistReservationSync sets lastSyncedAt.
Succeed(c, r) ==
    /\ EndSource(c, r, "SUCCESS")
    /\ call[c].current[r] \notin Broken
    /\ line' = Resynced(call[c].current[r])
    /\ due' = IF IsDue(call[c].current[r]) THEN due - 1 ELSE due
    /\ UNCHANGED faults

\* A failure leaves lastSyncedAt: any source fails now and then, the broken
\* ones always, and those at work when the time limit strikes.
Fail(c, r) ==
    /\ EndSource(c, r, "FAILED")
    /\ IF call[c].current[r] \in Broken \/ call[c].aborted THEN UNCHANGED faults ELSE Fault
    /\ UNCHANGED <<line, due>>

\* finishSyncRun: any failure makes the run FAILED, skipped sources do not.
StatusOf(c, r) ==
    IF \E s \in Range(call[c].targets) : RoomOf[s] = r /\ call[c].result[s] = "FAILED"
      THEN "FAILED" ELSE "SUCCESS"

\* Bug: after the time limit the row is not closed.
FinishRoomInTime(c, r) ==
    /\ Running(c) /\ call[c].at[r] = "open"
    /\ call[c].left[r] = {} /\ call[c].current[r] = None
    /\ call' = [call EXCEPT ![c].at[r] = "done",
                            ![c].run[r] = IF call[c].aborted THEN @ ELSE StatusOf(c, r)]
    /\ UNCHANGED <<line, due, sched, userCalls, faults>>

\* That the row cannot be closed is logged, noted here, and forgotten.
FinishRoom(c, r) ==
    /\ Running(c) /\ call[c].at[r] = "open"
    /\ call[c].left[r] = {} /\ call[c].current[r] = None
    /\ \/ /\ call' = [call EXCEPT ![c].at[r] = "done", ![c].run[r] = StatusOf(c, r)]
          /\ UNCHANGED faults
       \/ /\ call' = [call EXCEPT ![c].at[r] = "done", ![c].unsaved = @ \cup {r}]
          /\ Fault
    /\ UNCHANGED <<line, due, sched, userCalls>>

\* AbortSignal.timeout
TimeOut(c) ==
    /\ Running(c) /\ ~call[c].aborted
    /\ call' = [call EXCEPT ![c].aborted = TRUE]
    /\ Fault
    /\ UNCHANGED <<line, due, sched, userCalls>>

Finished(c) == Running(c) /\ \A r \in Rooms : call[c].at[r] = "done"

-----------------------------------------------------------------------------
(* Who calls                                                               *)

\* A user syncs what a filter or a selection of rooms lists.
UserCall(targets) ==
    /\ ~Running(User) /\ sched # "down" /\ userCalls < MaxUserCalls
    /\ call' = [call EXCEPT ![User] = NewCall(targets)]
    /\ userCalls' = userCalls + 1
    /\ UNCHANGED <<line, due, sched, faults>>

UserReturn ==
    /\ Finished(User)
    /\ call' = [call EXCEPT ![User] = None]
    /\ UNCHANGED <<line, due, sched, userCalls, faults>>

\* Bug: the sources with the latest success are taken first.
PickNewest == SubSeq(line, IF due > BatchSize THEN due - BatchSize + 1 ELSE 1, due)

\* listCalendarSourcesDueForAutomaticSync
Pick == SubSeq(line, 1, IF due < BatchSize THEN due ELSE BatchSize)

Fire ==
    /\ sched = "timer" /\ sched' = "listing"
    /\ UNCHANGED <<line, due, call, userCalls, faults>>

\* The query finds something, nothing, or fails.
List ==
    /\ sched = "listing"
    /\ \/ /\ Pick # <<>>
          /\ call' = [call EXCEPT ![Scheduler] = NewCall(Pick)]
          /\ sched' = "cycle" /\ UNCHANGED faults
       \/ Pick = <<>> /\ sched' = "timer" /\ UNCHANGED <<call, faults>>
       \/ sched' = "timer" /\ UNCHANGED call /\ Fault
    /\ UNCHANGED <<line, due, userCalls>>

\* The cycle is over, well or not: the timer is set again.
Rearm ==
    /\ sched = "cycle" /\ Finished(Scheduler)
    /\ sched' = "timer"
    /\ call' = [call EXCEPT ![Scheduler] = None]
    /\ UNCHANGED <<line, due, userCalls, faults>>

\* The server process dies with its calls, and their rows stay RUNNING.
Crash ==
    /\ sched # "down" /\ sched' = "down"
    /\ call' = [c \in Callers |-> None]
    /\ Fault
    /\ UNCHANGED <<line, due, userCalls>>

Restart ==
    /\ sched = "down" /\ sched' = "timer"
    /\ UNCHANGED <<line, due, call, userCalls, faults>>

\* Time passes: the next source in line was synced too long ago.
Elapse ==
    /\ due < Len(line) /\ due' = due + 1
    /\ UNCHANGED <<line, sched, call, userCalls, faults>>

-----------------------------------------------------------------------------

Init ==
    /\ line \in SetToSeqs(Sources)
    /\ due = Cardinality(Sources)
    /\ sched = "timer"
    /\ call = [c \in Callers |-> None]
    /\ userCalls = 0 /\ faults = 0

\* The lists a user may ask for: the sources of some property, rooms or provider,
\* in the order of their ids.
UserTargets == {SetToSeq(S) : S \in SUBSET Sources}

Work(c, r) == StartRoom(c, r) \/ StartSource(c, r) \/ Succeed(c, r) \/ Fail(c, r) \/ FinishRoom(c, r)
SchedulerStep == Fire \/ List \/ Rearm \/ Restart \/ \E r \in Rooms : Work(Scheduler, r)
UserStep == UserReturn \/ \E r \in Rooms : Work(User, r)

Next ==
    \/ SchedulerStep \/ UserStep
    \/ \E c \in Callers : TimeOut(c)
    \/ \E t \in UserTargets : UserCall(t)
    \/ Crash \/ Elapse

Spec == Init /\ [][Next]_vars

\* Statements return and a fetch has a time limit; a timer fires; a server is
\* restarted.  Faults may strike at any time, MaxFaults of them.
FairSpec == Spec /\ WF_vars(SchedulerStep) /\ WF_vars(UserStep)

-----------------------------------------------------------------------------
(* Properties                                                              *)

\* What is left to a room and what is being synced there are sources of the list
\* and of the room, none of them both, and a room that is done has neither.  A row
\* is open while the room is, or else it could not be closed.
RoomOK(k, r) ==
    LET here == {s \in Range(k.targets) : RoomOf[s] = r}
    IN /\ k.left[r] \subseteq here
       /\ k.current[r] # None => k.at[r] = "open" /\ k.current[r] \in here \ k.left[r]
       /\ k.at[r] = "done" => k.left[r] = {}
       /\ k.run[r] = "RUNNING" => k.at[r] = "open" \/ r \in k.unsaved

\* A source of the list has its outcome, or is being synced, or is left to a room.
SourceOK(k, s) ==
    k.result[s] = "NONE" <=> k.current[RoomOf[s]] = s \/ s \in k.left[RoomOf[s]]

CallOK(k) ==
    (\A r \in Rooms : RoomOK(k, r)) /\ (\A s \in Range(k.targets) : SourceOK(k, s))

\* The line orders the sources, and those at its head are due.
LineOK ==
    /\ line \in Seq(Sources) /\ Len(line) = Cardinality(Sources)
    /\ \A s \in Sources : \E i \in DOMAIN line : line[i] = s
    /\ due \in 0 .. Len(line)

\* The scheduler's call and its cycle go together, and each call is in order.
TypeOK ==
    /\ LineOK
    /\ sched \in {"timer", "listing", "cycle", "down"}
    /\ sched = "cycle" <=> Running(Scheduler)
    /\ call \in [Callers -> CallType \cup {None}]
    /\ \A c \in Callers : Running(c) => CallOK(call[c])

\* sync-calendar-sources.ts:80: the sources of a room share a key and are synced
\* one after the other, so no call is ever refused because of itself.
NeverInOwnWay ==
    [][\A c \in Callers, s \in Sources :
         Running(c) /\ Running(c)' /\ call[c].result[s] = "NONE" /\ call'[c].result[s] = "SKIPPED"
             => call[c].aborted \/ \E h \in Held \ HeldBy(c) : h = s \/ RoomOf[h] = RoomOf[s]]_vars

\* When a call is over, each of its rooms' rows is closed, whatever was refused,
\* failed or ran into the time limit; only a crash or a failing write leaves one.
RunsClosed ==
    [][\A c \in Callers : Running(c) /\ ~Running(c)' /\ sched' # "down" =>
         \A r \in Rooms : call[c].run[r] = "RUNNING" => r \in call[c].unsaved]_vars

\* The two callers never sync sources of one room at the same time.
OneSyncPerRoom ==
    \A c, d \in Callers, r \in Rooms :
        Running(c) /\ Running(d) /\ call[c].current[r] # None /\ call[d].current[r] # None => c = d

\* A call begins a batch of rooms when the earlier ones are done, and takes the
\* rooms in the order in which its list brings them up.
BatchesInOrder ==
    \A c \in Callers : Running(c) =>
        \A s \in Range(call[c].targets) :
            call[c].at[RoomOf[s]] # "waiting" => InTurn(call[c], RoomOf[s])

\* README.md:102: a source whose last success is too long ago is synced again,
\* although the batch is limited and other sources fail for ever.
DueIsSynced == \A s \in Sources \ Broken : IsDue(s) ~> ~IsDue(s)
=============================================================================
