# Stayboard in TLA+

Stayboard mirrors the iCalendar feeds of OTAs (Airbnb, Booking.com, Agoda) into
a PostgreSQL database, computes double bookings from them, derives cleaning
tasks with photos, collects the reviews of the rooms, and manages the companies
and people that work with all this. This directory specifies what may run at the
same time, what each transaction does, and what stays true. Paths are relative
to the repository; code lives under `src/features` unless another path is given.

## 1. Inventory

| Component | State | Operations | What is hard |
|---|---|---|---|
| Advisory locking (`lib/postgres-advisory-lock.ts`, `calendar-sync-lock.ts`) | session-level keys of sources, rooms, listings | try all in order, run, unlock in reverse | refusals half-way, a lock session that dies while Prisma's connections live, process death |
| Sync of a source (`calendar-sync/application/sync-calendar-source.ts`, `reservation-sync.repository.ts`) | `CalendarSource`, `SyncLog`, `Reservation` | read, lock, re-read, time out old logs, open a log, fetch, validate, persist or fail | what was read before the lock is stale; crash between opening and closing a log; lost commit acknowledgement |
| Bulk and automatic sync (`sync-calendar-sources.ts`, `automatic-calendar-sync.ts`) | `SyncRun`, timers | pick due sources, work room by room, time limit | starvation by failing sources, abort, a call in its own way, open run rows |
| Source management (`calendar-sources/`) | `CalendarSource` | create, edit, activate, replace URL, delete | replacement and deletion take the locks, edit and activation do not |
| Room form (`rooms/update-room-with-calendar-sources.ts`) | `Room`, `CalendarSource`, `RoomListing` | read, test new URLs, write all in one transaction | minutes may pass between the read and the write |
| Reconciliation (`classify-reservations.ts`, `persistReservationSync`, URL replacement plan) | `Reservation` | create, update, cancel, remove; count check | history, check-out today, events nobody can classify, a sync across midnight |
| Double bookings (`reservation-conflicts/`) | `ReservationConflict` | detect per room, classify, reactivate, resolve, dismiss | stored derived data, foreign keys, moved or inactive calendars |
| Cleaning tasks (`cleaning/server/cleaning-task-sync.service.ts`, `calendar-source-reservation-removal.ts`) | `CleaningTask` | create, refresh, cancel, remove with the reservation | reads and writes of a removal are apart and staff commit in between |
| Cleaning workflow (`cleaning-task.service.ts`) | `CleaningTask`, `CleaningTaskLog` | assign, start, cancel start, complete, revert, note | optimistic check on `updatedAt` against syncs and other staff |
| Cleaning photos (`app/api/cleaning/...`, `scripts/cleanup-cleaning-photos.ts`) | `CleaningPhoto`, file storage | upload, delete, clean-up after a deadline | storage and database apart, repeated requests, stale status and keys |
| Upload queue (`cleaning/components/cleaning-photo-uploader.tsx`) | refs and state in the browser | choose, send, retry, remove, complete | late and lost answers, callbacks of an old dialog, the loop about to end |
| Room and property deletion (`rooms/room-deletion.service.ts`, `room-related-data-deletion.ts`) | most tables, files | read the scope, lock it, delete in order, unlink | scope read before the locks, Restrict keys across rooms, files after rows |
| Review collection (`reviews/`) | `ReviewSnapshot`, `ListingReview`, `ReviewSyncLog` | lock, open a log, fetch, compare, persist or fail | the link changes meanwhile and back, lost acknowledgement, lists cut before they are filtered |
| Accounts (`developer-management/`, `member-management/`, `user-management/`, `auth/`) | `User`, `Company`, `CompanyMembership`, sessions | suspend, withdraw, restore, roles, log in, join | check first, write later; the last administrator; tokens that carry rights |
| Feed safety policy (`calendar-feed-safety.ts`) | fingerprint, counts | accept or quarantine a feed | thresholds and baselines |
| Parsing, history maintenance, progress of claims and notes, permissions, invitations, statistics, UI | own tables | record keeping, views | little concurrency |

The parts meet in the database. A sync, a URL replacement and a deletion of a
source take the keys of source and room; inside, one transaction writes
reservations, then cleaning tasks, then conflicts. The scheduler and users start
syncs of many sources. The deletion of a room takes the keys of everything in
it, those of its review listings too. Staff, the edit forms and the photo routes
write the same rows without these keys. `PROJECT.json` lists every component,
and under `hazards` each place where an untested order of events would hurt.

## 2. Modules

| Module | Models | Run by |
|---|---|---|
| `CalendarSync` | the six calls on a calendar source, step by step, and their locks | `MCCalendarSync` |
| `ReservationReconcile` | the reservations of one source as functions of the stored ones and a feed (no variables) | the next two |
| `RoomCalendar` | reservations of several sources, rooms, days, and the stored conflicts | `MCRoomCalendar` |
| `CleaningTasks` | the tasks of one source, the transaction that derives and removes them, staff | `MCCleaningTasks` |
| `BulkSync` | the scheduler and the calls that sync many sources | `MCBulkSync` |
| `RoomDeletion` | deletion of rooms and properties against syncs, edits and uploads | `MCRoomDeletion` |
| `PhotoLedger` | what the photos of a task are to everybody outside the server (abstract) | the next two |
| `CleaningPhotos` | the requests and the script that change rows and files of photos; implements `PhotoLedger` | `MCCleaningPhotos` |
| `PhotoUploader` | the queue in the browser, with `PhotoLedger` as its server | `MCPhotoUploader` |
| `ReviewCollection` | collections of one listing's reviews while its link changes | `MCReviewCollection` |
| `Accounts` | accounts, memberships, sessions, and requests that check first and write later | `MCAccounts` |
| `CalendarSync_proofs`, `RoomCalendar_proofs`, `CleaningTasks_proofs`, `RoomDeletion_proofs`, `CleaningPhotos_proofs`, `PhotoUploader_proofs`, `ReviewCollection_proofs`, `Accounts_proofs` | theorems about the module each is named after; `CalendarSync_proofs` also about `BulkSync` | `tlapm` |

How they fit. `CalendarSync` shows that the persisting transactions of a source,
and of a room, follow one another. That allows `RoomCalendar` to take each of
them as one action, `CleaningTasks` to have at most one in progress, and
`BulkSync` to have a whole sync as an attempt and an outcome between which the
two keys are held. `RoomCalendar` and `CleaningTasks` extend
`ReservationReconcile`, so a sync means the same in each. `RoomDeletion` keeps
of a sync its reads and writes of one reservation, whose transaction, unlike the
deletion's, is not serializable. `PhotoLedger` stands between server and
browser: the server is shown to implement it, the queue is checked against it.

### CalendarSync

A *job* is one server call in flight. Its label `pc` is the next `await`; `arg`
holds its arguments and what it has read. A step is one statement outside a
transaction, one transaction, or one OTA request. The transactions of a
replacement and of a deletion are two steps each, what they read (`ReplaceTx`,
`DeleteTx`) and what they write (`ReplaceWrite`, `DeleteRows`): at READ COMMITTED
others commit in between. `row` is the
`CalendarSource` row (`life` is `isActive`, or `GONE`; `status` is
`connectionStatus`), `log` the `SyncLog` rows with an `age` that says whether
`startedAt` is older than `CALENDAR_SYNC_STALE_RUNNING_MS`, and `feed` the URL
whose events are stored: the content of feeds is abstracted to it, and the
verdict of the feed safety policy is a choice. `overtaken` is history: the syncs
during which a call that does not hold the key of their source changed its URL;
so is `unseen`: the syncs that opened their log after a deletion had looked for
logs and before it deletes.

`Faults`: `crash` (process and session end), `sessionLoss` (only the `pg` client
of the locks dies), `ackLoss` (a commit whose acknowledgement never arrives),
`dbError` (a transaction fails for a reason of its own). A form writes one of
the room's sources, as a form that submits only one does. Creation of a source
is in `RoomDeletion`; the provider check, form validation, access control and
retries inside the HTTP client are left out.

### ReservationReconcile

`Create`, `Update`, `BlockedDeletion` and `StaleCancellation` are
`classifyReservations`; `Reconciled` is the result of the statements of
`persistReservationSync`; `Replacement` that of a URL replacement;
`ExpectedCount` and `ReplacementCount` are the predictions their count checks
compare with. `CONFIRMED` also stands for `TENTATIVE`. Of a reservation dates,
status and room are kept. A UID of a feed is a reservation, blocked, unknown or
absent. Every operator works on each UID by itself, and the counts are sums over
UIDs, so one UID shows what many would.

### RoomCalendar

One action per transaction: `Sync`, `ReplaceUrl`, `Delete`, `Dismiss`, the two
activations, the move of a source, and the passing of a day. A sync takes any
feed, complete or with parse issues, in the `room` the source was in when it
began, and `before` is its `historicalBefore`: the day it began, which may be
yesterday. `conflict` has one row per pair of reservations, `NONE` where the
table has none; of the overlap its last day is kept, because dismissal depends
on it. How the sweep finds the pairs is abstracted to which pairs overlap.

### CleaningTasks

`Begin...` is the transaction up to the reads of `removeCalendarSourceReservations`,
`Commit` its writes in the order of the code. Staff actions are atomic thanks to
their condition on `updatedAt`; rows the transaction has written are locked until
it commits, rows it has only read are not. `logged` stands for whatever makes a
task audited, since each of those writes a `CleaningTaskLog`.

### BulkSync

`line` is the order of `lastSyncedAt`, of which the first `due` sources are past
the interval; a success moves a source to the end. A call has for each room
what is left, the source it is at, its counts and its `SyncRun` row. What is left
is a set; the order in which the code goes through its lists is in the guards:
`IsNext` picks the source of a room that comes up first in the list of the call,
`InTurn` takes the rooms in the order of that list, and a batch of them after
another. A user's list has any of the sources. The time
limit, failing statements and crashes are drawn from `MaxFaults`, the foreign
holder of a key is the other caller. Assumed of the constants (`Assumptions`):
the limits are positive, and fewer sources fail for ever than a batch holds.

### RoomDeletion

A deletion reads its scope, tries all keys, compares and deletes in one
serializable transaction, then unlinks files. A source has one reservation, a
task belongs to a source and a room. `record` stands for the notes written by
hand and the insurance claims, each with the room and the property it was made
for; a photo belongs to a task or to one of these, since the notes that come from
a cleaning take none. An upload stores its file, then inserts the row, or takes
the file back (`TakeBack`), which may fail. Sources, rooms and records are
created, and the first two moved, at any time.

### CleaningPhotos, PhotoLedger, PhotoUploader

Of one task: `photo` is the row of each upload id (its storage key, or none once
the file is gone, and its deletion date), `files` the keys that name a file,
`req` what each request has in hand, `cleaner` the script with the rows it
selected. Every statement and every file operation is a step; the transaction of
the insertion is two (count, insert), because the task row it has read may be
written meanwhile, under the transaction-level lock that other uploads wait for.
The refinement maps `shown` to the rows with a file and `removed` to those
without. `PhotoUploader` has the queue and its refs as the component keeps them;
the server answers late, or never, for requests the browser gave up. `told` is
the copy of the queue's summary the button goes by, which an effect hands on
(`Tell`) some time after a change; `known` is history, what had been chosen by then.
The dialog can be closed at any time, also while the completion is on its way.

### ReviewCollection

A collection is one job with the steps of `syncWithLock`. A page says one of
`Ratings` and shows some of `Reviews`. Everything stored carries the link it was
read from. `last`, `added` and `alone` are history: the page stored last for each
link, what a log's transaction added, and whether a job went on without its
lock. Ratings are compared as texts, so an equal one may be stored again, or not.
Any job may die, any transaction fail or lose its acknowledgement; the
lock session may end once the log is open.

### Accounts

Whatever looks at other users before it writes is two steps: the requests of the
member and account pages (`Begin...`, then `WriteMember`, `WriteUserStatus` or
`WriteUserRole`), and of the console `SuspendUser`, `SoftDeleteUser` and
`DemoteUser`, which end in `CommitConsole`. The console's transactions are
serializable, the pages' writes READ COMMITTED, and PostgreSQL keeps serializable
transactions apart from one another only. `Overwritten` and `Dependent` are what
it does for them: it ends one that is to write a row written since its snapshot,
and one of two that have counted the administrators of the same company. The
other transactions of the console write only what they have looked at, and are
one step. `moved` (the companies whose administrators others have changed since
the checks) and `alone` (whether the request's own user is as it was) are
history. `setCompanyActive` has the effect of `SuspendCompany` and
`RestoreCompany`. An invitation is only the membership it gives. Left out:
anonymisation, password reset, room and property assignments, the audit log.

## 3. Runs

All runs set `CHECK_DEADLOCK FALSE`: once everything is deleted, or the logs, ids
or days of the instance are used up, the modelled part of the system really
stops.

| Run | Instance | Shows |
|---|---|---|
| `sync_all` | 2 jobs, 2 sources in 1 room, 2 URLs, 2 logs, all calls, crash and database errors; 2.9 M states | exclusion per source and room; a quarantine ends only by a replacement with another URL; outcomes are final; reservations follow the URL |
| `sync_release` | 2 jobs, 2 sources in 1 room, 1 log, locked calls, lost sessions and acknowledgements, fairness; 1.0 M | every key is released; a deletion spares every sync whose log it could see |
| `sync_url_revert` | replacement and room form | finding 1 |
| `room_all` | 2 sources, 2 rooms, 3 days, every feed in every state; 25 k | the sync mirrors the feed and history is kept; counts agree; conflicts stay consistent and are exact after a sync |
| `cleaning_all` | 1 stay, 2 rooms, 2 tasks, 3 days; 1.8 M | audit, completions, what a commit settles, where orphans come from |
| `cleaning_overwritten` | removal and a worker | finding 2 |
| `bulk_all` | 3 sources (1 broken) in 2 rooms, batch 2, concurrency 2, a user's call for any of them, 1 fault, fairness; 0.7 M | every due source comes round; run rows close; no call is in its own way |
| `rooms_all` | 2 properties, 2 rooms, a source, a record, a photo, 2 deletions, crash, three calls in flight; 4.2 M | nothing is deleted under its sync; a deletion goes through unless a room was moved away; a deletion loses no file unheard |
| `photos_all` | 2 requests, 2 upload ids, 3 keys, limit 1, all operations, one kind of fault per behaviour; 2.5 M | implements `PhotoLedger`; photos readable, files owned, dates set |
| `uploader_all` | 2 files, 2 ids each, 3 choices, limit 2, fairness; 0.3 M | nothing lost or stored twice; the completion waits for what the dialog has heard of; everything chosen is sent |
| `reviews_all` | 2 jobs, 2 links, 2 ratings, 3 collections, lists of 2; 6.7 M | the rating shown is the latest of the link; logs tell the outcome |
| `accounts_all` | 2 users, 2 companies, 2 requests, `MaxLoad` 3; 0.7 M | only what others changed after a check, or a check that looks at too little, costs the last administrator; who is changed is logged out |

Bounds. Two jobs are every pair of calls; the lock protocols have no state that
three would share. `Logs` bounds sync attempts: two are a sync and its
successor, or a sync and the replacement that overtakes it; `sync_release` has
one, since keys and deletions ask for no second. Sources that move between rooms
would multiply `sync_all` beyond reach, and so would crashes `sync_release`: that a
crash frees the keys is what PostgreSQL does, not the code; the theorems cover them for
`CalendarSync`, and `room_all` and `rooms_all` move sources. `sync_all` has no lost
sessions, with which calls do not exclude each other; the theorems cover what
`FeedFollowsUrl` says of these. The nights of one and two days overlap, touch, nest and
coincide; conflicts relate two reservations. `LastDay` lets stays become history
and a sync span midnight. Two tasks per stay are one per room. Three storage
keys are two uploads and a repetition. Three collections are a link, another and
the first again; lists of two make its snapshot the one that is just, or just
no longer, read. `MaxChoices` makes one of two files chosen again. One record is a
note or a claim; two would only double what one shows. `InFlight` lets three of the
two deletions, the sync and the upload be at work at once. `MaxLoad` bounds companies and requests together: two requests
race in one company, or one request concerns two.

Symmetry is used where only safety is checked, over model values that no
property and no action distinguishes; the runs with liveness, `sync_release`,
`bulk_all` and `uploader_all`, use none.

Fairness. `CalendarSync`: a call in flight goes on, for the event loop runs what
is ready, every statement returns or throws, and the OTA request has a timeout.
`BulkSync`: the same for the scheduler and for a call that was started; a timer
fires, and a server that has ended is restarted. `PhotoUploader`: a request ends, by its answer or by the time limit
of the `XMLHttpRequest`. Nothing is demanded of users, faults, or of beginning a
call. No fairness is stated where no liveness is claimed.

Properties that hold with exceptions name them: `ShownPhotosReadable` and
`NoOrphanFiles` the faults under which they do not, `ScheduledUnlessRaced`,
`ChecksProtect`, `FeedFollowsUrl`, `DeleteSparesSync`, `OrphanedByReversion` and
`FilesAccounted` the steps that break them, `ShownIsLatest` and
`DeletionGoesThrough` the states, `CompletedWithPhotos` what was chosen too late.
They are as weak as the code is: each exception is one the code has.

### Findings

1. `sync_url_revert`: the room form writes `calendarUrl` as it read it, so a URL
   replacement that commits in between is undone and the reservations of the new
   feed stay under the old URL; the form's own message says an existing URL is
   changed by the replacement only. The edit of a source has the same shape.
2. `cleaning_overwritten`: a removal cancels by ids it selected earlier; a task
   completed in between becomes CANCELLED, though only unfinished tasks are said
   to be.

### Observations

The models also have these behaviours. One of them contradicts a text of the
repository: `member-policy.ts:17` tells the user that a company needs at least
one administrator, and the code loses the last one by the races listed below. No
run expects that violation; `ChecksProtect` names the races instead. About the
others no text says otherwise.

- A replacement whose lock session died goes on, and may commit while another
  sync holds the key of the source; that sync then stores the reservations of the
  URL it had read (`postgres-advisory-lock.ts:25`). `overtaken` names these syncs.
- A deletion of a source looks for RUNNING logs and deletes in later statements of
  one READ COMMITTED transaction (`calendar-source.repository.ts:183`, `:192`). If
  the sync or the deletion has lost its lock session, a log opened in between goes
  with the source, under the sync. `unseen` names these syncs.
- A catch block rewrites the log of a committed sync to FAILED when the
  acknowledgement is lost (`reservation-sync.repository.ts:26`); a review
  collection answers FAILED then, but its log says SUCCESS.
- After a source moved, its next sync creates a second task for a stay whose
  open task is in the old room. A reverted completion reopens a task whose stay
  may be gone.
- If as many sources as a batch holds always fail, no other is reached. A run
  row whose sources were all skipped is closed as SUCCESS.
- An upload that read the task before its completion leaves a photo without
  deletion date. The clean-up removes files it selected before a reversion. A
  file the user takes out of the queue may still be stored by a late request.
- Choosing a photo and pressing the button before the effect has run completes the
  task without that photo (`cleaning-photo-uploader.tsx:200`).
- When the row of an upload is refused and its file cannot be taken back, or a
  note or claim is deleted and one of its files cannot be removed, the file stays
  and at most a log line says so (cleaning `photos/route.ts:78`,
  `room-note.service.ts:270`).
- A room moved to another property leaves reservations, tasks, notes and claims with
  the old `propertyId` (`room.repository.ts:135`), and the old property cannot be deleted.
- A company loses its last administrator when two administrators demote each other
  (`member-management.actions.ts:26`), when a page takes one administrator while a
  transaction of the console that has counted him takes the other
  (`developer-management.service.ts:144`; only two transactions of the console are
  kept apart), because the member page counts suspended administrators, and
  because the account page replaces memberships in all companies and checks one.
- A rating that a page writes as "4.50" is stored again although 4.5 is there.
- A listing's rating vanishes from the lists after ten newer snapshots of other
  links: ten are read before those of the current link are looked for.

Definitions marked "Bug" are deliberate mistakes, one per property; each makes
the property it is paired with in `PROJECT.json` fail.

## 4. Proofs

Eight modules of theorems, for every value of the constants:

| Theorem | States | Assumes |
|---|---|---|
| `CalendarSync_proofs`: `TypeCorrect` | `[]TypeOK` | - |
| `Exclusion` | `[]MutualExclusion` | no session loss |
| `QuarantineIsSticky` | `QuarantineSticky` | no session loss |
| `OutcomeIsFinal` | `OutcomeFinal` | no session loss, no lost acknowledgement |
| `DeletionSparesSync` | `DeleteSparesSync` | - |
| `DeletionSeesEverySync` | no sync is ever in `unseen` | no session loss |
| `FeedsFollowTheirUrl` | `FeedFollowsUrl` | - |
| `BulkTypeCorrect` | `[]Bulk!TypeOK` | `Bulk!Assumptions` |
| `NoCallInItsOwnWay` | `Bulk!NeverInOwnWay` | `Bulk!Assumptions` |
| `CallsCloseTheirRuns` | `Bulk!RunsClosed` | `Bulk!Assumptions` |
| `RoomsSyncedOneByOne` | `[]Bulk!OneSyncPerRoom` | `Bulk!Assumptions` |
| `BatchesAreOrdered` | `[]Bulk!BatchesInOrder` | `Bulk!Assumptions` |
| `RoomCalendar_proofs`: `FeedIsMirrored` | `[]MirrorsFeed` | - |
| `CountsAlwaysAgree` | `[]CountsAgree` | - |
| `SyncMakesExact` | `ExactAfterSync` | - |
| `ConsistencyIsKept` | `ConsistencyKept` | - |
| `CleaningTasks_proofs`: `TasksTypeCorrect` | `[]TypeOK` | - |
| `WorkedOnIsRetained` | `AuditKept` | - |
| `CompletionsRespected` | `CompletionRespected` | - |
| `OrphansByReversion` | `OrphanedByReversion` | - |
| `CommitsSettle` | `CommitSettles` | - |
| `RoomDeletion_proofs`: `RoomsTypeCorrect` | `[]TypeOK` | - |
| `LockedDeletionGoesThrough` | `[]DeletionGoesThrough` | - |
| `NothingDeletedUnderSync` | `NotUnderSync` | - |
| `FilesStayAccounted` | `FilesAccounted` | - |
| `CleaningPhotos_proofs`: `PhotosTypeCorrect` | `[]TypeOK` | - |
| `PhotosImplementLedger` | `ImplementsLedger`, the refinement | - |
| `PhotosScheduledUnlessRaced` | `ScheduledUnlessRaced` | - |
| `PhotosWithinLimit` | never more photos shown than the limit; none removed comes back | - |
| `ShownCanBeRead` | `[]ShownPhotosReadable` | - |
| `FilesHaveOwners` | `[]NoOrphanFiles` | - |
| `PhotoUploader_proofs`: `QueueTypeCorrect` | `[]TypeOK` | - |
| `ChosenIsNotLost` | `[]NothingLost` | - |
| `CompletionHasPhotos` | `CompletedWithPhotos` | - |
| `StoredNoMoreThanChosen` | `[]StoredAsChosen` | - |
| `ServerIsALedger` | `Ledger!Spec`: the queue's server implements `PhotoLedger` | - |
| `ReviewCollection_proofs`: `LogsTellTheOutcome` | `[]LogTellsOutcome` | - |
| `ShownAsLastFetched` | `[]ShownIsLatest` | - |
| `Accounts_proofs`: `AccountsTypeCorrect` | `[]TypeOK` | - |
| `LastAdminProtected` | `ChecksProtect` | - |
| `ChangeEndsSessions` | `ChangedIsLoggedOut` | - |

Beside these only the named `ASSUME`s of the modules are used; TLC evaluates
them on every run. They say three things. Limits are natural numbers
(`BoundsAssumption`, `BoundAssumption`, `LastDayAssumption`) and a stay ends after
it begins (`IntervalsAssumption`). What stands for "nothing" is not one of the
things (`NoneAssumption`, `NamesAssumption`, `NoRoomAssumption`,
`DetachedAssumption`, `RowAssumption`): in the code it is `null`, which is no id,
no number and no record. What is counted is finite (`FiniteAssumption`,
`ReviewsAssumption`): a table, and a page of reviews. `CalendarSync_proofs` has
`BulkSync` as the instance `Bulk`, over the same sources and rooms. An instance
does not bring the `ASSUME` of its module, so the theorems about it have the
assumed formula, `Bulk!Assumptions`, as their hypothesis: finitely many sources,
each with a room, limits that are positive, and fewer broken sources than a batch
holds. No proof uses the last; only the liveness of `DueIsSynced` does.

*CalendarSync.* The inductive invariant has parts, each theorem takes those it
needs. `TypeOK` includes what a job has in hand at each label. `LockInv`: a job
beyond its `try` holds the key its label says; with it exclusion is immediate,
and no unlock or crash of another job can take the key away. `StatusInv` adds
that the source of a sync past its check is NORMAL: only locked calls write
`status`, and `LockInv` says there is one per source. `OpenLogInv` adds that an
unfinished sync owns a RUNNING log of its source: only a locked call of the same
source could close it. Without `LockInv` neither is inductive. `LifeInv` and
`UrlInv` do without it, so their theorems hold with lost sessions too. `LifeInv`:
no writer without a lock brings a deleted row; hence only a deletion makes a row
go, and it looks at the logs. `UnseenInv` carries that look to the deletes: while
a deletion is between the two, a log of its source that is young and RUNNING was
opened since, and its sync is in `unseen`. That this set stays empty without lost
sessions is exclusion again. `UrlInv`: a sync that holds its source key and was
not overtaken has the URL of the row, because whoever changes that URL either
holds the key, so the sync does not, or is recorded as overtaking.

*BulkSync.* `TypeOK` is inductive. It says of a call in flight (`CallOK`) that
what is left to a room, and the one source being synced there, are sources of its
list and of that room; that a source of the list has an outcome unless it is one
of these; and that a row is RUNNING only while its room is open, or when its
closing write failed. The last makes `RunsClosed` immediate: a call ends with all
rooms done. `NeverInOwnWay` needs the first: a key that refuses a source belongs
to its room, and the room that starts a source has none in hand, so the key is
not the call's own. `OneSyncPerRoom` says the rest of it, about the other caller.
`BatchesInOrder` is kept because rooms only go on, from waiting to open to done
(`Advances`), and the order of a list does not change while the call lasts. That a
success keeps `line` an order of the sources is a lemma about sequences
(`ResyncedLine`): one removed, and appended. Rooms and their number need not be
finite.

*RoomCalendar.* `MirrorsFeed` and `CountsAgree` speak of every feed in the current
state; they need only its shape. What counts after the statements is shown to be
the disjoint union of what the prediction adds up: the events of the feed that
were created or updated, and the stored stays nothing has touched. `CalendarInv`
is the shape and `Grounded`: a conflict row refers to two stays of the room it
names, so rows of one room are never left behind by the statements that delete by
room. A sync and a replacement both store new stays and then recompute their
room, so one lemma about the result for a pair (`StoreKeeps`) serves both.

*CleaningTasks.* `TasksInv` is `TypeOK`, `PlanOK` and `CompletedLogged`. `PlanOK` is
what the open transaction can still rely on although the staff go on: every task
whose reservation will be gone was selected, to be removed or to be detached,
because no task changes its reservation otherwise. A commit that meets a log of
a task to be removed fails at the Restrict key; `CompletedLogged`, that a
completed task has a log, is therefore why a completion in between survives.

*RoomDeletion.* `DeletionInv` is `TypeOK`, the records behind the references,
`Excluded` (a sync and a deletion that holds its keys share no source and no
room) and `OneHand` (a file is in the care of one row or one deletion, and a
reported one in nobody's). `DeletionGoesThrough` takes the Restrict keys one by
one: a row in the way belongs to a room in the scope, which is as it was when it
was read, or to a stray of the property. `FilesAccounted` is a case per action:
only those of `Unheard` take a file out of somebody's care and leave it in the
storage without a report.

*CleaningPhotos.* `PhotosInv` is `TypeOK`, what each request and the clean-up have
in hand (`ReqOK`, `CleanerOK`) and `RoomLeft`: a request about to insert holds the
lock, and there is still room for its photo. The last is why the limit of
`PhotoLedger` holds although counting and inserting are two steps: whoever counts
has the lock until it has inserted, and everybody else only removes. One lemma
per action shows that the invariant stays and that the step appears in the
ledger as one `Add`, one `Remove`, or nothing (`Ledgered`). `TidyInv` is about
keys: unless an acknowledgement was lost, each key is in one place (a row, the
hands of one request, those of the clean-up, or nowhere), and a file that is
gone has no key in a row but one being removed. `Readable` and `Owned`, which say
where the file of a row and the row of a file are, are inductive only with it:
two holders of one key could remove each other's file.

*PhotoUploader.* `QueueInv`: the queue has a file once, the loop works exactly
while a request is out for the one marked item, whatever is queued or stored was
chosen under its id, an answer that says yes is true (`AnswerTrue`), and every
chosen id is in the queue, stored, or taken out (`Covered`). `Covered` is kept when
an item leaves the queue after its answer only because of `AnswerTrue`. Ids of a
file are numbered, which bounds how many are stored. `DialogInv` adds what the
copy still vouches for while it is stale (`ToldOK`): whatever had been chosen when
the dialog was told that all is settled has been stored or taken out, and stays so
through later choices, retries and lost answers.

*ReviewCollection.* `CollectionInv`: the log of a job at work exists (`LogOpen`), and
a log says SUCCESS exactly when something was added under it (`OutcomeTold`). It
holds with lost locks too. The rest is stated while `alone`, the history that no
lock was lost: jobs are one at a time, so what is new at the comparison is still
new at the insertion (`StillNew`), and whatever is stored is older than what a job
has in hand (`InOrder`). `NewestTold` then relates the newest snapshot of each link
to `last`, also where an equal rating was not stored again.

*Accounts.* `AccountsInv` is `TypeOK`, `Rows` (the membership a request is to
change exists) and `Checked`: what a request has found still holds as far as
nothing it looked at is marked. For a page (`PageHolds`) the marks are `moved` and
`alone`. For the console (`ConsoleHolds`) they are weaker: the companies not in
`moved` may have changed hands by another of its transactions, and the check still
holds because one that looked at the same company would have ended this one
(`Dependent`), and one that did not took no administrator of it; while its own rows
nobody can have written (`OwnRows`, by `Overwritten`). Two lemmas carry this over
a commit (`PageKept`, `ConsoleKept`), and `CommitFacts` says what one commit of the
console does to the companies of another. Then a commit harms only companies in
`moved` (`CommitProtects`), and a write what its check could not see
(`WriteProtects`).

A proof corrected the project once: `FeedFollowsUrl` had named only a sync that
lost its own lock, which holds with one sync log; `UrlInv` was not inductive, and
with a second log TLC showed the replacement that goes on without its key.

Only model-checked: liveness (`LocksReleased`, `DueIsSynced`, `ChosenIsSent`), which
is out of the prover's reach. Every safety property of the passing runs is
proved. Five theorems state what no run checks by itself: `DeletionSeesEverySync`,
`RoomsSyncedOneByOne`, `BatchesAreOrdered`, `PhotosWithinLimit`, `ServerIsALedger`.

## 5. Not modelled

- The feed safety policy: counts against thresholds, without state of its own.
  `CalendarSync` lets it accept or quarantine any feed, so whatever it decides is
  covered; whether its thresholds are good ones is not a question of order.
- Parsing of calendars and review pages, classification of events by provider:
  text processing whose results are the inputs of the models.
- The sweep that finds overlapping pairs, bulk dismissal (several single ones),
  the batch over several listings' reviews (independent listings).
- Sync history maintenance: an off-line script that prunes closed logs.
- The progress of claims and notes, statistics, dashboards, UI: records and views.
  That notes and claims refer to room and property, and go with the room, and that
  their files go after them, is in `RoomDeletion`.
- Permissions, scopes, invitation codes, role preview: sequential checks; a code
  is used up by one conditional UPDATE.

The map covers a small share of the repository's lines: most of these are pages,
components, scripts for diagnosis and validation, which hold no state.

## 6. Plan

Done: everything above. Next, in this order:

1. `FeedSafety`: the policy as operators over counts, with the share of stays one
   accepted feed can cancel.
2. The rest of the cleaning workflow and of the room form: creation of sources in
   `CalendarSync`, assignment and notes in `CleaningTasks`.
