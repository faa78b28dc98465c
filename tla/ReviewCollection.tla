-------------------------- MODULE ReviewCollection --------------------------
(***************************************************************************)
(* The reviews of one listing: the page a room has at one booking site.    *)
(* A collection reads the page under an advisory lock and stores a         *)
(* snapshot of the rating, the reviews and a log in one transaction        *)
(* (reviews/server/review-sync.service.ts).  The link of the listing may   *)
(* be changed, switched off or deleted with its room meanwhile.  Nothing   *)
(* is forgotten when the link changes: everything is kept with the link it *)
(* came from, and the lists show what belongs to the current one           *)
(* (reviews/server/review.repository.ts).                                  *)
(***************************************************************************)
EXTENDS Integers, Sequences, FiniteSets

CONSTANTS
    Jobs,      \* calls of collectReviews, and deletions of the room
    Urls,      \* links of the listing
    Ratings,   \* what a page may say
    Reviews,   \* the reviews a page may show
    None,
    Window,    \* snapshots that are read for a list (10)
    MaxLogs    \* bound of the collections in one behaviour

ASSUME BoundsAssumption == Window \in Nat \ {0} /\ MaxLogs \in Nat
ASSUME NoneAssumption == None \notin Jobs \cup Urls \cup Ratings \cup Nat
ASSUME ReviewsAssumption == IsFiniteSet(Reviews)

VARIABLES
    listing,   \* the link and whether it is in use
    snaps,     \* ReviewSnapshot rows in the order of collectedAt
    reviews,   \* ListingReview rows: link and review
    logs,      \* ReviewSyncLog rows in the order of startedAt
    job,       \* what each job is doing and has in hand
    lock,      \* who holds room-listing-review:<id>
    clock,     \* number of pages fetched so far
    last,      \* history: for each link the page fetched last of those stored
    added,     \* history: for each log the rows its transaction added
    alone      \* history: no job has gone on without its lock

vars == <<listing, snaps, reviews, logs, job, lock, clock, last, added, alone>>

Gone  == [url |-> None, life |-> "GONE"]
InUse(u) == listing = [url |-> u, life |-> "ACTIVE"]
Idle  == [pc |-> "idle", url |-> None, log |-> 0, rating |-> None, shows |-> {}, new |-> 0, at |-> 0]
At(j, pc) == job[j].pc = pc
Goto(j, pc) == job' = [job EXCEPT ![j].pc = pc]
EndWith(j, pc) == job' = [job EXCEPT ![j] = [Idle EXCEPT !.pc = pc, !.log = job[j].log]]

\* The age of a log matters only while it is open.
Closed(log, status) == [log EXCEPT !.status = status, !.fresh = FALSE]

\* The newest n entries of a sequence that is in order.
Newest(n, s) == SubSeq(s, IF Len(s) > n THEN Len(s) - n + 1 ELSE 1, Len(s))
OfLink(s, u) == {i \in DOMAIN s : s[i].url = u}
LastOf(I) == CHOOSE i \in I : \A k \in I : k <= i

-----------------------------------------------------------------------------
(* Collection                                                              *)

Begin(j) ==
    /\ job[j] = Idle /\ listing.life = "ACTIVE"
    /\ job' = [job EXCEPT ![j] = [Idle EXCEPT !.pc = "lock", !.url = listing.url]]
    /\ UNCHANGED <<listing, snaps, reviews, logs, lock, clock, last, added, alone>>

\* A call that is refused the key answers that a collection is running.
TryLock(j) ==
    /\ At(j, "lock")
    /\ \/ lock = None /\ lock' = j /\ Goto(j, "stale")
       \/ lock # None /\ job' = [job EXCEPT ![j] = Idle] /\ UNCHANGED lock
    /\ UNCHANGED <<listing, snaps, reviews, logs, clock, last, added, alone>>

MarkStale(j) ==
    /\ At(j, "stale")
    /\ logs' = [l \in DOMAIN logs |->
                  IF logs[l].status = "RUNNING" /\ ~logs[l].fresh
                    THEN Closed(logs[l], "TIMEOUT") ELSE logs[l]]
    /\ Goto(j, "check")
    /\ UNCHANGED <<listing, snaps, reviews, lock, clock, last, added, alone>>

Check(j) ==
    /\ At(j, "check")
    /\ IF InUse(job[j].url) THEN Goto(j, "open") ELSE EndWith(j, "unlock")
    /\ UNCHANGED <<listing, snaps, reviews, logs, lock, clock, last, added, alone>>

\* A log that cannot be written ends the call.
Open(j) ==
    /\ At(j, "open")
    /\ \/ /\ listing # Gone /\ Len(logs) < MaxLogs
          /\ logs' = Append(logs, [url |-> job[j].url, status |-> "RUNNING", fresh |-> TRUE, new |-> 0])
          /\ added' = Append(added, None)
          /\ job' = [job EXCEPT ![j].pc = "fetch", ![j].log = Len(logs) + 1]
       \/ EndWith(j, "unlock") /\ UNCHANGED <<logs, added>>
    /\ UNCHANGED <<listing, snaps, reviews, lock, clock, last, alone>>

\* The page says what it says at this moment, or cannot be read.
Fetch(j) ==
    /\ At(j, "fetch")
    /\ \/ \E rating \in Ratings, shows \in SUBSET Reviews :
          /\ job' = [job EXCEPT ![j] = [@ EXCEPT !.pc = "compare", !.rating = rating,
                                                   !.shows = shows, !.at = clock + 1]]
          /\ clock' = clock + 1
       \/ EndWith(j, "fail") /\ UNCHANGED clock
    /\ UNCHANGED <<listing, snaps, reviews, logs, lock, last, added, alone>>

Unknown(j) == {r \in job[j].shows : <<job[j].url, r>> \notin reviews}

\* How many are new is counted before the transaction begins.
Compare(j) ==
    /\ At(j, "compare")
    /\ job' = [job EXCEPT ![j].pc = "persist", ![j].new = Cardinality(Unknown(j))]
    /\ UNCHANGED <<listing, snaps, reviews, logs, lock, clock, last, added, alone>>

\* Bug: the latest snapshot is taken whatever its link.
RepeatsAnyLink(j) == snaps # <<>> /\ snaps[Len(snaps)].rating = job[j].rating

\* The page says what the latest snapshot of its link says.  The comparison is
\* of texts, a rating as the page writes it and as the stored decimal prints: an
\* equal one may still be stored again ("4.50" after 4.5).
Repeats(j) ==
    LET mine == OfLink(snaps, job[j].url)
    IN  mine # {} /\ snaps[LastOf(mine)].rating = job[j].rating

\* A snapshot has the time its page was fetched, not that of the transaction.
WithSnap(snap) ==
    LET n == Cardinality({i \in DOMAIN snaps : snaps[i].at < snap.at})
    IN  SubSeq(snaps, 1, n) \o <<snap>> \o SubSeq(snaps, n + 1, Len(snaps))

Persist(j) ==
    LET q == job[j] IN
    /\ At(j, "persist")
    /\ InUse(q.url)
    /\ \/ Repeats(j) /\ UNCHANGED snaps
       \/ snaps' = WithSnap([url |-> q.url, rating |-> q.rating, at |-> q.at])
    /\ reviews' = reviews \cup {<<q.url, r>> : r \in q.shows}
    /\ logs' = [logs EXCEPT ![q.log] = [Closed(@, "SUCCESS") EXCEPT !.new = q.new]]
    /\ last' = IF last[q.url].at > q.at THEN last
               ELSE [last EXCEPT ![q.url] = [rating |-> q.rating, at |-> q.at]]
    /\ added' = [added EXCEPT ![q.log] = Cardinality(Unknown(j))]
    /\ \/ EndWith(j, "unlock")
       \/ EndWith(j, "fail")
    /\ UNCHANGED <<listing, lock, clock, alone>>

\* The link is not what it was, or a statement fails: nothing is stored.
Refuse(j) ==
    /\ At(j, "persist")
    /\ EndWith(j, "fail")
    /\ UNCHANGED <<listing, snaps, reviews, logs, lock, clock, last, added, alone>>

\* Bug: the log is closed as failed whatever it says.
FailAnyLog(j) ==
    /\ At(j, "fail")
    /\ logs' = IF listing = Gone THEN logs ELSE [logs EXCEPT ![job[j].log] = Closed(@, "FAILED")]
    /\ job' = [job EXCEPT ![j] = [Idle EXCEPT !.pc = "unlock"]]
    /\ UNCHANGED <<listing, snaps, reviews, lock, clock, last, added, alone>>

\* failLog writes only over RUNNING; when it fails itself the log stays open.
Fail(j) ==
    /\ At(j, "fail")
    /\ \/ logs' = [l \in DOMAIN logs |->
                     IF l = job[j].log /\ logs[l].status = "RUNNING"
                       THEN Closed(logs[l], "FAILED") ELSE logs[l]]
       \/ UNCHANGED logs
    /\ job' = [job EXCEPT ![j] = [Idle EXCEPT !.pc = "unlock"]]
    /\ UNCHANGED <<listing, snaps, reviews, lock, clock, last, added, alone>>

Unlock(j) ==
    /\ At(j, "unlock")
    /\ lock' = IF lock = j THEN None ELSE lock
    /\ job' = [job EXCEPT ![j] = Idle]
    /\ UNCHANGED <<listing, snaps, reviews, logs, clock, last, added, alone>>

-----------------------------------------------------------------------------
(* The listing                                                             *)

\* saveRoomListing and the room form: whatever link is submitted is written.
Save(u) ==
    /\ listing # Gone
    /\ listing' = [url |-> u, life |-> "ACTIVE"]
    /\ UNCHANGED <<snaps, reviews, logs, job, lock, clock, last, added, alone>>

SwitchOff ==
    /\ listing.life = "ACTIVE"
    /\ listing' = [listing EXCEPT !.life = "INACTIVE"]
    /\ UNCHANGED <<snaps, reviews, logs, job, lock, clock, last, added, alone>>

\* The deletion of the room holds the key of the listing as well.
BeginDelete(j) ==
    /\ job[j] = Idle /\ listing # Gone /\ lock = None
    /\ lock' = j
    /\ job' = [job EXCEPT ![j] = [Idle EXCEPT !.pc = "delete"]]
    /\ UNCHANGED <<listing, snaps, reviews, logs, clock, last, added, alone>>

\* Snapshots, reviews and logs go with their listing (onDelete: Cascade).
DeleteTx(j) ==
    /\ At(j, "delete")
    /\ Goto(j, "unlock")
    /\ \/ /\ listing' = Gone
          /\ snaps' = <<>> /\ reviews' = {} /\ logs' = <<>> /\ added' = <<>>
       \/ UNCHANGED <<listing, snaps, reviews, logs, added>>
    /\ UNCHANGED <<lock, clock, last, alone>>

-----------------------------------------------------------------------------

\* More than REVIEW_SYNC_STALE_RUNNING_MS have passed since the log was opened.
Elapse(l) ==
    /\ logs[l].fresh /\ logs[l].status = "RUNNING"
    /\ logs' = [logs EXCEPT ![l].fresh = FALSE]
    /\ UNCHANGED <<listing, snaps, reviews, job, lock, clock, last, added, alone>>

Crash(j) ==
    /\ job[j] # Idle
    /\ job' = [job EXCEPT ![j] = Idle]
    /\ lock' = IF lock = j THEN None ELSE lock
    /\ UNCHANGED <<listing, snaps, reviews, logs, clock, last, added, alone>>

\* The connection that holds the lock ends; the job goes on with another one.
\* Looked at from the moment the log is there.
LoseLock(j) ==
    /\ lock = j /\ job[j].log # 0
    /\ lock' = None /\ alone' = FALSE
    /\ UNCHANGED <<listing, snaps, reviews, logs, job, clock, last, added>>

Init ==
    /\ listing = [url |-> None, life |-> "NONE"]
    /\ snaps = <<>> /\ reviews = {} /\ logs = <<>> /\ added = <<>>
    /\ job = [j \in Jobs |-> Idle]
    /\ lock = None /\ clock = 0
    /\ last = [u \in Urls |-> [rating |-> None, at |-> 0]]
    /\ alone = TRUE

Advance(j) ==
    \/ TryLock(j) \/ MarkStale(j) \/ Check(j) \/ Open(j) \/ Fetch(j) \/ Compare(j)
    \/ Persist(j) \/ Refuse(j) \/ Fail(j) \/ DeleteTx(j) \/ Unlock(j)

Next ==
    \/ \E j \in Jobs : Begin(j) \/ BeginDelete(j) \/ Advance(j) \/ Crash(j) \/ LoseLock(j)
    \/ \E u \in Urls : Save(u)
    \/ SwitchOff
    \/ \E l \in DOMAIN logs : Elapse(l)

Spec == Init /\ [][Next]_vars

-----------------------------------------------------------------------------
(* What the lists show                                                     *)

\* The current link is looked for among the newest snapshots of all links.
Shown ==
    LET read == Newest(Window, snaps)
        mine == OfLink(read, listing.url)
    IN  IF mine = {} THEN None ELSE read[LastOf(mine)].rating

-----------------------------------------------------------------------------
(* Properties                                                              *)

\* As many newer snapshots of other links as are read at all: the link was
\* changed, collected again and again, and changed back.
Crowded(u) ==
    \E i \in OfLink(snaps, u) : \A k \in OfLink(snaps, u) : k <= i /\ Len(snaps) - i >= Window

\* The rating that is shown is the one the current link had when its page was
\* last fetched and stored, whatever links there were in between, although equal
\* ratings are not stored again.  Two collections at once, when the first has
\* lost its lock, may leave an older one.
ShownIsLatest ==
    \A u \in Urls : InUse(u) /\ alone => Shown = last[u].rating \/ Crowded(u)

\* A log says SUCCESS exactly when its data is stored, also when the commit was
\* not acknowledged, the log had been given up before, or the link was changed;
\* and the reviews it says were new were, unless a lock was lost.
LogTellsOutcome ==
    \A l \in DOMAIN logs :
        /\ logs[l].status = "SUCCESS" <=> added[l] # None
        /\ logs[l].status = "SUCCESS" /\ alone => logs[l].new = added[l]
=============================================================================
