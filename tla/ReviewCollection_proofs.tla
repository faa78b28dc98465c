----------------------- MODULE ReviewCollection_proofs -----------------------
(* Proofs about ReviewCollection for every number of jobs, links, ratings  *)
(* and reviews, and every window.                                          *)
EXTENDS ReviewCollection, FiniteSetTheorems, SequenceTheorems, WellFoundedInduction, TLAPS

Steps == {"idle", "lock", "stale", "check", "open", "fetch", "compare", "persist",
          "fail", "unlock", "delete"}
JobType == [pc : Steps, url : Urls \cup {None}, log : Nat, rating : Ratings \cup {None},
            shows : SUBSET Reviews, new : Nat, at : Nat]
LogType == [url : Urls \cup {None}, status : {"RUNNING", "TIMEOUT", "SUCCESS", "FAILED"},
            fresh : BOOLEAN, new : Nat]

ShapeOK ==
    /\ listing \in [url : Urls \cup {None}, life : {"NONE", "ACTIVE", "INACTIVE", "GONE"}]
    /\ listing.life = "ACTIVE" => listing.url \in Urls
    /\ reviews \subseteq Urls \X Reviews
    /\ logs \in Seq(LogType) /\ added \in Seq(Nat \cup {None}) /\ Len(added) = Len(logs)
    /\ job \in [Jobs -> JobType]
    /\ clock \in Nat

(* As long as the listing exists, so does the log of a job that works.     *)
LogOpen == listing # Gone =>
    \A j \in Jobs : job[j].pc \in {"fetch", "compare", "persist"} => job[j].log \in 1..Len(logs)

(* A log that is still running, or was given up, has no data.              *)
OutcomeTold == \A l \in 1..Len(logs) : logs[l].status = "SUCCESS" <=> added[l] # None

CollectionInv == ShapeOK /\ LogOpen /\ OutcomeTold

(* Once, as long as no lock was lost.                                      *)
Holding(j) == job[j].pc \notin {"idle", "lock"}
OneAtATime == alone => \A j \in Jobs : Holding(j) => lock = j

(* Nobody writes between the comparison and the transaction.               *)
StillNew == alone => \A j \in Jobs : At(j, "persist") => job[j].new = Cardinality(Unknown(j))

NewTold == alone => \A l \in 1..Len(logs) : logs[l].status = "SUCCESS" => logs[l].new = added[l]

SnapType == [url : Urls, rating : Ratings, at : Nat]
LastType == [Urls -> [rating : Ratings \cup {None}, at : Nat]]

(* Pages are stored in the order in which they are read: what a job has in *)
(* hand is newer than whatever is stored.                                  *)
InOrder == alone =>
    /\ snaps \in Seq(SnapType) /\ last \in LastType
    /\ \A i \in 1..Len(snaps) : snaps[i].at <= clock
    /\ \A u \in Urls : last[u].at <= clock
    /\ \A j \in Jobs : job[j].pc \in {"compare", "persist"} =>
         /\ job[j].rating \in Ratings /\ job[j].at <= clock
         /\ \A i \in 1..Len(snaps) : snaps[i].at < job[j].at
         /\ \A u \in Urls : last[u].at < job[j].at

(* The newest snapshot of a link has the rating its page had last.         *)
Latest(i, u) == i \in OfLink(snaps, u) /\ \A k \in OfLink(snaps, u) : k <= i
NewestTold == alone /\ listing # Gone =>
    \A u \in Urls : /\ OfLink(snaps, u) = {} => last[u].rating = None
                    /\ \A i \in 1..Len(snaps) : Latest(i, u) => snaps[i].rating = last[u].rating

(* The steps that touch a job and its lock only.                           *)
Apart == UNCHANGED <<listing, reviews, logs, added>>

(* The empty state.                                                        *)
LEMMA CollectionInit == Init => CollectionInv
<1> SUFFICES ASSUME Init PROVE CollectionInv
  OBVIOUS
<1>1. Idle \in JobType
  BY DEF Idle, JobType, Steps
<1>2. ShapeOK
  BY <1>1 DEF Init, ShapeOK
<1>3. LogOpen /\ OutcomeTold
  BY DEF Init, LogOpen, OutcomeTold, Idle
<1> QED BY <1>2, <1>3 DEF CollectionInv

(* What a job becomes.                                                     *)
LEMMA JobMoves ==
    ASSUME CollectionInv, NEW j \in Jobs
    PROVE  /\ \A pc \in Steps : Goto(j, pc) =>
                /\ job' \in [Jobs -> JobType]
                /\ job'[j] = [job[j] EXCEPT !.pc = pc]
                /\ \A k \in Jobs \ {j} : job'[k] = job[k]
           /\ \A pc \in Steps : EndWith(j, pc) =>
                /\ job' \in [Jobs -> JobType]
                /\ job'[j] = [Idle EXCEPT !.pc = pc, !.log = job[j].log]
                /\ \A k \in Jobs \ {j} : job'[k] = job[k]
<1>1. ASSUME NEW pc \in Steps
      PROVE  /\ [job[j] EXCEPT !.pc = pc] \in JobType
             /\ [Idle EXCEPT !.pc = pc, !.log = job[j].log] \in JobType
  BY DEF CollectionInv, ShapeOK, JobType, Idle
<1>2. job \in [Jobs -> JobType]
  BY DEF CollectionInv, ShapeOK
<1> QED BY <1>1, <1>2 DEF Goto, EndWith

(* A step that leaves the rows alone keeps them well formed.               *)
LEMMA RowsApart ==
    ASSUME CollectionInv, Apart, job' \in [Jobs -> JobType], clock' \in Nat,
           \A j \in Jobs : job'[j].pc \in {"fetch", "compare", "persist"} =>
              job[j].pc \in {"fetch", "compare", "persist"} /\ job'[j].log = job[j].log
    PROVE  CollectionInv'
<1>1. ShapeOK'
  BY DEF CollectionInv, ShapeOK, Apart
<1>2. LogOpen'
  BY DEF CollectionInv, LogOpen, Apart
<1> QED BY <1>1, <1>2 DEF CollectionInv, OutcomeTold, Apart

(* The steps that touch a job and its lock only keep the invariant.        *)
LEMMA ApartKeeps ==
    ASSUME CollectionInv, NEW j \in Jobs,
           \/ Begin(j) \/ TryLock(j) \/ Check(j) \/ Fetch(j) \/ Compare(j)
           \/ Refuse(j) \/ Unlock(j) \/ BeginDelete(j) \/ Crash(j) \/ LoseLock(j)
    PROVE  CollectionInv'
<1>0. Idle \in JobType /\ Idle.pc = "idle"
  BY DEF Idle, JobType, Steps
<1>1. Apart
  BY DEF Begin, TryLock, Check, Fetch, Compare, Refuse, Unlock, BeginDelete, Crash, LoseLock, Apart
<1>2. clock' \in Nat
  <2>1. clock \in Nat
    BY DEF CollectionInv, ShapeOK
  <2>2. CASE Fetch(j)
    <3>1. clock' = clock + 1 \/ clock' = clock
      BY <2>2 DEF Fetch
    <3> QED BY <2>1, <3>1
  <2>3. CASE ~Fetch(j)
    <3>1. clock' = clock
      BY <2>3 DEF Begin, TryLock, Check, Compare, Refuse, Unlock, BeginDelete, Crash, LoseLock
    <3> QED BY <2>1, <3>1
  <2> QED BY <2>2, <2>3
<1>3. /\ job' \in [Jobs -> JobType]
      /\ \A k \in Jobs \ {j} : job'[k] = job[k]
      /\ job'[j].pc \in {"fetch", "compare", "persist"} =>
           job[j].pc \in {"fetch", "compare", "persist"} /\ job'[j].log = job[j].log
  <2> DEFINE Moved == /\ job' \in [Jobs -> JobType]
                      /\ \A k \in Jobs \ {j} : job'[k] = job[k]
                      /\ job'[j].pc \in {"fetch", "compare", "persist"} =>
                           job[j].pc \in {"fetch", "compare", "persist"} /\ job'[j].log = job[j].log
  <2>0. job \in [Jobs -> JobType]
    BY DEF CollectionInv, ShapeOK
  <2>1. CASE job' = [job EXCEPT ![j] = Idle]
    BY <1>0, <2>0, <2>1
  <2>2. CASE job' = job
    BY <2>0, <2>2
  <2>3. ASSUME NEW pc \in Steps \ {"fetch", "compare", "persist"}, Goto(j, pc) \/ EndWith(j, pc)
        PROVE  Moved
    <3>1. job[j] \in JobType /\ Idle \in JobType
      BY <1>0, <2>0
    <3>2. [job[j] EXCEPT !.pc = pc].pc = pc /\ [Idle EXCEPT !.pc = pc, !.log = job[j].log].pc = pc
      BY <3>1 DEF JobType
    <3>3. job'[j].pc = pc
      BY <2>3, <3>2, JobMoves
    <3> QED BY <2>3, <3>3, JobMoves
  <2>4. CASE Begin(j)
    <3>1. [Idle EXCEPT !.pc = "lock", !.url = listing.url] \in JobType
      BY DEF Idle, JobType, Steps, CollectionInv, ShapeOK
    <3> QED BY <2>0, <2>4, <3>1 DEF Begin, Idle
  <2>5. CASE TryLock(j)
    BY <2>1, <2>3, <2>5 DEF TryLock, Steps
  <2>6. CASE Check(j)
    <3>1. CASE Goto(j, "open") \/ EndWith(j, "unlock")
      BY <2>3, <3>1 DEF Steps
    <3> QED BY <2>6, <3>1 DEF Check
  <2>7. CASE Fetch(j)
    <3>1. ASSUME NEW rating \in Ratings, NEW shows \in SUBSET Reviews,
                 job' = [job EXCEPT ![j] = [@ EXCEPT !.pc = "compare", !.rating = rating,
                                                     !.shows = shows, !.at = clock + 1]]
          PROVE  Moved
      <4>1. job'[j] = [job[j] EXCEPT !.pc = "compare", !.rating = rating,
                                     !.shows = shows, !.at = clock + 1]
        BY <2>0, <3>1
      <4>2. job'[j] \in JobType /\ job'[j].log = job[j].log
        <5>1. clock + 1 \in Nat /\ "compare" \in Steps /\ job[j] \in JobType
          BY <2>0 DEF Steps, CollectionInv, ShapeOK
        <5> QED BY <4>1, <5>1 DEF JobType
      <4> QED BY <2>0, <2>7, <3>1, <4>2 DEF Fetch, At
    <3>2. CASE EndWith(j, "fail")
      BY <2>3, <3>2 DEF Steps
    <3> QED BY <2>7, <3>1, <3>2 DEF Fetch
  <2>8. CASE Compare(j)
    <3>1. Cardinality(Unknown(j)) \in Nat
      <4>1. Unknown(j) \in SUBSET Reviews
        BY <2>0 DEF Unknown, JobType
      <4> QED BY <4>1, ReviewsAssumption, FS_Subset, FS_CardinalityType
    <3> DEFINE n == Cardinality(Unknown(j))
    <3> HIDE DEF n
    <3>2. job'[j] = [job[j] EXCEPT !.pc = "persist", !.new = n]
          /\ job' = [job EXCEPT ![j] = [job[j] EXCEPT !.pc = "persist", !.new = n]]
      BY <2>0, <2>8 DEF Compare, n
    <3>3. job'[j] \in JobType /\ job'[j].log = job[j].log
      BY <2>0, <3>1, <3>2 DEF JobType, Steps, n
    <3> QED BY <2>0, <2>8, <3>2, <3>3 DEF Compare, At
  <2>9. CASE Refuse(j)
    BY <2>3, <2>9 DEF Refuse, Steps
  <2>10. CASE BeginDelete(j)
    <3>1. [Idle EXCEPT !.pc = "delete"] \in JobType
      BY DEF Idle, JobType, Steps
    <3> QED BY <2>0, <2>10, <3>1 DEF BeginDelete, Idle
  <2>11. CASE Unlock(j) \/ Crash(j) \/ LoseLock(j)
    BY <2>1, <2>2, <2>11 DEF Unlock, Crash, LoseLock
  <2> QED BY <2>4, <2>5, <2>6, <2>7, <2>8, <2>9, <2>10, <2>11
<1> QED BY <1>1, <1>2, <1>3, RowsApart

(* Marking the stale logs closes none that has data.                       *)
LEMMA MarkStaleKeeps ==
    ASSUME CollectionInv, NEW j \in Jobs, MarkStale(j)
    PROVE  CollectionInv'
<1>1. /\ UNCHANGED <<listing, reviews, clock, added>>
      /\ job' \in [Jobs -> JobType]
      /\ \A k \in Jobs : job'[k].pc \in {"fetch", "compare", "persist"} => job'[k] = job[k]
  <2>1. Goto(j, "check") /\ "check" \in Steps
    BY DEF MarkStale, Steps
  <2>2. [job[j] EXCEPT !.pc = "check"].pc = "check"
    BY DEF CollectionInv, ShapeOK, JobType
  <2> QED BY <2>1, <2>2, JobMoves DEF MarkStale
<1>2. /\ logs' \in Seq(LogType) /\ Len(logs') = Len(logs)
      /\ \A l \in 1..Len(logs) : logs'[l].status = "SUCCESS" <=> logs[l].status = "SUCCESS"
  <2> DEFINE e(l) == IF logs[l].status = "RUNNING" /\ ~logs[l].fresh
                       THEN Closed(logs[l], "TIMEOUT") ELSE logs[l]
  <2>1. logs' = [l \in 1..Len(logs) |-> e(l)]
    BY DEF MarkStale, CollectionInv, ShapeOK
  <2>2. ASSUME NEW l \in 1..Len(logs)
        PROVE  e(l) \in LogType /\ (e(l).status = "SUCCESS" <=> logs[l].status = "SUCCESS")
    <3>1. logs[l] \in LogType
      BY ElementOfSeq DEF CollectionInv, ShapeOK
    <3> QED BY <3>1 DEF Closed, LogType
  <2> HIDE DEF e
  <2>3. Len(logs) \in Nat
    BY DEF CollectionInv, ShapeOK
  <2> QED BY <2>1, <2>2, <2>3
<1>3. ShapeOK'
  BY <1>1, <1>2 DEF CollectionInv, ShapeOK
<1>4. LogOpen'
  BY <1>1, <1>2 DEF CollectionInv, LogOpen
<1>5. OutcomeTold'
  BY <1>1, <1>2 DEF CollectionInv, OutcomeTold
<1> QED BY <1>3, <1>4, <1>5 DEF CollectionInv

(* A log is opened at the end of the others.                               *)
LEMMA OpenKeeps ==
    ASSUME CollectionInv, NEW j \in Jobs, Open(j)
    PROVE  CollectionInv'
<1>0. /\ UNCHANGED <<listing, reviews, clock>> /\ job \in [Jobs -> JobType]
      /\ logs \in Seq(LogType) /\ added \in Seq(Nat \cup {None}) /\ Len(added) = Len(logs)
      /\ Len(logs) \in Nat
  BY DEF Open, CollectionInv, ShapeOK
<1>1. CASE EndWith(j, "unlock") /\ UNCHANGED <<logs, added>>
  <2>1. Apart
    BY <1>0, <1>1 DEF Apart
  <2>2. [Idle EXCEPT !.pc = "unlock", !.log = job[j].log].pc = "unlock"
    BY DEF Idle
  <2>3. /\ job' \in [Jobs -> JobType]
        /\ job'[j].pc = "unlock"
        /\ \A k \in Jobs \ {j} : job'[k] = job[k]
    BY <1>1, <2>2, JobMoves DEF Steps
  <2>4. clock' \in Nat
    BY <1>0 DEF CollectionInv, ShapeOK
  <2> QED BY <2>1, <2>3, <2>4, RowsApart
<1>2. CASE /\ logs' = Append(logs, [url |-> job[j].url, status |-> "RUNNING", fresh |-> TRUE, new |-> 0])
           /\ added' = Append(added, None)
           /\ job' = [job EXCEPT ![j].pc = "fetch", ![j].log = Len(logs) + 1]
  <2> DEFINE row == [url |-> job[j].url, status |-> "RUNNING", fresh |-> TRUE, new |-> 0]
  <2>1. row \in LogType /\ row.status = "RUNNING"
    BY <1>0 DEF LogType, JobType
  <2> HIDE DEF row
  <2>2. /\ logs' \in Seq(LogType) /\ Len(logs') = Len(logs) + 1
        /\ \A l \in 1..Len(logs) : logs'[l] = logs[l]
        /\ logs'[Len(logs) + 1] = row
    BY <1>0, <1>2, <2>1, AppendProperties DEF row
  <2>3. /\ added' \in Seq(Nat \cup {None}) /\ Len(added') = Len(added) + 1
        /\ \A l \in 1..Len(added) : added'[l] = added[l]
        /\ added'[Len(added) + 1] = None
    BY <1>0, <1>2, AppendProperties
  <2>4. /\ job'[j] = [job[j] EXCEPT !.pc = "fetch", !.log = Len(logs) + 1]
        /\ \A k \in Jobs \ {j} : job'[k] = job[k]
        /\ job' = [job EXCEPT ![j] = job'[j]]
    BY <1>0, <1>2
  <2>5. job'[j] \in JobType /\ job'[j].log = Len(logs) + 1
    <3>1. job[j] \in JobType /\ Len(logs) + 1 \in Nat /\ "fetch" \in Steps
      BY <1>0 DEF Steps
    <3> QED BY <2>4, <3>1 DEF JobType
  <2>6. ShapeOK'
    BY <1>0, <2>2, <2>3, <2>4, <2>5 DEF CollectionInv, ShapeOK
  <2>7. LogOpen'
    <3> SUFFICES ASSUME listing # Gone, NEW k \in Jobs, job'[k].pc \in {"fetch", "compare", "persist"}
                 PROVE  job'[k].log \in 1..Len(logs')
      BY <1>0 DEF LogOpen, Gone
    <3>1. CASE k = j
      BY <1>0, <2>2, <2>5, <3>1
    <3>2. CASE k # j
      BY <1>0, <2>2, <2>4, <3>2 DEF CollectionInv, LogOpen
    <3> QED BY <3>1, <3>2
  <2>8. OutcomeTold'
    <3> SUFFICES ASSUME NEW l \in 1..Len(logs')
                 PROVE  logs'[l].status = "SUCCESS" <=> added'[l] # None
      BY DEF OutcomeTold
    <3>1. CASE l = Len(logs) + 1
      BY <1>0, <2>1, <2>2, <2>3, <3>1
    <3>2. CASE l \in 1..Len(logs)
      BY <1>0, <2>2, <2>3, <3>2 DEF CollectionInv, OutcomeTold
    <3> QED BY <1>0, <2>2, <3>1, <3>2
  <2> QED BY <2>6, <2>7, <2>8 DEF CollectionInv
<1> QED BY <1>1, <1>2 DEF Open

(* What a transaction writes into the log of its job.                      *)
LEMMA PersistLog ==
    ASSUME CollectionInv, NEW j \in Jobs, Persist(j)
    PROVE  /\ job[j].log \in 1..Len(logs) /\ job[j].url \in Urls
           /\ Cardinality(Unknown(j)) \in Nat
           /\ logs' \in Seq(LogType) /\ Len(logs') = Len(logs)
           /\ logs'[job[j].log].status = "SUCCESS" /\ logs'[job[j].log].new = job[j].new
           /\ \A l \in 1..Len(logs) : l # job[j].log => logs'[l] = logs[l]
           /\ added' \in Seq(Nat \cup {None}) /\ Len(added') = Len(added)
           /\ added'[job[j].log] = Cardinality(Unknown(j))
           /\ \A l \in 1..Len(logs) : l # job[j].log => added'[l] = added[l]
           /\ job' \in [Jobs -> JobType] /\ job'[j].pc \in {"unlock", "fail"}
           /\ \A k \in Jobs \ {j} : job'[k] = job[k]
<1>0. /\ logs \in Seq(LogType) /\ added \in Seq(Nat \cup {None}) /\ Len(added) = Len(logs)
      /\ job[j] \in JobType /\ Len(logs) \in Nat
  BY DEF CollectionInv, ShapeOK
<1>1. listing # Gone /\ job[j].url \in Urls /\ job[j].pc = "persist"
  BY DEF Persist, InUse, Gone, At, CollectionInv, ShapeOK
<1>2. job[j].log \in 1..Len(logs)
  BY <1>1 DEF CollectionInv, LogOpen
<1>3. Cardinality(Unknown(j)) \in Nat
  <2>1. Unknown(j) \in SUBSET Reviews
    BY <1>0 DEF Unknown, JobType
  <2> QED BY <2>1, ReviewsAssumption, FS_Subset, FS_CardinalityType
<1> DEFINE row == [Closed(logs[job[j].log], "SUCCESS") EXCEPT !.new = job[j].new]
           n == Cardinality(Unknown(j))
<1>4. row \in LogType /\ row.status = "SUCCESS" /\ row.new = job[j].new
  <2>1. logs[job[j].log] \in LogType /\ job[j].new \in Nat
    BY <1>0, <1>2, ElementOfSeq DEF JobType
  <2> QED BY <2>1 DEF Closed, LogType
<1>5. logs' = [logs EXCEPT ![job[j].log] = row] /\ added' = [added EXCEPT ![job[j].log] = n]
  BY DEF Persist
<1> HIDE DEF row, n
<1>6. /\ logs' \in Seq(LogType) /\ Len(logs') = Len(logs)
      /\ \A l \in 1..Len(logs) : logs'[l] = IF l = job[j].log THEN row ELSE logs[l]
  BY <1>0, <1>2, <1>4, <1>5, ExceptSeq
<1>7. /\ added' \in Seq(Nat \cup {None}) /\ Len(added') = Len(added)
      /\ \A l \in 1..Len(logs) : added'[l] = IF l = job[j].log THEN n ELSE added[l]
  <2>1. n \in Nat \cup {None}
    BY <1>3 DEF n
  <2> QED BY <1>0, <1>2, <1>5, <2>1, ExceptSeq
<1>8. /\ job' \in [Jobs -> JobType] /\ job'[j].pc \in {"unlock", "fail"}
      /\ \A k \in Jobs \ {j} : job'[k] = job[k]
  <2>1. ASSUME NEW pc \in {"unlock", "fail"}
        PROVE  [Idle EXCEPT !.pc = pc, !.log = job[j].log].pc = pc
    BY DEF Idle
  <2>2. EndWith(j, "unlock") \/ EndWith(j, "fail")
    BY DEF Persist
  <2> QED BY <2>1, <2>2, JobMoves DEF Steps
<1> QED BY <1>1, <1>2, <1>3, <1>4, <1>6, <1>7, <1>8 DEF n

(* A transaction writes into the log of its job and its reviews.           *)
LEMMA PersistKeeps ==
    ASSUME CollectionInv, NEW j \in Jobs, Persist(j)
    PROVE  CollectionInv'
<1>1. UNCHANGED <<listing, clock>> /\ reviews' = reviews \cup {<<job[j].url, r>> : r \in job[j].shows}
  BY DEF Persist
<1>2. ShapeOK'
  <2>1. reviews' \subseteq Urls \X Reviews
    BY <1>1, PersistLog DEF CollectionInv, ShapeOK, JobType
  <2> QED BY <1>1, <2>1, PersistLog DEF CollectionInv, ShapeOK
<1>3. LogOpen'
  BY <1>1, PersistLog DEF CollectionInv, LogOpen
<1>4. OutcomeTold'
  BY PersistLog, NoneAssumption DEF CollectionInv, OutcomeTold
<1> QED BY <1>2, <1>3, <1>4 DEF CollectionInv

(* What Fail and Elapse do to the logs: none gets or loses its data.       *)
LEMMA LogsAdjusted ==
    ASSUME CollectionInv, UNCHANGED <<listing, reviews, added, clock>>,
           job' \in [Jobs -> JobType],
           \A k \in Jobs : job'[k].pc \in {"fetch", "compare", "persist"} => job'[k] = job[k],
           logs' \in Seq(LogType), Len(logs') = Len(logs),
           \A l \in 1..Len(logs) : logs'[l].status = "SUCCESS" <=> logs[l].status = "SUCCESS"
    PROVE  CollectionInv'
<1>1. ShapeOK'
  BY DEF CollectionInv, ShapeOK
<1>2. LogOpen'
  BY DEF CollectionInv, LogOpen
<1>3. OutcomeTold'
  BY DEF CollectionInv, OutcomeTold
<1> QED BY <1>1, <1>2, <1>3 DEF CollectionInv

(* Fail closes the log of its job, if that is still running.               *)
LEMMA FailKeeps ==
    ASSUME CollectionInv, NEW j \in Jobs, Fail(j)
    PROVE  CollectionInv'
<1>1. /\ logs \in Seq(LogType) /\ Len(logs) \in Nat /\ job \in [Jobs -> JobType]
      /\ UNCHANGED <<listing, reviews, added, clock>>
  BY DEF Fail, CollectionInv, ShapeOK
<1>2. /\ job' \in [Jobs -> JobType]
      /\ \A k \in Jobs : job'[k].pc \in {"fetch", "compare", "persist"} => job'[k] = job[k]
  <2>1. [Idle EXCEPT !.pc = "unlock"] \in JobType /\ [Idle EXCEPT !.pc = "unlock"].pc = "unlock"
    BY DEF Idle, JobType, Steps
  <2> QED BY <1>1, <2>1 DEF Fail
<1>3. /\ logs' \in Seq(LogType) /\ Len(logs') = Len(logs)
      /\ \A l \in 1..Len(logs) : logs'[l].status = "SUCCESS" <=> logs[l].status = "SUCCESS"
  <2> DEFINE e(l) == IF l = job[j].log /\ logs[l].status = "RUNNING"
                       THEN Closed(logs[l], "FAILED") ELSE logs[l]
  <2>1. logs' = logs \/ logs' = [l \in 1..Len(logs) |-> e(l)]
    BY <1>1 DEF Fail
  <2>2. ASSUME NEW l \in 1..Len(logs)
        PROVE  e(l) \in LogType /\ (e(l).status = "SUCCESS" <=> logs[l].status = "SUCCESS")
    <3>1. logs[l] \in LogType
      BY <1>1, ElementOfSeq
    <3> QED BY <3>1 DEF Closed, LogType
  <2> HIDE DEF e
  <2> QED BY <1>1, <2>1, <2>2
<1> QED BY <1>1, <1>2, <1>3, LogsAdjusted

(* Time closes no log.                                                     *)
LEMMA ElapseKeeps ==
    ASSUME CollectionInv, NEW l \in DOMAIN logs, Elapse(l)
    PROVE  CollectionInv'
<1>1. /\ logs \in Seq(LogType) /\ Len(logs) \in Nat /\ l \in 1..Len(logs)
      /\ UNCHANGED <<listing, reviews, added, clock, job>>
  BY DEF Elapse, CollectionInv, ShapeOK
<1>2. /\ [logs[l] EXCEPT !.fresh = FALSE] \in LogType
      /\ [logs[l] EXCEPT !.fresh = FALSE].status = logs[l].status
  <2>1. logs[l] \in LogType
    BY <1>1, ElementOfSeq
  <2> QED BY <2>1 DEF LogType
<1>3. logs' = [logs EXCEPT ![l] = [logs[l] EXCEPT !.fresh = FALSE]]
  BY <1>1 DEF Elapse
<1>4. /\ logs' \in Seq(LogType) /\ Len(logs') = Len(logs)
      /\ \A k \in 1..Len(logs) : logs'[k].status = "SUCCESS" <=> logs[k].status = "SUCCESS"
  BY <1>1, <1>2, <1>3, ExceptSeq
<1> QED BY <1>1, <1>4, LogsAdjusted DEF CollectionInv, ShapeOK

(* The deletion takes everything with it, and the listing never returns.   *)
LEMMA DeleteKeeps ==
    ASSUME CollectionInv, NEW j \in Jobs, DeleteTx(j)
    PROVE  CollectionInv'
<1>1. /\ clock' = clock /\ job' \in [Jobs -> JobType]
      /\ \A k \in Jobs : job'[k].pc \in {"fetch", "compare", "persist"} => job'[k] = job[k]
  <2>1. Goto(j, "unlock") /\ "unlock" \in Steps
    BY DEF DeleteTx, Steps
  <2>2. [job[j] EXCEPT !.pc = "unlock"].pc = "unlock"
    BY DEF CollectionInv, ShapeOK, JobType
  <2> QED BY <2>1, <2>2, JobMoves DEF DeleteTx
<1>2. CASE UNCHANGED <<listing, reviews, logs, added>>
  BY <1>1, <1>2 DEF CollectionInv, ShapeOK, LogOpen, OutcomeTold
<1>3. CASE listing' = Gone /\ reviews' = {} /\ logs' = <<>> /\ added' = <<>>
  <2>1. ShapeOK'
    BY <1>1, <1>3 DEF CollectionInv, ShapeOK, Gone
  <2>2. LogOpen'
    BY <1>3 DEF LogOpen
  <2>3. OutcomeTold'
    BY <1>3 DEF OutcomeTold
  <2> QED BY <2>1, <2>2, <2>3 DEF CollectionInv
<1> QED BY <1>2, <1>3 DEF DeleteTx

(* So does whatever happens to the link.                                   *)
LEMMA ListingKeeps ==
    ASSUME CollectionInv, (\E u \in Urls : Save(u)) \/ SwitchOff
    PROVE  CollectionInv'
<1>1. /\ UNCHANGED <<reviews, logs, added, job, clock>> /\ listing # Gone
      /\ listing' \in [url : Urls \cup {None}, life : {"NONE", "ACTIVE", "INACTIVE", "GONE"}]
      /\ listing'.life = "ACTIVE" => listing'.url \in Urls
  BY DEF Save, SwitchOff, CollectionInv, ShapeOK, Gone
<1> QED BY <1>1 DEF CollectionInv, ShapeOK, LogOpen, OutcomeTold

(* Every step keeps the invariant.                                         *)
LEMMA CollectionStep == CollectionInv /\ [Next]_vars => CollectionInv'
<1> SUFFICES ASSUME CollectionInv, [Next]_vars
             PROVE  CollectionInv'
  OBVIOUS
<1>1. ASSUME NEW j \in Jobs,
             \/ Begin(j) \/ TryLock(j) \/ Check(j) \/ Fetch(j) \/ Compare(j)
             \/ Refuse(j) \/ Unlock(j) \/ BeginDelete(j) \/ Crash(j) \/ LoseLock(j)
      PROVE  CollectionInv'
  BY <1>1, ApartKeeps
<1>2. ASSUME NEW j \in Jobs, MarkStale(j)
      PROVE  CollectionInv'
  BY <1>2, MarkStaleKeeps
<1>3. ASSUME NEW j \in Jobs, Open(j)
      PROVE  CollectionInv'
  BY <1>3, OpenKeeps
<1>4. ASSUME NEW j \in Jobs, Persist(j)
      PROVE  CollectionInv'
  BY <1>4, PersistKeeps
<1>5. ASSUME NEW j \in Jobs, Fail(j)
      PROVE  CollectionInv'
  BY <1>5, FailKeeps
<1>6. ASSUME NEW j \in Jobs, DeleteTx(j)
      PROVE  CollectionInv'
  BY <1>6, DeleteKeeps
<1>7. CASE (\E u \in Urls : Save(u)) \/ SwitchOff
  BY <1>7, ListingKeeps
<1>8. ASSUME NEW l \in DOMAIN logs, Elapse(l)
      PROVE  CollectionInv'
  BY <1>8, ElapseKeeps
<1>9. CASE UNCHANGED vars
  BY <1>9 DEF vars, CollectionInv, ShapeOK, LogOpen, OutcomeTold
<1> QED BY <1>1, <1>2, <1>3, <1>4, <1>5, <1>6, <1>7, <1>8, <1>9 DEF Next, Advance

(* So it holds throughout.                                                 *)
LEMMA CollectionInvariant == Spec => []CollectionInv
<1> QED BY CollectionInit, CollectionStep, PTL DEF Spec

-----------------------------------------------------------------------------
(* What the lock is good for                                               *)

(* Every step is a step of one job, or of none.                            *)
LEMMA OneJobMoves ==
    ASSUME CollectionInv, NEW j \in Jobs,
           Begin(j) \/ BeginDelete(j) \/ Advance(j) \/ Crash(j) \/ LoseLock(j)
    PROVE  \A k \in Jobs \ {j} : job'[k] = job[k]
<1> job \in [Jobs -> JobType]
  BY DEF CollectionInv, ShapeOK
<1>1. CASE Advance(j)
  BY <1>1 DEF Advance, TryLock, MarkStale, Check, Open, Fetch, Compare, Persist, Refuse, Fail,
              DeleteTx, Unlock, Goto, EndWith
<1>2. CASE Begin(j) \/ BeginDelete(j) \/ Crash(j) \/ LoseLock(j)
  BY <1>2 DEF Begin, BeginDelete, Crash, LoseLock
<1> QED BY <1>1, <1>2

(* Only the job that takes the lock begins to work.                        *)
LEMMA OneAtATimeStep ==
    ASSUME CollectionInv, OneAtATime, [Next]_vars
    PROVE  OneAtATime'
<1> USE DEF OneAtATime, Holding
<1>0. job \in [Jobs -> JobType] /\ Idle.pc = "idle"
  BY DEF CollectionInv, ShapeOK, Idle
<1>1. ASSUME NEW j \in Jobs,
             \/ MarkStale(j) \/ Check(j) \/ Open(j) \/ Fetch(j) \/ Compare(j)
             \/ Persist(j) \/ Refuse(j) \/ Fail(j) \/ DeleteTx(j)
      PROVE  OneAtATime'
  <2>1. UNCHANGED <<lock, alone>> /\ job[j].pc \notin {"idle", "lock"}
    BY <1>1 DEF MarkStale, Check, Open, Fetch, Compare, Persist, Refuse, Fail, DeleteTx, At
  <2>2. \A k \in Jobs \ {j} : job'[k] = job[k]
    BY <1>1, OneJobMoves DEF Advance
  <2> QED BY <2>1, <2>2
<1>2. ASSUME NEW j \in Jobs, Begin(j)
      PROVE  OneAtATime'
  <2>1. job'[j] = [Idle EXCEPT !.pc = "lock", !.url = listing.url]
    BY <1>0, <1>2 DEF Begin
  <2>2. job'[j].pc = "lock"
    BY <2>1 DEF Idle
  <2> QED BY <1>2, <2>2, OneJobMoves DEF Begin
<1>3. ASSUME NEW j \in Jobs, TryLock(j) \/ BeginDelete(j)
      PROVE  OneAtATime'
  <2>1. \A k \in Jobs \ {j} : job'[k] = job[k]
    BY <1>3, OneJobMoves DEF Advance
  <2>2. CASE lock = None /\ lock' = j /\ alone' = alone
    BY <2>1, <2>2, NoneAssumption
  <2>3. CASE UNCHANGED <<lock, alone>> /\ job' = [job EXCEPT ![j] = Idle]
    BY <1>0, <2>1, <2>3
  <2> QED BY <1>3, <2>2, <2>3 DEF TryLock, BeginDelete
<1>4. ASSUME NEW j \in Jobs, Unlock(j) \/ Crash(j)
      PROVE  OneAtATime'
  <2>1. /\ job'[j].pc = "idle" /\ lock' = IF lock = j THEN None ELSE lock
        /\ alone' = alone
    BY <1>0, <1>4 DEF Unlock, Crash
  <2>2. \A k \in Jobs \ {j} : job'[k] = job[k]
    BY <1>4, OneJobMoves DEF Advance
  <2> QED BY <2>1, <2>2
<1>5. ASSUME NEW j \in Jobs, LoseLock(j)
      PROVE  OneAtATime'
  BY <1>5 DEF LoseLock
<1>6. CASE UNCHANGED <<job, lock, alone>>
  BY <1>6
<1>7. CASE (\E u \in Urls : Save(u)) \/ SwitchOff \/ (\E l \in DOMAIN logs : Elapse(l)) \/ UNCHANGED vars
  BY <1>6, <1>7 DEF Save, SwitchOff, Elapse, vars
<1> QED BY <1>1, <1>2, <1>3, <1>4, <1>5, <1>7 DEF Next, Advance

(* A job comes to its transaction by its comparison only, and to the       *)
(* comparison by reading the page.                                         *)
LEMMA ByComparison ==
    ASSUME CollectionInv, [Next]_vars, NEW j \in Jobs
    PROVE  /\ job'[j].pc = "persist" => job'[j] = job[j] \/ Compare(j)
           /\ job'[j].pc = "compare" => job'[j] = job[j] \/ Fetch(j)
<1>0. job \in [Jobs -> JobType] /\ Idle.pc = "idle"
  BY DEF CollectionInv, ShapeOK, Idle
<1>1. ASSUME NEW k \in Jobs \ {j},
             Begin(k) \/ BeginDelete(k) \/ Advance(k) \/ Crash(k) \/ LoseLock(k)
      PROVE  job'[j] = job[j]
  BY <1>1, OneJobMoves
<1>2. CASE TryLock(j) \/ MarkStale(j) \/ Check(j) \/ Open(j) \/ Persist(j) \/ Refuse(j) \/ DeleteTx(j)
  <2>1. \A pc \in Steps : Goto(j, pc) \/ EndWith(j, pc) => job'[j].pc = pc
    <3>1. job[j] \in JobType
      BY <1>0
    <3>2. \A pc \in Steps : [job[j] EXCEPT !.pc = pc].pc = pc /\ [Idle EXCEPT !.pc = pc, !.log = job[j].log].pc = pc
      BY <3>1 DEF JobType, Idle
    <3> QED BY <3>2, JobMoves
  <2>2. job' = [job EXCEPT ![j].pc = "fetch", ![j].log = Len(logs) + 1] => job'[j].pc = "fetch"
    <3>1. job[j] \in JobType
      BY <1>0
    <3>2. [job[j] EXCEPT !.pc = "fetch", !.log = Len(logs) + 1].pc = "fetch"
      BY <3>1 DEF JobType
    <3> QED BY <1>0, <3>2
  <2>3. job' = [job EXCEPT ![j] = Idle] => job'[j].pc = "idle"
    BY <1>0
  <2> QED BY <1>2, <2>1, <2>2, <2>3 DEF TryLock, MarkStale, Check, Open, Persist, Refuse, DeleteTx, Steps
<1>3. CASE Begin(j) \/ BeginDelete(j) \/ Fail(j) \/ Unlock(j) \/ Crash(j) \/ LoseLock(j)
  <2>1. /\ [Idle EXCEPT !.pc = "lock", !.url = listing.url].pc = "lock"
        /\ [Idle EXCEPT !.pc = "delete"].pc = "delete"
        /\ [Idle EXCEPT !.pc = "unlock"].pc = "unlock"
    BY DEF Idle
  <2> QED BY <1>0, <1>3, <2>1 DEF Begin, BeginDelete, Fail, Unlock, Crash, LoseLock
<1>4. CASE Fetch(j)
  <2>1. CASE EndWith(j, "fail")
    <3>1. [Idle EXCEPT !.pc = "fail", !.log = job[j].log].pc = "fail"
      BY DEF Idle
    <3> QED BY <2>1, <3>1, JobMoves DEF Steps
  <2>2. ASSUME NEW rating \in Ratings, NEW shows \in SUBSET Reviews,
               job' = [job EXCEPT ![j] = [@ EXCEPT !.pc = "compare", !.rating = rating,
                                                   !.shows = shows, !.at = clock + 1]]
        PROVE  job'[j].pc = "compare"
    <3>1. job[j] \in JobType
      BY <1>0
    <3>2. job'[j] = [job[j] EXCEPT !.pc = "compare", !.rating = rating, !.shows = shows, !.at = clock + 1]
      BY <1>0, <2>2
    <3> QED BY <3>1, <3>2 DEF JobType
  <2> QED BY <1>4, <2>1, <2>2 DEF Fetch
<1>5. CASE Compare(j)
  <2>1. job[j] \in JobType
    BY <1>0
  <2>2. job'[j] = [job[j] EXCEPT !.pc = "persist", !.new = Cardinality(Unknown(j))]
    BY <1>0, <1>5 DEF Compare
  <2> QED BY <1>5, <2>1, <2>2 DEF JobType
<1>6. CASE (\E u \in Urls : Save(u)) \/ SwitchOff \/ (\E l \in DOMAIN logs : Elapse(l)) \/ UNCHANGED vars
  BY <1>6 DEF Save, SwitchOff, Elapse, vars
<1> QED BY <1>1, <1>2, <1>3, <1>4, <1>5, <1>6 DEF Next, Advance

(* What a job has in hand after its comparison.                            *)
LEMMA Compared ==
    ASSUME CollectionInv, NEW j \in Jobs, Compare(j)
    PROVE  /\ UNCHANGED <<listing, snaps, reviews, logs, added, lock, clock, last, alone>>
           /\ job[j].pc = "compare" /\ job'[j].pc = "persist"
           /\ job'[j].new = Cardinality(Unknown(j))
           /\ job'[j].url = job[j].url /\ job'[j].shows = job[j].shows
           /\ job'[j].rating = job[j].rating /\ job'[j].at = job[j].at
<1>1. job[j] \in JobType /\ job'[j] = [job[j] EXCEPT !.pc = "persist", !.new = Cardinality(Unknown(j))]
  BY DEF Compare, CollectionInv, ShapeOK
<1>2. /\ job'[j].pc = "persist" /\ job'[j].new = Cardinality(Unknown(j))
      /\ job'[j].url = job[j].url /\ job'[j].shows = job[j].shows
      /\ job'[j].rating = job[j].rating /\ job'[j].at = job[j].at
  BY <1>1 DEF JobType
<1> QED BY <1>2 DEF Compare, At

(* Reviews are added and removed under the lock.                           *)
LEMMA StillNewStep ==
    ASSUME CollectionInv, OneAtATime, StillNew, [Next]_vars
    PROVE  StillNew'
<1> SUFFICES ASSUME alone', NEW j \in Jobs, job'[j].pc = "persist"
             PROVE  job'[j].new = Cardinality(Unknown(j)')
  BY DEF StillNew, At
<1>0. alone
  BY DEF Next, Advance, vars, Begin, TryLock, MarkStale, Check, Open, Fetch, Compare, Persist, Refuse,
         Fail, DeleteTx, Unlock, BeginDelete, Crash, LoseLock, Save, SwitchOff, Elapse
<1>1. CASE Compare(j)
  <2>1. Unknown(j)' = Unknown(j)
    BY <1>1, Compared DEF Unknown
  <2> QED BY <1>1, <2>1, Compared
<1>2. CASE job'[j] = job[j]
  <2>1. reviews' = reviews
    <3>1. ASSUME NEW k \in Jobs, Persist(k) \/ DeleteTx(k)
          PROVE  FALSE
      <4>1. lock = k /\ lock = j
        BY <1>0, <1>2, <3>1 DEF OneAtATime, Holding, Persist, DeleteTx, At
      <4>2. CASE Persist(j)
        BY <4>2, <1>2, PersistLog
      <4>3. CASE DeleteTx(j)
        BY <4>3, <1>2 DEF DeleteTx, At
      <4> QED BY <3>1, <4>1, <4>2, <4>3
    <3> QED BY <3>1 DEF Next, Advance, vars, Begin, TryLock, MarkStale, Check, Open, Fetch, Compare,
                        Refuse, Fail, Unlock, BeginDelete, Crash, LoseLock, Save, SwitchOff, Elapse
  <2>2. Unknown(j)' = Unknown(j)
    BY <1>2, <2>1 DEF Unknown
  <2> QED BY <1>0, <1>2, <2>2 DEF StillNew, At
<1> QED BY <1>1, <1>2, ByComparison

(* A log with data is written by its transaction and not touched again.    *)
LEMMA SuccessStays ==
    ASSUME CollectionInv, [Next]_vars, \A j \in Jobs : ~Persist(j),
           NEW l \in 1..Len(logs'), logs'[l].status = "SUCCESS"
    PROVE  l \in 1..Len(logs) /\ logs[l].status = "SUCCESS" /\ logs'[l].new = logs[l].new
           /\ added'[l] = added[l]
<1>0. /\ logs \in Seq(LogType) /\ added \in Seq(Nat \cup {None}) /\ Len(added) = Len(logs)
      /\ Len(logs) \in Nat /\ job \in [Jobs -> JobType] /\ DOMAIN logs = 1..Len(logs)
  BY DEF CollectionInv, ShapeOK
<1>1. CASE UNCHANGED <<logs, added>>
  BY <1>1
<1>2. ASSUME NEW status \in {"TIMEOUT", "FAILED"}, NEW k \in 1..Len(logs)
      PROVE  Closed(logs[k], status).status # "SUCCESS"
  <2>1. logs[k] \in LogType
    BY <1>0, ElementOfSeq
  <2> QED BY <2>1 DEF Closed, LogType
<1>3. ASSUME NEW j \in Jobs, MarkStale(j)
      PROVE  /\ \/ logs' = logs
                \/ \A k \in 1..Len(logs) :
                       logs'[k] = logs[k] \/ logs'[k] = Closed(logs[k], "TIMEOUT")
             /\ Len(logs') = Len(logs) /\ added' = added
  BY <1>0, <1>3 DEF MarkStale
<1>4. ASSUME NEW j \in Jobs, Fail(j)
      PROVE  /\ \/ logs' = logs
                \/ \A k \in 1..Len(logs) :
                       logs'[k] = logs[k] \/ logs'[k] = Closed(logs[k], "FAILED")
             /\ Len(logs') = Len(logs) /\ added' = added
  BY <1>0, <1>4 DEF Fail
<1>5. ASSUME NEW j \in Jobs, MarkStale(j) \/ Fail(j)
      PROVE  l \in 1..Len(logs) /\ logs'[l] = logs[l] /\ added' = added
  <2>1. added' = added
    BY <1>5 DEF MarkStale, Fail
  <2> QED BY <1>2, <1>3, <1>4, <1>5, <2>1
<1>6. ASSUME NEW j \in Jobs, Open(j)
      PROVE  l \in 1..Len(logs) /\ logs'[l] = logs[l] /\ added'[l] = added[l]
  <2>1. CASE /\ logs' = Append(logs, [url |-> job[j].url, status |-> "RUNNING", fresh |-> TRUE, new |-> 0])
             /\ added' = Append(added, None)
    <3> DEFINE row == [url |-> job[j].url, status |-> "RUNNING", fresh |-> TRUE, new |-> 0]
    <3>1. row \in LogType /\ row.status = "RUNNING"
      BY <1>0 DEF LogType, JobType
    <3> HIDE DEF row
    <3>2. /\ Len(logs') = Len(logs) + 1 /\ logs'[Len(logs) + 1] = row
          /\ \A k \in 1..Len(logs) : logs'[k] = logs[k]
      BY <1>0, <2>1, <3>1, AppendProperties DEF row
    <3>3. \A k \in 1..Len(logs) : added'[k] = added[k]
      BY <1>0, <2>1, AppendProperties
    <3> QED BY <1>0, <3>1, <3>2, <3>3
  <2> QED BY <1>6, <2>1, <1>0 DEF Open
<1>7. ASSUME NEW j \in Jobs, DeleteTx(j)
      PROVE  UNCHANGED <<logs, added>>
  BY <1>7 DEF DeleteTx
<1>8. ASSUME NEW k \in DOMAIN logs, Elapse(k)
      PROVE  l \in 1..Len(logs) /\ logs'[l].status = logs[l].status /\ logs'[l].new = logs[l].new
             /\ added' = added
  <2>1. logs[k] \in LogType /\ [logs[k] EXCEPT !.fresh = FALSE].status = logs[k].status
        /\ [logs[k] EXCEPT !.fresh = FALSE].new = logs[k].new
    <3>1. logs[k] \in LogType
      BY <1>0, ElementOfSeq
    <3> QED BY <3>1 DEF LogType
  <2>2. logs' = [logs EXCEPT ![k] = [logs[k] EXCEPT !.fresh = FALSE]] /\ added' = added
    BY <1>0, <1>8 DEF Elapse
  <2> QED BY <1>0, <2>1, <2>2
<1>9. ASSUME NEW j \in Jobs,
             \/ Begin(j) \/ TryLock(j) \/ Check(j) \/ Fetch(j) \/ Compare(j)
             \/ Refuse(j) \/ Unlock(j) \/ BeginDelete(j) \/ Crash(j) \/ LoseLock(j)
      PROVE  UNCHANGED <<logs, added>>
  BY <1>9 DEF Begin, TryLock, Check, Fetch, Compare, Refuse, Unlock, BeginDelete, Crash, LoseLock
<1>10. CASE (\E u \in Urls : Save(u)) \/ SwitchOff \/ UNCHANGED vars
  BY <1>1, <1>10 DEF Save, SwitchOff, vars
<1> QED BY <1>1, <1>5, <1>6, <1>7, <1>8, <1>9, <1>10 DEF Next, Advance

(* So the log says what its transaction added.                             *)
LEMMA NewToldStep ==
    ASSUME CollectionInv, OneAtATime, StillNew, NewTold, [Next]_vars
    PROVE  NewTold'
<1> SUFFICES ASSUME alone', NEW l \in 1..Len(logs'), logs'[l].status = "SUCCESS"
             PROVE  logs'[l].new = added'[l]
  BY DEF NewTold
<1>0. alone
  BY DEF Next, Advance, vars, Begin, TryLock, MarkStale, Check, Open, Fetch, Compare, Persist, Refuse,
         Fail, DeleteTx, Unlock, BeginDelete, Crash, LoseLock, Save, SwitchOff, Elapse
<1>1. ASSUME NEW j \in Jobs, Persist(j)
      PROVE  logs'[l].new = added'[l]
  <2>1. job[j].new = Cardinality(Unknown(j))
    BY <1>0, <1>1 DEF StillNew, Persist
  <2>2. CASE l = job[j].log
    BY <1>1, <2>1, <2>2, PersistLog
  <2>3. CASE l # job[j].log
    BY <1>0, <1>1, <2>3, PersistLog DEF NewTold
  <2> QED BY <2>2, <2>3
<1>2. CASE \A j \in Jobs : ~Persist(j)
  BY <1>0, <1>2, SuccessStays DEF NewTold
<1> QED BY <1>1, <1>2

(* Three facts that hold as long as no lock is lost.                       *)
LEMMA LockedInvariant == Spec => [](OneAtATime /\ StillNew /\ NewTold)
<1>1. Init => OneAtATime /\ StillNew /\ NewTold
  BY DEF Init, OneAtATime, Holding, StillNew, NewTold, At, Idle
<1>2. CollectionInv /\ OneAtATime /\ StillNew /\ NewTold /\ [Next]_vars
        => (OneAtATime /\ StillNew /\ NewTold)'
  BY OneAtATimeStep, StillNewStep, NewToldStep
<1> QED BY <1>1, <1>2, CollectionInvariant, PTL DEF Spec

(* A log says SUCCESS exactly when its data is stored, and what it says    *)
(* was new was, unless a lock was lost: the count is made before the       *)
(* transaction and the log may be closed by others.                        *)
THEOREM LogsTellTheOutcome == Spec => []LogTellsOutcome
<1>1. CollectionInv /\ NewTold => LogTellsOutcome
  BY DEF CollectionInv, ShapeOK, OutcomeTold, NewTold, LogTellsOutcome
<1> QED BY <1>1, CollectionInvariant, LockedInvariant, PTL

-----------------------------------------------------------------------------
(* What is shown                                                           *)

(* A set of positions that is not empty has a last one.                    *)
LEMMA LastExists ==
    ASSUME NEW n \in Nat, NEW I \in SUBSET (1..n), I # {}
    PROVE  LastOf(I) \in I /\ \A k \in I : k <= LastOf(I)
<1> DEFINE T == {n - i : i \in I}
<1>1. T \subseteq Nat /\ T # {}
  <2>1. ASSUME NEW i \in I
        PROVE  n - i \in Nat
    <3>1. i \in 1..n
      OBVIOUS
    <3> QED BY <3>1
  <2> QED BY <2>1
<1>2. PICK x \in T : \A y \in T : ~(<<y, x>> \in OpToRel(<, Nat))
  BY <1>1, NatLessThanWellFounded, WFMin, Zenon
<1>3. \A y \in T : ~(y < x)
  BY <1>1, <1>2 DEF OpToRel
<1>4. PICK i \in I : x = n - i
  OBVIOUS
<1>5. \A k \in I : k <= i
  <2> SUFFICES ASSUME NEW k \in I PROVE k <= i
    OBVIOUS
  <2>1. n - k \in T
    OBVIOUS
  <2> HIDE DEF T
  <2> QED BY <1>3, <1>4, <2>1
<1> HIDE DEF T
<1>6. \E j \in I : \A k \in I : k <= j
  BY <1>5
<1> QED BY <1>6 DEF LastOf

(* A snapshot that is newer than all others comes last.                    *)
LEMMA NewerComesLast ==
    ASSUME NEW snap \in SnapType, snaps \in Seq(SnapType),
           \A i \in 1..Len(snaps) : snaps[i].at < snap.at
    PROVE  WithSnap(snap) = Append(snaps, snap)
<1> DEFINE n == Cardinality({i \in DOMAIN snaps : snaps[i].at < snap.at})
<1>1. n = Len(snaps)
  <2>1. Len(snaps) \in Nat /\ {i \in DOMAIN snaps : snaps[i].at < snap.at} = 1..Len(snaps)
    OBVIOUS
  <2>2. Cardinality(1..Len(snaps)) = Len(snaps)
    BY <2>1, FS_Interval
  <2> QED BY <2>1, <2>2
<1> HIDE DEF n
<1>2. WithSnap(snap) = SubSeq(snaps, 1, n) \o <<snap>> \o SubSeq(snaps, n + 1, Len(snaps))
  BY DEF WithSnap, n
<1>3. SubSeq(snaps, 1, n) = snaps
  BY <1>1, SubSeqFull
<1>4. SubSeq(snaps, n + 1, Len(snaps)) = <<>>
  <2>1. Len(snaps) \in Nat
    OBVIOUS
  <2> QED BY <1>1, <2>1, SubSeqEmpty
<1>5. snaps \o <<snap>> = Append(snaps, snap) /\ Append(snaps, snap) \in Seq(SnapType)
  BY AppendIsConcat, AppendProperties
<1> QED BY <1>2, <1>3, <1>4, <1>5, ConcatEmptySeq

(* What a transaction stores, if nobody lost the lock.                     *)
LEMMA StoredInOrder ==
    ASSUME CollectionInv, InOrder, alone, NEW j \in Jobs, Persist(j)
    PROVE  LET snap == [url |-> job[j].url, rating |-> job[j].rating, at |-> job[j].at] IN
           /\ snap \in SnapType /\ snap.at <= clock
           /\ (Repeats(j) /\ snaps' = snaps) \/ snaps' = Append(snaps, snap)
           /\ last' = [last EXCEPT ![job[j].url] = [rating |-> job[j].rating, at |-> job[j].at]]
<1> DEFINE snap == [url |-> job[j].url, rating |-> job[j].rating, at |-> job[j].at]
<1>1. /\ job[j].rating \in Ratings /\ job[j].at <= clock /\ job[j].pc = "persist"
      /\ \A i \in 1..Len(snaps) : snaps[i].at < job[j].at
      /\ \A u \in Urls : last[u].at < job[j].at
      /\ snaps \in Seq(SnapType) /\ last \in LastType
  BY DEF InOrder, Persist, At
<1>2. job[j].url \in Urls /\ job[j].at \in Nat
  BY PersistLog DEF CollectionInv, ShapeOK, JobType
<1>3. snap \in SnapType /\ snap.at = job[j].at
  BY <1>1, <1>2 DEF SnapType
<1>4. (Repeats(j) /\ snaps' = snaps) \/ snaps' = WithSnap(snap)
  BY DEF Persist
<1> HIDE DEF snap
<1>5. WithSnap(snap) = Append(snaps, snap)
  BY <1>1, <1>3, NewerComesLast
<1>6. last' = [last EXCEPT ![job[j].url] = [rating |-> job[j].rating, at |-> job[j].at]]
  <2>1. last[job[j].url].at < job[j].at /\ last[job[j].url].at \in Nat
    BY <1>1, <1>2 DEF LastType
  <2>2. ~(last[job[j].url].at > job[j].at)
    BY <1>2, <2>1
  <2> QED BY <2>2 DEF Persist
<1> QED BY <1>1, <1>3, <1>4, <1>5, <1>6 DEF snap

(* What a job has in hand after reading the page.                          *)
LEMMA Fetched ==
    ASSUME CollectionInv, NEW j \in Jobs, Fetch(j)
    PROVE  /\ UNCHANGED <<listing, snaps, reviews, logs, added, lock, last, alone>>
           /\ clock \in Nat /\ clock' \in {clock, clock + 1}
           /\ job'[j].pc = "compare" => /\ job'[j].rating \in Ratings
                                        /\ clock' = clock + 1 /\ job'[j].at = clock + 1
<1>0. job \in [Jobs -> JobType] /\ clock \in Nat
  BY DEF CollectionInv, ShapeOK
<1>1. CASE EndWith(j, "fail") /\ UNCHANGED clock
  <2>1. [Idle EXCEPT !.pc = "fail", !.log = job[j].log].pc = "fail"
    BY DEF Idle
  <2>2. job'[j].pc = "fail"
    BY <1>1, <2>1, JobMoves DEF Steps
  <2> QED BY <1>0, <1>1, <2>2 DEF Fetch
<1>2. ASSUME NEW rating \in Ratings, NEW shows \in SUBSET Reviews, clock' = clock + 1,
             job' = [job EXCEPT ![j] = [@ EXCEPT !.pc = "compare", !.rating = rating,
                                                 !.shows = shows, !.at = clock + 1]]
      PROVE  clock' = clock + 1 /\ job'[j].rating \in Ratings /\ job'[j].at = clock + 1
  <2>1. job[j] \in JobType
    BY <1>0
  <2>2. job'[j] = [job[j] EXCEPT !.pc = "compare", !.rating = rating, !.shows = shows, !.at = clock + 1]
    BY <1>0, <1>2
  <2>3. job'[j].rating = rating /\ job'[j].at = clock + 1
    BY <2>1, <2>2 DEF JobType
  <2> QED BY <1>2, <2>3
<1> QED BY <1>0, <1>1, <1>2 DEF Fetch

(* What else is stored changes by a transaction or the deletion only.      *)
LEMMA StoreStays ==
    ASSUME [Next]_vars
    PROVE  /\ \/ UNCHANGED <<snaps, last>>
              \/ \E j \in Jobs : Persist(j)
              \/ \E j \in Jobs : DeleteTx(j) /\ listing' = Gone /\ snaps' = <<>> /\ last' = last
           /\ clock' = clock \/ \E j \in Jobs : Fetch(j)
           /\ alone' => alone
           /\ listing' # Gone => listing # Gone
<1>1. ASSUME NEW j \in Jobs, DeleteTx(j)
      PROVE  UNCHANGED <<snaps, last>> \/ (listing' = Gone /\ snaps' = <<>> /\ last' = last)
  BY <1>1 DEF DeleteTx
<1>2. \/ UNCHANGED <<snaps, last>>
      \/ \E j \in Jobs : Persist(j)
      \/ \E j \in Jobs : DeleteTx(j)
  BY DEF Next, Advance, vars, Begin, TryLock, MarkStale, Check, Open, Fetch, Compare, Refuse,
         Fail, Unlock, BeginDelete, Crash, LoseLock, Save, SwitchOff, Elapse
<1>3. clock' = clock \/ \E j \in Jobs : Fetch(j)
  BY DEF Next, Advance, vars, Begin, TryLock, MarkStale, Check, Open, Compare, Persist, Refuse,
         Fail, DeleteTx, Unlock, BeginDelete, Crash, LoseLock, Save, SwitchOff, Elapse
<1>4. alone' => alone
  BY DEF Next, Advance, vars, Begin, TryLock, MarkStale, Check, Open, Fetch, Compare, Persist, Refuse,
         Fail, DeleteTx, Unlock, BeginDelete, Crash, LoseLock, Save, SwitchOff, Elapse
<1>5. listing' # Gone => listing # Gone
  <2>1. ASSUME NEW j \in Jobs, DeleteTx(j)
        PROVE  listing' \in {listing, Gone}
    BY <2>1 DEF DeleteTx
  <2>2. SwitchOff => listing # Gone
    BY DEF SwitchOff, Gone
  <2>3. \A u \in Urls : Save(u) => listing # Gone
    BY DEF Save
  <2>4. listing' = listing \/ (\E j \in Jobs : DeleteTx(j)) \/ (\E u \in Urls : Save(u)) \/ SwitchOff
    BY DEF Next, Advance, vars, Begin, TryLock, MarkStale, Check, Open, Fetch, Compare, Persist, Refuse,
           Fail, Unlock, BeginDelete, Crash, LoseLock, Elapse
  <2> QED BY <2>1, <2>2, <2>3, <2>4
<1> QED BY <1>1, <1>2, <1>3, <1>4, <1>5

(* Every step keeps the order, because pages are read and stored under the *)
(* lock.                                                                   *)
LEMMA InOrderStep ==
    ASSUME CollectionInv, OneAtATime, InOrder, [Next]_vars
    PROVE  InOrder'
<1> SUFFICES ASSUME alone'
             PROVE  InOrder'
  BY DEF InOrder
<1>0. alone /\ clock \in Nat /\ snaps \in Seq(SnapType) /\ last \in LastType /\ Len(snaps) \in Nat
  BY StoreStays DEF CollectionInv, ShapeOK, InOrder
<1>1. ASSUME NEW j \in Jobs, Persist(j)
      PROVE  InOrder'
  <2> DEFINE snap == [url |-> job[j].url, rating |-> job[j].rating, at |-> job[j].at]
             told == [rating |-> job[j].rating, at |-> job[j].at]
  <2>1. /\ snap \in SnapType /\ snap.at <= clock
        /\ (Repeats(j) /\ snaps' = snaps) \/ snaps' = Append(snaps, snap)
        /\ last' = [last EXCEPT ![job[j].url] = told]
    BY <1>0, <1>1, StoredInOrder
  <2>2. /\ told \in [rating : Ratings \cup {None}, at : Nat] /\ told.at <= clock
        /\ clock' = clock /\ job[j].url \in Urls
    BY <1>1, <2>1, PersistLog DEF Persist, SnapType
  <2> HIDE DEF snap, told
  <2>3. snaps' \in Seq(SnapType) /\ \A i \in 1..Len(snaps') : snaps'[i].at <= clock'
    BY <1>0, <2>1, <2>2, AppendProperties DEF InOrder
  <2>4. last' \in LastType /\ \A u \in Urls : last'[u].at <= clock'
    BY <1>0, <2>1, <2>2 DEF InOrder, LastType
  <2>5. \A k \in Jobs : job'[k].pc \notin {"compare", "persist"}
    <3>1. lock = j
      BY <1>0, <1>1 DEF OneAtATime, Holding, Persist, At
    <3> QED BY <1>0, <1>1, <3>1, PersistLog DEF OneAtATime, Holding
  <2> QED BY <2>3, <2>4, <2>5 DEF InOrder
<1>2. ASSUME NEW j \in Jobs, DeleteTx(j), snaps' = <<>>, last' = last
      PROVE  InOrder'
  <2>1. clock' = clock
    BY <1>2 DEF DeleteTx
  <2>2. \A k \in Jobs : job'[k].pc \notin {"compare", "persist"}
    <3>1. lock = j
      BY <1>0, <1>2 DEF OneAtATime, Holding, DeleteTx, At
    <3>2. \A k \in Jobs \ {j} : job'[k].pc \notin {"compare", "persist"}
      BY <1>0, <1>2, <3>1, OneJobMoves DEF OneAtATime, Holding, Advance
    <3>3. job'[j].pc \notin {"compare", "persist"}
      BY <1>2, ByComparison DEF DeleteTx, At, Compare, Fetch
    <3> QED BY <3>2, <3>3
  <2> QED BY <1>0, <1>2, <2>1, <2>2 DEF InOrder
<1>3. CASE UNCHANGED <<snaps, last>>
  <2>1. clock' \in Nat /\ clock <= clock'
    BY <1>0, Fetched, StoreStays
  <2>2. \A i \in 1..Len(snaps) : snaps[i].at <= clock'
    <3> SUFFICES ASSUME NEW i \in 1..Len(snaps) PROVE snaps[i].at <= clock'
      OBVIOUS
    <3>0. snaps[i] \in SnapType
      BY <1>0, ElementOfSeq
    <3>1. snaps[i].at \in Nat
      BY <3>0 DEF SnapType
    <3> QED BY <1>0, <2>1, <3>1 DEF InOrder
  <2>3. \A u \in Urls : last[u].at <= clock'
    <3> SUFFICES ASSUME NEW u \in Urls PROVE last[u].at <= clock'
      OBVIOUS
    <3>1. last[u].at \in Nat
      BY <1>0 DEF LastType
    <3> QED BY <1>0, <2>1, <3>1 DEF InOrder
  <2>4. ASSUME NEW j \in Jobs, job'[j].pc \in {"compare", "persist"}
        PROVE  /\ job'[j].rating \in Ratings /\ job'[j].at <= clock'
               /\ \A i \in 1..Len(snaps) : snaps[i].at < job'[j].at
               /\ \A u \in Urls : last[u].at < job'[j].at
    <3>1. CASE Fetch(j) /\ job'[j].pc = "compare"
      <4>1. job'[j].rating \in Ratings /\ clock' = clock + 1 /\ job'[j].at = clock + 1
        BY <3>1, Fetched
      <4>2. \A i \in 1..Len(snaps) : snaps[i].at \in Nat /\ snaps[i].at <= clock
        <5>1. \A i \in 1..Len(snaps) : snaps[i] \in SnapType
          BY <1>0, ElementOfSeq
        <5>2. \A i \in 1..Len(snaps) : snaps[i].at \in Nat
          BY <5>1 DEF SnapType
        <5> QED BY <1>0, <5>2 DEF InOrder
      <4>3. \A u \in Urls : last[u].at \in Nat /\ last[u].at <= clock
        BY <1>0 DEF LastType, InOrder
      <4> QED BY <1>0, <4>1, <4>2, <4>3
    <3>2. CASE job[j].pc \in {"compare", "persist"} /\ job'[j].rating = job[j].rating
               /\ job'[j].at = job[j].at
      <4>1. job[j].at \in Nat
        BY DEF CollectionInv, ShapeOK, JobType
      <4>2. /\ job[j].rating \in Ratings /\ job[j].at <= clock
            /\ \A i \in 1..Len(snaps) : snaps[i].at < job[j].at
            /\ \A u \in Urls : last[u].at < job[j].at
        BY <1>0, <3>2 DEF InOrder
      <4> QED BY <1>0, <2>1, <3>2, <4>1, <4>2
    <3> QED BY <2>4, <3>1, <3>2, ByComparison, Compared
  <2> QED BY <1>0, <1>3, <2>2, <2>3, <2>4 DEF InOrder
<1> QED BY <1>1, <1>2, <1>3, StoreStays

(* A new snapshot is the newest of its link; one that is left out would    *)
(* have said the same.                                                     *)
LEMMA NewestToldStep ==
    ASSUME CollectionInv, InOrder, NewestTold, [Next]_vars
    PROVE  NewestTold'
<1> SUFFICES ASSUME alone', listing' # Gone
             PROVE  NewestTold'
  BY DEF NewestTold, Gone
<1>0. alone /\ listing # Gone /\ snaps \in Seq(SnapType) /\ last \in LastType /\ Len(snaps) \in Nat
      /\ DOMAIN snaps = 1..Len(snaps)
  BY StoreStays DEF InOrder
<1>1. ASSUME NEW j \in Jobs, Persist(j)
      PROVE  NewestTold'
  <2> DEFINE snap == [url |-> job[j].url, rating |-> job[j].rating, at |-> job[j].at]
             told == [rating |-> job[j].rating, at |-> job[j].at]
             mine == OfLink(snaps, job[j].url)
  <2>1. /\ snap \in SnapType /\ snap.at <= clock
        /\ (Repeats(j) /\ snaps' = snaps) \/ snaps' = Append(snaps, snap)
        /\ last' = [last EXCEPT ![job[j].url] = told]
    BY <1>0, <1>1, StoredInOrder
  <2>2. snap.url = job[j].url /\ snap.rating = job[j].rating /\ told.rating = job[j].rating
    OBVIOUS
  <2>3. job[j].url \in Urls
    BY <1>1, PersistLog
  <2>4. last'[job[j].url].rating = job[j].rating /\ \A u \in Urls \ {job[j].url} : last'[u] = last[u]
    BY <1>0, <2>1, <2>2, <2>3 DEF LastType
  <2> HIDE DEF snap, told
  <2>5. CASE Repeats(j) /\ snaps' = snaps
    <3>1. mine # {} /\ snaps[LastOf(mine)].rating = job[j].rating /\ snaps' = snaps
      BY <2>1, <2>5 DEF Repeats
    <3>2. LastOf(mine) \in mine /\ \A k \in mine : k <= LastOf(mine)
      <4>1. mine \in SUBSET (1..Len(snaps))
        BY <1>0 DEF OfLink
      <4> HIDE DEF mine
      <4> QED BY <1>0, <3>1, <4>1, LastExists
    <3>3. \A i \in 1..Len(snaps) : Latest(i, job[j].url) => i = LastOf(mine)
      <4>1. LastOf(mine) \in 1..Len(snaps)
        BY <1>0, <3>2 DEF OfLink
      <4>2. \A i : Latest(i, job[j].url) => i \in mine /\ \A k \in mine : k <= i
        BY DEF Latest
      <4> HIDE DEF mine
      <4> QED BY <1>0, <3>2, <4>1, <4>2
    <3>4. \A u \in Urls : OfLink(snaps, u)' = OfLink(snaps, u) /\ \A i : Latest(i, u)' = Latest(i, u)
      BY <3>1 DEF OfLink, Latest
    <3>5. ASSUME NEW u \in Urls
          PROVE  /\ OfLink(snaps, u)' = {} => last'[u].rating = None
                 /\ \A i \in 1..Len(snaps') : Latest(i, u)' => snaps'[i].rating = last'[u].rating
      <4>1. CASE u = job[j].url
        BY <2>4, <3>1, <3>3, <3>4, <4>1
      <4>2. CASE u # job[j].url
        BY <1>0, <2>4, <3>1, <3>4, <4>2 DEF NewestTold
      <4> QED BY <4>1, <4>2
    <3> QED BY <3>5 DEF NewestTold
  <2>6. CASE snaps' = Append(snaps, snap)
    <3> DEFINE n == Len(snaps) + 1
    <3>0. PICK q \in Urls : q = job[j].url
      BY <2>3
    <3>1. /\ snaps' \in Seq(SnapType) /\ Len(snaps') = n /\ snaps'[n] = snap
          /\ \A i \in 1..Len(snaps) : snaps'[i] = snaps[i]
          /\ DOMAIN snaps' = 1..n
      BY <1>0, <2>1, <2>6, AppendProperties
    <3>2. ASSUME NEW u \in Urls \ {q}
          PROVE  OfLink(snaps, u)' = OfLink(snaps, u)
      BY <1>0, <2>2, <3>0, <3>1 DEF OfLink
    <3>3. n \in OfLink(snaps, q)' /\ OfLink(snaps, q)' \in SUBSET (1..n)
      BY <1>0, <2>2, <3>0, <3>1 DEF OfLink
    <3>4. ASSUME NEW u \in Urls, u # q
          PROVE  /\ OfLink(snaps, u)' = {} => last'[u].rating = None
                 /\ \A i \in 1..Len(snaps') : Latest(i, u)' => snaps'[i].rating = last'[u].rating
      <4>1. OfLink(snaps, u) \in SUBSET (1..Len(snaps)) /\ last'[u] = last[u]
        BY <1>0, <2>4, <3>0, <3>4 DEF OfLink
      <4> QED BY <1>0, <3>1, <3>2, <3>4, <4>1 DEF NewestTold, Latest
    <3>5. \A i \in 1..Len(snaps') : Latest(i, q)' => i = n
      BY <1>0, <3>1, <3>3 DEF Latest
    <3>6. ASSUME NEW u \in Urls
          PROVE  /\ OfLink(snaps, u)' = {} => last'[u].rating = None
                 /\ \A i \in 1..Len(snaps') : Latest(i, u)' => snaps'[i].rating = last'[u].rating
      <4>1. CASE u = q
        BY <2>2, <2>4, <3>0, <3>1, <3>3, <3>5, <4>1
      <4> QED BY <3>4, <4>1
    <3> QED BY <3>6 DEF NewestTold
  <2>7. (Repeats(j) /\ snaps' = snaps) \/ snaps' = Append(snaps, snap)
    BY <2>1
  <2> QED BY <2>5, <2>6, <2>7
<1>2. CASE UNCHANGED <<snaps, last>>
  <2>1. \A u \in Urls : OfLink(snaps, u)' = OfLink(snaps, u) /\ \A i : Latest(i, u)' = Latest(i, u)
    BY <1>2 DEF OfLink, Latest
  <2> QED BY <1>0, <1>2, <2>1 DEF NewestTold
<1> QED BY <1>1, <1>2, StoreStays

(* The newest of the snapshots that are read, if the link is among them.   *)
LEMMA ShownAsStored ==
    ASSUME CollectionInv, InOrder, NewestTold, alone, NEW u \in Urls, InUse(u)
    PROVE  Shown = last[u].rating \/ Crowded(u)
<1>0. /\ snaps \in Seq(SnapType) /\ Len(snaps) \in Nat /\ DOMAIN snaps = 1..Len(snaps)
      /\ Window \in Nat \ {0} /\ listing.url = u /\ listing # Gone
  BY BoundsAssumption DEF InOrder, InUse, Gone
<1> DEFINE from == IF Len(snaps) > Window THEN Len(snaps) - Window + 1 ELSE 1
           read == Newest(Window, snaps)
           kept == OfLink(snaps, u)
           mine == OfLink(read, u)
<1>1. from \in 1..(Len(snaps) + 1)
  BY <1>0
<1>2. /\ Len(read) = Len(snaps) - from + 1 /\ DOMAIN read = 1..Len(read)
      /\ \A i \in 1..Len(read) : read[i] = snaps[from + i - 1]
  <2>1. read = SubSeq(snaps, from, Len(snaps))
    BY DEF Newest
  <2>2. \A i \in from..Len(snaps) : snaps[i] \in SnapType
    BY <1>0, <1>1, ElementOfSeq
  <2> HIDE DEF from, read
  <2>3. /\ read \in Seq(SnapType)
        /\ Len(read) = IF from <= Len(snaps) THEN Len(snaps) - from + 1 ELSE 0
        /\ \A i \in 1..(Len(snaps) - from + 1) : read[i] = snaps[from + i - 1]
    BY <1>0, <1>1, <2>1, <2>2, SubSeqProperties
  <2> QED BY <1>0, <1>1, <2>3
<1>3. Shown = IF mine = {} THEN None ELSE read[LastOf(mine)].rating
  BY <1>0 DEF Shown
<1>4. CASE kept = {}
  <2>1. mine = {}
    <3> SUFFICES ASSUME NEW i \in mine PROVE FALSE
      OBVIOUS
    <3>1. i \in 1..Len(read) /\ read[i].url = u
      BY <1>2 DEF OfLink
    <3>2. from + i - 1 \in 1..Len(snaps) /\ snaps[from + i - 1].url = u
      <4> HIDE DEF from, read
      <4> QED BY <1>0, <1>1, <1>2, <3>1
    <3>3. from + i - 1 \in kept
      BY <1>0, <3>2 DEF OfLink
    <3> QED BY <1>4, <3>3
  <2> QED BY <1>0, <1>3, <1>4, <2>1 DEF NewestTold
<1>5. CASE kept # {}
  <2> DEFINE m == LastOf(kept)
  <2>1. m \in kept /\ \A k \in kept : k <= m
    <3>1. kept \in SUBSET (1..Len(snaps))
      BY <1>0 DEF OfLink
    <3> HIDE DEF kept
    <3> QED BY <1>0, <1>5, <3>1, LastExists
  <2>2. m \in 1..Len(snaps) /\ snaps[m].url = u
    BY <1>0, <2>1 DEF OfLink
  <2>3. snaps[m].rating = last[u].rating
    <3>1. Latest(m, u)
      BY <2>1 DEF Latest
    <3> QED BY <1>0, <2>2, <3>1 DEF NewestTold
  <2> HIDE DEF m
  <2>4. CASE m >= from
    <3>1. m - from + 1 \in 1..Len(read) /\ read[m - from + 1] = snaps[m]
      <4>1. from + (m - from + 1) - 1 = m /\ m - from + 1 \in 1..(Len(snaps) - from + 1)
        <5> HIDE DEF from
        <5> QED BY <1>0, <1>1, <2>2, <2>4
      <4> HIDE DEF from, read
      <4> QED BY <1>0, <1>1, <1>2, <2>2, <2>4, <4>1
    <3>2. m - from + 1 \in mine
      BY <1>2, <2>2, <3>1 DEF OfLink
    <3>3. \A i \in mine : i <= m - from + 1
      <4> SUFFICES ASSUME NEW i \in mine PROVE i <= m - from + 1
        OBVIOUS
      <4>1. i \in 1..Len(read) /\ read[i].url = u
        BY <1>2 DEF OfLink
      <4>2. from + i - 1 \in 1..Len(snaps) /\ snaps[from + i - 1].url = u
        <5> HIDE DEF from, read
        <5> QED BY <1>0, <1>1, <1>2, <4>1
      <4>3. from + i - 1 \in kept
        BY <1>0, <4>2 DEF OfLink
      <4>4. from + i - 1 <= m
        BY <2>1, <4>3
      <4> HIDE DEF from, read
      <4> QED BY <1>0, <1>1, <2>2, <4>1, <4>4
    <3>4. LastOf(mine) \in mine /\ \A k \in mine : k <= LastOf(mine)
      <4>1. mine \in SUBSET (1..Len(read)) /\ mine # {} /\ Len(read) \in Nat
        <5>1. mine \in SUBSET (1..Len(read))
          BY <1>2 DEF OfLink
        <5>2. Len(read) \in Nat
          <6> HIDE DEF from, read
          <6> QED BY <1>0, <1>1, <1>2
        <5> QED BY <3>2, <5>1, <5>2
      <4> HIDE DEF mine, read
      <4> QED BY <4>1, LastExists
    <3>5. LastOf(mine) = m - from + 1
      <4>1. LastOf(mine) \in 1..Len(read)
        BY <1>2, <3>4 DEF OfLink
      <4> HIDE DEF mine, from, read
      <4> QED BY <1>0, <1>1, <2>2, <3>2, <3>3, <3>4, <4>1
    <3> HIDE DEF mine, from, read
    <3> QED BY <1>3, <2>3, <3>1, <3>2, <3>5
  <2>5. CASE m < from
    <3>1. Len(snaps) - m >= Window
      BY <1>0, <2>2, <2>5
    <3> QED BY <2>1, <3>1 DEF Crowded
  <2> HIDE DEF from
  <2> QED BY <1>0, <1>1, <2>2, <2>4, <2>5
<1> QED BY <1>4, <1>5

(* The rating that is shown is the one the current link had when its page  *)
(* was last fetched and stored, unless as many newer snapshots of other    *)
(* links crowd it out, or a lock was lost: equal ratings are not stored    *)
(* again, and the link is looked for among the newest snapshots of all.    *)
THEOREM ShownAsLastFetched == Spec => []ShownIsLatest
<1>1. Init => InOrder /\ NewestTold
  <2>1. Init => InOrder
    BY DEF Init, InOrder, Idle, LastType
  <2>2. Init => NewestTold
    BY DEF Init, NewestTold
  <2> QED BY <2>1, <2>2
<1>2. CollectionInv /\ OneAtATime /\ InOrder /\ NewestTold /\ [Next]_vars => (InOrder /\ NewestTold)'
  BY InOrderStep, NewestToldStep
<1>3. CollectionInv /\ InOrder /\ NewestTold => ShownIsLatest
  BY ShownAsStored DEF ShownIsLatest
<1> QED BY <1>1, <1>2, <1>3, CollectionInvariant, LockedInvariant, PTL DEF Spec
=============================================================================
