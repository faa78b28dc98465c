--------------------------- MODULE PhotoUploader ---------------------------
(***************************************************************************)
(* The upload queue of the completion dialog in the browser                *)
(* (features/cleaning/components/cleaning-photo-uploader.tsx): files are    *)
(* chosen while earlier ones are on their way, a loop sends them one at a  *)
(* time, answers are lost or come after the time limit although the server *)
(* went on, the user retries, removes and completes.  The dialog's button   *)
(* goes by a copy of the queue's summary, which an effect of the component  *)
(* hands on some time after the queue has changed.  The server's side is    *)
(* PhotoLedger.                                                            *)
(***************************************************************************)
EXTENDS Integers, Sequences, FiniteSets

CONSTANTS
    Files,      \* files on the device, told apart by their fingerprint
    MaxPicks,   \* bound of the choices and of the upload ids of one file
    MaxChoices, \* bound of the choices of all files together
    MaxCount,   \* CLEANING_PHOTO_MAX_COUNT
    None,       \* no request
    Retrying    \* whether the user presses the retry button

ASSUME BoundAssumption == MaxPicks \in Nat \ {0} /\ MaxCount \in Nat \ {0}
ASSUME RetryAssumption == Retrying \in BOOLEAN
ASSUME NoneAssumption == None \notin Files \X (1 .. MaxPicks)

VARIABLES
    items,      \* itemsRef.current: what is chosen and not uploaded, in order
    running,    \* uploadInFlightRef: the loop is at work
    attempted,  \* the ids the loop has sent since it began
    xhr,        \* the request the loop waits for, and what the server answers
    late,       \* ids the server still works on although nobody waits
    pending,    \* the dialog waits for the completion of the task
    open,       \* the dialog is open
    told,       \* photoState.uploadsSettled: the dialog's copy of the summary
    minted,     \* history: how many upload ids each file got
    picked,     \* history: how often each file was taken into the queue
    dropped,    \* history: ids the user took out of the queue
    known,      \* history: minted, as of when the dialog was last told
    shown, removed   \* the photos of the task on the server

client == <<items, running, attempted, xhr>>
dialog == <<open, told, known>>
vars == <<client, late, pending, dialog, minted, picked, dropped, shown, removed>>

Ids == Files \X (1 .. MaxPicks)

Ledger == INSTANCE PhotoLedger WITH Uploads <- Ids

Item == [id : Ids, status : {"selected", "uploading", "failed"}, uploadable : BOOLEAN]
Queued == {items[i].id : i \in DOMAIN items}
FileOf(id) == id[1]

NoRequest == [id |-> None, answer |-> "none"]
Request(id) == [id |-> id, answer |-> "none"]

With(its, id, status) ==
    [i \in DOMAIN its |-> IF its[i].id = id THEN [its[i] EXCEPT !.status = status] ELSE its[i]]

First(S) == CHOOSE i \in S : \A j \in S : i <= j

\* An id is in the queue at most once: the filter takes out one entry or none.
Without(its, id) ==
    LET there == {i \in DOMAIN its : its[i].id = id}
    IN  IF there = {} THEN its
        ELSE SubSeq(its, 1, First(there) - 1) \o SubSeq(its, First(there) + 1, Len(its))

\* The next file of the loop: the first that it has not tried since it began.
Candidates(its, tried) ==
    {i \in DOMAIN its : its[i].uploadable /\ its[i].status # "uploading"
                                          /\ its[i].id \notin tried}

\* Bug: the loop ends after its first file.
ContinueOnce(its, tried) ==
    IF tried # {} \/ Candidates(its, tried) = {}
      THEN /\ items' = its /\ running' = FALSE /\ attempted' = {} /\ xhr' = NoRequest
      ELSE LET id == its[First(Candidates(its, tried))].id IN
           /\ items' = With(its, id, "uploading")
           /\ running' = TRUE /\ attempted' = {id} /\ xhr' = Request(id)

\* One turn of the loop, from the queue and the ids it has tried: it sends the
\* next file or ends.  Nothing else runs between the end of one request and this.
Continue(its, tried) ==
    IF Candidates(its, tried) = {}
      THEN /\ items' = its /\ running' = FALSE /\ attempted' = {} /\ xhr' = NoRequest
      ELSE LET id == its[First(Candidates(its, tried))].id IN
           /\ items' = With(its, id, "uploading")
           /\ running' = TRUE /\ attempted' = tried \cup {id} /\ xhr' = Request(id)

\* Bug: a loop is started although one is at work.
StartUnchecked(its) == Continue(its, {})

\* uploadQueuedItems: a loop that is already at work will see the new queue.
Start(its) ==
    IF running THEN items' = its /\ UNCHANGED <<running, attempted, xhr>>
               ELSE Continue(its, {})

-----------------------------------------------------------------------------
(* The user.  The buttons are disabled while the loop works, but a picker    *)
(* opened before that can still return files.                              *)

\* The ids that files were given.
Given == {id \in Ids : id[2] <= minted[FileOf(id)]}

\* A file already in the queue is passed over; one that cannot be uploaded is
\* kept as failed, for the user to see and remove.
Pick(f, uploadable) ==
    /\ open /\ ~pending
    /\ \A id \in Queued : FileOf(id) # f
    /\ minted[f] < MaxPicks /\ Cardinality(Given) < MaxChoices
    /\ LET new == [id |-> <<f, minted[f] + 1>>, uploadable |-> uploadable,
                   status |-> IF uploadable THEN "selected" ELSE "failed"]
       IN  IF uploadable THEN Start(Append(items, new))
                         ELSE items' = Append(items, new) /\ UNCHANGED <<running, attempted, xhr>>
    /\ minted' = [minted EXCEPT ![f] = @ + 1]
    /\ picked' = [picked EXCEPT ![f] = @ + 1]
    /\ UNCHANGED <<late, pending, dialog, dropped, shown, removed>>

\* Bug: a file that is sent again gets a new upload id.
RetryNewId ==
    /\ Retrying /\ open /\ ~pending /\ ~running
    /\ \E i \in DOMAIN items :
         LET f == FileOf(items[i].id) IN
         /\ items[i].uploadable /\ minted[f] < MaxPicks
         /\ Start([items EXCEPT ![i].id = <<f, minted[f] + 1>>])
         /\ minted' = [minted EXCEPT ![f] = @ + 1]
    /\ UNCHANGED <<late, pending, dialog, picked, dropped, shown, removed>>

\* The retry button sends everything that failed, under the same ids.
Retry ==
    /\ Retrying /\ open /\ ~pending /\ ~running
    /\ \E i \in DOMAIN items : items[i].uploadable
    /\ Start(items)
    /\ UNCHANGED <<late, pending, dialog, minted, picked, dropped, shown, removed>>

RemoveItem(id) ==
    /\ open /\ ~pending /\ ~running
    /\ id \in Queued
    /\ items' = Without(items, id)
    /\ dropped' = dropped \cup {id}
    /\ UNCHANGED <<running, attempted, xhr, late, pending, dialog, minted, picked,
                   shown, removed>>

\* Photos are also removed by other users and by the clean-up.
RemoveStored(id) ==
    /\ Ledger!Remove(id)
    /\ UNCHANGED <<client, late, pending, dialog, minted, picked, dropped>>

\* Bug: failed files do not hold the completion back.
SettledFailedToo == ~running /\ \A i \in DOMAIN items : items[i].status = "failed"

\* What the component reports: nothing is waiting, failed or on its way.
uploadsSettled == ~running /\ items = <<>>

\* The effect after a rendering hands the summary on to the dialog.  It runs some
\* time after the queue changed; the user may choose and press before it.
Tell ==
    /\ open
    /\ told' = uploadsSettled /\ known' = minted
    /\ UNCHANGED <<client, late, pending, open, minted, picked, dropped, shown, removed>>

\* The completion is sent; files returned by a picker meanwhile are ignored.
PressComplete ==
    /\ open /\ ~pending /\ told
    /\ pending' = TRUE
    /\ UNCHANGED <<client, late, dialog, minted, picked, dropped, shown, removed>>

-----------------------------------------------------------------------------
(* The request                                                             *)

\* The server answers for a stored photo, stores it, or refuses for any reason.
Serve ==
    /\ xhr.id # None /\ xhr.answer = "none"
    /\ \/ xhr.id \in shown /\ xhr' = [xhr EXCEPT !.answer = "ok"] /\ UNCHANGED <<shown, removed>>
       \/ Ledger!Add(xhr.id) /\ xhr' = [xhr EXCEPT !.answer = "ok"]
       \/ xhr' = [xhr EXCEPT !.answer = "refused"] /\ UNCHANGED <<shown, removed>>
    /\ UNCHANGED <<items, running, attempted, late, pending, dialog, minted, picked, dropped>>

\* A request nobody waits for is served all the same.
ServeLate(id) ==
    /\ id \in late
    /\ late' = late \ {id}
    /\ Ledger!Add(id) \/ UNCHANGED <<shown, removed>>
    /\ UNCHANGED <<client, pending, dialog, minted, picked, dropped>>

Answered ==
    /\ xhr.answer # "none"
    /\ Continue(IF xhr.answer = "ok" THEN Without(items, xhr.id)
                                     ELSE With(items, xhr.id, "failed"), attempted)
    /\ UNCHANGED <<late, pending, dialog, minted, picked, dropped, shown, removed>>

Unserved == IF xhr.answer = "none" THEN {xhr.id} ELSE {}

\* Bug: a request without an answer counts as done.
LostDone ==
    /\ xhr.id # None
    /\ late' = late \cup Unserved
    /\ Continue(Without(items, xhr.id), attempted)
    /\ UNCHANGED <<pending, dialog, minted, picked, dropped, shown, removed>>

\* The network fails or 120 s are over.
Lost ==
    /\ xhr.id # None
    /\ late' = late \cup Unserved
    /\ Continue(With(items, xhr.id, "failed"), attempted)
    /\ UNCHANGED <<pending, dialog, minted, picked, dropped, shown, removed>>

\* The dialog goes, and its copy with it; the request is aborted, and the loop goes
\* on with the other files.
Unmount ==
    /\ open' = FALSE /\ told' = FALSE /\ known' = [f \in Files |-> 0]
    /\ IF xhr.id = None
         THEN UNCHANGED <<client, late>>
         ELSE /\ late' = late \cup Unserved
              /\ Continue(With(items, xhr.id, "failed"), attempted)

\* The dialog can be closed at any time, also while the completion is on its way.
Close ==
    /\ open /\ Unmount
    /\ UNCHANGED <<pending, minted, picked, dropped, shown, removed>>

\* The completion failed and the dialog stays, or it is done and the dialog goes.
Completed ==
    /\ pending /\ pending' = FALSE
    /\ (open /\ Unmount) \/ UNCHANGED <<client, late, dialog>>
    /\ UNCHANGED <<minted, picked, dropped, shown, removed>>

-----------------------------------------------------------------------------

Init ==
    /\ items = <<>> /\ running = FALSE /\ attempted = {} /\ xhr = NoRequest
    /\ late = {} /\ pending = FALSE /\ open = TRUE /\ told = TRUE
    /\ minted = [f \in Files |-> 0] /\ picked = [f \in Files |-> 0] /\ dropped = {}
    /\ known = [f \in Files |-> 0]
    /\ Ledger!Init

Next ==
    \/ \E f \in Files, uploadable \in BOOLEAN : Pick(f, uploadable)
    \/ Retry \/ Tell \/ PressComplete \/ Completed \/ Close
    \/ \E id \in Ids : RemoveItem(id) \/ RemoveStored(id) \/ ServeLate(id)
    \/ Serve \/ Answered \/ Lost

Spec == Init /\ [][Next]_vars

\* A request ends with an answer, an error or its time limit.
FairSpec == Spec /\ WF_vars(Answered \/ Lost)

-----------------------------------------------------------------------------
(* Properties                                                              *)

\* Ids, statuses and the shape of the queue; the loop works exactly while it
\* waits for a request, and that request's file is the one marked uploading.
TypeOK ==
    /\ items \in Seq(Item)
    /\ \A i, j \in DOMAIN items : FileOf(items[i].id) = FileOf(items[j].id) => i = j
    /\ attempted \subseteq Ids
    /\ late \subseteq Ids
    /\ xhr.id \in Ids \cup {None} /\ xhr.answer \in {"none", "ok", "refused"}
    /\ running <=> xhr.id # None
    /\ \A i \in DOMAIN items : items[i].status = "uploading" <=> items[i].id = xhr.id
    /\ running => xhr.id \in Queued
    /\ shown \subseteq Ids /\ removed \subseteq Ids /\ shown \cap removed = {}
    /\ {told, open, pending} \subseteq BOOLEAN /\ \A f \in Files : known[f] \in 0 .. minted[f]

\* No photo is lost on the way: a chosen file is in the queue or on the server,
\* unless the user took it out of the queue, whatever answers were lost.
NothingLost ==
    \A f \in Files : \A n \in 1 .. minted[f] :
        <<f, n>> \in Queued \cup shown \cup removed \cup dropped

\* The task is completed without a photo that was chosen for it only if that was
\* chosen after the dialog was last told of the queue: by the copy that the button
\* goes by, no earlier photo is on its way or failed, whatever was sent again.
CompletedWithPhotos ==
    [][pending' /\ ~pending =>
         \A f \in Files : \A n \in 1 .. known[f] :
             <<f, n>> \in shown \cup removed \cup dropped]_vars

\* However often a file is sent again, and whatever requests the server still
\* works on, it is stored no more often than it was chosen.
StoredAsChosen ==
    \A f \in Files :
        Cardinality({id \in shown \cup removed : FileOf(id) = f}) <= picked[f]

\* A file that was chosen is sent without being chosen again, even when the
\* loop was about to end: it does not wait for the user.
ChosenIsSent ==
    \A id \in Ids :
        (\E i \in DOMAIN items : items[i].id = id /\ items[i].status = "selected")
            ~> (\A i \in DOMAIN items : items[i].id = id => items[i].status # "selected")
=============================================================================
