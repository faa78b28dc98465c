------------------------ MODULE PhotoUploader_proofs ------------------------
(* Proofs about PhotoUploader for every number of files, of choices and of *)
(* photos a task may have.                                                 *)
EXTENDS PhotoUploader, FiniteSetTheorems, SequenceTheorems, WellFoundedInduction, TLAPS

IdsOf(its) == {its[i].id : i \in DOMAIN its}

(* A queue has a file once.                                                *)
QueueOK(its) ==
    /\ its \in Seq(Item)
    /\ \A i, j \in DOMAIN its : FileOf(its[i].id) = FileOf(its[j].id) => i = j

(* Nothing in a queue that is waiting for the loop is on its way.          *)
Waiting(its) == QueueOK(its) /\ \A i \in DOMAIN its : its[i].status # "uploading"

(* The loop waits for the request whose file is marked.                    *)
LoopOK ==
    /\ running \in BOOLEAN
    /\ running <=> xhr.id # None
    /\ \A i \in DOMAIN items : items[i].status = "uploading" <=> items[i].id = xhr.id
    /\ running => xhr.id \in IdsOf(items)
    /\ attempted \subseteq Ids
    /\ xhr \in [id : Ids \cup {None}, answer : {"none", "ok", "refused"}]
    /\ xhr.id = None => xhr.answer = "none"

(* Whatever is queued, sent or stored was chosen under that id.            *)
Chosen == {id \in Ids : id[2] <= minted[id[1]]}
IdsOK ==
    /\ IdsOf(items) \cup late \cup shown \cup removed \subseteq Chosen
    /\ minted \in [Files -> 0 .. MaxPicks] /\ picked = minted
    /\ shown \cap removed = {}

(* The server says yes only to what it has.                                *)
AnswerTrue == xhr.answer = "ok" => xhr.id \in shown \cup removed

Covered == Chosen \subseteq IdsOf(items) \cup shown \cup removed \cup dropped

(* What the dialog was last told of, if that was that all is settled, has   *)
(* arrived or was taken out.                                               *)
ToldOK ==
    /\ {told, open, pending} \subseteq BOOLEAN
    /\ \A f \in Files : known[f] \in 0 .. minted[f]
    /\ told => \A f \in Files : \A n \in 1 .. known[f] : <<f, n>> \in shown \cup removed \cup dropped

QueueInv == QueueOK(items) /\ LoopOK /\ IdsOK /\ AnswerTrue /\ Covered
DialogInv == QueueInv /\ ToldOK

-----------------------------------------------------------------------------
(* The queue                                                               *)

(* A set of positions that is not empty has a first one.                   *)
LEMMA FirstExists ==
    ASSUME NEW S \in SUBSET Nat, S # {}
    PROVE  First(S) \in S /\ \A j \in S : First(S) <= j
<1>1. PICK x \in S : \A y \in S : ~(<<y, x>> \in OpToRel(<, Nat))
  BY NatLessThanWellFounded, WFMin, Zenon
<1>2. \A y \in S : ~(y < x)
  BY <1>1 DEF OpToRel
<1>3. \A y \in S : x <= y
  BY <1>2
<1> QED BY <1>3 DEF First

(* To mark a file changes nothing but its mark.                            *)
LEMMA WithFacts ==
    ASSUME NEW its, QueueOK(its), NEW id, NEW status \in {"selected", "uploading", "failed"}
    PROVE  /\ QueueOK(With(its, id, status)) /\ DOMAIN With(its, id, status) = DOMAIN its
           /\ IdsOf(With(its, id, status)) = IdsOf(its)
           /\ \A i \in DOMAIN its :
                /\ With(its, id, status)[i].id = its[i].id
                /\ With(its, id, status)[i].status = IF its[i].id = id THEN status ELSE its[i].status
<1> DEFINE e(i) == IF its[i].id = id THEN [its[i] EXCEPT !.status = status] ELSE its[i]
           new == [i \in DOMAIN its |-> e(i)]
<1>1. its \in Seq(Item) /\ Len(its) \in Nat /\ DOMAIN its = 1 .. Len(its)
  BY DEF QueueOK
<1>2. ASSUME NEW i \in DOMAIN its
      PROVE  /\ e(i) \in Item /\ e(i).id = its[i].id
             /\ e(i).status = IF its[i].id = id THEN status ELSE its[i].status
  <2>1. its[i] \in Item
    BY <1>1, ElementOfSeq
  <2> QED BY <2>1 DEF Item
<1>3. With(its, id, status) = new
  BY DEF With
<1> HIDE DEF e
<1>4. new \in Seq(Item) /\ DOMAIN new = DOMAIN its /\ \A i \in DOMAIN its : new[i].id = its[i].id
  BY <1>1, <1>2
<1>5. QueueOK(new) /\ IdsOf(new) = IdsOf(its)
  BY <1>4 DEF QueueOK, IdsOf
<1> QED BY <1>2, <1>3, <1>4, <1>5

(* To take an id out leaves the others as they are.                        *)
LEMMA WithoutFacts ==
    ASSUME NEW its, QueueOK(its), NEW id
    PROVE  /\ QueueOK(Without(its, id))
           /\ IdsOf(Without(its, id)) = IdsOf(its) \ {id}
           /\ \A i \in DOMAIN Without(its, id) : \E j \in DOMAIN its : Without(its, id)[i] = its[j]
<1> DEFINE there == {i \in DOMAIN its : its[i].id = id}
           n == Len(its)
<1>0. its \in Seq(Item) /\ n \in Nat /\ DOMAIN its = 1 .. n
  BY DEF QueueOK
<1>1. CASE there = {}
  <2>1. Without(its, id) = its
    BY <1>1 DEF Without
  <2>2. id \notin IdsOf(its)
    BY <1>1 DEF IdsOf
  <2> QED BY <2>1, <2>2
<1>2. CASE there # {}
  <2> DEFINE m == First(there)
             a == SubSeq(its, 1, m - 1)
             b == SubSeq(its, m + 1, n)
             new == a \o b
  <2>1. Without(its, id) = new
    BY <1>2 DEF Without
  <2>2. m \in there
    <3>1. there \in SUBSET Nat
      BY <1>0
    <3> HIDE DEF there
    <3> QED BY <1>2, <3>1, FirstExists
  <2>3. m \in 1 .. n /\ its[m].id = id
    BY <1>0, <2>2
  <2>4. \A i \in 1 .. n : its[i].id = id => i = m
    BY <1>0, <2>3 DEF QueueOK, FileOf
  <2> HIDE DEF m
  <2>5. /\ a \in Seq(Item) /\ Len(a) = m - 1
        /\ \A i \in 1 .. m - 1 : a[i] = its[i]
    <3>1. \A i \in 1 .. m - 1 : its[i] \in Item
      BY <1>0, <2>3, ElementOfSeq
    <3>2. /\ a \in Seq(Item) /\ Len(a) = IF 1 <= m - 1 THEN m - 1 - 1 + 1 ELSE 0
          /\ \A i \in 1 .. m - 1 - 1 + 1 : a[i] = its[1 + i - 1]
      BY <2>3, <3>1, SubSeqProperties
    <3> HIDE DEF a
    <3> QED BY <1>0, <2>3, <3>2
  <2>6. /\ b \in Seq(Item) /\ Len(b) = n - m
        /\ \A i \in 1 .. n - m : b[i] = its[m + i]
    <3>1. \A i \in m + 1 .. n : its[i] \in Item
      BY <1>0, <2>3, ElementOfSeq
    <3>2. m + 1 \in Int /\ n \in Int
      BY <1>0, <2>3
    <3>3. /\ b \in Seq(Item) /\ Len(b) = IF m + 1 <= n THEN n - (m + 1) + 1 ELSE 0
          /\ \A i \in 1 .. n - (m + 1) + 1 : b[i] = its[m + 1 + i - 1]
      BY <3>1, <3>2, SubSeqProperties
    <3>4. n - (m + 1) + 1 = n - m /\ \A i \in 1 .. n - m : m + 1 + i - 1 = m + i
      <4> HIDE DEF n
      <4> QED BY <1>0, <2>3
    <3>5. Len(b) = n - m
      <4> HIDE DEF b, n
      <4> QED BY <1>0, <2>3, <3>3
    <3> HIDE DEF b, n
    <3> QED BY <3>3, <3>4, <3>5
  <2>7. /\ new \in Seq(Item) /\ Len(new) = n - 1 /\ DOMAIN new = 1 .. n - 1
        /\ \A i \in 1 .. n - 1 : new[i] = its[IF i < m THEN i ELSE i + 1]
    <3> HIDE DEF a, b
    <3>1. /\ new \in Seq(Item) /\ Len(new) = Len(a) + Len(b)
          /\ \A i \in 1 .. Len(a) + Len(b) : new[i] = IF i <= Len(a) THEN a[i] ELSE b[i - Len(a)]
      BY <2>5, <2>6, ConcatProperties
    <3> HIDE DEF new, n
    <3>2. Len(a) + Len(b) = n - 1 /\ n - 1 \in Nat
      BY <1>0, <2>3, <2>5, <2>6
    <3>3. ASSUME NEW i \in 1 .. n - 1
          PROVE  new[i] = its[IF i < m THEN i ELSE i + 1]
      <4>1. CASE i < m
        BY <1>0, <2>3, <2>5, <3>1, <3>2, <4>1
      <4>2. CASE i >= m
        <5>1. i - (m - 1) \in 1 .. n - m /\ m + (i - (m - 1)) = i + 1
          BY <1>0, <2>3, <4>2
        <5>2. new[i] = b[i - (m - 1)]
          <6>1. ~(i <= Len(a)) /\ i \in 1 .. Len(a) + Len(b)
            BY <1>0, <2>3, <2>5, <3>2, <4>2
          <6>2. new[i] = b[i - Len(a)]
            BY <3>1, <6>1
          <6> QED BY <2>5, <6>2
        <5>3. b[i - (m - 1)] = its[i + 1]
          BY <2>6, <5>1
        <5> QED BY <1>0, <2>3, <4>2, <5>2, <5>3
      <4> QED BY <1>0, <2>3, <4>1, <4>2
    <3> QED BY <3>1, <3>2, <3>3
  <2> HIDE DEF new
  <2>8. QueueOK(new)
    BY <1>0, <2>3, <2>7 DEF QueueOK
  <2>9. IdsOf(new) = IdsOf(its) \ {id}
    <3>1. ASSUME NEW i \in 1 .. n - 1
          PROVE  new[i].id \in IdsOf(its) \ {id}
      <4>1. PICK k \in 1 .. n : k # m /\ new[i] = its[k]
        BY <1>0, <2>3, <2>7
      <4>2. its[k].id # id
        BY <2>4, <4>1
      <4> QED BY <1>0, <4>1, <4>2 DEF IdsOf
    <3>2. ASSUME NEW k \in 1 .. n, k # m
          PROVE  its[k].id \in IdsOf(new)
      <4>1. CASE k < m
        <5>1. k \in 1 .. n - 1 /\ new[k] = its[k]
          BY <1>0, <2>3, <2>7, <4>1
        <5> QED BY <2>7, <5>1 DEF IdsOf
      <4>2. CASE k > m
        <5>1. k - 1 \in 1 .. n - 1 /\ new[k - 1] = its[k]
          BY <1>0, <2>3, <2>7, <4>2
        <5> QED BY <2>7, <5>1 DEF IdsOf
      <4> QED BY <1>0, <2>3, <3>2, <4>1, <4>2
    <3> QED BY <1>0, <2>3, <2>7, <3>1, <3>2 DEF IdsOf
  <2>10. \A i \in 1 .. n - 1 : \E j \in 1 .. n : new[i] = its[j]
    BY <1>0, <2>3, <2>7
  <2> QED BY <1>0, <2>1, <2>7, <2>8, <2>9, <2>10
<1> QED BY <1>1, <1>2

(* A new file comes last.                                                  *)
LEMMA AppendFacts ==
    ASSUME NEW its, QueueOK(its), NEW new \in Item, \A id \in IdsOf(its) : FileOf(id) # FileOf(new.id)
    PROVE  /\ QueueOK(Append(its, new))
           /\ IdsOf(Append(its, new)) = IdsOf(its) \cup {new.id}
           /\ \A i \in DOMAIN Append(its, new) :
                \/ Append(its, new)[i] = new
                \/ \E j \in DOMAIN its : Append(its, new)[i] = its[j]
<1> DEFINE n == Len(its)
           more == Append(its, new)
<1>1. its \in Seq(Item) /\ n \in Nat /\ DOMAIN its = 1 .. n
  BY DEF QueueOK
<1>2. /\ more \in Seq(Item) /\ DOMAIN more = 1 .. n + 1
      /\ more[n + 1] = new /\ \A i \in 1 .. n : more[i] = its[i]
  BY <1>1, AppendProperties
<1> HIDE DEF more
<1>3. QueueOK(more)
  BY <1>1, <1>2 DEF QueueOK, IdsOf
<1>4. IdsOf(more) = IdsOf(its) \cup {new.id}
  <2>1. ASSUME NEW i \in 1 .. n + 1
        PROVE  more[i].id \in IdsOf(its) \cup {new.id}
    BY <1>1, <1>2 DEF IdsOf
  <2>2. new.id \in IdsOf(more)
    BY <1>1, <1>2 DEF IdsOf
  <2>3. ASSUME NEW i \in 1 .. n
        PROVE  its[i].id \in IdsOf(more)
    <3>1. i \in 1 .. n + 1
      BY <1>1
    <3> QED BY <1>2, <3>1 DEF IdsOf
  <2> QED BY <1>1, <1>2, <2>1, <2>2, <2>3 DEF IdsOf
<1>5. \A i \in 1 .. n + 1 : more[i] = new \/ \E j \in 1 .. n : more[i] = its[j]
  BY <1>1, <1>2
<1> QED BY <1>1, <1>2, <1>3, <1>4, <1>5 DEF more

(* One turn of the loop marks the file it sends, and no other.             *)
LEMMA ContinueFacts ==
    ASSUME NEW its, Waiting(its), NEW tried \in SUBSET Ids, Continue(its, tried)
    PROVE  QueueOK(items)' /\ IdsOf(items') = IdsOf(its) /\ LoopOK' /\ xhr'.answer = "none"
<1>0. its \in Seq(Item) /\ DOMAIN its = 1 .. Len(its) /\ Len(its) \in Nat /\ QueueOK(its)
  BY DEF Waiting, QueueOK
<1>a. \A i \in DOMAIN its : its[i].id \in Ids
  <2>1. \A i \in DOMAIN its : its[i] \in Item
    BY <1>0, ElementOfSeq
  <2> QED BY <2>1 DEF Item
<1>1. CASE Candidates(its, tried) = {}
  <2>1. items' = its /\ running' = FALSE /\ attempted' = {} /\ xhr' = NoRequest
    BY <1>1 DEF Continue
  <2>2. \A i \in DOMAIN its : its[i].id # None
    BY <1>a, NoneAssumption DEF Ids
  <2> QED BY <1>0, <2>1, <2>2 DEF Waiting, LoopOK, NoRequest
<1>2. CASE Candidates(its, tried) # {}
  <2> DEFINE m == First(Candidates(its, tried))
             id == its[m].id
  <2>1. m \in DOMAIN its
    <3>1. Candidates(its, tried) \in SUBSET Nat
      BY <1>0 DEF Candidates
    <3> QED BY <1>2, <3>1, FirstExists DEF Candidates
  <2>2. items' = With(its, id, "uploading") /\ running' = TRUE
        /\ attempted' = tried \cup {id} /\ xhr' = Request(id)
    BY <1>2 DEF Continue
  <2> HIDE DEF m
  <2>3. id \in Ids /\ id # None /\ id \in IdsOf(its)
    BY <1>a, <2>1, NoneAssumption DEF Ids, IdsOf
  <2> HIDE DEF id
  <2>4. /\ QueueOK(items') /\ DOMAIN items' = DOMAIN its /\ IdsOf(items') = IdsOf(its)
        /\ \A i \in DOMAIN its :
             /\ items'[i].id = its[i].id
             /\ items'[i].status = IF its[i].id = id THEN "uploading" ELSE its[i].status
    BY <1>0, <2>2, WithFacts
  <2>5. xhr'.id = id /\ xhr'.answer = "none"
        /\ xhr' \in [id : Ids \cup {None}, answer : {"none", "ok", "refused"}]
    BY <2>2, <2>3 DEF Request
  <2>6. \A i \in DOMAIN items' : items'[i].status = "uploading" <=> items'[i].id = xhr'.id
    BY <2>4, <2>5 DEF Waiting
  <2>7. LoopOK'
    BY <2>2, <2>3, <2>4, <2>5, <2>6 DEF LoopOK, IdsOf
  <2>8. QueueOK(items)'
    BY <2>4 DEF QueueOK
  <2> QED BY <2>4, <2>5, <2>7, <2>8
<1> QED BY <1>1, <1>2

-----------------------------------------------------------------------------
(* The steps                                                               *)

(* The queue the loop goes on with when its request has ended.             *)
LEMMA EndedFacts ==
    ASSUME QueueInv, NEW its,
           its = Without(items, xhr.id) \/ its = With(items, xhr.id, "failed")
    PROVE  /\ Waiting(its) /\ attempted \in SUBSET Ids
           /\ IdsOf(its) = IF its = Without(items, xhr.id) THEN IdsOf(items) \ {xhr.id} ELSE IdsOf(items)
<1>0. /\ QueueOK(items) /\ attempted \in SUBSET Ids
      /\ \A i \in DOMAIN items : items[i].status = "uploading" <=> items[i].id = xhr.id
  BY DEF QueueInv, LoopOK
<1>1. CASE its = Without(items, xhr.id)
  <2>1. /\ QueueOK(its) /\ IdsOf(its) = IdsOf(items) \ {xhr.id}
        /\ \A i \in DOMAIN its : \E j \in DOMAIN items : its[i] = items[j]
    BY <1>0, <1>1, WithoutFacts
  <2>2. \A i \in DOMAIN its : its[i].id # xhr.id
    BY <2>1 DEF IdsOf
  <2> QED BY <1>0, <1>1, <2>1, <2>2 DEF Waiting
<1>2. CASE its = With(items, xhr.id, "failed") /\ its # Without(items, xhr.id)
  <2>1. /\ QueueOK(its) /\ DOMAIN its = DOMAIN items /\ IdsOf(its) = IdsOf(items)
        /\ \A i \in DOMAIN items :
             its[i].status = IF items[i].id = xhr.id THEN "failed" ELSE items[i].status
    BY <1>0, <1>2, WithFacts
  <2> QED BY <1>0, <1>2, <2>1 DEF Waiting
<1> QED BY <1>1, <1>2

(* A request has ended, and the loop goes on.                              *)
LEMMA GoesOn ==
    ASSUME QueueInv, NEW its, Continue(its, attempted),
           \/ its = With(items, xhr.id, "failed")
           \/ its = Without(items, xhr.id) /\ xhr.answer = "ok",
           xhr.id # None, late' \subseteq late \cup {xhr.id},
           UNCHANGED <<minted, picked, dropped, shown, removed>>
    PROVE  QueueInv'
<1>1. /\ Waiting(its) /\ attempted \in SUBSET Ids
      /\ IdsOf(its) = IF its = Without(items, xhr.id) THEN IdsOf(items) \ {xhr.id} ELSE IdsOf(items)
  BY EndedFacts
<1>2. QueueOK(items)' /\ IdsOf(items') = IdsOf(its) /\ LoopOK' /\ xhr'.answer = "none"
  BY <1>1, ContinueFacts
<1>3. xhr.id \in IdsOf(items)
  BY DEF QueueInv, LoopOK
<1>4. IdsOf(its) \subseteq IdsOf(items)
  BY <1>1
<1>5. IdsOf(items) \subseteq IdsOf(its) \cup shown \cup removed
  <2>1. CASE its = Without(items, xhr.id) /\ xhr.answer = "ok"
    BY <1>1, <2>1 DEF QueueInv, AnswerTrue
  <2>2. CASE its = With(items, xhr.id, "failed") /\ its # Without(items, xhr.id)
    BY <1>1, <2>2
  <2>3. CASE its = With(items, xhr.id, "failed") /\ its = Without(items, xhr.id)
    <3>1. IdsOf(its) = IdsOf(items)
      BY <2>3, WithFacts DEF QueueInv
    <3> QED BY <3>1
  <2> QED BY <2>1, <2>2, <2>3
<1>6. IdsOf(items)' = IdsOf(items') /\ Chosen' = Chosen
  BY DEF IdsOf, Chosen
<1>7. IdsOK'
  BY <1>2, <1>3, <1>4, <1>6 DEF QueueInv, IdsOK
<1>8. AnswerTrue'
  BY <1>2 DEF AnswerTrue
<1>9. Covered'
  BY <1>2, <1>5, <1>6 DEF QueueInv, Covered
<1> QED BY <1>2, <1>7, <1>8, <1>9 DEF QueueInv

(* The loop is started, or is at work and will see the queue.              *)
LEMMA StartFacts ==
    ASSUME QueueInv, NEW its, QueueOK(its), Start(its),
           \A i \in DOMAIN its : \/ \E j \in DOMAIN items : its[i] = items[j]
                                 \/ its[i].status # "uploading" /\ its[i].id \notin IdsOf(items),
           IdsOf(items) \subseteq IdsOf(its)
    PROVE  /\ QueueOK(items)' /\ IdsOf(items') = IdsOf(its) /\ LoopOK'
           /\ xhr' = xhr \/ xhr'.answer = "none"
<1>0. /\ LoopOK /\ \A i \in DOMAIN items : items[i].status = "uploading" <=> items[i].id = xhr.id
      /\ \A i \in DOMAIN items : items[i].id \in Ids
  <2>1. \A i \in DOMAIN items : items[i] \in Item
    BY ElementOfSeq DEF QueueInv, QueueOK
  <2> QED BY <2>1 DEF QueueInv, LoopOK, Item
<1>1. CASE running
  <2>1. items' = its /\ UNCHANGED <<running, attempted, xhr>>
    BY <1>1 DEF Start
  <2>2. xhr.id \in IdsOf(items)
    BY <1>0, <1>1 DEF LoopOK
  <2>3. \A i \in DOMAIN its : its[i].status = "uploading" <=> its[i].id = xhr.id
    BY <1>0, <2>2
  <2>4. LoopOK'
    BY <1>0, <2>1, <2>2, <2>3 DEF LoopOK, IdsOf
  <2> QED BY <2>1, <2>4 DEF QueueOK
<1>2. CASE ~running
  <2>1. Continue(its, {}) /\ xhr.id = None
    BY <1>0, <1>2 DEF Start, LoopOK
  <2>2. Waiting(its)
    <3>1. None \notin Ids
      BY NoneAssumption DEF Ids
    <3> QED BY <1>0, <2>1, <3>1 DEF Waiting
  <2> QED BY <2>1, <2>2, ContinueFacts
<1> QED BY <1>1, <1>2

(* A file is chosen.                                                       *)
LEMMA PickKeeps ==
    ASSUME QueueInv, NEW f \in Files, NEW uploadable \in BOOLEAN, Pick(f, uploadable)
    PROVE  QueueInv'
<1> DEFINE new == [id |-> <<f, minted[f] + 1>>, uploadable |-> uploadable,
                   status |-> IF uploadable THEN "selected" ELSE "failed"]
           its == Append(items, new)
<1>0. /\ minted \in [Files -> 0 .. MaxPicks] /\ picked = minted /\ minted[f] < MaxPicks
      /\ minted' = [minted EXCEPT ![f] = @ + 1] /\ picked' = [picked EXCEPT ![f] = @ + 1]
      /\ UNCHANGED <<late, dropped, shown, removed>> /\ MaxPicks \in Nat \ {0}
  BY BoundAssumption DEF Pick, QueueInv, IdsOK
<1>1. new \in Item /\ new.status # "uploading" /\ new.id = <<f, minted[f] + 1>> /\ new.id \in Ids
  BY <1>0 DEF Item, Ids
<1>2. \A id \in IdsOf(items) : FileOf(id) # FileOf(new.id)
  BY <1>1 DEF Pick, Queued, IdsOf, FileOf
<1>3. IF uploadable THEN Start(its)
                    ELSE items' = its /\ UNCHANGED <<running, attempted, xhr>>
  BY DEF Pick
<1> HIDE DEF new
<1>4. /\ QueueOK(its) /\ IdsOf(its) = IdsOf(items) \cup {new.id}
      /\ \A i \in DOMAIN its : its[i] = new \/ \E j \in DOMAIN items : its[i] = items[j]
  BY <1>1, <1>2, AppendFacts DEF QueueInv
<1> HIDE DEF its
<1>5. new.id \notin IdsOf(items)
  BY <1>2
<1>6. /\ QueueOK(items)' /\ IdsOf(items') = IdsOf(its) /\ LoopOK'
      /\ xhr' = xhr \/ xhr'.answer = "none"
  <2>1. CASE uploadable
    BY <1>1, <1>3, <1>4, <1>5, <2>1, StartFacts
  <2>2. CASE ~uploadable
    <3>1. items' = its /\ UNCHANGED <<running, attempted, xhr>>
      BY <1>3, <2>2
    <3>2. \A i \in DOMAIN its : its[i].status = "uploading" <=> its[i].id = xhr.id
      <4>1. new.id # xhr.id
        <5>1. None \notin Ids
          BY NoneAssumption DEF Ids
        <5> QED BY <1>1, <1>5, <5>1 DEF QueueInv, LoopOK
      <4> QED BY <1>1, <1>4, <4>1 DEF QueueInv, LoopOK
    <3>3. LoopOK'
      BY <1>4, <3>1, <3>2 DEF QueueInv, LoopOK, IdsOf
    <3> QED BY <1>4, <3>1, <3>3 DEF QueueOK
  <2> QED BY <2>1, <2>2
<1>7. minted' \in [Files -> 0 .. MaxPicks] /\ picked' = minted'
  BY <1>0
<1>8. Chosen' = Chosen \cup {new.id}
  <2>1. ASSUME NEW id \in Ids
        PROVE  id \in Chosen' <=> id \in Chosen \cup {new.id}
    <3>1. /\ id[1] \in Files /\ id[2] \in Nat /\ id = <<id[1], id[2]>>
          /\ minted[id[1]] \in Nat
      BY <1>0, <2>1 DEF Ids
    <3>2. CASE id[1] = f
      <4>1. id \in Chosen' <=> id[2] <= minted[f] + 1
        BY <1>0, <2>1, <3>2 DEF Chosen
      <4>2. id \in Chosen <=> id[2] <= minted[f]
        BY <2>1, <3>2 DEF Chosen
      <4>3. id = new.id <=> id[2] = minted[f] + 1
        BY <1>1, <3>1, <3>2
      <4> QED BY <3>1, <3>2, <4>1, <4>2, <4>3
    <3>3. CASE id[1] # f
      BY <1>0, <1>1, <2>1, <3>1, <3>3 DEF Chosen
    <3> QED BY <3>2, <3>3
  <2> QED BY <1>1, <2>1 DEF Chosen
<1>9. IdsOK'
  <2>1. IdsOf(items)' = IdsOf(items')
    BY DEF IdsOf
  <2> QED BY <1>0, <1>4, <1>6, <1>7, <1>8, <2>1 DEF QueueInv, IdsOK
<1>10. AnswerTrue'
  BY <1>0, <1>6 DEF QueueInv, AnswerTrue
<1>11. Covered'
  <2>1. IdsOf(items)' = IdsOf(items')
    BY DEF IdsOf
  <2> QED BY <1>0, <1>4, <1>6, <1>8, <2>1 DEF QueueInv, Covered
<1> QED BY <1>6, <1>9, <1>10, <1>11 DEF QueueInv

(* What failed is sent again under the same ids.                           *)
LEMMA RetryKeeps ==
    ASSUME QueueInv, Retry
    PROVE  QueueInv'
<1>1. Start(items) /\ UNCHANGED <<late, minted, picked, dropped, shown, removed>>
  BY DEF Retry
<1>2. /\ QueueOK(items)' /\ IdsOf(items') = IdsOf(items) /\ LoopOK'
      /\ xhr' = xhr \/ xhr'.answer = "none"
  BY <1>1, StartFacts DEF QueueInv
<1>3. IdsOf(items)' = IdsOf(items') /\ Chosen' = Chosen
  BY <1>1 DEF IdsOf, Chosen
<1> QED BY <1>1, <1>2, <1>3 DEF QueueInv, IdsOK, AnswerTrue, Covered

(* A file is taken out, by the user, while the loop does not work.         *)
LEMMA RemoveItemKeeps ==
    ASSUME QueueInv, NEW id, RemoveItem(id)
    PROVE  QueueInv'
<1>1. /\ items' = Without(items, id) /\ dropped' = dropped \cup {id} /\ ~running
      /\ UNCHANGED <<running, attempted, xhr, late, minted, picked, shown, removed>>
  BY DEF RemoveItem
<1>2. /\ QueueOK(items') /\ IdsOf(items') = IdsOf(items) \ {id}
      /\ \A i \in DOMAIN items' : \E j \in DOMAIN items : items'[i] = items[j]
  BY <1>1, WithoutFacts DEF QueueInv
<1>3. IdsOf(items)' = IdsOf(items') /\ Chosen' = Chosen /\ QueueOK(items)' = QueueOK(items')
  BY <1>1 DEF IdsOf, Chosen, QueueOK
<1>4. LoopOK'
  BY <1>1, <1>2 DEF QueueInv, LoopOK
<1> QED BY <1>1, <1>2, <1>3, <1>4 DEF QueueInv, IdsOK, AnswerTrue, Covered

(* The server stores and forgets, under ids that were chosen.              *)
LEMMA ServerKeeps ==
    ASSUME QueueInv, UNCHANGED <<items, running, attempted, minted, picked, dropped>>,
           late' \subseteq late, xhr'.id = xhr.id,
           xhr' \in [id : Ids \cup {None}, answer : {"none", "ok", "refused"}],
           xhr'.id = None => xhr'.answer = "none",
           xhr' = xhr \/ (xhr'.answer = "ok" => xhr'.id \in shown' \cup removed'),
           shown' \cup removed' \subseteq Chosen, shown' \cap removed' = {},
           shown \cup removed \subseteq shown' \cup removed'
    PROVE  QueueInv'
<1>1. IdsOf(items)' = IdsOf(items) /\ Chosen' = Chosen /\ QueueOK(items)' = QueueOK(items)
  BY DEF IdsOf, Chosen, QueueOK
<1>2. LoopOK'
  BY DEF QueueInv, LoopOK
<1>3. IdsOK'
  BY <1>1 DEF QueueInv, IdsOK
<1>4. AnswerTrue'
  BY DEF QueueInv, AnswerTrue
<1>5. Covered'
  BY <1>1 DEF QueueInv, Covered
<1> QED BY <1>1, <1>2, <1>3, <1>4, <1>5 DEF QueueInv

(* Every step keeps the invariant.                                         *)
LEMMA QueueStep == QueueInv /\ [Next]_vars => QueueInv'
<1> SUFFICES ASSUME QueueInv, [Next]_vars
             PROVE  QueueInv'
  OBVIOUS
<1>0. /\ xhr \in [id : Ids \cup {None}, answer : {"none", "ok", "refused"}]
      /\ xhr.id = None => xhr.answer = "none"
      /\ xhr.id # None => xhr.id \in IdsOf(items)
      /\ IdsOf(items) \cup late \cup shown \cup removed \subseteq Chosen /\ shown \cap removed = {}
  BY DEF QueueInv, LoopOK, IdsOK
<1>1. ASSUME NEW f \in Files, NEW uploadable \in BOOLEAN, Pick(f, uploadable)
      PROVE  QueueInv'
  BY <1>1, PickKeeps
<1>2. CASE Retry
  BY <1>2, RetryKeeps
<1>3. ASSUME NEW id \in Ids, RemoveItem(id)
      PROVE  QueueInv'
  BY <1>3, RemoveItemKeeps
<1>4. ASSUME NEW id \in Ids, RemoveStored(id)
      PROVE  QueueInv'
  <2>1. /\ UNCHANGED <<items, running, attempted, xhr, late, minted, picked, dropped>>
        /\ id \in shown /\ shown' = shown \ {id} /\ removed' = removed \cup {id}
    BY <1>4 DEF RemoveStored, Ledger!Remove, client
  <2> QED BY <1>0, <2>1, ServerKeeps
<1>5. ASSUME NEW id \in Ids, ServeLate(id)
      PROVE  QueueInv'
  <2>1. /\ UNCHANGED <<items, running, attempted, xhr, minted, picked, dropped>>
        /\ late' = late \ {id} /\ id \in late
        /\ \/ id \notin shown \cup removed /\ shown' = shown \cup {id} /\ removed' = removed
           \/ UNCHANGED <<shown, removed>>
    BY <1>5 DEF ServeLate, Ledger!Add, client
  <2> QED BY <1>0, <2>1, ServerKeeps
<1>6. CASE Serve
  <2>1. /\ UNCHANGED <<items, running, attempted, late, minted, picked, dropped>>
        /\ xhr.id # None /\ xhr.answer = "none"
        /\ \/ /\ xhr.id \in shown /\ xhr' = [xhr EXCEPT !.answer = "ok"]
              /\ UNCHANGED <<shown, removed>>
           \/ /\ xhr.id \notin shown \cup removed /\ shown' = shown \cup {xhr.id} /\ removed' = removed
              /\ xhr' = [xhr EXCEPT !.answer = "ok"]
           \/ /\ xhr' = [xhr EXCEPT !.answer = "refused"]
              /\ UNCHANGED <<shown, removed>>
    BY <1>6 DEF Serve, Ledger!Add
  <2>2. /\ xhr'.id = xhr.id /\ xhr' \in [id : Ids \cup {None}, answer : {"none", "ok", "refused"}]
        /\ xhr'.answer = "ok" => xhr.id \in shown' \cup removed'
    BY <1>0, <2>1
  <2>3. shown' \cup removed' \subseteq Chosen /\ shown' \cap removed' = {}
        /\ shown \cup removed \subseteq shown' \cup removed'
    BY <1>0, <2>1
  <2> QED BY <2>1, <2>2, <2>3, ServerKeeps
<1>7. CASE Answered
  <2>1. xhr.id # None
    BY <1>0, <1>7 DEF Answered
  <2>2. CASE xhr.answer = "ok"
    <3>1. Continue(Without(items, xhr.id), attempted)
          /\ UNCHANGED <<late, minted, picked, dropped, shown, removed>>
      BY <1>7, <2>2 DEF Answered
    <3> QED BY <2>1, <2>2, <3>1, GoesOn
  <2>3. CASE xhr.answer # "ok"
    <3>1. Continue(With(items, xhr.id, "failed"), attempted)
          /\ UNCHANGED <<late, minted, picked, dropped, shown, removed>>
      BY <1>7, <2>3 DEF Answered
    <3> QED BY <2>1, <3>1, GoesOn
  <2> QED BY <2>2, <2>3
<1>8. CASE Lost
  BY <1>8, GoesOn DEF Lost, Unserved
<1>9. ASSUME Unmount, UNCHANGED <<minted, picked, dropped, shown, removed>>
      PROVE  QueueInv'
  <2>1. CASE xhr.id = None
    <3>1. UNCHANGED <<items, running, attempted, xhr, late>>
      BY <1>9, <2>1 DEF Unmount, client
    <3> QED BY <1>0, <1>9, <3>1, ServerKeeps
  <2>2. CASE xhr.id # None
    <3>1. /\ late' = late \cup Unserved
          /\ Continue(With(items, xhr.id, "failed"), attempted)
      BY <1>9, <2>2 DEF Unmount
    <3> QED BY <1>9, <2>2, <3>1, GoesOn DEF Unserved
  <2> QED BY <2>1, <2>2
<1>10. ASSUME UNCHANGED <<client, late, minted, picked, dropped, shown, removed>>
       PROVE  QueueInv'
  BY <1>0, <1>10, ServerKeeps DEF client
<1>11. CASE Close
  BY <1>9, <1>11 DEF Close
<1>12. CASE Completed
  BY <1>9, <1>10, <1>12 DEF Completed
<1>13. CASE Tell \/ PressComplete \/ UNCHANGED vars
  BY <1>10, <1>13 DEF Tell, PressComplete, vars
<1> QED BY <1>1, <1>2, <1>3, <1>4, <1>5, <1>6, <1>7, <1>8, <1>11, <1>12, <1>13 DEF Next

(* What has arrived stays arrived, and what the dialog was told stays true. *)
LEMMA ToldStep == DialogInv /\ [Next]_vars => ToldOK'
<1> SUFFICES ASSUME QueueInv, ToldOK, [Next]_vars
             PROVE  ToldOK'
  BY DEF DialogInv
<1>0. /\ minted \in [Files -> 0 .. MaxPicks] /\ MaxPicks \in Nat
      /\ Covered /\ shown \cap removed = {}
  BY BoundAssumption DEF QueueInv, IdsOK
<1>1. ASSUME UNCHANGED <<told, known>>, {open', pending'} \subseteq BOOLEAN,
             \A f \in Files : minted'[f] \in Nat /\ minted[f] <= minted'[f],
             shown \cup removed \cup dropped \subseteq shown' \cup removed' \cup dropped'
      PROVE  ToldOK'
  <2>1. \A f \in Files : known'[f] \in 0 .. minted'[f]
    BY <1>0, <1>1 DEF ToldOK
  <2> QED BY <1>1, <2>1 DEF ToldOK
<1>2. ASSUME UNCHANGED <<told, known, minted>>, {open', pending'} \subseteq BOOLEAN,
             shown \cup removed \cup dropped \subseteq shown' \cup removed' \cup dropped'
      PROVE  ToldOK'
  BY <1>0, <1>1, <1>2
<1>3. ASSUME Unmount, pending' \in BOOLEAN, minted' = minted
      PROVE  ToldOK'
  <2>1. told' = FALSE /\ open' = FALSE /\ known' = [f \in Files |-> 0]
    BY <1>3 DEF Unmount
  <2>2. \A f \in Files : known'[f] \in 0 .. minted'[f]
    BY <1>0, <1>3, <2>1
  <2>3. {told, open, pending}' \subseteq BOOLEAN
    BY <1>3, <2>1
  <2> QED BY <2>1, <2>2, <2>3 DEF ToldOK
<1>4. ASSUME NEW f \in Files, NEW uploadable \in BOOLEAN, Pick(f, uploadable)
      PROVE  ToldOK'
  <2>1. /\ minted' = [minted EXCEPT ![f] = @ + 1]
        /\ UNCHANGED <<told, known, open, pending, dropped, shown, removed>>
    BY <1>4 DEF Pick, dialog
  <2>2. \A g \in Files : minted'[g] \in Nat /\ minted[g] <= minted'[g]
    BY <1>0, <2>1
  <2> QED BY <1>1, <2>1, <2>2 DEF ToldOK
<1>5. CASE Tell
  <2>1. /\ told' = uploadsSettled /\ known' = minted
        /\ UNCHANGED <<items, running, open, pending, minted, dropped, shown, removed>>
    BY <1>5 DEF Tell, client
  <2>2. told' \in BOOLEAN
    BY <2>1 DEF uploadsSettled
  <2>3. ASSUME told', NEW f \in Files, NEW n \in 1 .. minted[f]
        PROVE  <<f, n>> \in shown \cup removed \cup dropped
    <3>1. IdsOf(items) = {}
      <4>1. items = <<>>
        BY <2>1, <2>3 DEF uploadsSettled
      <4>2. DOMAIN items = {}
        BY <4>1
      <4> QED BY <4>2 DEF IdsOf
    <3>2. <<f, n>> \in Chosen
      BY <1>0, <2>3 DEF Chosen, Ids
    <3> QED BY <1>0, <3>1, <3>2 DEF Covered
  <2>4. {told, open, pending}' \subseteq BOOLEAN
    BY <2>1, <2>2 DEF ToldOK
  <2>5. \A f \in Files : known'[f] \in 0 .. minted'[f]
    BY <1>0, <2>1
  <2> QED BY <2>1, <2>3, <2>4, <2>5 DEF ToldOK
<1>6. CASE PressComplete
  BY <1>2, <1>6 DEF PressComplete, dialog, ToldOK
<1>7. CASE Completed
  BY <1>2, <1>3, <1>7 DEF Completed, dialog, ToldOK
<1>8. CASE Close
  BY <1>3, <1>8 DEF Close, ToldOK
<1>9. ASSUME NEW id \in Ids, RemoveStored(id) \/ ServeLate(id) \/ RemoveItem(id)
      PROVE  ToldOK'
  <2>1. CASE RemoveStored(id)
    <3>1. /\ UNCHANGED <<told, known, minted, open, pending, dropped>>
          /\ shown \cup removed = shown' \cup removed'
      BY <2>1 DEF RemoveStored, Ledger!Remove, dialog
    <3> QED BY <1>2, <3>1 DEF ToldOK
  <2>2. CASE ServeLate(id)
    <3>1. /\ UNCHANGED <<told, known, minted, open, pending, dropped>>
          /\ shown \subseteq shown' /\ removed' = removed
      BY <2>2 DEF ServeLate, Ledger!Add, dialog
    <3> QED BY <1>2, <3>1 DEF ToldOK
  <2>3. CASE RemoveItem(id)
    <3>1. /\ UNCHANGED <<told, known, minted, open, pending, shown, removed>>
          /\ dropped \subseteq dropped'
      BY <2>3 DEF RemoveItem, dialog
    <3> QED BY <1>2, <3>1 DEF ToldOK
  <2> QED BY <1>9, <2>1, <2>2, <2>3
<1>10. CASE Serve
  <2>1. /\ UNCHANGED <<told, known, minted, open, pending, dropped>>
        /\ shown \subseteq shown' /\ removed' = removed
    BY <1>10 DEF Serve, Ledger!Add, dialog
  <2> QED BY <1>2, <2>1 DEF ToldOK
<1>11. CASE Retry \/ Answered \/ Lost \/ UNCHANGED vars
  <2>1. UNCHANGED <<told, known, minted, open, pending, dropped, shown, removed>>
    BY <1>11 DEF Retry, Answered, Lost, vars, dialog
  <2> QED BY <1>2, <2>1 DEF ToldOK
<1> QED
  BY <1>4, <1>5, <1>6, <1>7, <1>8, <1>9, <1>10, <1>11 DEF Next

(* It holds throughout.                                                    *)
LEMMA QueueInvariant == Spec => []DialogInv
<1>1. Init => DialogInv
  <2> SUFFICES ASSUME Init PROVE DialogInv
    OBVIOUS
  <2>1. /\ items = <<>> /\ running = FALSE /\ attempted = {} /\ xhr = NoRequest /\ late = {}
        /\ minted = [f \in Files |-> 0] /\ picked = minted /\ shown = {} /\ removed = {}
    BY DEF Init, Ledger!Init
  <2>2. QueueOK(items) /\ IdsOf(items) = {}
    BY <2>1 DEF QueueOK, IdsOf
  <2>3. LoopOK
    <3>1. NoRequest \in [id : Ids \cup {None}, answer : {"none", "ok", "refused"}]
      BY DEF NoRequest
    <3>2. NoRequest.id = None /\ NoRequest.answer = "none"
      BY DEF NoRequest
    <3>3. DOMAIN items = {}
      BY <2>1
    <3> QED BY <2>1, <3>1, <3>2, <3>3 DEF LoopOK
  <2>4. Chosen = {}
    BY <2>1 DEF Chosen, Ids
  <2>5. IdsOK
    BY <2>1, <2>2, BoundAssumption DEF IdsOK
  <2>6. ToldOK
    <3>1. /\ told = TRUE /\ open = TRUE /\ pending = FALSE /\ known = [f \in Files |-> 0]
      BY DEF Init
    <3>2. \A f \in Files : known[f] = 0 /\ minted[f] = 0
      BY <2>1, <3>1
    <3>3. {told, open, pending} \subseteq BOOLEAN
      BY <3>1
    <3> QED BY <3>2, <3>3 DEF ToldOK
  <2> QED BY <2>1, <2>2, <2>3, <2>4, <2>5, <2>6 DEF DialogInv, QueueInv, AnswerTrue, NoRequest, Covered
<1>2. DialogInv /\ [Next]_vars => DialogInv'
  BY QueueStep, ToldStep DEF DialogInv
<1> QED BY <1>1, <1>2, PTL DEF Spec

-----------------------------------------------------------------------------
(* Theorems                                                                *)

(* Ids, statuses and the shape of the queue; the loop works exactly while  *)
(* it waits for the request of the file that is marked.                    *)
THEOREM QueueTypeCorrect == Spec => []TypeOK
<1>1. DialogInv => TypeOK
  <2> SUFFICES ASSUME QueueInv, ToldOK PROVE TypeOK
    BY DEF DialogInv
  <2>1. late \subseteq Ids /\ shown \subseteq Ids /\ removed \subseteq Ids
    BY DEF QueueInv, IdsOK, Chosen
  <2>2. xhr.id \in Ids \cup {None} /\ xhr.answer \in {"none", "ok", "refused"}
    BY DEF QueueInv, LoopOK
  <2> QED BY <2>1, <2>2 DEF QueueInv, QueueOK, LoopOK, IdsOK, ToldOK, TypeOK, Queued, IdsOf
<1> QED BY <1>1, QueueInvariant, PTL

(* A chosen file is in the queue or was stored, unless the user took it    *)
(* out, whatever answers were lost.                                        *)
THEOREM ChosenIsNotLost == Spec => []NothingLost
<1>1. DialogInv => NothingLost
  <2> SUFFICES ASSUME QueueInv, NEW f \in Files, NEW n \in 1 .. minted[f]
               PROVE  <<f, n>> \in Queued \cup shown \cup removed \cup dropped
    BY DEF NothingLost, DialogInv
  <2>1. minted[f] \in 0 .. MaxPicks /\ MaxPicks \in Nat
    BY BoundAssumption DEF QueueInv, IdsOK
  <2>2. <<f, n>> \in Chosen
    BY <2>1 DEF Chosen, Ids
  <2> QED BY <2>2 DEF QueueInv, Covered, Queued, IdsOf
<1> QED BY <1>1, QueueInvariant, PTL

(* The task is completed without a chosen photo only if that was chosen     *)
(* after the dialog was last told of the queue.                            *)
THEOREM CompletionHasPhotos == Spec => CompletedWithPhotos
<1> DEFINE Body == pending' /\ ~pending =>
                     \A f \in Files : \A n \in 1 .. known[f] :
                         <<f, n>> \in shown \cup removed \cup dropped
<1>1. DialogInv /\ [Next]_vars => Body
  <2> SUFFICES ASSUME ToldOK, [Next]_vars, pending', ~pending
               PROVE  \A f \in Files : \A n \in 1 .. known[f] :
                         <<f, n>> \in shown \cup removed \cup dropped
    BY DEF DialogInv
  <2>1. PressComplete
    BY DEF Next, vars, Pick, Retry, Tell, Completed, Close, RemoveItem, RemoveStored, ServeLate,
           Serve, Answered, Lost
  <2> QED BY <2>1 DEF PressComplete, ToldOK
<1> HIDE DEF Body
<1>2. Spec => [][Body]_vars
  BY <1>1, QueueInvariant, PTL DEF Spec
<1> QED BY <1>2 DEF CompletedWithPhotos, Body

(* However often a file is sent again, it is stored no more often than it  *)
(* was chosen.                                                             *)
THEOREM StoredNoMoreThanChosen == Spec => []StoredAsChosen
<1>1. DialogInv => StoredAsChosen
  <2> SUFFICES ASSUME QueueInv, NEW f \in Files
               PROVE  Cardinality({id \in shown \cup removed : FileOf(id) = f}) <= picked[f]
    BY DEF StoredAsChosen, DialogInv
  <2> DEFINE S == {id \in shown \cup removed : FileOf(id) = f}
             T == {f} \X (1 .. minted[f])
  <2>1. minted[f] \in Nat /\ picked[f] = minted[f]
    BY BoundAssumption DEF QueueInv, IdsOK
  <2>2. S \in SUBSET T
    BY <2>1 DEF QueueInv, IdsOK, Chosen, Ids, FileOf
  <2>3. IsFiniteSet(T) /\ Cardinality(T) = minted[f]
    <3>1. IsFiniteSet(1 .. minted[f]) /\ Cardinality(1 .. minted[f]) = minted[f]
      BY <2>1, FS_Interval
    <3>2. IsFiniteSet({f}) /\ Cardinality({f}) = 1
      BY FS_Singleton
    <3>3. IsFiniteSet(T) /\ Cardinality(T) = 1 * minted[f]
      BY <3>1, <3>2, FS_Product
    <3> QED BY <2>1, <3>3
  <2> HIDE DEF S, T
  <2>4. Cardinality(S) <= Cardinality(T)
    BY <2>2, <2>3, FS_Subset
  <2> QED BY <2>1, <2>3, <2>4 DEF S
<1> QED BY <1>1, QueueInvariant, PTL

(* All that happens to the photos, by this queue, by late requests and by   *)
(* others, is what PhotoLedger offers, which is what CleaningPhotos keeps.  *)
THEOREM ServerIsALedger == Spec => Ledger!Spec
<1>1. Init => Ledger!Init
  BY DEF Init
<1>2. DialogInv /\ [Next]_vars => [Ledger!Next]_<<shown, removed>>
  <2> SUFFICES ASSUME QueueInv, [Next]_vars, ~UNCHANGED <<shown, removed>>
               PROVE  Ledger!Next
    BY DEF DialogInv
  <2>1. ASSUME NEW id \in Ids, Ledger!Add(id) \/ Ledger!Remove(id)
        PROVE  Ledger!Next
    BY <2>1 DEF Ledger!Next
  <2>2. ASSUME NEW id \in Ids, RemoveStored(id) \/ ServeLate(id)
        PROVE  Ledger!Next
    BY <2>1, <2>2 DEF RemoveStored, ServeLate
  <2>3. CASE Serve
    <3>1. xhr.id \in Ids
      BY <2>3 DEF Serve, QueueInv, LoopOK
    <3> QED BY <2>1, <2>3, <3>1 DEF Serve
  <2> QED
    BY <2>2, <2>3 DEF Next, Pick, Retry, Tell, PressComplete, Completed, Close, RemoveItem, Answered,
       Lost, vars
<1> QED BY <1>1, <1>2, QueueInvariant, PTL DEF Spec, Ledger!Spec
=============================================================================
