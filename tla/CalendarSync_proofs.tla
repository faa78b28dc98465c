------------------------ MODULE CalendarSync_proofs ------------------------
(* Proofs about CalendarSync for every number of jobs, sources, rooms,     *)
(* URLs and logs and, from the second half on, about BulkSync, the calls   *)
(* that sync many of the same sources, for every number of sources, rooms, *)
(* workers and batches.                                                    *)
EXTENDS CalendarSync, Integers, Sequences, FiniteSets, FiniteSetTheorems, SequenceTheorems, TLAPS

(* The sets of labels and the shape of what a job remembers.               *)
LEMMA Labels ==
    /\ LoggedPcs \subseteq SyncPcs
    /\ SyncPcs \subseteq CriticalPcs
    /\ CriticalPcs \subseteq LockedPcs
    /\ LockedPcs \subseteq Pcs
    /\ UnlockedPcs \subseteq Pcs
    /\ LockedPcs \cap UnlockedPcs = {}
    /\ "idle" \in UnlockedPcs
BY DEF LoggedPcs, SyncPcs, CriticalPcs, LockedPcs, UnlockedPcs, Pcs

LEMMA InitType == Init => TypeOK
BY DEF Init, TypeOK, Row, Life, Status, Log, LogStatus, Terminal, NoRow, Pcs,
       UnlockedPcs, NoArg, ArgOK, LoggedPcs

(* Beginning a call stores well-typed arguments.                           *)
LEMMA BeginType ==
    ASSUME TypeOK, NEW j \in Jobs, NEW s \in Sources, NEW r \in Rooms,
           NEW u \in Urls \cup {None}, NEW life \in Life, NEW op,
           NEW label \in UnlockedPcs, Begin(j, label, op, s, r, u, life),
           label = "trySource" /\ op = "replace" => u \in Urls,
           label \in {"checkEdit", "writeForm"} => u \in Urls,
           label # "writeEdit"
    PROVE  TypeOK'
<1> DEFINE a == [op |-> op, src |-> s, room |-> r, url |-> u, prev |-> None,
                 life |-> life, log |-> None]
<1>1. a \in Arg
  BY DEF Begin, Arg
<1>2. /\ arg' = [arg EXCEPT ![j] = a]
      /\ pc' = [pc EXCEPT ![j] = label]
  BY DEF Begin, Goto
<1>3. arg' \in [Jobs -> Arg \cup {NoArg}] /\ pc' \in [Jobs -> Pcs]
  BY <1>1, <1>2, Labels DEF TypeOK
<1>4. ASSUME NEW i \in Jobs
      PROVE  ArgOK(i)'
  <2>1. CASE i = j
    BY <1>1, <1>2, <2>1 DEF TypeOK, ArgOK, LoggedPcs, UnlockedPcs
  <2>2. CASE i # j
    BY <1>2, <2>2 DEF TypeOK, ArgOK
  <2> QED BY <2>1, <2>2
<1>5. UNCHANGED <<row, activeRooms, feed, sourceLock, roomLock, overtaken, unseen, log>>
  BY DEF Begin, rowVars, lockVars
<1> QED BY <1>3, <1>4, <1>5 DEF TypeOK

(* The history only names jobs.                                            *)
LEMMA OvertakeType ==
    ASSUME TypeOK, NEW j, Overtake(j)
    PROVE  overtaken' \subseteq Jobs /\ unseen' \subseteq Jobs
BY DEF TypeOK, Overtake

(* Every step keeps every variable in its type.                            *)
LEMMA NextType == TypeOK /\ [Next]_vars => TypeOK'
<1> SUFFICES ASSUME TypeOK, [Next]_vars
             PROVE  TypeOK'
  OBVIOUS
<1> USE DEF rowVars, lockVars
<1>0. \A s \in Sources : row[s].life \in Life /\ row[s].room \in Rooms /\ row[s].url \in Urls
  BY DEF TypeOK, Row
<1>1. ASSUME NEW j \in Jobs, StartSync(j)
      PROVE  TypeOK'
  <2>1. PICK s \in Sources, r \in Rooms, life \in Life :
            Begin(j, "trySource", "sync", s, r, None, life)
    BY <1>0, <1>1 DEF StartSync
  <2> QED BY <2>1, BeginType DEF UnlockedPcs
<1>2. ASSUME NEW j \in Jobs, StartReplace(j)
      PROVE  TypeOK'
  <2>1. PICK s \in Sources, u \in Urls :
            Begin(j, "trySource", "replace", s, row[s].room, u, row[s].life)
    BY <1>2 DEF StartReplace
  <2> QED BY <1>0, <2>1, BeginType DEF UnlockedPcs
<1>3. ASSUME NEW j \in Jobs, StartDelete(j)
      PROVE  TypeOK'
  <2>1. PICK s \in Sources, r \in Rooms, life \in Life :
            Begin(j, "trySource", "delete", s, r, None, life)
    BY <1>0, <1>3 DEF StartDelete
  <2> QED BY <2>1, BeginType DEF UnlockedPcs
<1>4. ASSUME NEW j \in Jobs, StartEdit(j)
      PROVE  TypeOK'
  <2>1. PICK s \in Sources, r \in Rooms, life \in {"ACTIVE", "INACTIVE"} :
            Begin(j, "checkEdit", "edit", s, r, row[s].url, life)
    BY <1>4 DEF StartEdit
  <2> QED BY <1>0, <2>1, BeginType DEF UnlockedPcs, Life
<1>5. ASSUME NEW j \in Jobs, StartForm(j)
      PROVE  TypeOK'
  <2>1. PICK s \in Sources, life \in {"ACTIVE", "INACTIVE"} :
            Begin(j, "writeForm", "form", s, row[s].room, row[s].url, life)
    BY <1>5 DEF StartForm
  <2> QED BY <1>0, <2>1, BeginType DEF UnlockedPcs, Life
<1>6. ASSUME NEW j \in Jobs, StartToggle(j)
      PROVE  TypeOK'
  <2>1. PICK s \in Sources, life \in {"ACTIVE", "INACTIVE"} :
            Begin(j, "writeLife", "toggle", s, row[s].room, None, life)
    BY <1>6 DEF StartToggle
  <2> QED BY <1>0, <2>1, BeginType DEF UnlockedPcs, Life
<1>7. ASSUME NEW j \in Jobs, TrySource(j)
      PROVE  TypeOK'
  BY <1>7 DEF TrySource, TypeOK, ArgOK, Arg, Goto, Return, Pcs, LockedPcs, CriticalPcs,
     SyncPcs, LoggedPcs, UnlockedPcs
<1>8. ASSUME NEW j \in Jobs, TryRoom(j)
      PROVE  TypeOK'
  <2>1. arg[j] \in Arg /\ arg[j].src \in Sources
    BY <1>8 DEF TryRoom, TypeOK, ArgOK, Arg
  <2>2. arg[j].op \in Ops /\ arg[j].room \in Rooms
    BY <2>1 DEF Arg
  <2>3. Entry(arg[j].op) \in {"reread", "prepare", "deleteTx"}
    BY <2>2 DEF Entry
  <2>4. Entry(arg[j].op) = "prepare" => arg[j].op = "replace"
    BY <2>2 DEF Entry
  <2>8. pc' \in [Jobs -> Pcs] /\ arg' \in [Jobs -> Arg \cup {NoArg}]
    BY <1>8, <2>1, <2>3 DEF TryRoom, TypeOK, Goto, Return, Pcs, LockedPcs, CriticalPcs,
       SyncPcs, LoggedPcs, UnlockedPcs
  <2>9. ASSUME NEW i \in Jobs
        PROVE  ArgOK(i)'
    BY <1>8, <2>1, <2>3, <2>4 DEF TryRoom, TypeOK, ArgOK, Goto, Return, Pcs, LockedPcs,
       CriticalPcs, SyncPcs, LoggedPcs, UnlockedPcs
  <2> QED BY <1>8, <2>1, <2>2, <2>8, <2>9 DEF TryRoom, TypeOK
<1>9. ASSUME NEW j \in Jobs, UnlockRoom(j)
      PROVE  TypeOK'
  BY <1>9 DEF UnlockRoom, TypeOK, ArgOK, Arg, Goto, Return, Pcs, LockedPcs, CriticalPcs,
     SyncPcs, LoggedPcs, UnlockedPcs
<1>10. ASSUME NEW j \in Jobs, UnlockSource(j)
      PROVE  TypeOK'
  BY <1>10 DEF UnlockSource, TypeOK, ArgOK, Arg, Goto, Return, Pcs, LockedPcs,
     CriticalPcs, SyncPcs, LoggedPcs, UnlockedPcs
<1>11. ASSUME NEW j \in Jobs, Reread(j)
      PROVE  TypeOK'
  <2>1. arg[j] \in Arg /\ arg[j].src \in Sources
    BY <1>11 DEF Reread, TypeOK, ArgOK, Arg
  <2>2. CASE UNCHANGED arg /\ Goto(j, "unlockRoom")
    BY <1>11, <2>1, <2>2 DEF Reread, TypeOK, ArgOK, Goto, Pcs, LockedPcs, CriticalPcs,
       SyncPcs, LoggedPcs
  <2>3. CASE Goto(j, "markStale") /\ arg' = [arg EXCEPT ![j].url = row[arg[j].src].url]
    <3>1. [arg[j] EXCEPT !.url = row[arg[j].src].url] \in Arg
      BY <1>0, <2>1 DEF Arg
    <3>2. arg' \in [Jobs -> Arg \cup {NoArg}] /\ pc' \in [Jobs -> Pcs]
      BY <2>3, <3>1 DEF TypeOK, Goto, Pcs, LockedPcs, CriticalPcs, SyncPcs, LoggedPcs
    <3>3. ASSUME NEW i \in Jobs
          PROVE  ArgOK(i)'
      BY <2>3, <3>1 DEF TypeOK, ArgOK, Goto, LoggedPcs
    <3> QED BY <1>11, <3>2, <3>3 DEF Reread, TypeOK
  <2> QED BY <1>11, <2>2, <2>3 DEF Reread
<1>12. ASSUME NEW j \in Jobs, MarkStale(j)
      PROVE  TypeOK'
  BY <1>12 DEF MarkStale, Log, LogStatus, Terminal, TimedOut, TypeOK, ArgOK, Arg, Goto,
     Return, Pcs, LockedPcs, CriticalPcs, SyncPcs, LoggedPcs, UnlockedPcs
<1>13. ASSUME NEW j \in Jobs, CreateLog(j)
      PROVE  TypeOK'
  <2>1. arg[j] \in Arg /\ arg[j].src \in Sources
    BY <1>13 DEF CreateLog, TypeOK, ArgOK, Arg
  <2>2. CASE UNCHANGED <<log, arg>> /\ Goto(j, "unlockRoom")
    BY <1>13, <2>1, <2>2 DEF CreateLog, TypeOK, ArgOK, Goto, Return, Pcs, LockedPcs,
       CriticalPcs, SyncPcs, LoggedPcs, UnlockedPcs
  <2>3. ASSUME NEW l \in Logs, Goto(j, "fetch"),
               log' = [log EXCEPT ![l] = [source |-> arg[j].src, status |-> "RUNNING",
                                          age |-> "fresh"]],
               arg' = [arg EXCEPT ![j].log = l]
        PROVE  TypeOK'
    <3>1. log' \in [Logs -> Log]
      BY <2>1, <2>3 DEF TypeOK, Log, LogStatus
    <3>2. [arg[j] EXCEPT !.log = l] \in Arg
      BY <2>1, <2>3 DEF Arg
    <3>3. arg' \in [Jobs -> Arg \cup {NoArg}] /\ pc' \in [Jobs -> Pcs]
      BY <2>3, <3>2 DEF TypeOK, Goto, Pcs, LockedPcs, CriticalPcs, SyncPcs, LoggedPcs
    <3>4. ASSUME NEW i \in Jobs
          PROVE  ArgOK(i)'
      BY <2>1, <2>3, <3>2 DEF TypeOK, ArgOK, Arg, Goto, LoggedPcs
    <3> QED BY <1>13, <3>1, <3>3, <3>4 DEF CreateLog, TypeOK
  <2> QED BY <1>13, <2>2, <2>3 DEF CreateLog
<1>14. ASSUME NEW j \in Jobs, Fetch(j)
      PROVE  TypeOK'
  BY <1>14 DEF Fetch, TypeOK, ArgOK, Arg, Goto, Return, Pcs, LockedPcs, CriticalPcs,
     SyncPcs, LoggedPcs, UnlockedPcs
<1>15. ASSUME NEW j \in Jobs, Validate(j)
      PROVE  TypeOK'
  BY <1>15 DEF Validate, TypeOK, ArgOK, Arg, Goto, Return, Pcs, LockedPcs, CriticalPcs,
     SyncPcs, LoggedPcs, UnlockedPcs
<1>16. ASSUME NEW j \in Jobs, PersistTx(j)
      PROVE  TypeOK'
  <2>1. arg[j] \in Arg /\ arg[j].src \in Sources
    BY <1>16 DEF PersistTx, TypeOK, ArgOK, Arg
  <2>2. arg[j].log \in Logs /\ arg[j].url \in Urls \cup {None}
    BY <1>16, <2>1 DEF PersistTx, TypeOK, ArgOK, LoggedPcs, Arg
  <2>3. row' \in [Sources -> Row]
    BY <1>16, <2>1 DEF PersistTx, TypeOK, Row, Status
  <2>4. log' \in [Logs -> Log]
    BY <1>16, <2>2 DEF PersistTx, TypeOK, Log, LogStatus, Terminal
  <2>5. feed' \in [Sources -> Urls \cup {None}]
    BY <1>16, <2>1, <2>2 DEF PersistTx, TypeOK
  <2>8. pc' \in [Jobs -> Pcs] /\ arg' \in [Jobs -> Arg \cup {NoArg}]
    BY <1>16, <2>1 DEF PersistTx, TypeOK, Goto, Return, Pcs, LockedPcs, CriticalPcs,
       SyncPcs, LoggedPcs, UnlockedPcs
  <2>9. ASSUME NEW i \in Jobs
        PROVE  ArgOK(i)'
    BY <1>16, <2>1 DEF PersistTx, TypeOK, ArgOK, Goto, Return, Pcs, LockedPcs,
       CriticalPcs, SyncPcs, LoggedPcs, UnlockedPcs
  <2> QED BY <1>16, <2>1, <2>3, <2>4, <2>5, <2>8, <2>9 DEF PersistTx, TypeOK
<1>17. ASSUME NEW j \in Jobs, PersistRollback(j)
      PROVE  TypeOK'
  BY <1>17 DEF PersistRollback, TypeOK, ArgOK, Arg, Goto, Return, Pcs, LockedPcs,
     CriticalPcs, SyncPcs, LoggedPcs, UnlockedPcs
<1>18. ASSUME NEW j \in Jobs, FailTx(j)
      PROVE  TypeOK'
  <2>1. arg[j] \in Arg /\ arg[j].src \in Sources
    BY <1>18 DEF FailTx, TypeOK, ArgOK, Arg
  <2>2. arg[j].log \in Logs
    BY <1>18 DEF FailTx, TypeOK, ArgOK, LoggedPcs
  <2>3. row' \in [Sources -> Row]
    <3>1. [row[arg[j].src] EXCEPT !.status = "RECONNECT_REQUIRED"] \in Row
      BY <2>1 DEF TypeOK, Row, Status
    <3> QED BY <1>18, <2>1, <3>1 DEF FailTx, TypeOK
  <2>4. log' \in [Logs -> Log]
    BY <1>18, <2>2 DEF FailTx, TypeOK, Log, LogStatus, Terminal
  <2>8. pc' \in [Jobs -> Pcs] /\ arg' \in [Jobs -> Arg \cup {NoArg}]
    BY <1>18, <2>1 DEF FailTx, TypeOK, Goto, Return, Pcs, LockedPcs, CriticalPcs, SyncPcs,
       LoggedPcs, UnlockedPcs
  <2>9. ASSUME NEW i \in Jobs
        PROVE  ArgOK(i)'
    BY <1>18, <2>1 DEF FailTx, TypeOK, ArgOK, Goto, Return, Pcs, LockedPcs, CriticalPcs,
       SyncPcs, LoggedPcs, UnlockedPcs
  <2> QED BY <1>18, <2>1, <2>3, <2>4, <2>8, <2>9 DEF FailTx, TypeOK
<1>19. ASSUME NEW j \in Jobs, FailRollback(j)
      PROVE  TypeOK'
  BY <1>19 DEF FailRollback, TypeOK, ArgOK, Arg, Goto, Return, Pcs, LockedPcs,
     CriticalPcs, SyncPcs, LoggedPcs, UnlockedPcs
<1>20. ASSUME NEW j \in Jobs, Prepare(j)
      PROVE  TypeOK'
  BY <1>20 DEF Prepare, Row, TypeOK, ArgOK, Arg, Goto, Return, Pcs, LockedPcs,
     CriticalPcs, SyncPcs, LoggedPcs, UnlockedPcs
<1>21. ASSUME NEW j \in Jobs, ReplaceTx(j)
      PROVE  TypeOK'
  BY <1>21 DEF ReplaceTx, TypeOK, ArgOK, Arg, Goto, Return, Pcs, LockedPcs, CriticalPcs,
     SyncPcs, LoggedPcs, UnlockedPcs
<1>22. ASSUME NEW j \in Jobs, ReplaceRollback(j)
      PROVE  TypeOK'
  BY <1>22 DEF ReplaceRollback, TypeOK, ArgOK, Arg, Goto, Return, Pcs, LockedPcs,
     CriticalPcs, SyncPcs, LoggedPcs, UnlockedPcs
<1>23. ASSUME NEW j \in Jobs, DeleteTx(j)
      PROVE  TypeOK'
  BY <1>23 DEF DeleteTx, TypeOK, ArgOK, Arg, Goto, Return, Pcs, LockedPcs, CriticalPcs,
     SyncPcs, LoggedPcs, UnlockedPcs
<1>24. ASSUME NEW j \in Jobs, DeleteRollback(j)
      PROVE  TypeOK'
  BY <1>24 DEF DeleteRollback, TypeOK, ArgOK, Arg, Goto, Return, Pcs, LockedPcs,
     CriticalPcs, SyncPcs, LoggedPcs, UnlockedPcs
<1>25. ASSUME NEW j \in Jobs, CheckEdit(j)
      PROVE  TypeOK'
  BY <1>25 DEF CheckEdit, TypeOK, ArgOK, Arg, Goto, Return, Pcs, LockedPcs, CriticalPcs,
     SyncPcs, LoggedPcs, UnlockedPcs
<1>26. ASSUME NEW j \in Jobs, WriteEdit(j)
      PROVE  TypeOK'
  <2>1. arg[j] \in Arg /\ arg[j].src \in Sources
    BY <1>26 DEF WriteEdit, TypeOK, ArgOK, Arg
  <2>2. arg[j].life \in Life /\ arg[j].room \in Rooms /\ arg[j].url \in Urls
    BY <1>26, <2>1 DEF Arg, WriteEdit, TypeOK, ArgOK
  <2>3. row' \in [Sources -> Row]
    BY <1>26, <2>1, <2>2 DEF WriteEdit, WriteRow, TypeOK, Row
  <2>8. pc' \in [Jobs -> Pcs] /\ arg' \in [Jobs -> Arg \cup {NoArg}]
    BY <1>26, <2>1 DEF WriteEdit, WriteRow, TypeOK, Goto, Return, Pcs, LockedPcs,
       CriticalPcs, SyncPcs, LoggedPcs, UnlockedPcs
  <2>9. ASSUME NEW i \in Jobs
        PROVE  ArgOK(i)'
    BY <1>26, <2>1 DEF WriteEdit, WriteRow, TypeOK, ArgOK, Goto, Return, Pcs, LockedPcs,
       CriticalPcs, SyncPcs, LoggedPcs, UnlockedPcs
  <2>10. overtaken' \subseteq Jobs /\ unseen' \subseteq Jobs
    BY <1>26, OvertakeType DEF WriteEdit, WriteRow, TypeOK
  <2> QED BY <1>26, <2>1, <2>3, <2>8, <2>9, <2>10 DEF WriteEdit, WriteRow, Return, TypeOK
<1>27. ASSUME NEW j \in Jobs, WriteForm(j)
      PROVE  TypeOK'
  <2>1. arg[j] \in Arg /\ arg[j].src \in Sources
    BY <1>27 DEF WriteForm, TypeOK, ArgOK, Arg
  <2>2. arg[j].life \in Life /\ arg[j].room \in Rooms /\ arg[j].url \in Urls
    BY <1>27, <2>1 DEF Arg, WriteForm, TypeOK, ArgOK
  <2>3. row' \in [Sources -> Row]
    BY <1>27, <2>1, <2>2 DEF WriteForm, WriteRow, TypeOK, Row
  <2>8. pc' \in [Jobs -> Pcs] /\ arg' \in [Jobs -> Arg \cup {NoArg}]
    BY <1>27, <2>1 DEF WriteForm, WriteRow, TypeOK, Goto, Return, Pcs, LockedPcs,
       CriticalPcs, SyncPcs, LoggedPcs, UnlockedPcs
  <2>9. ASSUME NEW i \in Jobs
        PROVE  ArgOK(i)'
    BY <1>27, <2>1 DEF WriteForm, WriteRow, TypeOK, ArgOK, Goto, Return, Pcs, LockedPcs,
       CriticalPcs, SyncPcs, LoggedPcs, UnlockedPcs
  <2>10. overtaken' \subseteq Jobs /\ unseen' \subseteq Jobs
    BY <1>27, OvertakeType DEF WriteForm, WriteRow, TypeOK
  <2> QED BY <1>27, <2>1, <2>3, <2>8, <2>9, <2>10 DEF WriteForm, WriteRow, Return, TypeOK
<1>28. ASSUME NEW j \in Jobs, WriteLife(j)
      PROVE  TypeOK'
  <2>1. arg[j] \in Arg /\ arg[j].src \in Sources
    BY <1>28 DEF WriteLife, TypeOK, ArgOK, Arg
  <2>2. arg[j].life \in Life
    BY <2>1 DEF Arg
  <2>3. row' \in [Sources -> Row]
    BY <1>28, <2>1, <2>2 DEF WriteLife, TypeOK, Row
  <2>8. pc' \in [Jobs -> Pcs] /\ arg' \in [Jobs -> Arg \cup {NoArg}]
    BY <1>28, <2>1 DEF WriteLife, TypeOK, Goto, Return, Pcs, LockedPcs, CriticalPcs,
       SyncPcs, LoggedPcs, UnlockedPcs
  <2>9. ASSUME NEW i \in Jobs
        PROVE  ArgOK(i)'
    BY <1>28, <2>1 DEF WriteLife, TypeOK, ArgOK, Goto, Return, Pcs, LockedPcs,
       CriticalPcs, SyncPcs, LoggedPcs, UnlockedPcs
  <2> QED BY <1>28, <2>1, <2>3, <2>8, <2>9 DEF WriteLife, TypeOK
<1>29. ASSUME NEW j \in Jobs, Crash(j)
      PROVE  TypeOK'
  BY <1>29 DEF Crash, TypeOK, ArgOK, Arg, Goto, Return, Pcs, LockedPcs, CriticalPcs,
     SyncPcs, LoggedPcs, UnlockedPcs, Freed
<1>30. ASSUME NEW j \in Jobs, LoseSession(j)
      PROVE  TypeOK'
  BY <1>30 DEF LoseSession, TypeOK, ArgOK, Arg, Goto, Return, Pcs, LockedPcs, CriticalPcs,
     SyncPcs, LoggedPcs, UnlockedPcs, Freed
<1>31. ASSUME NEW r \in Rooms, ToggleRoom(r)
      PROVE  TypeOK'
  BY <1>31 DEF ToggleRoom, TypeOK, ArgOK
<1>32. ASSUME NEW l \in Logs, Elapse(l)
      PROVE  TypeOK'
  BY <1>32 DEF Elapse, TypeOK, ArgOK, Log
<1>33. CASE UNCHANGED vars
  BY <1>33 DEF vars, TypeOK, ArgOK
<1>34. ASSUME NEW j \in Jobs, ReplaceWrite(j)
      PROVE  TypeOK'
  <2>1. overtaken' \subseteq Jobs /\ unseen' \subseteq Jobs
    BY <1>34, OvertakeType DEF ReplaceWrite
  <2> QED
    BY <1>34, <2>1 DEF ReplaceWrite, Row, Status, Log, LogStatus, Terminal, TypeOK, ArgOK,
       Arg, Goto, Return, Pcs, LockedPcs, CriticalPcs, SyncPcs, LoggedPcs, UnlockedPcs
<1>35. ASSUME NEW j \in Jobs, DeleteRows(j)
      PROVE  TypeOK'
  BY <1>35 DEF DeleteRows, Row, Life, Log, LogStatus, NoRow, TypeOK, ArgOK, Arg, Goto,
     Return, Pcs, LockedPcs, CriticalPcs, SyncPcs, LoggedPcs, UnlockedPcs
<1> QED
  BY <1>1, <1>2, <1>3, <1>4, <1>5, <1>6, <1>7, <1>8, <1>9, <1>10, <1>11, <1>12, <1>13,
     <1>14, <1>15, <1>16, <1>17, <1>18, <1>19, <1>20, <1>21, <1>22, <1>23, <1>24, <1>25,
     <1>26, <1>27, <1>28, <1>29, <1>30, <1>31, <1>32, <1>33, <1>34, <1>35
     DEF Next, Start, Advance

(* Steps that leave the locks alone: a job can only be in a locked section *)
(* after the step if it was in one before, with the same keys.             *)
Quiet(j) ==
    \/ Start(j) \/ Reread(j) \/ MarkStale(j) \/ CreateLog(j) \/ Fetch(j)
    \/ Validate(j) \/ PersistTx(j) \/ PersistRollback(j) \/ FailTx(j)
    \/ FailRollback(j) \/ Prepare(j) \/ ReplaceTx(j) \/ ReplaceWrite(j)
    \/ ReplaceRollback(j) \/ DeleteTx(j) \/ DeleteRows(j) \/ DeleteRollback(j)
    \/ CheckEdit(j) \/ WriteEdit(j) \/ WriteForm(j) \/ WriteLife(j)

QuietEffect(j) ==
    /\ UNCHANGED <<sourceLock, roomLock>>
    /\ \A i \in Jobs \ {j} : pc'[i] = pc[i] /\ arg'[i] = arg[i]
    /\ pc'[j] \in LockedPcs =>
         /\ pc[j] \in CriticalPcs /\ pc'[j] \in CriticalPcs
         /\ arg'[j].src = arg[j].src /\ arg'[j].room = arg[j].room

LEMMA QuietStep == ASSUME TypeOK, NEW j \in Jobs, Quiet(j) PROVE QuietEffect(j)
<1> USE DEF TypeOK, QuietEffect, rowVars, lockVars, Goto, Return
<1>1. CASE Start(j)
  <2>1. ASSUME NEW label \in UnlockedPcs, NEW op, NEW s, NEW r, NEW u, NEW life,
               Begin(j, label, op, s, r, u, life)
        PROVE  QuietEffect(j)
    BY <2>1, Labels DEF Begin
  <2> QED
    BY <1>1, <2>1 DEF Start, StartSync, StartReplace, StartDelete, StartEdit,
       StartForm, StartToggle, UnlockedPcs
<1>2. CASE Reread(j)
  BY <1>2 DEF Reread, ArgOK, Arg, CriticalPcs, SyncPcs, LoggedPcs, LockedPcs
<1>3. CASE MarkStale(j)
  BY <1>3 DEF MarkStale, CriticalPcs, SyncPcs, LoggedPcs, LockedPcs
<1>4. CASE CreateLog(j)
  BY <1>4 DEF CreateLog, ArgOK, Arg, CriticalPcs, SyncPcs, LoggedPcs, LockedPcs
<1>5. CASE Fetch(j)
  BY <1>5 DEF Fetch, CriticalPcs, SyncPcs, LoggedPcs, LockedPcs
<1>6. CASE Validate(j)
  BY <1>6 DEF Validate, CriticalPcs, SyncPcs, LoggedPcs, LockedPcs
<1>7. CASE PersistTx(j)
  BY <1>7 DEF PersistTx, CriticalPcs, SyncPcs, LoggedPcs, LockedPcs
<1>8. CASE PersistRollback(j)
  BY <1>8 DEF PersistRollback, CriticalPcs, SyncPcs, LoggedPcs, LockedPcs
<1>9. CASE FailTx(j)
  BY <1>9 DEF FailTx, CriticalPcs, SyncPcs, LoggedPcs, LockedPcs
<1>10. CASE FailRollback(j)
  BY <1>10 DEF FailRollback, CriticalPcs, SyncPcs, LoggedPcs, LockedPcs
<1>11. CASE Prepare(j)
  BY <1>11 DEF Prepare, ArgOK, Arg, CriticalPcs, SyncPcs, LoggedPcs, LockedPcs
<1>12. CASE ReplaceTx(j)
  BY <1>12 DEF ReplaceTx, CriticalPcs, SyncPcs, LoggedPcs, LockedPcs
<1>13. CASE ReplaceRollback(j)
  BY <1>13 DEF ReplaceRollback, CriticalPcs, SyncPcs, LoggedPcs, LockedPcs
<1>14. CASE DeleteTx(j)
  BY <1>14 DEF DeleteTx, CriticalPcs, SyncPcs, LoggedPcs, LockedPcs
<1>15. CASE DeleteRollback(j)
  BY <1>15 DEF DeleteRollback, CriticalPcs, SyncPcs, LoggedPcs, LockedPcs
<1>16. CASE CheckEdit(j)
  BY <1>16 DEF CheckEdit, CriticalPcs, SyncPcs, LoggedPcs, LockedPcs
<1>17. CASE WriteEdit(j)
  BY <1>17 DEF WriteEdit, WriteRow, CriticalPcs, SyncPcs, LoggedPcs, LockedPcs
<1>18. CASE WriteForm(j)
  BY <1>18 DEF WriteForm, WriteRow, CriticalPcs, SyncPcs, LoggedPcs, LockedPcs
<1>19. CASE WriteLife(j)
  BY <1>19 DEF WriteLife, CriticalPcs, SyncPcs, LoggedPcs, LockedPcs
<1>20. CASE ReplaceWrite(j)
  BY <1>20 DEF ReplaceWrite, CriticalPcs, SyncPcs, LoggedPcs, LockedPcs
<1>21. CASE DeleteRows(j)
  BY <1>21 DEF DeleteRows, CriticalPcs, SyncPcs, LoggedPcs, LockedPcs
<1> QED
  BY <1>1, <1>2, <1>3, <1>4, <1>5, <1>6, <1>7, <1>8, <1>9, <1>10, <1>11, <1>12, <1>13,
     <1>14, <1>15, <1>16, <1>17, <1>18, <1>19, <1>20, <1>21 DEF Quiet

(* A job in a locked section is registered as the holder of its keys, as   *)
(* long as lock sessions live as long as their jobs.                       *)
LEMMA NextLock ==
    ASSUME "sessionLoss" \notin Faults, TypeOK, LockInv, [Next]_vars
    PROVE  LockInv'
<1> USE DEF rowVars, lockVars, Goto, Return
<1>1. ASSUME NEW j \in Jobs, Quiet(j)
      PROVE  LockInv'
  BY <1>1, QuietStep, Labels DEF QuietEffect, LockInv
<1>2. ASSUME NEW j \in Jobs, TrySource(j)
      PROVE  LockInv'
  BY <1>2, NoneAssumption DEF TrySource, TypeOK, ArgOK, Arg, LockInv, LockedPcs,
     CriticalPcs, SyncPcs, LoggedPcs
<1>3. ASSUME NEW j \in Jobs, TryRoom(j)
      PROVE  LockInv'
  BY <1>3, NoneAssumption DEF TryRoom, Entry, TypeOK, ArgOK, Arg, LockInv,
     LockedPcs, CriticalPcs, SyncPcs, LoggedPcs
<1>4. ASSUME NEW j \in Jobs, UnlockRoom(j)
      PROVE  LockInv'
  BY <1>4 DEF UnlockRoom, TypeOK, ArgOK, Arg, LockInv, LockedPcs, CriticalPcs,
     SyncPcs, LoggedPcs
<1>5. ASSUME NEW j \in Jobs, UnlockSource(j)
      PROVE  LockInv'
  BY <1>5 DEF UnlockSource, TypeOK, ArgOK, Arg, LockInv, LockedPcs, CriticalPcs,
     SyncPcs, LoggedPcs
<1>6. ASSUME NEW j \in Jobs, Crash(j)
      PROVE  LockInv'
  BY <1>6, Labels DEF Crash, Freed, TypeOK, ArgOK, Arg, LockInv, LockedPcs,
     CriticalPcs, SyncPcs, LoggedPcs
<1>7. ASSUME NEW j \in Jobs, LoseSession(j)
      PROVE  LockInv'
  BY <1>7 DEF LoseSession
<1>8. ASSUME NEW r \in Rooms, ToggleRoom(r)
      PROVE  LockInv'
  BY <1>8 DEF ToggleRoom, LockInv
<1>9. ASSUME NEW l \in Logs, Elapse(l)
      PROVE  LockInv'
  BY <1>9 DEF Elapse, LockInv
<1>10. CASE UNCHANGED vars
  BY <1>10 DEF vars, LockInv
<1> QED
  BY <1>1, <1>2, <1>3, <1>4, <1>5, <1>6, <1>7, <1>8, <1>9, <1>10
     DEF Next, Advance, Quiet

(* Two jobs in locked sections have different sources and different rooms. *)
LEMMA LocksExclude == LockInv => SourceExclusion /\ RoomExclusion
BY Labels DEF LockInv, SourceExclusion, RoomExclusion

(* The status of a source only changes at the end of a sync of it or with  *)
(* its URL, so a sync past its check keeps a NORMAL source.                *)
LEMMA NextStatus ==
    ASSUME TypeOK, LockInv, StatusInv, [Next]_vars
    PROVE  StatusInv'
<1> USE DEF rowVars, lockVars, Goto, Return
<1>1. ASSUME NEW j \in Jobs, Start(j)
      PROVE  StatusInv'
  BY <1>1 DEF Start, StartSync, StartReplace, StartDelete, StartEdit, StartForm,
     StartToggle, Begin, StatusInv, TypeOK, SyncPcs, LoggedPcs, CriticalPcs
<1>2. ASSUME NEW j \in Jobs, TrySource(j)
      PROVE  StatusInv'
  BY <1>2 DEF TrySource, StatusInv, TypeOK, SyncPcs, LoggedPcs, CriticalPcs
<1>3. ASSUME NEW j \in Jobs, TryRoom(j)
      PROVE  StatusInv'
  BY <1>3 DEF TryRoom, Entry, StatusInv, TypeOK, SyncPcs, LoggedPcs, CriticalPcs
<1>4. ASSUME NEW j \in Jobs, UnlockRoom(j)
      PROVE  StatusInv'
  BY <1>4 DEF UnlockRoom, StatusInv, TypeOK, SyncPcs, LoggedPcs, CriticalPcs
<1>5. ASSUME NEW j \in Jobs, UnlockSource(j)
      PROVE  StatusInv'
  BY <1>5 DEF UnlockSource, StatusInv, TypeOK, SyncPcs, LoggedPcs, CriticalPcs
<1>6. ASSUME NEW j \in Jobs, Reread(j)
      PROVE  StatusInv'
  BY <1>6 DEF Reread, Syncable, ArgOK, Arg, Row, StatusInv, TypeOK, SyncPcs, LoggedPcs,
     CriticalPcs
<1>7. ASSUME NEW j \in Jobs, MarkStale(j)
      PROVE  StatusInv'
  BY <1>7 DEF MarkStale, StatusInv, TypeOK, SyncPcs, LoggedPcs, CriticalPcs
<1>8. ASSUME NEW j \in Jobs, CreateLog(j)
      PROVE  StatusInv'
  BY <1>8 DEF CreateLog, ArgOK, Arg, StatusInv, TypeOK, SyncPcs, LoggedPcs, CriticalPcs
<1>9. ASSUME NEW j \in Jobs, Fetch(j)
      PROVE  StatusInv'
  BY <1>9 DEF Fetch, StatusInv, TypeOK, SyncPcs, LoggedPcs, CriticalPcs
<1>10. ASSUME NEW j \in Jobs, Validate(j)
      PROVE  StatusInv'
  BY <1>10 DEF Validate, StatusInv, TypeOK, SyncPcs, LoggedPcs, CriticalPcs
<1>11. ASSUME NEW j \in Jobs, PersistTx(j)
      PROVE  StatusInv'
  BY <1>11 DEF PersistTx, ArgOK, Arg, Row, StatusInv, TypeOK, SyncPcs, LoggedPcs,
     CriticalPcs
<1>12. ASSUME NEW j \in Jobs, PersistRollback(j)
      PROVE  StatusInv'
  BY <1>12 DEF PersistRollback, StatusInv, TypeOK, SyncPcs, LoggedPcs, CriticalPcs
<1>13. ASSUME NEW j \in Jobs, FailTx(j)
      PROVE  StatusInv'
  BY <1>13, LocksExclude DEF FailTx, ArgOK, Arg, Row, SourceExclusion, StatusInv, TypeOK,
     SyncPcs, LoggedPcs, CriticalPcs
<1>14. ASSUME NEW j \in Jobs, FailRollback(j)
      PROVE  StatusInv'
  BY <1>14 DEF FailRollback, StatusInv, TypeOK, SyncPcs, LoggedPcs, CriticalPcs
<1>15. ASSUME NEW j \in Jobs, Prepare(j)
      PROVE  StatusInv'
  BY <1>15 DEF Prepare, ArgOK, Arg, StatusInv, TypeOK, SyncPcs, LoggedPcs, CriticalPcs
<1>16. ASSUME NEW j \in Jobs, ReplaceTx(j)
      PROVE  StatusInv'
  BY <1>16 DEF ReplaceTx, StatusInv, TypeOK, SyncPcs, LoggedPcs, CriticalPcs
<1>17. ASSUME NEW j \in Jobs, ReplaceRollback(j)
      PROVE  StatusInv'
  BY <1>17 DEF ReplaceRollback, StatusInv, TypeOK, SyncPcs, LoggedPcs, CriticalPcs
<1>18. ASSUME NEW j \in Jobs, DeleteTx(j)
      PROVE  StatusInv'
  BY <1>18 DEF DeleteTx, StatusInv, TypeOK, SyncPcs, LoggedPcs, CriticalPcs
<1>19. ASSUME NEW j \in Jobs, DeleteRollback(j)
      PROVE  StatusInv'
  BY <1>19 DEF DeleteRollback, StatusInv, TypeOK, SyncPcs, LoggedPcs, CriticalPcs
<1>20. ASSUME NEW j \in Jobs, CheckEdit(j)
      PROVE  StatusInv'
  BY <1>20 DEF CheckEdit, StatusInv, TypeOK, SyncPcs, LoggedPcs, CriticalPcs
<1>21. ASSUME NEW j \in Jobs, WriteEdit(j)
      PROVE  StatusInv'
  BY <1>21 DEF WriteEdit, WriteRow, ArgOK, Arg, Row, StatusInv, TypeOK, SyncPcs,
     LoggedPcs, CriticalPcs
<1>22. ASSUME NEW j \in Jobs, WriteForm(j)
      PROVE  StatusInv'
  BY <1>22 DEF WriteForm, WriteRow, ArgOK, Arg, Row, StatusInv, TypeOK, SyncPcs,
     LoggedPcs, CriticalPcs
<1>23. ASSUME NEW j \in Jobs, WriteLife(j)
      PROVE  StatusInv'
  BY <1>23 DEF WriteLife, ArgOK, Arg, Row, StatusInv, TypeOK, SyncPcs, LoggedPcs,
     CriticalPcs
<1>24. ASSUME NEW j \in Jobs, Crash(j)
      PROVE  StatusInv'
  BY <1>24 DEF Crash, Freed, StatusInv, TypeOK, SyncPcs, LoggedPcs, CriticalPcs
<1>25. ASSUME NEW j \in Jobs, LoseSession(j)
      PROVE  StatusInv'
  BY <1>25 DEF LoseSession, StatusInv, TypeOK, SyncPcs, LoggedPcs, CriticalPcs
<1>26. ASSUME NEW r \in Rooms, ToggleRoom(r)
      PROVE  StatusInv'
  BY <1>26 DEF ToggleRoom, StatusInv
<1>27. ASSUME NEW l \in Logs, Elapse(l)
      PROVE  StatusInv'
  BY <1>27 DEF Elapse, StatusInv
<1>28. CASE UNCHANGED vars
  BY <1>28 DEF vars, StatusInv
<1>29. ASSUME NEW j \in Jobs, ReplaceWrite(j)
      PROVE  StatusInv'
  BY <1>29 DEF ReplaceWrite, ArgOK, Arg, Row, StatusInv, TypeOK, SyncPcs, LoggedPcs,
     CriticalPcs
<1>30. ASSUME NEW j \in Jobs, DeleteRows(j)
      PROVE  StatusInv'
  BY <1>30 DEF DeleteRows, ArgOK, Arg, Row, StatusInv, TypeOK, SyncPcs, LoggedPcs, CriticalPcs
<1> QED
  BY <1>1, <1>2, <1>3, <1>4, <1>5, <1>6, <1>7, <1>8, <1>9, <1>10, <1>11, <1>12, <1>13,
     <1>14, <1>15, <1>16, <1>17, <1>18, <1>19, <1>20, <1>21, <1>22, <1>23, <1>24, <1>25,
     <1>26, <1>27, <1>28, <1>29, <1>30 DEF Next, Advance

(* An unfinished sync owns a RUNNING log: the other writers of logs work   *)
(* on other sources, because they hold other source keys.                  *)
LEMMA NextOpenLog ==
    ASSUME "ackLoss" \notin Faults, TypeOK, LockInv, OpenLogInv, [Next]_vars
    PROVE  OpenLogInv'
<1> USE DEF rowVars, lockVars, Goto, Return
<1>0. SourceExclusion
  BY LocksExclude
<1>1. ASSUME NEW j \in Jobs, Start(j)
      PROVE  OpenLogInv'
  BY <1>1 DEF Start, StartSync, StartReplace, StartDelete, StartEdit, StartForm,
     StartToggle, Begin, OpenLogInv, TypeOK, LoggedPcs, SyncPcs, CriticalPcs
<1>2. ASSUME NEW j \in Jobs, TrySource(j)
      PROVE  OpenLogInv'
  BY <1>2 DEF TrySource, OpenLogInv, TypeOK, LoggedPcs, SyncPcs, CriticalPcs
<1>3. ASSUME NEW j \in Jobs, TryRoom(j)
      PROVE  OpenLogInv'
  BY <1>3 DEF TryRoom, Entry, OpenLogInv, TypeOK, LoggedPcs, SyncPcs, CriticalPcs
<1>4. ASSUME NEW j \in Jobs, UnlockRoom(j)
      PROVE  OpenLogInv'
  BY <1>4 DEF UnlockRoom, OpenLogInv, TypeOK, LoggedPcs, SyncPcs, CriticalPcs
<1>5. ASSUME NEW j \in Jobs, UnlockSource(j)
      PROVE  OpenLogInv'
  BY <1>5 DEF UnlockSource, OpenLogInv, TypeOK, LoggedPcs, SyncPcs, CriticalPcs
<1>6. ASSUME NEW j \in Jobs, Reread(j)
      PROVE  OpenLogInv'
  BY <1>6 DEF Reread, ArgOK, Arg, OpenLogInv, TypeOK, LoggedPcs, SyncPcs, CriticalPcs
<1>7. ASSUME NEW j \in Jobs, MarkStale(j)
      PROVE  OpenLogInv'
  BY <1>7, <1>0 DEF MarkStale, TimedOut, ArgOK, Arg, Log, SourceExclusion, OpenLogInv,
     TypeOK, LoggedPcs, SyncPcs, CriticalPcs
<1>8. ASSUME NEW j \in Jobs, CreateLog(j)
      PROVE  OpenLogInv'
  BY <1>8, <1>0 DEF CreateLog, ArgOK, Arg, Log, SourceExclusion, OpenLogInv, TypeOK,
     LoggedPcs, SyncPcs, CriticalPcs
<1>9. ASSUME NEW j \in Jobs, Fetch(j)
      PROVE  OpenLogInv'
  BY <1>9 DEF Fetch, OpenLogInv, TypeOK, LoggedPcs, SyncPcs, CriticalPcs
<1>10. ASSUME NEW j \in Jobs, Validate(j)
      PROVE  OpenLogInv'
  BY <1>10 DEF Validate, OpenLogInv, TypeOK, LoggedPcs, SyncPcs, CriticalPcs
<1>11. ASSUME NEW j \in Jobs, PersistTx(j)
      PROVE  OpenLogInv'
  BY <1>11, <1>0 DEF PersistTx, ArgOK, Arg, Log, SourceExclusion, OpenLogInv, TypeOK,
     LoggedPcs, SyncPcs, CriticalPcs
<1>12. ASSUME NEW j \in Jobs, PersistRollback(j)
      PROVE  OpenLogInv'
  BY <1>12 DEF PersistRollback, OpenLogInv, TypeOK, LoggedPcs, SyncPcs, CriticalPcs
<1>13. ASSUME NEW j \in Jobs, FailTx(j)
      PROVE  OpenLogInv'
  BY <1>13, <1>0 DEF FailTx, ArgOK, Arg, Log, SourceExclusion, OpenLogInv, TypeOK,
     LoggedPcs, SyncPcs, CriticalPcs
<1>14. ASSUME NEW j \in Jobs, FailRollback(j)
      PROVE  OpenLogInv'
  BY <1>14 DEF FailRollback, OpenLogInv, TypeOK, LoggedPcs, SyncPcs, CriticalPcs
<1>15. ASSUME NEW j \in Jobs, Prepare(j)
      PROVE  OpenLogInv'
  BY <1>15 DEF Prepare, ArgOK, Arg, OpenLogInv, TypeOK, LoggedPcs, SyncPcs, CriticalPcs
<1>16. ASSUME NEW j \in Jobs, ReplaceTx(j)
      PROVE  OpenLogInv'
  BY <1>16 DEF ReplaceTx, OpenLogInv, TypeOK, LoggedPcs, SyncPcs, CriticalPcs
<1>17. ASSUME NEW j \in Jobs, ReplaceRollback(j)
      PROVE  OpenLogInv'
  BY <1>17 DEF ReplaceRollback, OpenLogInv, TypeOK, LoggedPcs, SyncPcs, CriticalPcs
<1>18. ASSUME NEW j \in Jobs, DeleteTx(j)
      PROVE  OpenLogInv'
  BY <1>18 DEF DeleteTx, OpenLogInv, TypeOK, LoggedPcs, SyncPcs, CriticalPcs
<1>19. ASSUME NEW j \in Jobs, DeleteRollback(j)
      PROVE  OpenLogInv'
  BY <1>19 DEF DeleteRollback, OpenLogInv, TypeOK, LoggedPcs, SyncPcs, CriticalPcs
<1>20. ASSUME NEW j \in Jobs, CheckEdit(j)
      PROVE  OpenLogInv'
  BY <1>20 DEF CheckEdit, OpenLogInv, TypeOK, LoggedPcs, SyncPcs, CriticalPcs
<1>21. ASSUME NEW j \in Jobs, WriteEdit(j)
      PROVE  OpenLogInv'
  BY <1>21 DEF WriteEdit, WriteRow, OpenLogInv, TypeOK, LoggedPcs, SyncPcs, CriticalPcs
<1>22. ASSUME NEW j \in Jobs, WriteForm(j)
      PROVE  OpenLogInv'
  BY <1>22 DEF WriteForm, WriteRow, OpenLogInv, TypeOK, LoggedPcs, SyncPcs, CriticalPcs
<1>23. ASSUME NEW j \in Jobs, WriteLife(j)
      PROVE  OpenLogInv'
  BY <1>23 DEF WriteLife, OpenLogInv, TypeOK, LoggedPcs, SyncPcs, CriticalPcs
<1>24. ASSUME NEW j \in Jobs, Crash(j)
      PROVE  OpenLogInv'
  BY <1>24 DEF Crash, OpenLogInv, TypeOK, LoggedPcs, SyncPcs, CriticalPcs
<1>25. ASSUME NEW j \in Jobs, LoseSession(j)
      PROVE  OpenLogInv'
  BY <1>25 DEF LoseSession, OpenLogInv, TypeOK, LoggedPcs, SyncPcs, CriticalPcs
<1>26. ASSUME NEW r \in Rooms, ToggleRoom(r)
      PROVE  OpenLogInv'
  BY <1>26 DEF ToggleRoom, OpenLogInv
<1>27. ASSUME NEW l \in Logs, Elapse(l)
      PROVE  OpenLogInv'
  BY <1>27 DEF Elapse, OpenLogInv, TypeOK, ArgOK, Log
<1>28. CASE UNCHANGED vars
  BY <1>28 DEF vars, OpenLogInv
<1>29. ASSUME NEW j \in Jobs, ReplaceWrite(j)
      PROVE  OpenLogInv'
  BY <1>29, <1>0 DEF ReplaceWrite, ArgOK, Arg, Log, SourceExclusion, OpenLogInv, TypeOK,
     LoggedPcs, SyncPcs, CriticalPcs
<1>30. ASSUME NEW j \in Jobs, DeleteRows(j)
      PROVE  OpenLogInv'
  BY <1>30, <1>0 DEF DeleteRows, NoRow, ArgOK, Arg, Log, SourceExclusion, OpenLogInv,
     TypeOK, LoggedPcs, SyncPcs, CriticalPcs
<1> QED
  BY <1>1, <1>2, <1>3, <1>4, <1>5, <1>6, <1>7, <1>8, <1>9, <1>10, <1>11, <1>12, <1>13,
     <1>14, <1>15, <1>16, <1>17, <1>18, <1>19, <1>20, <1>21, <1>22, <1>23, <1>24, <1>25,
     <1>26, <1>27, <1>28, <1>29, <1>30 DEF Next, Advance

(* The life a call is about to write was chosen when it began.             *)
LEMMA NextLife ==
    ASSUME TypeOK, LifeInv, [Next]_vars
    PROVE  LifeInv'
<1> USE DEF rowVars, lockVars, Goto, Return
<1>1. ASSUME NEW j \in Jobs, Start(j)
      PROVE  LifeInv'
  BY <1>1 DEF Start, StartSync, StartReplace, StartDelete, StartEdit, StartForm,
     StartToggle, Begin, LifeInv, TypeOK
<1>2. ASSUME NEW j \in Jobs, TrySource(j)
      PROVE  LifeInv'
  BY <1>2 DEF TrySource, LifeInv, TypeOK
<1>3. ASSUME NEW j \in Jobs, TryRoom(j)
      PROVE  LifeInv'
  BY <1>3 DEF TryRoom, Entry, LifeInv, TypeOK
<1>4. ASSUME NEW j \in Jobs, UnlockRoom(j)
      PROVE  LifeInv'
  BY <1>4 DEF UnlockRoom, LifeInv, TypeOK
<1>5. ASSUME NEW j \in Jobs, UnlockSource(j)
      PROVE  LifeInv'
  BY <1>5 DEF UnlockSource, LifeInv, TypeOK
<1>6. ASSUME NEW j \in Jobs, Reread(j)
      PROVE  LifeInv'
  BY <1>6 DEF Reread, ArgOK, Arg, LifeInv, TypeOK
<1>7. ASSUME NEW j \in Jobs, MarkStale(j)
      PROVE  LifeInv'
  BY <1>7 DEF MarkStale, TimedOut, LifeInv, TypeOK
<1>8. ASSUME NEW j \in Jobs, CreateLog(j)
      PROVE  LifeInv'
  BY <1>8 DEF CreateLog, ArgOK, Arg, LifeInv, TypeOK
<1>9. ASSUME NEW j \in Jobs, Fetch(j)
      PROVE  LifeInv'
  BY <1>9 DEF Fetch, LifeInv, TypeOK
<1>10. ASSUME NEW j \in Jobs, Validate(j)
      PROVE  LifeInv'
  BY <1>10 DEF Validate, LifeInv, TypeOK
<1>11. ASSUME NEW j \in Jobs, PersistTx(j)
      PROVE  LifeInv'
  BY <1>11 DEF PersistTx, LifeInv, TypeOK
<1>12. ASSUME NEW j \in Jobs, PersistRollback(j)
      PROVE  LifeInv'
  BY <1>12 DEF PersistRollback, LifeInv, TypeOK
<1>13. ASSUME NEW j \in Jobs, FailTx(j)
      PROVE  LifeInv'
  BY <1>13 DEF FailTx, LifeInv, TypeOK
<1>14. ASSUME NEW j \in Jobs, FailRollback(j)
      PROVE  LifeInv'
  BY <1>14 DEF FailRollback, LifeInv, TypeOK
<1>15. ASSUME NEW j \in Jobs, Prepare(j)
      PROVE  LifeInv'
  BY <1>15 DEF Prepare, ArgOK, Arg, LifeInv, TypeOK
<1>16. ASSUME NEW j \in Jobs, ReplaceTx(j)
      PROVE  LifeInv'
  BY <1>16 DEF ReplaceTx, LifeInv, TypeOK
<1>17. ASSUME NEW j \in Jobs, ReplaceRollback(j)
      PROVE  LifeInv'
  BY <1>17 DEF ReplaceRollback, LifeInv, TypeOK
<1>18. ASSUME NEW j \in Jobs, DeleteTx(j)
      PROVE  LifeInv'
  BY <1>18 DEF DeleteTx, LifeInv, TypeOK
<1>19. ASSUME NEW j \in Jobs, DeleteRollback(j)
      PROVE  LifeInv'
  BY <1>19 DEF DeleteRollback, LifeInv, TypeOK
<1>20. ASSUME NEW j \in Jobs, CheckEdit(j)
      PROVE  LifeInv'
  BY <1>20 DEF CheckEdit, LifeInv, TypeOK
<1>21. ASSUME NEW j \in Jobs, WriteEdit(j)
      PROVE  LifeInv'
  BY <1>21 DEF WriteEdit, WriteRow, LifeInv, TypeOK
<1>22. ASSUME NEW j \in Jobs, WriteForm(j)
      PROVE  LifeInv'
  BY <1>22 DEF WriteForm, WriteRow, LifeInv, TypeOK
<1>23. ASSUME NEW j \in Jobs, WriteLife(j)
      PROVE  LifeInv'
  BY <1>23 DEF WriteLife, LifeInv, TypeOK
<1>24. ASSUME NEW j \in Jobs, Crash(j)
      PROVE  LifeInv'
  BY <1>24 DEF Crash, Freed, LifeInv, TypeOK
<1>25. ASSUME NEW j \in Jobs, LoseSession(j)
      PROVE  LifeInv'
  BY <1>25 DEF LoseSession, Freed, LifeInv, TypeOK
<1>26. ASSUME NEW r \in Rooms, ToggleRoom(r)
      PROVE  LifeInv'
  BY <1>26 DEF ToggleRoom, LifeInv
<1>27. ASSUME NEW l \in Logs, Elapse(l)
      PROVE  LifeInv'
  BY <1>27 DEF Elapse, LifeInv
<1>28. CASE UNCHANGED vars
  BY <1>28 DEF vars, LifeInv
<1>29. ASSUME NEW j \in Jobs, ReplaceWrite(j)
      PROVE  LifeInv'
  BY <1>29 DEF ReplaceWrite, LifeInv, TypeOK
<1>30. ASSUME NEW j \in Jobs, DeleteRows(j)
      PROVE  LifeInv'
  BY <1>30 DEF DeleteRows, LifeInv, TypeOK
<1> QED
  BY <1>1, <1>2, <1>3, <1>4, <1>5, <1>6, <1>7, <1>8, <1>9, <1>10,
     <1>11, <1>12, <1>13, <1>14, <1>15, <1>16, <1>17, <1>18, <1>19, <1>20,
     <1>21, <1>22, <1>23, <1>24, <1>25, <1>26, <1>27, <1>28, <1>29, <1>30
     DEF Next, Advance

(* setCalendarSourceActive writes no URL, and brings no deleted row back.    *)
LEMMA LifeKept ==
    ASSUME TypeOK, NEW j \in Jobs, WriteLife(j), NEW s \in Sources
    PROVE  /\ row'[s].url = row[s].url
           /\ row'[s].life # "GONE" => row[s].life # "GONE"
<1>1. CASE Present(arg[j].src)
  <2>1. row' = [row EXCEPT ![arg[j].src].life = arg[j].life]
    BY <1>1 DEF WriteLife
  <2>2. row \in [Sources -> Row]
    BY DEF TypeOK
  <2>3. CASE s = arg[j].src
    <3>1. row'[s] = [row[s] EXCEPT !.life = arg[j].life]
      BY <2>1, <2>2, <2>3
    <3>2. row[s] \in Row
      BY <2>2
    <3>3. row'[s].url = row[s].url
      BY <3>1, <3>2 DEF Row
    <3> QED BY <1>1, <2>3, <3>3 DEF Present
  <2>4. CASE s # arg[j].src
    BY <2>1, <2>2, <2>4
  <2> QED BY <2>3, <2>4
<1>2. CASE ~Present(arg[j].src)
  BY <1>2 DEF WriteLife
<1> QED BY <1>1, <1>2

(* Whoever changes the URL of a source either holds its key, which the     *)
(* sync then does not, or leaves a mark on the sync.                       *)
LEMMA NextUrl ==
    ASSUME TypeOK, UrlInv, [Next]_vars
    PROVE  UrlInv'
<1> USE DEF rowVars, lockVars, Goto, Return
<1>0. \A i \in Jobs : pc[i] # "idle" => arg[i].src \in Sources
  BY DEF TypeOK, ArgOK, Arg
<1>1. ASSUME NEW j \in Jobs, Start(j)
      PROVE  UrlInv'
  BY <1>1 DEF Start, StartSync, StartReplace, StartDelete, StartEdit, StartForm,
     StartToggle, Begin, UrlInv, TypeOK, SyncPcs, LoggedPcs
<1>2. ASSUME NEW j \in Jobs, TrySource(j)
      PROVE  UrlInv'
  BY <1>2, NoneAssumption DEF TrySource, ArgOK, Arg, UrlInv, TypeOK, SyncPcs, LoggedPcs
<1>3. ASSUME NEW j \in Jobs, TryRoom(j)
      PROVE  UrlInv'
  BY <1>3 DEF TryRoom, Entry, UrlInv, TypeOK, SyncPcs, LoggedPcs
<1>4. ASSUME NEW j \in Jobs, UnlockRoom(j)
      PROVE  UrlInv'
  BY <1>4 DEF UnlockRoom, UrlInv, TypeOK, SyncPcs, LoggedPcs
<1>5. ASSUME NEW j \in Jobs, UnlockSource(j)
      PROVE  UrlInv'
  BY <1>5, NoneAssumption DEF UnlockSource, ArgOK, Arg, UrlInv, TypeOK, SyncPcs, LoggedPcs
<1>6. ASSUME NEW j \in Jobs, Reread(j)
      PROVE  UrlInv'
  BY <1>6 DEF Reread, ArgOK, Arg, UrlInv, TypeOK, SyncPcs, LoggedPcs
<1>7. ASSUME NEW j \in Jobs, MarkStale(j)
      PROVE  UrlInv'
  BY <1>7 DEF MarkStale, TimedOut, UrlInv, TypeOK, SyncPcs, LoggedPcs
<1>8. ASSUME NEW j \in Jobs, CreateLog(j)
      PROVE  UrlInv'
  BY <1>8 DEF CreateLog, ArgOK, Arg, UrlInv, TypeOK, SyncPcs, LoggedPcs
<1>9. ASSUME NEW j \in Jobs, Fetch(j)
      PROVE  UrlInv'
  BY <1>9 DEF Fetch, UrlInv, TypeOK, SyncPcs, LoggedPcs
<1>10. ASSUME NEW j \in Jobs, Validate(j)
      PROVE  UrlInv'
  BY <1>10 DEF Validate, UrlInv, TypeOK, SyncPcs, LoggedPcs
<1>11. ASSUME NEW j \in Jobs, PersistTx(j)
      PROVE  UrlInv'
  BY <1>11 DEF PersistTx, ArgOK, Arg, Row, UrlInv, TypeOK, SyncPcs, LoggedPcs
<1>12. ASSUME NEW j \in Jobs, PersistRollback(j)
      PROVE  UrlInv'
  BY <1>12 DEF PersistRollback, UrlInv, TypeOK, SyncPcs, LoggedPcs
<1>13. ASSUME NEW j \in Jobs, FailTx(j)
      PROVE  UrlInv'
  BY <1>13 DEF FailTx, ArgOK, Arg, Row, UrlInv, TypeOK, SyncPcs, LoggedPcs
<1>14. ASSUME NEW j \in Jobs, FailRollback(j)
      PROVE  UrlInv'
  BY <1>14 DEF FailRollback, UrlInv, TypeOK, SyncPcs, LoggedPcs
<1>15. ASSUME NEW j \in Jobs, Prepare(j)
      PROVE  UrlInv'
  BY <1>15 DEF Prepare, ArgOK, Arg, UrlInv, TypeOK, SyncPcs, LoggedPcs
<1>16. ASSUME NEW j \in Jobs, ReplaceTx(j)
      PROVE  UrlInv'
  BY <1>16 DEF ReplaceTx, UrlInv, TypeOK, SyncPcs, LoggedPcs
<1>17. ASSUME NEW j \in Jobs, ReplaceRollback(j)
      PROVE  UrlInv'
  BY <1>17 DEF ReplaceRollback, UrlInv, TypeOK, SyncPcs, LoggedPcs
<1>18. ASSUME NEW j \in Jobs, DeleteTx(j)
      PROVE  UrlInv'
  BY <1>18 DEF DeleteTx, UrlInv, TypeOK, SyncPcs, LoggedPcs
<1>19. ASSUME NEW j \in Jobs, DeleteRollback(j)
      PROVE  UrlInv'
  BY <1>19 DEF DeleteRollback, UrlInv, TypeOK, SyncPcs, LoggedPcs
<1>20. ASSUME NEW j \in Jobs, CheckEdit(j)
      PROVE  UrlInv'
  BY <1>20 DEF CheckEdit, UrlInv, TypeOK, SyncPcs, LoggedPcs
<1>21. ASSUME NEW j \in Jobs, WriteEdit(j)
      PROVE  UrlInv'
  BY <1>21 DEF WriteEdit, WriteRow, Overtake, ArgOK, Arg, Row, UrlInv, TypeOK, SyncPcs,
     LoggedPcs
<1>22. ASSUME NEW j \in Jobs, WriteForm(j)
      PROVE  UrlInv'
  BY <1>22 DEF WriteForm, WriteRow, Overtake, ArgOK, Arg, Row, UrlInv, TypeOK, SyncPcs,
     LoggedPcs
<1>23. ASSUME NEW j \in Jobs, WriteLife(j)
      PROVE  UrlInv'
  <2>1. ASSUME NEW s \in Sources
        PROVE  row'[s].url = row[s].url
    BY <1>23, LifeKept
  <2> QED
    BY <1>0, <1>23, <2>1 DEF WriteLife, UrlInv, TypeOK, SyncPcs, LoggedPcs
<1>24. ASSUME NEW j \in Jobs, Crash(j)
      PROVE  UrlInv'
  <2>1. ASSUME NEW i \in Jobs, NEW s \in Sources, sourceLock'[s] = i
        PROVE  sourceLock[s] = i
    BY <1>24, <2>1, NoneAssumption DEF Crash, Freed, TypeOK
  <2> QED
    BY <1>0, <1>24, <2>1 DEF Crash, UrlInv, TypeOK, SyncPcs, LoggedPcs
<1>25. ASSUME NEW j \in Jobs, LoseSession(j)
      PROVE  UrlInv'
  <2>1. ASSUME NEW i \in Jobs, NEW s \in Sources, sourceLock'[s] = i
        PROVE  sourceLock[s] = i
    BY <1>25, <2>1, NoneAssumption DEF LoseSession, Freed, TypeOK
  <2> QED
    BY <1>0, <1>25, <2>1 DEF LoseSession, UrlInv, TypeOK, SyncPcs, LoggedPcs
<1>26. ASSUME NEW r \in Rooms, ToggleRoom(r)
      PROVE  UrlInv'
  BY <1>26 DEF ToggleRoom, UrlInv
<1>27. ASSUME NEW l \in Logs, Elapse(l)
      PROVE  UrlInv'
  BY <1>27 DEF Elapse, UrlInv
<1>28. CASE UNCHANGED vars
  BY <1>28 DEF vars, UrlInv
<1>29. ASSUME NEW j \in Jobs, ReplaceWrite(j)
      PROVE  UrlInv'
  BY <1>29 DEF ReplaceWrite, Overtake, ArgOK, Arg, Row, UrlInv, TypeOK, SyncPcs, LoggedPcs
<1>30. ASSUME NEW j \in Jobs, DeleteRows(j)
      PROVE  UrlInv'
  BY <1>30 DEF DeleteRows, ArgOK, Arg, Row, UrlInv, TypeOK, SyncPcs, LoggedPcs
<1> QED
  BY <1>1, <1>2, <1>3, <1>4, <1>5, <1>6, <1>7, <1>8, <1>9, <1>10,
     <1>11, <1>12, <1>13, <1>14, <1>15, <1>16, <1>17, <1>18, <1>19, <1>20,
     <1>21, <1>22, <1>23, <1>24, <1>25, <1>26, <1>27, <1>28, <1>29, <1>30
     DEF Next, Advance

(* A deletion that has looked found no young RUNNING log, and the logs      *)
(* opened since are marked.                                                *)
LEMMA NextUnseen ==
    ASSUME TypeOK, UnseenInv, [Next]_vars
    PROVE  UnseenInv'
<1> USE DEF rowVars, lockVars, Goto, Return
<1>1. ASSUME NEW j \in Jobs, Start(j)
      PROVE  UnseenInv'
  BY <1>1 DEF Start, StartSync, StartReplace, StartDelete, StartEdit, StartForm,
     StartToggle, Begin, UnseenInv, Deleting, TypeOK, ArgOK, LoggedPcs
<1>2. ASSUME NEW j \in Jobs, TrySource(j)
      PROVE  UnseenInv'
  BY <1>2 DEF TrySource, UnseenInv, Deleting, TypeOK, ArgOK, LoggedPcs
<1>3. ASSUME NEW j \in Jobs, TryRoom(j)
      PROVE  UnseenInv'
  BY <1>3 DEF TryRoom, Entry, UnseenInv, Deleting, TypeOK, ArgOK, LoggedPcs
<1>4. ASSUME NEW j \in Jobs, UnlockRoom(j)
      PROVE  UnseenInv'
  BY <1>4 DEF UnlockRoom, UnseenInv, Deleting, TypeOK, ArgOK, LoggedPcs
<1>5. ASSUME NEW j \in Jobs, UnlockSource(j)
      PROVE  UnseenInv'
  BY <1>5 DEF UnlockSource, UnseenInv, Deleting, TypeOK, ArgOK, LoggedPcs
<1>6. ASSUME NEW j \in Jobs, Reread(j)
      PROVE  UnseenInv'
  BY <1>6 DEF Reread, Arg, UnseenInv, Deleting, TypeOK, ArgOK, LoggedPcs
<1>7. ASSUME NEW j \in Jobs, MarkStale(j)
      PROVE  UnseenInv'
  BY <1>7 DEF MarkStale, TimedOut, Log, UnseenInv, Deleting, TypeOK, ArgOK, LoggedPcs
<1>8. ASSUME NEW j \in Jobs, CreateLog(j)
      PROVE  UnseenInv'
  BY <1>8 DEF CreateLog, Arg, Log, UnseenInv, Deleting, TypeOK, ArgOK, LoggedPcs
<1>9. ASSUME NEW j \in Jobs, Fetch(j)
      PROVE  UnseenInv'
  BY <1>9 DEF Fetch, UnseenInv, Deleting, TypeOK, ArgOK, LoggedPcs
<1>10. ASSUME NEW j \in Jobs, Validate(j)
      PROVE  UnseenInv'
  BY <1>10 DEF Validate, UnseenInv, Deleting, TypeOK, ArgOK, LoggedPcs
<1>11. ASSUME NEW j \in Jobs, PersistTx(j)
      PROVE  UnseenInv'
  BY <1>11 DEF PersistTx, Log, UnseenInv, Deleting, TypeOK, ArgOK, LoggedPcs
<1>12. ASSUME NEW j \in Jobs, PersistRollback(j)
      PROVE  UnseenInv'
  BY <1>12 DEF PersistRollback, UnseenInv, Deleting, TypeOK, ArgOK, LoggedPcs
<1>13. ASSUME NEW j \in Jobs, FailTx(j)
      PROVE  UnseenInv'
  BY <1>13 DEF FailTx, Log, UnseenInv, Deleting, TypeOK, ArgOK, LoggedPcs
<1>14. ASSUME NEW j \in Jobs, FailRollback(j)
      PROVE  UnseenInv'
  BY <1>14 DEF FailRollback, UnseenInv, Deleting, TypeOK, ArgOK, LoggedPcs
<1>15. ASSUME NEW j \in Jobs, Prepare(j)
      PROVE  UnseenInv'
  BY <1>15 DEF Prepare, Arg, UnseenInv, Deleting, TypeOK, ArgOK, LoggedPcs
<1>16. ASSUME NEW j \in Jobs, ReplaceTx(j)
      PROVE  UnseenInv'
  BY <1>16 DEF ReplaceTx, UnseenInv, Deleting, TypeOK, ArgOK, LoggedPcs
<1>17. ASSUME NEW j \in Jobs, ReplaceWrite(j)
      PROVE  UnseenInv'
  BY <1>17 DEF ReplaceWrite, Overtake, Log, UnseenInv, Deleting, TypeOK, ArgOK, LoggedPcs
<1>18. ASSUME NEW j \in Jobs, ReplaceRollback(j)
      PROVE  UnseenInv'
  BY <1>18 DEF ReplaceRollback, UnseenInv, Deleting, TypeOK, ArgOK, LoggedPcs
<1>19. ASSUME NEW j \in Jobs, DeleteTx(j)
      PROVE  UnseenInv'
  BY <1>19 DEF DeleteTx, SyncInProgress, Log, UnseenInv, Deleting, TypeOK, ArgOK, LoggedPcs
<1>20. ASSUME NEW j \in Jobs, DeleteRows(j)
      PROVE  UnseenInv'
  BY <1>20 DEF DeleteRows, NoRow, Log, UnseenInv, Deleting, TypeOK, ArgOK, LoggedPcs
<1>21. ASSUME NEW j \in Jobs, DeleteRollback(j)
      PROVE  UnseenInv'
  BY <1>21 DEF DeleteRollback, UnseenInv, Deleting, TypeOK, ArgOK, LoggedPcs
<1>22. ASSUME NEW j \in Jobs, CheckEdit(j)
      PROVE  UnseenInv'
  BY <1>22 DEF CheckEdit, UnseenInv, Deleting, TypeOK, ArgOK, LoggedPcs
<1>23. ASSUME NEW j \in Jobs, WriteEdit(j)
      PROVE  UnseenInv'
  BY <1>23 DEF WriteEdit, WriteRow, Overtake, UnseenInv, Deleting, TypeOK, ArgOK, LoggedPcs
<1>24. ASSUME NEW j \in Jobs, WriteForm(j)
      PROVE  UnseenInv'
  BY <1>24 DEF WriteForm, WriteRow, Overtake, UnseenInv, Deleting, TypeOK, ArgOK, LoggedPcs
<1>25. ASSUME NEW j \in Jobs, WriteLife(j)
      PROVE  UnseenInv'
  BY <1>25 DEF WriteLife, UnseenInv, Deleting, TypeOK, ArgOK, LoggedPcs
<1>26. ASSUME NEW j \in Jobs, Crash(j)
      PROVE  UnseenInv'
  BY <1>26 DEF Crash, UnseenInv, Deleting, TypeOK, ArgOK, LoggedPcs
<1>27. ASSUME NEW j \in Jobs, LoseSession(j)
      PROVE  UnseenInv'
  BY <1>27 DEF LoseSession, UnseenInv, Deleting, TypeOK, ArgOK, LoggedPcs
<1>28. ASSUME NEW r \in Rooms, ToggleRoom(r)
      PROVE  UnseenInv'
  BY <1>28 DEF ToggleRoom, UnseenInv, Deleting
<1>29. ASSUME NEW l \in Logs, Elapse(l)
      PROVE  UnseenInv'
  BY <1>29 DEF Elapse, UnseenInv, Deleting, TypeOK, ArgOK, Log
<1>30. CASE UNCHANGED vars
  BY <1>30 DEF vars, UnseenInv, Deleting
<1> QED
  BY <1>1, <1>2, <1>3, <1>4, <1>5, <1>6, <1>7, <1>8, <1>9, <1>10, <1>11, <1>12,
     <1>13, <1>14, <1>15, <1>16, <1>17, <1>18, <1>19, <1>20, <1>21, <1>22, <1>23,
     <1>24, <1>25, <1>26, <1>27, <1>28, <1>29, <1>30
     DEF Next, Advance

(* Without lost sessions no sync works on a source between the check of a   *)
(* deletion and its deletes.                                               *)
LEMMA NextNoneUnseen ==
    ASSUME TypeOK, LockInv, unseen = {}, [Next]_vars
    PROVE  unseen' = {}
<1> USE DEF rowVars, lockVars, Goto, Return
<1>1. ASSUME NEW j \in Jobs, CreateLog(j)
      PROVE  unseen' = {}
  <2>1. ~Deleting(arg[j].src)
    BY <1>1, LocksExclude DEF CreateLog, Deleting, SourceExclusion, CriticalPcs, SyncPcs
  <2> QED BY <1>1, <2>1 DEF CreateLog
<1>2. ASSUME NEW j \in Jobs, Start(j)
      PROVE  unseen' = {}
  BY <1>2 DEF Start, StartSync, StartReplace, StartDelete, StartEdit, StartForm,
     StartToggle, Begin
<1>3. ASSUME NEW j \in Jobs, WriteEdit(j) \/ WriteForm(j) \/ ReplaceWrite(j)
      PROVE  unseen' = {}
  BY <1>3 DEF WriteEdit, WriteForm, WriteRow, ReplaceWrite, Overtake
<1>4. ASSUME NEW j \in Jobs,
             \/ TrySource(j) \/ TryRoom(j) \/ UnlockRoom(j) \/ UnlockSource(j)
             \/ Reread(j) \/ MarkStale(j) \/ Fetch(j) \/ Validate(j) \/ PersistTx(j)
             \/ PersistRollback(j) \/ FailTx(j) \/ FailRollback(j) \/ Prepare(j)
             \/ ReplaceTx(j) \/ ReplaceRollback(j) \/ DeleteTx(j) \/ DeleteRows(j)
             \/ DeleteRollback(j) \/ CheckEdit(j) \/ WriteLife(j) \/ Crash(j)
             \/ LoseSession(j)
      PROVE  unseen' = {}
  BY <1>4 DEF TrySource, TryRoom, UnlockRoom, UnlockSource, Reread, MarkStale, Fetch,
     Validate, PersistTx, PersistRollback, FailTx, FailRollback, Prepare, ReplaceTx,
     ReplaceRollback, DeleteTx, DeleteRows, DeleteRollback, CheckEdit, WriteLife, Crash,
     LoseSession
<1>5. ASSUME NEW r \in Rooms, ToggleRoom(r)
      PROVE  unseen' = {}
  BY <1>5 DEF ToggleRoom
<1>6. ASSUME NEW l \in Logs, Elapse(l)
      PROVE  unseen' = {}
  BY <1>6 DEF Elapse
<1>7. CASE UNCHANGED vars
  BY <1>7 DEF vars
<1> QED BY <1>1, <1>2, <1>3, <1>4, <1>5, <1>6, <1>7 DEF Next, Advance

(* The steps that write the status of a source.                            *)
LEMMA StatusStep ==
    ASSUME TypeOK, StatusInv, [Next]_vars, NEW s \in Sources,
           row[s].status = "RECONNECT_REQUIRED", row'[s].status = "NORMAL"
    PROVE  \E j \in Jobs : /\ pc[j] = "replaceWrite" /\ arg[j].src = s
                            /\ row'[s].url = arg[j].url /\ arg[j].url # arg[j].prev
<1> USE DEF rowVars, lockVars
<1>1. ASSUME NEW j \in Jobs, PersistTx(j)
      PROVE  FALSE
  BY <1>1 DEF PersistTx, TypeOK, ArgOK, Arg, Row, StatusInv, SyncPcs, LoggedPcs
<1>2. ASSUME NEW j \in Jobs, FailTx(j)
      PROVE  FALSE
  BY <1>2 DEF FailTx, TypeOK, ArgOK, Arg, Row
<1>3. ASSUME NEW j \in Jobs, ReplaceWrite(j)
      PROVE  /\ pc[j] = "replaceWrite" /\ arg[j].src = s
             /\ row'[s].url = arg[j].url /\ arg[j].url # arg[j].prev
  BY <1>3 DEF ReplaceWrite, TypeOK, ArgOK, Arg, Row, StatusInv
<1>4. ASSUME NEW j \in Jobs,
             DeleteRows(j) \/ WriteEdit(j) \/ WriteForm(j) \/ WriteLife(j)
      PROVE  FALSE
  BY <1>4 DEF DeleteRows, WriteEdit, WriteForm, WriteLife, WriteRow, TypeOK, Row
<1>5. ASSUME UNCHANGED row
      PROVE  FALSE
  BY <1>5
<1>6. ASSUME NEW j \in Jobs, Start(j)
      PROVE  FALSE
  BY <1>5, <1>6 DEF Start, StartSync, StartReplace, StartDelete, StartEdit, StartForm,
     StartToggle, Begin
<1>7. ASSUME NEW j \in Jobs,
             \/ TrySource(j) \/ TryRoom(j) \/ UnlockRoom(j) \/ UnlockSource(j)
             \/ Reread(j) \/ MarkStale(j) \/ CreateLog(j) \/ Fetch(j) \/ Validate(j)
             \/ PersistRollback(j) \/ FailRollback(j) \/ Prepare(j)
             \/ ReplaceTx(j) \/ DeleteTx(j)
             \/ ReplaceRollback(j) \/ DeleteRollback(j) \/ CheckEdit(j)
             \/ Crash(j) \/ LoseSession(j)
      PROVE  FALSE
  BY <1>5, <1>7 DEF TrySource, TryRoom, UnlockRoom, UnlockSource, Reread, MarkStale,
     CreateLog, Fetch, Validate, PersistRollback, FailRollback, Prepare,
     ReplaceTx, DeleteTx,
     ReplaceRollback, DeleteRollback, CheckEdit, Crash, LoseSession
<1> QED
  BY <1>1, <1>2, <1>3, <1>4, <1>5, <1>6, <1>7
     DEF Next, Advance, ToggleRoom, Elapse, vars

(* The steps that write a sync log.                                        *)
LEMMA OutcomeStep ==
    ASSUME TypeOK, OpenLogInv, [Next]_vars, NEW l \in Logs,
           log[l].status \in Terminal, log'[l].status # log[l].status
    PROVE  log'[l].status = "DELETED"
<1> USE DEF rowVars, lockVars, Terminal
<1>1. ASSUME NEW j \in Jobs, PersistTx(j) \/ FailTx(j)
      PROVE  FALSE
  BY <1>1 DEF PersistTx, FailTx, TypeOK, ArgOK, Log, OpenLogInv, LoggedPcs
<1>2. ASSUME NEW j \in Jobs, DeleteRows(j)
      PROVE  log'[l].status = "DELETED"
  BY <1>2 DEF DeleteRows, NoRow, TypeOK, Log
<1>3. ASSUME NEW j \in Jobs, MarkStale(j) \/ CreateLog(j) \/ ReplaceWrite(j)
      PROVE  FALSE
  BY <1>3 DEF MarkStale, TimedOut, CreateLog, ReplaceWrite, TypeOK, Log
<1>4. ASSUME NEW k \in Logs, Elapse(k)
      PROVE  FALSE
  BY <1>4 DEF Elapse, TypeOK, Log
<1>5. ASSUME UNCHANGED log
      PROVE  FALSE
  BY <1>5
<1>6. ASSUME NEW j \in Jobs, Start(j)
      PROVE  FALSE
  BY <1>5, <1>6 DEF Start, StartSync, StartReplace, StartDelete, StartEdit, StartForm,
     StartToggle, Begin
<1>7. ASSUME NEW j \in Jobs,
             \/ TrySource(j) \/ TryRoom(j) \/ UnlockRoom(j) \/ UnlockSource(j)
             \/ Reread(j) \/ Fetch(j) \/ Validate(j) \/ PersistRollback(j)
             \/ FailRollback(j) \/ Prepare(j) \/ ReplaceTx(j)
             \/ DeleteTx(j) \/ ReplaceRollback(j) \/ DeleteRollback(j)
             \/ CheckEdit(j) \/ WriteEdit(j) \/ WriteForm(j) \/ WriteLife(j)
             \/ Crash(j) \/ LoseSession(j)
      PROVE  FALSE
  BY <1>5, <1>7 DEF TrySource, TryRoom, UnlockRoom, UnlockSource, Reread, Fetch,
     Validate, PersistRollback, FailRollback, Prepare,
     ReplaceTx, DeleteTx, ReplaceRollback, DeleteRollback,
     CheckEdit, WriteEdit, WriteForm, WriteRow, WriteLife, Crash, LoseSession
<1> QED
  BY <1>1, <1>2, <1>3, <1>4, <1>5, <1>6, <1>7 DEF Next, Advance, ToggleRoom, vars

(* The steps that write rows: the deletes of a deletion are the only ones   *)
(* that remove one.                                                        *)
LEMMA DeleteStep ==
    ASSUME TypeOK, LifeInv, UnseenInv, [Next]_vars, NEW s \in Sources, NEW i \in Jobs,
           Present(s), ~Present(s)', pc[i] \in LoggedPcs, arg[i].src = s
    PROVE  \/ log[arg[i].log] # [source |-> s, status |-> "RUNNING", age |-> "fresh"]
           \/ i \in unseen
<1> USE DEF rowVars, lockVars, Present
<1>0. arg[i].log \in Logs
  BY DEF TypeOK, ArgOK
<1>1. ASSUME NEW j \in Jobs, PersistTx(j) \/ FailTx(j) \/ ReplaceWrite(j)
      PROVE  FALSE
  BY <1>1 DEF PersistTx, FailTx, ReplaceWrite, TypeOK, Row
<1>2. ASSUME NEW j \in Jobs, DeleteRows(j)
      PROVE  \/ log[arg[i].log] # [source |-> s, status |-> "RUNNING", age |-> "fresh"]
             \/ i \in unseen
  <2>1. s = arg[j].src
    BY <1>2 DEF DeleteRows, TypeOK, Row
  <2>2. Deleting(s)
    BY <1>2, <2>1 DEF DeleteRows, Deleting
  <2> QED
    BY <2>2 DEF UnseenInv
<1>3. ASSUME NEW j \in Jobs, WriteEdit(j) \/ WriteForm(j) \/ WriteLife(j)
      PROVE  FALSE
  BY <1>3 DEF WriteEdit, WriteForm, WriteLife, WriteRow, TypeOK, Row, LifeInv
<1>5. ASSUME UNCHANGED row
      PROVE  FALSE
  BY <1>5
<1>6. ASSUME NEW j \in Jobs, Start(j)
      PROVE  FALSE
  BY <1>5, <1>6 DEF Start, StartSync, StartReplace, StartDelete, StartEdit, StartForm,
     StartToggle, Begin
<1>7. ASSUME NEW j \in Jobs,
             \/ TrySource(j) \/ TryRoom(j) \/ UnlockRoom(j) \/ UnlockSource(j)
             \/ Reread(j) \/ MarkStale(j) \/ CreateLog(j) \/ Fetch(j) \/ Validate(j)
             \/ PersistRollback(j) \/ FailRollback(j) \/ Prepare(j)
             \/ ReplaceTx(j) \/ DeleteTx(j)
             \/ ReplaceRollback(j) \/ DeleteRollback(j) \/ CheckEdit(j)
             \/ Crash(j) \/ LoseSession(j)
      PROVE  FALSE
  BY <1>5, <1>7 DEF TrySource, TryRoom, UnlockRoom, UnlockSource, Reread, MarkStale,
     CreateLog, Fetch, Validate, PersistRollback, FailRollback, Prepare,
     ReplaceTx, DeleteTx,
     ReplaceRollback, DeleteRollback, CheckEdit, Crash, LoseSession
<1> QED
  BY <1>1, <1>2, <1>3, <1>5, <1>6, <1>7 DEF Next, Advance, ToggleRoom, Elapse, vars

(* Who may leave reservations of another URL.                              *)
Unfollower(s, j) ==
    /\ \/ pc[j] \in {"writeEdit", "writeForm"}
       \/ pc[j] = "persist" /\ (sourceLock[s] # j \/ j \in overtaken)
    /\ arg[j].src = s

(* The steps that write a feed or the URL of a row.                        *)
LEMMA FollowStep ==
    ASSUME TypeOK, UrlInv, [Next]_vars, NEW s \in Sources, Follows(s), ~Follows(s)'
    PROVE  \E j \in Jobs : Unfollower(s, j)
<1> USE DEF rowVars, lockVars, Present, Follows
<1>1. ASSUME NEW j \in Jobs, PersistTx(j)
      PROVE  Unfollower(s, j)
  <2>1. s = arg[j].src
    BY <1>1 DEF PersistTx, TypeOK, Row
  <2>2. row'[s].url = row[s].url /\ feed'[s] = arg[j].url
    BY <1>1, <2>1 DEF PersistTx, TypeOK, Row
  <2>3. arg[j].url # row[s].url
    BY <2>2
  <2> QED
    BY <1>1, <2>1, <2>3 DEF PersistTx, Unfollower, UrlInv, SyncPcs, LoggedPcs
<1>2. ASSUME NEW j \in Jobs, FailTx(j) \/ ReplaceWrite(j) \/ DeleteRows(j)
      PROVE  FALSE
  BY <1>2 DEF FailTx, ReplaceWrite, DeleteRows, TypeOK, Row
<1>3. ASSUME NEW j \in Jobs, WriteEdit(j) \/ WriteForm(j)
      PROVE  Unfollower(s, j)
  BY <1>3 DEF WriteEdit, WriteForm, WriteRow, TypeOK, Row, Unfollower
<1>4. ASSUME NEW j \in Jobs, WriteLife(j)
      PROVE  FALSE
  <2>1. feed' = feed
    BY <1>4 DEF WriteLife
  <2>2. row'[s].url = row[s].url /\ (row'[s].life # "GONE" => row[s].life # "GONE")
    BY <1>4, LifeKept
  <2> QED BY <2>1, <2>2
<1>5. ASSUME UNCHANGED <<row, feed>>
      PROVE  FALSE
  BY <1>5
<1>6. ASSUME NEW j \in Jobs, Start(j)
      PROVE  FALSE
  BY <1>5, <1>6 DEF Start, StartSync, StartReplace, StartDelete, StartEdit, StartForm,
     StartToggle, Begin
<1>7. ASSUME NEW j \in Jobs,
             \/ TrySource(j) \/ TryRoom(j) \/ UnlockRoom(j) \/ UnlockSource(j)
             \/ Reread(j) \/ MarkStale(j) \/ CreateLog(j) \/ Fetch(j) \/ Validate(j)
             \/ PersistRollback(j) \/ FailRollback(j) \/ Prepare(j)
             \/ ReplaceTx(j) \/ DeleteTx(j)
             \/ ReplaceRollback(j) \/ DeleteRollback(j) \/ CheckEdit(j)
             \/ Crash(j) \/ LoseSession(j)
      PROVE  FALSE
  BY <1>5, <1>7 DEF TrySource, TryRoom, UnlockRoom, UnlockSource, Reread, MarkStale,
     CreateLog, Fetch, Validate, PersistRollback, FailRollback, Prepare,
     ReplaceTx, DeleteTx,
     ReplaceRollback, DeleteRollback, CheckEdit, Crash, LoseSession
<1> QED
  BY <1>1, <1>2, <1>3, <1>4, <1>5, <1>6, <1>7 DEF Next, Advance, ToggleRoom, Elapse, vars

(* Every variable of CalendarSync stays in its type.                       *)
THEOREM TypeCorrect == Spec => []TypeOK
<1>1. Init => TypeOK
  BY InitType
<1>2. TypeOK /\ [Next]_vars => TypeOK'
  BY NextType
<1> QED BY <1>1, <1>2, PTL DEF Spec

LEMMA InitInv ==
    Init => LockInv /\ StatusInv /\ OpenLogInv /\ LifeInv /\ UrlInv /\ UnseenInv
BY DEF Init, LockInv, StatusInv, OpenLogInv, LifeInv, UrlInv, UnseenInv, LockedPcs, CriticalPcs,
   SyncPcs, LoggedPcs

(* withCalendarSourceAdvisoryLock: whatever unlocked writers, crashes and  *)
(* failures happen, locked calls exclude each other by source and by room. *)
THEOREM Exclusion ==
    ASSUME "sessionLoss" \notin Faults
    PROVE  Spec => []MutualExclusion
<1>1. Init => LockInv
  BY InitInv
<1>2. TypeOK /\ LockInv /\ [Next]_vars => LockInv'
  BY NextLock
<1>3. LockInv => MutualExclusion
  BY LocksExclude DEF MutualExclusion
<1> QED BY <1>1, <1>2, <1>3, TypeCorrect, PTL DEF Spec

(* A quarantine is only lifted by a replacement that brings another URL    *)
(* than the one it has found.                                              *)
THEOREM QuarantineIsSticky ==
    ASSUME "sessionLoss" \notin Faults
    PROVE  Spec => QuarantineSticky
<1> DEFINE Inv == TypeOK /\ LockInv /\ StatusInv
<1>1. Init => Inv
  BY InitType, InitInv
<1>2. Inv /\ [Next]_vars => Inv'
  BY NextType, NextLock, NextStatus
<1>3. Inv /\ [Next]_vars => [\A s \in Sources :
          row[s].status = "RECONNECT_REQUIRED" /\ row'[s].status = "NORMAL" =>
              \E j \in Jobs : /\ pc[j] = "replaceWrite" /\ arg[j].src = s
                              /\ row'[s].url = arg[j].url /\ arg[j].url # arg[j].prev]_vars
  BY StatusStep
<1> QED BY <1>1, <1>2, <1>3, PTL DEF Spec, QuarantineSticky

(* A recorded outcome is final, as long as a commit is not reported as a   *)
(* failure.                                                                *)
THEOREM OutcomeIsFinal ==
    ASSUME "sessionLoss" \notin Faults, "ackLoss" \notin Faults
    PROVE  Spec => OutcomeFinal
<1> DEFINE Inv == TypeOK /\ LockInv /\ OpenLogInv
<1>1. Init => Inv
  BY InitType, InitInv
<1>2. Inv /\ [Next]_vars => Inv'
  BY NextType, NextLock, NextOpenLog
<1>3. Inv /\ [Next]_vars => [\A l \in Logs :
          log[l].status \in Terminal /\ log'[l].status # log[l].status
            => log'[l].status = "DELETED"]_vars
  BY OutcomeStep
<1> QED BY <1>1, <1>2, <1>3, PTL DEF Spec, OutcomeFinal

(* deleteCalendarSourceTransaction: a deletion takes a source away under a  *)
(* sync with a young RUNNING log only when that log was opened between its  *)
(* check and its deletes, with no assumption about locks or faults.        *)
THEOREM DeletionSparesSync == Spec => DeleteSparesSync
<1> DEFINE Inv == TypeOK /\ LifeInv /\ UnseenInv
<1>1. Init => Inv
  BY InitType, InitInv
<1>2. Inv /\ [Next]_vars => Inv'
  BY NextType, NextLife, NextUnseen
<1>3. Inv /\ [Next]_vars => [\A s \in Sources, j \in Jobs :
          Present(s) /\ ~Present(s)' /\ pc[j] \in LoggedPcs /\ arg[j].src = s
            => \/ log[arg[j].log] # [source |-> s, status |-> "RUNNING", age |-> "fresh"]
               \/ j \in unseen]_vars
  BY DeleteStep
<1> QED BY <1>1, <1>2, <1>3, PTL DEF Spec, DeleteSparesSync

(* As long as lock sessions live, no log is ever opened between the two:   *)
(* a source is never deleted under a sync with a young RUNNING log.        *)
THEOREM DeletionSeesEverySync ==
    ASSUME "sessionLoss" \notin Faults
    PROVE  Spec => [](unseen = {})
<1>1. Init => LockInv /\ unseen = {}
  BY InitInv DEF Init
<1>2. TypeOK /\ (LockInv /\ unseen = {}) /\ [Next]_vars => (LockInv /\ unseen = {})'
  BY NextLock, NextNoneUnseen
<1> QED BY <1>1, <1>2, TypeCorrect, PTL DEF Spec

(* The stored reservations come from the current URL of their source, but  *)
(* for the three cases FeedFollowsUrl names, whatever else happens.        *)
THEOREM FeedsFollowTheirUrl == Spec => FeedFollowsUrl
<1> DEFINE Inv == TypeOK /\ UrlInv
<1>1. Init => Inv
  BY InitType, InitInv
<1>2. Inv /\ [Next]_vars => Inv'
  BY NextType, NextUrl
<1>3. Inv /\ [Next]_vars => [\A s \in Sources : Follows(s) /\ ~Follows(s)' =>
          \E j \in Jobs :
              /\ \/ pc[j] \in {"writeEdit", "writeForm"}
                 \/ pc[j] = "persist" /\ (sourceLock[s] # j \/ j \in overtaken)
              /\ arg[j].src = s]_vars
  BY FollowStep DEF Unfollower
<1> QED BY <1>1, <1>2, <1>3, PTL DEF Spec, FeedFollowsUrl

-----------------------------------------------------------------------------
(* BulkSync, with the sources and rooms above.  What it assumes of its     *)
(* constants is the hypothesis Bulk!Assumptions.                           *)
CONSTANTS RoomOf, Broken, BatchSize, Concurrency, RoomBatch, Scheduler, User,
          MaxUserCalls, MaxFaults
VARIABLES line, due, sched, call, userCalls, faults

Bulk == INSTANCE BulkSync

(* Leaving out a place of a sequence keeps what stands before it, and moves  *)
(* what stands after it one place forward.                                  *)
LEMMA PlaceRemoved ==
    ASSUME NEW S, NEW q \in Seq(S), NEW k \in 1 .. Len(q)
    PROVE  LET rest == SubSeq(q, 1, k - 1) \o SubSeq(q, k + 1, Len(q))
           IN  /\ rest \in Seq(S) /\ Len(rest) = Len(q) - 1
               /\ \A i \in 1 .. k - 1 : rest[i] = q[i]
               /\ \A i \in k .. Len(q) - 1 : rest[i] = q[i + 1]
<1> DEFINE before == SubSeq(q, 1, k - 1)
           after == SubSeq(q, k + 1, Len(q))
           rest == before \o after
<1>1. before \in Seq(S) /\ Len(before) = k - 1 /\ \A i \in 1 .. k - 1 : before[i] = q[i]
  OBVIOUS
<1>2. /\ after \in Seq(S) /\ Len(after) = Len(q) - k
      /\ \A i \in 1 .. Len(q) - k : after[i] = q[k + i]
  OBVIOUS
<1> HIDE DEF before, after
<1>3. rest \in Seq(S) /\ Len(rest) = Len(before) + Len(after)
  <2>1. before \in Seq(S) /\ after \in Seq(S)
    BY <1>1, <1>2
  <2> QED BY <2>1, ConcatProperties, Zenon
<1>4. \A i \in 1 .. Len(before) + Len(after) :
        rest[i] = IF i <= Len(before) THEN before[i] ELSE after[i - Len(before)]
  BY <1>1, <1>2
<1> HIDE DEF rest
<1>5. ASSUME NEW i \in 1 .. k - 1
      PROVE  rest[i] = q[i]
  BY <1>1, <1>2, <1>4
<1>6. ASSUME NEW i \in k .. Len(q) - 1
      PROVE  rest[i] = q[i + 1]
  <2>1. i \in 1 .. Len(before) + Len(after) /\ ~(i <= Len(before))
    BY <1>1, <1>2
  <2>2. rest[i] = after[i - (k - 1)]
    BY <1>1, <1>4, <2>1
  <2>3. i - (k - 1) \in 1 .. Len(q) - k /\ k + (i - (k - 1)) = i + 1
    OBVIOUS
  <2>4. after[i - (k - 1)] = q[k + (i - (k - 1))]
    BY <1>2, <2>3
  <2> QED BY <2>2, <2>3, <2>4
<1>7. Len(rest) = Len(q) - 1
  BY <1>1, <1>2, <1>3
<1> QED BY <1>3, <1>5, <1>6, <1>7 DEF rest, before, after

(* A source that succeeds takes the last place of the line, which keeps its *)
(* length and every source.                                                 *)
LEMMA ResyncedLine ==
    ASSUME line \in Seq(Sources), NEW s \in Sources,
           \A x \in Sources : \E i \in DOMAIN line : line[i] = x
    PROVE  /\ Bulk!Resynced(s) \in Seq(Sources)
           /\ Len(Bulk!Resynced(s)) = Len(line)
           /\ \A x \in Sources : \E i \in DOMAIN Bulk!Resynced(s) : Bulk!Resynced(s)[i] = x
<1> DEFINE k == CHOOSE i \in DOMAIN line : line[i] = s
           rest == SubSeq(line, 1, k - 1) \o SubSeq(line, k + 1, Len(line))
           new == Append(rest, s)
<1>1. k \in 1 .. Len(line) /\ line[k] = s
  OBVIOUS
<1>2. Bulk!Resynced(s) = new
  BY DEF Bulk!Resynced, Bulk!RemoveAt
<1> HIDE DEF k
<1>3. /\ rest \in Seq(Sources) /\ Len(rest) = Len(line) - 1
      /\ \A i \in 1 .. k - 1 : rest[i] = line[i]
      /\ \A i \in k .. Len(line) - 1 : rest[i] = line[i + 1]
  BY <1>1, PlaceRemoved
<1> HIDE DEF rest
<1>4. /\ new \in Seq(Sources) /\ Len(new) = Len(line)
      /\ \A i \in 1 .. Len(line) - 1 : new[i] = rest[i]
      /\ new[Len(line)] = s
  BY <1>1, <1>3
<1> HIDE DEF new
<1>5. ASSUME NEW x \in Sources
      PROVE  \E i \in DOMAIN new : new[i] = x
  <2>1. PICK i \in 1 .. Len(line) : line[i] = x
    OBVIOUS
  <2>2. DOMAIN new = 1 .. Len(line)
    BY <1>4
  <2>3. CASE i < k
    <3>1. i \in 1 .. k - 1 /\ i \in 1 .. Len(line) - 1
      BY <1>1, <2>3
    <3>2. rest[i] = line[i] /\ new[i] = rest[i]
      BY <1>3, <1>4, <3>1
    <3> QED BY <2>1, <2>2, <3>2
  <2>4. CASE i = k
    <3>1. new[Len(line)] = x /\ Len(line) \in 1 .. Len(line)
      BY <1>1, <1>4, <2>1, <2>4
    <3> QED BY <2>2, <3>1
  <2>5. CASE i > k
    <3>1. i - 1 \in k .. Len(line) - 1 /\ (i - 1) + 1 = i /\ i - 1 \in 1 .. Len(line)
      BY <1>1, <2>5
    <3>2. rest[i - 1] = line[(i - 1) + 1]
      BY <1>3, <3>1
    <3>3. new[i - 1] = rest[i - 1]
      BY <1>1, <1>4, <3>1
    <3> QED BY <2>1, <2>2, <3>1, <3>2, <3>3
  <2> QED BY <1>1, <2>3, <2>4, <2>5
<1> QED BY <1>2, <1>4, <1>5

(* The instance counts as the library does.                                 *)
LEMMA SameCounts ==
    ASSUME NEW S
    PROVE  /\ Bulk!IsFiniteSet(S) <=> IsFiniteSet(S)
           /\ Bulk!Cardinality(S) = Cardinality(S)
<1>1. Bulk!IsFiniteSet(S) <=> IsFiniteSet(S)
  BY DEF Bulk!IsFiniteSet, IsFiniteSet
<1>2. Bulk!Cardinality(S) = Cardinality(S)
  BY Zenon DEF Bulk!Cardinality, Cardinality
<1> QED BY <1>1, <1>2

(* A sequence of all sources has each of them.                              *)
LEMMA OrderHasAll ==
    ASSUME Bulk!Assumptions, NEW q \in Bulk!SetToSeqs(Sources)
    PROVE  /\ q \in Seq(Sources) /\ Len(q) = Cardinality(Sources)
           /\ \A s \in Sources : \E i \in DOMAIN q : q[i] = s
<1> DEFINE n == Cardinality(Sources)
<1>1. IsFiniteSet(Sources) /\ n \in Nat
  BY SameCounts, FS_CardinalityType DEF Bulk!Assumptions
<1>2. q \in [1 .. n -> Sources] /\ \A i, j \in 1 .. n : i # j => q[i] # q[j]
  BY SameCounts DEF Bulk!SetToSeqs
<1>3. q \in Injection(1 .. n, Sources)
  BY <1>2 DEF Injection, IsInjective
<1>4. Cardinality(1 .. n) = n
  BY <1>1, FS_Interval
<1>5. q \in Surjection(1 .. n, Sources)
  BY <1>1, <1>3, <1>4, FS_Injection
<1>6. \A s \in Sources : \E i \in 1 .. n : q[i] = s
  BY <1>5 DEF Surjection
<1>7. q \in Seq(Sources) /\ Len(q) = n /\ DOMAIN q = 1 .. n
  BY <1>1, <1>2
<1> QED BY <1>6, <1>7

(* What a user asks for is a list of sources.                               *)
LEMMA UserTargetsType ==
    ASSUME Bulk!Assumptions
    PROVE  Bulk!UserTargets \subseteq Seq(Sources)
<1> SUFFICES ASSUME NEW S \in SUBSET Sources
             PROVE  Bulk!SetToSeq(S) \in Seq(Sources)
  BY DEF Bulk!UserTargets
<1> DEFINE n == Cardinality(S)
<1>1. IsFiniteSet(S) /\ n \in Nat
  BY SameCounts, FS_Subset, FS_CardinalityType DEF Bulk!Assumptions
<1>2. PICK f : f \in Bijection(1 .. n, S)
  BY <1>1, FS_CardinalityType DEF ExistsBijection
<1>3. f \in [1 .. n -> S] /\ Bulk!IsInjective(f)
  BY <1>2 DEF Bijection, Injection, IsInjective, Bulk!IsInjective
<1>4. Bulk!SetToSeq(S) \in [1 .. n -> S]
  BY <1>3, SameCounts DEF Bulk!SetToSeq
<1> QED BY <1>1, <1>4

(* A list of sources names sources, each of a room.                         *)
LEMMA TargetsAreSources ==
    ASSUME Bulk!Assumptions, NEW targets \in Seq(Sources)
    PROVE  /\ Bulk!Range(targets) \subseteq Sources
           /\ \A s \in Bulk!Range(targets) : RoomOf[s] \in Rooms /\ s # None
BY DEF Bulk!Range, Bulk!Assumptions

(* A call that begins is in order.                                          *)
LEMMA NewCallOK ==
    ASSUME Bulk!Assumptions, NEW targets \in Seq(Sources)
    PROVE  Bulk!NewCall(targets) \in Bulk!CallType /\ Bulk!CallOK(Bulk!NewCall(targets))
<1>1. Bulk!Range(targets) \subseteq Sources
  BY TargetsAreSources
<1>2. RoomOf \in [Sources -> Rooms] /\ None \notin Sources
  BY DEF Bulk!Assumptions
<1>3. Bulk!NewCall(targets) \in Bulk!CallType
  BY <1>1, <1>2 DEF Bulk!NewCall, Bulk!CallType, Bulk!Outcomes
<1>4. Bulk!CallOK(Bulk!NewCall(targets))
  BY <1>1, <1>2 DEF Bulk!NewCall, Bulk!CallOK, Bulk!RoomOK, Bulk!SourceOK
<1> QED BY <1>3, <1>4

(* The first state is in order.                                             *)
LEMMA BulkInit == Bulk!Assumptions /\ Bulk!Init => Bulk!TypeOK
<1> SUFFICES ASSUME Bulk!Assumptions, Bulk!Init
             PROVE  Bulk!TypeOK
  OBVIOUS
<1>1. Cardinality(Sources) \in Nat /\ Bulk!Cardinality(Sources) = Cardinality(Sources)
  BY SameCounts, FS_CardinalityType DEF Bulk!Assumptions
<1>2. Bulk!LineOK
  BY <1>1, OrderHasAll DEF Bulk!Init, Bulk!LineOK
<1>3. \A c \in Bulk!Callers : call[c] = None /\ ~Bulk!Running(c)
  BY DEF Bulk!Init, Bulk!Running
<1> QED BY <1>2, <1>3 DEF Bulk!Init, Bulk!TypeOK, Bulk!Callers

(* A step of one call keeps the state in order if it leaves the call in     *)
(* order.                                                                   *)
LEMMA CallSteps ==
    ASSUME Bulk!Assumptions, Bulk!TypeOK, NEW c \in Bulk!Callers, Bulk!Running(c),
           NEW new \in Bulk!CallType, Bulk!CallOK(new),
           call' = [call EXCEPT ![c] = new], UNCHANGED sched, Bulk!LineOK'
    PROVE  Bulk!TypeOK' /\ Bulk!Running(c)'
<1>1. new # None
  BY DEF Bulk!Assumptions
<1>2. call' \in [Bulk!Callers -> Bulk!CallType \cup {None}]
  BY DEF Bulk!TypeOK
<1>3. \A d \in Bulk!Callers : call'[d] = IF d = c THEN new ELSE call[d]
  BY DEF Bulk!TypeOK
<1>4. (\A d \in Bulk!Callers : Bulk!Running(d) => Bulk!CallOK(call[d]))'
  BY <1>3 DEF Bulk!TypeOK, Bulk!Running
<1>5. (sched = "cycle" <=> Bulk!Running(Scheduler))'
  BY <1>1, <1>3 DEF Bulk!TypeOK, Bulk!Running, Bulk!Callers
<1>6. Bulk!Running(c)'
  BY <1>1, <1>3 DEF Bulk!Running
<1> QED BY <1>2, <1>4, <1>5, <1>6 DEF Bulk!TypeOK

(* What a call that is under way consists of.                               *)
LEMMA CallParts ==
    ASSUME NEW k \in Bulk!CallType
    PROVE  /\ k.targets \in Seq(Sources) /\ k.at \in [Rooms -> {"waiting", "open", "done"}]
           /\ k.left \in [Rooms -> SUBSET Sources]
           /\ k.current \in [Rooms -> Sources \cup {None}]
           /\ k.result \in [Sources -> Bulk!Outcomes \cup {"NONE"}]
           /\ k.run \in [Rooms -> {"NONE", "RUNNING", "SUCCESS", "FAILED"}]
           /\ k.unsaved \in SUBSET Rooms /\ k.aborted \in BOOLEAN
BY DEF Bulk!CallType

(* A room that is refused has the outcome of each source left to it.        *)
LEMMA RefuseRoomOK ==
    ASSUME Bulk!Assumptions, Bulk!TypeOK, NEW c \in Bulk!Callers, NEW r \in Rooms,
           NEW outcome \in Bulk!Outcomes,
           Bulk!Running(c), Bulk!MayStart(c, r), Bulk!RefuseRoom(c, r, outcome),
           UNCHANGED <<line, due, sched>>
    PROVE  Bulk!TypeOK' /\ Bulk!Running(c)'
<1> DEFINE k == call[c]
           result == Bulk!All(c, r, outcome)
           new == [k EXCEPT !.at = [k.at EXCEPT ![r] = "done"], !.result = result,
                            !.left = [k.left EXCEPT ![r] = {}]]
<1>1. k \in Bulk!CallType /\ Bulk!CallOK(k) /\ k.at[r] = "waiting"
  BY DEF Bulk!TypeOK, Bulk!Running, Bulk!MayStart
<1>2. call' = [call EXCEPT ![c] = new]
  BY <1>1 DEF Bulk!RefuseRoom, Bulk!TypeOK, Bulk!CallType
<1>3. /\ result \in [Sources -> Bulk!Outcomes \cup {"NONE"}]
      /\ \A s \in Sources : result[s] = IF s \in k.left[r] THEN outcome ELSE k.result[s]
  BY <1>1 DEF Bulk!All, Bulk!CallType
<1> HIDE DEF k, result
<1>4. /\ new.targets = k.targets /\ new.current = k.current /\ new.run = k.run
      /\ new.unsaved = k.unsaved /\ new.aborted = k.aborted
      /\ new.at = [k.at EXCEPT ![r] = "done"] /\ new.result = result
      /\ new.left = [k.left EXCEPT ![r] = {}]
  BY <1>1 DEF Bulk!CallType
<1>5. new \in Bulk!CallType
  BY <1>1, <1>3 DEF Bulk!CallType
<1> HIDE DEF new
<1>6. Bulk!CallOK(new)
  <2>1. k.targets \in Seq(Sources) /\ k.at \in [Rooms -> {"waiting", "open", "done"}]
        /\ k.left \in [Rooms -> SUBSET Sources]
    BY <1>1, CallParts
  <2>2. ASSUME NEW q \in Rooms
        PROVE  Bulk!RoomOK(new, q)
    BY <1>1, <1>4, <2>1 DEF Bulk!CallOK, Bulk!RoomOK
  <2>3. ASSUME NEW s \in Bulk!Range(new.targets)
        PROVE  Bulk!SourceOK(new, s)
    <3>1. /\ Bulk!SourceOK(k, s) /\ Bulk!RoomOK(k, r)
          /\ s \in Sources /\ RoomOf[s] \in Rooms /\ s # None
      BY <1>1, <1>4, <2>1, TargetsAreSources DEF Bulk!CallOK
    <3>2. CASE RoomOf[s] = r
      BY <1>1, <1>3, <1>4, <2>1, <3>1, <3>2 DEF Bulk!SourceOK, Bulk!RoomOK, Bulk!Outcomes
    <3>3. CASE RoomOf[s] # r
      BY <1>1, <1>3, <1>4, <2>1, <3>1, <3>3 DEF Bulk!SourceOK, Bulk!RoomOK
    <3> QED BY <3>2, <3>3
  <2> QED BY <2>2, <2>3 DEF Bulk!CallOK
<1>7. Bulk!LineOK'
  BY DEF Bulk!TypeOK, Bulk!LineOK
<1> QED BY <1>2, <1>5, <1>6, <1>7, CallSteps

(* A room that is opened has its sources left to it and its row open.       *)
LEMMA OpenRoomOK ==
    ASSUME Bulk!Assumptions, Bulk!TypeOK, NEW c \in Bulk!Callers, NEW r \in Rooms,
           Bulk!Running(c), Bulk!MayStart(c, r),
           call' = [call EXCEPT ![c].at[r] = "open", ![c].run[r] = "RUNNING"],
           UNCHANGED <<line, due, sched>>
    PROVE  Bulk!TypeOK' /\ Bulk!Running(c)'
<1> DEFINE k == call[c]
           new == [k EXCEPT !.at = [k.at EXCEPT ![r] = "open"],
                            !.run = [k.run EXCEPT ![r] = "RUNNING"]]
<1>1. k \in Bulk!CallType /\ Bulk!CallOK(k) /\ k.at[r] = "waiting"
  BY DEF Bulk!TypeOK, Bulk!Running, Bulk!MayStart
<1>2. call' = [call EXCEPT ![c] = new]
  BY <1>1 DEF Bulk!TypeOK, Bulk!CallType
<1> HIDE DEF k
<1>3. /\ new.targets = k.targets /\ new.current = k.current /\ new.left = k.left
      /\ new.result = k.result /\ new.unsaved = k.unsaved /\ new.aborted = k.aborted
      /\ new.at = [k.at EXCEPT ![r] = "open"] /\ new.run = [k.run EXCEPT ![r] = "RUNNING"]
  BY <1>1 DEF Bulk!CallType
<1>4. new \in Bulk!CallType
  BY <1>1 DEF Bulk!CallType
<1> HIDE DEF new
<1>5. Bulk!CallOK(new)
  <2>1. ASSUME NEW q \in Rooms
        PROVE  Bulk!RoomOK(new, q)
    BY <1>1, <1>3, CallParts DEF Bulk!CallOK, Bulk!RoomOK
  <2>2. ASSUME NEW s \in Bulk!Range(new.targets)
        PROVE  Bulk!SourceOK(new, s)
    BY <1>1, <1>3 DEF Bulk!CallOK, Bulk!SourceOK
  <2> QED BY <2>1, <2>2 DEF Bulk!CallOK
<1>6. Bulk!LineOK'
  BY DEF Bulk!TypeOK, Bulk!LineOK
<1> QED BY <1>2, <1>4, <1>5, <1>6, CallSteps

(* The next source of a room is one of its own that is not yet decided.     *)
LEMMA NextIsLeft ==
    ASSUME Bulk!Assumptions, Bulk!TypeOK, NEW c \in Bulk!Callers, NEW r \in Rooms, NEW s,
           Bulk!Running(c), Bulk!IsNext(c, r, s)
    PROVE  /\ s \in call[c].left[r] /\ s \in Sources /\ RoomOf[s] = r
           /\ s \in Bulk!Range(call[c].targets) /\ s # None
<1>1. call[c] \in Bulk!CallType /\ Bulk!RoomOK(call[c], r)
  BY DEF Bulk!TypeOK, Bulk!Running, Bulk!CallOK
<1>2. s \in call[c].left[r]
  BY DEF Bulk!IsNext
<1>3. s \in Bulk!Range(call[c].targets) /\ RoomOf[s] = r
  BY <1>1, <1>2 DEF Bulk!RoomOK
<1> QED BY <1>1, <1>2, <1>3, CallParts, TargetsAreSources

(* A source that is refused has its outcome and is not left any more.       *)
LEMMA SkipOK ==
    ASSUME Bulk!Assumptions, Bulk!TypeOK, NEW c \in Bulk!Callers, NEW r \in Rooms,
           NEW s, Bulk!Running(c), Bulk!MayStartSource(c, r), Bulk!IsNext(c, r, s),
           call' = [call EXCEPT ![c].left[r] = @ \ {s}, ![c].result[s] = "SKIPPED"],
           UNCHANGED <<line, due, sched>>
    PROVE  Bulk!TypeOK' /\ Bulk!Running(c)'
<1> DEFINE k == call[c]
           new == [k EXCEPT !.left = [k.left EXCEPT ![r] = k.left[r] \ {s}],
                            !.result = [k.result EXCEPT ![s] = "SKIPPED"]]
<1>1. k \in Bulk!CallType /\ Bulk!CallOK(k) /\ k.at[r] = "open" /\ k.current[r] = None
  BY DEF Bulk!TypeOK, Bulk!Running, Bulk!MayStartSource
<1>2. call' = [call EXCEPT ![c] = new]
  BY <1>1 DEF Bulk!TypeOK, Bulk!CallType
<1>3. s \in k.left[r] /\ s \in Sources /\ RoomOf[s] = r /\ s # None
  BY NextIsLeft
<1> HIDE DEF k
<1>4. /\ new.targets = k.targets /\ new.current = k.current /\ new.at = k.at
      /\ new.run = k.run /\ new.unsaved = k.unsaved /\ new.aborted = k.aborted
      /\ new.left = [k.left EXCEPT ![r] = k.left[r] \ {s}]
      /\ new.result = [k.result EXCEPT ![s] = "SKIPPED"]
  BY <1>1 DEF Bulk!CallType
<1>5. /\ [k.left EXCEPT ![r] = k.left[r] \ {s}] \in [Rooms -> SUBSET Sources]
      /\ [k.result EXCEPT ![s] = "SKIPPED"] \in [Sources -> Bulk!Outcomes \cup {"NONE"}]
  BY <1>1, <1>3, CallParts DEF Bulk!Outcomes
<1>6. new \in Bulk!CallType
  BY <1>1, <1>5 DEF Bulk!CallType
<1> HIDE DEF new
<1>7. Bulk!CallOK(new)
  <2>1. ASSUME NEW q \in Rooms
        PROVE  Bulk!RoomOK(new, q)
    BY <1>1, <1>4, CallParts DEF Bulk!CallOK, Bulk!RoomOK
  <2>2. ASSUME NEW x \in Bulk!Range(new.targets)
        PROVE  Bulk!SourceOK(new, x)
    <3>1. Bulk!SourceOK(k, x) /\ x \in Sources /\ RoomOf[x] \in Rooms
      BY <1>1, <1>4, CallParts, TargetsAreSources DEF Bulk!CallOK
    <3>2. CASE x = s
      BY <1>1, <1>3, <1>4, <3>1, <3>2, CallParts DEF Bulk!SourceOK
    <3>3. CASE x # s
      BY <1>1, <1>3, <1>4, <3>1, <3>3, CallParts DEF Bulk!SourceOK
    <3> QED BY <3>2, <3>3
  <2> QED BY <2>1, <2>2 DEF Bulk!CallOK
<1>8. Bulk!LineOK'
  BY DEF Bulk!TypeOK, Bulk!LineOK
<1> QED BY <1>2, <1>6, <1>7, <1>8, CallSteps

(* A source that is begun is being synced and is not left any more.         *)
LEMMA BeginOK ==
    ASSUME Bulk!Assumptions, Bulk!TypeOK, NEW c \in Bulk!Callers, NEW r \in Rooms,
           NEW s, Bulk!Running(c), Bulk!MayStartSource(c, r), Bulk!IsNext(c, r, s),
           call' = [call EXCEPT ![c].left[r] = @ \ {s}, ![c].current[r] = s],
           UNCHANGED <<line, due, sched>>
    PROVE  Bulk!TypeOK' /\ Bulk!Running(c)'
<1> DEFINE k == call[c]
           new == [k EXCEPT !.left = [k.left EXCEPT ![r] = k.left[r] \ {s}],
                            !.current = [k.current EXCEPT ![r] = s]]
<1>1. k \in Bulk!CallType /\ Bulk!CallOK(k) /\ k.at[r] = "open" /\ k.current[r] = None
  BY DEF Bulk!TypeOK, Bulk!Running, Bulk!MayStartSource
<1>2. call' = [call EXCEPT ![c] = new]
  BY <1>1 DEF Bulk!TypeOK, Bulk!CallType
<1>3. /\ s \in k.left[r] /\ s \in Sources /\ RoomOf[s] = r /\ s # None
      /\ s \in Bulk!Range(k.targets)
  BY NextIsLeft
<1> HIDE DEF k
<1>4. /\ new.targets = k.targets /\ new.result = k.result /\ new.at = k.at
      /\ new.run = k.run /\ new.unsaved = k.unsaved /\ new.aborted = k.aborted
      /\ new.left = [k.left EXCEPT ![r] = k.left[r] \ {s}]
      /\ new.current = [k.current EXCEPT ![r] = s]
  BY <1>1 DEF Bulk!CallType
<1>5. /\ [k.left EXCEPT ![r] = k.left[r] \ {s}] \in [Rooms -> SUBSET Sources]
      /\ [k.current EXCEPT ![r] = s] \in [Rooms -> Sources \cup {None}]
  BY <1>1, <1>3, CallParts
<1>6. new \in Bulk!CallType
  BY <1>1, <1>5 DEF Bulk!CallType
<1> HIDE DEF new
<1>7. Bulk!CallOK(new)
  <2>1. ASSUME NEW q \in Rooms
        PROVE  Bulk!RoomOK(new, q)
    BY <1>1, <1>3, <1>4, CallParts DEF Bulk!CallOK, Bulk!RoomOK
  <2>2. ASSUME NEW x \in Bulk!Range(new.targets)
        PROVE  Bulk!SourceOK(new, x)
    <3>1. Bulk!SourceOK(k, x) /\ x \in Sources /\ RoomOf[x] \in Rooms /\ x # None
      BY <1>1, <1>4, CallParts, TargetsAreSources DEF Bulk!CallOK
    <3>2. CASE x = s
      BY <1>1, <1>3, <1>4, <3>1, <3>2, CallParts DEF Bulk!SourceOK
    <3>3. CASE x # s
      BY <1>1, <1>3, <1>4, <3>1, <3>3, CallParts DEF Bulk!SourceOK
    <3> QED BY <3>2, <3>3
  <2> QED BY <2>1, <2>2 DEF Bulk!CallOK
<1>8. Bulk!LineOK'
  BY DEF Bulk!TypeOK, Bulk!LineOK
<1> QED BY <1>2, <1>6, <1>7, <1>8, CallSteps

(* A source whose sync ends has its outcome and is not being synced.        *)
LEMMA EndSourceOK ==
    ASSUME Bulk!Assumptions, Bulk!TypeOK, NEW c \in Bulk!Callers, NEW r \in Rooms,
           NEW outcome \in Bulk!Outcomes, Bulk!EndSource(c, r, outcome), Bulk!LineOK'
    PROVE  Bulk!TypeOK' /\ Bulk!Running(c)'
<1> DEFINE k == call[c]
           s == k.current[r]
           new == [k EXCEPT !.current = [k.current EXCEPT ![r] = None],
                            !.result = [k.result EXCEPT ![s] = outcome]]
<1>1. /\ Bulk!Running(c) /\ k \in Bulk!CallType /\ Bulk!CallOK(k) /\ s # None
      /\ UNCHANGED sched
  BY DEF Bulk!TypeOK, Bulk!Running, Bulk!EndSource
<1>2. call' = [call EXCEPT ![c] = new]
  BY <1>1 DEF Bulk!EndSource, Bulk!TypeOK, Bulk!CallType
<1> HIDE DEF k
<1>3. s \in Sources /\ RoomOf[s] = r /\ s \in Bulk!Range(k.targets) /\ s \notin k.left[r]
  BY <1>1, CallParts DEF Bulk!CallOK, Bulk!RoomOK
<1> HIDE DEF s
<1>4. /\ new.targets = k.targets /\ new.left = k.left /\ new.at = k.at
      /\ new.run = k.run /\ new.unsaved = k.unsaved /\ new.aborted = k.aborted
      /\ new.current = [k.current EXCEPT ![r] = None]
      /\ new.result = [k.result EXCEPT ![s] = outcome]
  BY <1>1 DEF Bulk!CallType
<1>5. /\ [k.current EXCEPT ![r] = None] \in [Rooms -> Sources \cup {None}]
      /\ [k.result EXCEPT ![s] = outcome] \in [Sources -> Bulk!Outcomes \cup {"NONE"}]
  BY <1>1, <1>3, CallParts
<1>6. new \in Bulk!CallType
  BY <1>1, <1>5 DEF Bulk!CallType
<1> HIDE DEF new
<1>7. Bulk!CallOK(new)
  <2>1. ASSUME NEW q \in Rooms
        PROVE  Bulk!RoomOK(new, q)
    BY <1>1, <1>4, CallParts DEF Bulk!CallOK, Bulk!RoomOK
  <2>2. ASSUME NEW x \in Bulk!Range(new.targets)
        PROVE  Bulk!SourceOK(new, x)
    <3>1. Bulk!SourceOK(k, x) /\ x \in Sources /\ RoomOf[x] \in Rooms /\ x # None
      BY <1>1, <1>4, CallParts, TargetsAreSources DEF Bulk!CallOK
    <3>2. CASE x = s
      <4>1. new.current[r] = None /\ new.result[s] = outcome /\ outcome # "NONE"
        BY <1>1, <1>3, <1>4, CallParts DEF Bulk!Outcomes
      <4> QED BY <1>3, <1>4, <3>1, <3>2, <4>1 DEF Bulk!SourceOK
    <3>3. CASE x # s
      <4>1. k.current[r] = s
        BY DEF s
      <4> QED BY <1>1, <1>3, <1>4, <3>1, <3>3, <4>1, CallParts DEF Bulk!SourceOK
    <3> QED BY <3>2, <3>3
  <2> QED BY <2>1, <2>2 DEF Bulk!CallOK
<1> QED BY <1>1, <1>2, <1>6, <1>7, CallSteps

(* Success moves the source to the end of the line.                         *)
LEMMA SucceedOK ==
    ASSUME Bulk!Assumptions, Bulk!TypeOK, NEW c \in Bulk!Callers, NEW r \in Rooms,
           Bulk!Succeed(c, r)
    PROVE  Bulk!TypeOK' /\ Bulk!Running(c)'
<1> DEFINE s == call[c].current[r]
<1>1. call[c] \in Bulk!CallType /\ s # None /\ Bulk!LineOK
  BY DEF Bulk!Succeed, Bulk!EndSource, Bulk!Running, Bulk!TypeOK
<1>2. s \in Sources
  BY <1>1, CallParts
<1> HIDE DEF s
<1>3. /\ Bulk!Resynced(s) \in Seq(Sources)
      /\ Len(Bulk!Resynced(s)) = Len(line)
      /\ \A x \in Sources : \E i \in DOMAIN Bulk!Resynced(s) : Bulk!Resynced(s)[i] = x
  BY <1>1, <1>2, ResyncedLine DEF Bulk!LineOK
<1>4. line' = Bulk!Resynced(s) /\ due' = IF Bulk!IsDue(s) THEN due - 1 ELSE due
  BY DEF Bulk!Succeed, s
<1>5. Bulk!IsDue(s) => due - 1 \in 0 .. Len(line)
  BY <1>1 DEF Bulk!IsDue, Bulk!LineOK
<1>6. due' \in 0 .. Len(line)
  BY <1>1, <1>4, <1>5 DEF Bulk!LineOK
<1>7. Bulk!LineOK'
  BY <1>1, <1>3, <1>4, <1>6 DEF Bulk!LineOK
<1> QED BY <1>7, EndSourceOK DEF Bulk!Succeed, Bulk!Outcomes

(* A room that is over has its row closed, or noted as left open.           *)
LEMMA FinishRoomOK ==
    ASSUME Bulk!Assumptions, Bulk!TypeOK, NEW c \in Bulk!Callers, NEW r \in Rooms,
           Bulk!FinishRoom(c, r)
    PROVE  Bulk!TypeOK' /\ Bulk!Running(c)'
<1> DEFINE k == call[c]
           closed == [k EXCEPT !.at = [k.at EXCEPT ![r] = "done"],
                               !.run = [k.run EXCEPT ![r] = Bulk!StatusOf(c, r)]]
           open == [k EXCEPT !.at = [k.at EXCEPT ![r] = "done"],
                             !.unsaved = k.unsaved \cup {r}]
<1>1. /\ Bulk!Running(c) /\ k \in Bulk!CallType /\ Bulk!CallOK(k) /\ k.at[r] = "open"
      /\ k.left[r] = {} /\ k.current[r] = None /\ UNCHANGED sched
  BY DEF Bulk!FinishRoom, Bulk!TypeOK, Bulk!Running
<1>2. Bulk!LineOK'
  BY DEF Bulk!FinishRoom, Bulk!TypeOK, Bulk!LineOK
<1>3. Bulk!StatusOf(c, r) \in {"SUCCESS", "FAILED"}
  BY DEF Bulk!StatusOf
<1>4. call' = [call EXCEPT ![c] = closed] \/ call' = [call EXCEPT ![c] = open]
  BY <1>1 DEF Bulk!FinishRoom, Bulk!TypeOK, Bulk!CallType
<1> HIDE DEF k
<1>5. ASSUME NEW new, new \in {closed, open}
      PROVE  new \in Bulk!CallType /\ Bulk!CallOK(new)
  <2>1. new \in Bulk!CallType
    <3>1. CASE new = closed
      BY <1>1, <1>3, <3>1 DEF Bulk!CallType
    <3>2. CASE new = open
      <4>1. k.unsaved \cup {r} \in SUBSET Rooms
        BY <1>1, CallParts
      <4> QED BY <1>1, <3>2, <4>1 DEF Bulk!CallType
    <3> QED BY <1>5, <3>1, <3>2
  <2>2. /\ new.targets = k.targets /\ new.current = k.current /\ new.left = k.left
        /\ new.result = k.result /\ new.at = [k.at EXCEPT ![r] = "done"]
    BY <1>1, <1>5 DEF Bulk!CallType
  <2>3. \/ new.run = [k.run EXCEPT ![r] = Bulk!StatusOf(c, r)] /\ new.unsaved = k.unsaved
        \/ new.run = k.run /\ new.unsaved = k.unsaved \cup {r}
    BY <1>1, <1>5 DEF Bulk!CallType
  <2>4. ASSUME NEW q \in Rooms
        PROVE  Bulk!RoomOK(new, q)
    BY <1>1, <1>3, <2>2, <2>3, CallParts DEF Bulk!CallOK, Bulk!RoomOK
  <2>5. ASSUME NEW s \in Bulk!Range(new.targets)
        PROVE  Bulk!SourceOK(new, s)
    BY <1>1, <2>2 DEF Bulk!CallOK, Bulk!SourceOK
  <2> QED BY <2>1, <2>4, <2>5 DEF Bulk!CallOK
<1> HIDE DEF closed, open
<1> QED BY <1>1, <1>2, <1>4, <1>5, CallSteps

(* The time limit only marks the call.                                      *)
LEMMA TimeOutOK ==
    ASSUME Bulk!Assumptions, Bulk!TypeOK, NEW c \in Bulk!Callers, Bulk!TimeOut(c)
    PROVE  Bulk!TypeOK' /\ Bulk!Running(c)'
<1> DEFINE k == call[c]
           new == [k EXCEPT !.aborted = TRUE]
<1>1. Bulk!Running(c) /\ k \in Bulk!CallType /\ Bulk!CallOK(k)
  BY DEF Bulk!TypeOK, Bulk!Running, Bulk!TimeOut
<1>2. call' = [call EXCEPT ![c] = new]
  BY <1>1 DEF Bulk!TimeOut, Bulk!TypeOK, Bulk!CallType
<1> HIDE DEF k
<1>3. /\ new.targets = k.targets /\ new.current = k.current /\ new.left = k.left
      /\ new.result = k.result /\ new.at = k.at /\ new.run = k.run
      /\ new.unsaved = k.unsaved
  BY <1>1 DEF Bulk!CallType
<1>4. new \in Bulk!CallType
  BY <1>1 DEF Bulk!CallType
<1> HIDE DEF new
<1>5. Bulk!CallOK(new)
  BY <1>1, <1>3 DEF Bulk!CallOK, Bulk!RoomOK, Bulk!SourceOK
<1>6. Bulk!LineOK' /\ UNCHANGED sched
  BY DEF Bulk!TimeOut, Bulk!TypeOK, Bulk!LineOK
<1> QED BY <1>1, <1>2, <1>4, <1>5, <1>6, CallSteps

(* A caller that begins or ends a call leaves the other's call alone.       *)
LEMMA CallerSteps ==
    ASSUME Bulk!Assumptions, Bulk!TypeOK, NEW c \in Bulk!Callers,
           NEW new \in Bulk!CallType \cup {None}, new # None => Bulk!CallOK(new),
           call' = [call EXCEPT ![c] = new], Bulk!LineOK',
           sched' \in {"timer", "listing", "cycle", "down"},
           (sched = "cycle" <=> Bulk!Running(Scheduler))'
    PROVE  Bulk!TypeOK'
<1>1. call' \in [Bulk!Callers -> Bulk!CallType \cup {None}]
  BY DEF Bulk!TypeOK
<1>2. \A d \in Bulk!Callers : call'[d] = IF d = c THEN new ELSE call[d]
  BY DEF Bulk!TypeOK
<1>3. (\A d \in Bulk!Callers : Bulk!Running(d) => Bulk!CallOK(call[d]))'
  BY <1>2 DEF Bulk!TypeOK, Bulk!Running
<1> QED BY <1>1, <1>3 DEF Bulk!TypeOK

(* The scheduler's list, whatever is due, is a list of sources.             *)
LEMMA PickType ==
    ASSUME Bulk!Assumptions, Bulk!LineOK
    PROVE  Bulk!Pick \in Seq(Sources)
BY DEF Bulk!Pick, Bulk!LineOK, Bulk!Assumptions

(* Every step of a call keeps the state in order.                           *)
LEMMA WorkOK ==
    ASSUME Bulk!Assumptions, Bulk!TypeOK, NEW c \in Bulk!Callers, NEW r \in Rooms,
           Bulk!Work(c, r)
    PROVE  Bulk!TypeOK' /\ Bulk!Running(c)'
<1>1. CASE Bulk!StartRoom(c, r)
  BY <1>1, RefuseRoomOK, OpenRoomOK DEF Bulk!StartRoom, Bulk!Outcomes
<1>2. CASE Bulk!StartSource(c, r)
  BY <1>2, SkipOK, BeginOK DEF Bulk!StartSource
<1>3. CASE Bulk!Succeed(c, r)
  BY <1>3, SucceedOK
<1>4. CASE Bulk!Fail(c, r)
  <2>1. Bulk!LineOK'
    BY <1>4 DEF Bulk!Fail, Bulk!LineOK, Bulk!TypeOK
  <2> QED BY <1>4, <2>1, EndSourceOK DEF Bulk!Fail, Bulk!Outcomes
<1>5. CASE Bulk!FinishRoom(c, r)
  BY <1>5, FinishRoomOK
<1> QED BY <1>1, <1>2, <1>3, <1>4, <1>5 DEF Bulk!Work

(* Every step keeps the state in order.                                     *)
LEMMA BulkNext ==
    ASSUME Bulk!Assumptions, Bulk!TypeOK, [Bulk!Next]_Bulk!vars
    PROVE  Bulk!TypeOK'
<1> USE DEF Bulk!Running
<1>0. Scheduler # User /\ Scheduler \in Bulk!Callers /\ User \in Bulk!Callers
  BY DEF Bulk!Assumptions, Bulk!Callers
<1>1. UNCHANGED <<line, due>> => Bulk!LineOK'
  BY DEF Bulk!TypeOK, Bulk!LineOK
<1>2. CASE UNCHANGED Bulk!vars
  BY <1>1, <1>2 DEF Bulk!TypeOK, Bulk!vars
<1>3. CASE Bulk!Fire \/ Bulk!Restart
  BY <1>1, <1>3 DEF Bulk!Fire, Bulk!Restart, Bulk!TypeOK
<1>4. CASE Bulk!List
  <2>1. CASE call' = [call EXCEPT ![Scheduler] = Bulk!NewCall(Bulk!Pick)] /\ sched' = "cycle"
    <3>1. Bulk!NewCall(Bulk!Pick) \in Bulk!CallType /\ Bulk!CallOK(Bulk!NewCall(Bulk!Pick))
      BY PickType, NewCallOK DEF Bulk!TypeOK
    <3>2. call'[Scheduler] # None
      BY <1>0, <2>1, <3>1 DEF Bulk!Assumptions, Bulk!TypeOK
    <3> QED BY <1>0, <1>1, <1>4, <2>1, <3>1, <3>2, CallerSteps DEF Bulk!List
  <2>2. CASE UNCHANGED call /\ sched' = "timer"
    BY <1>1, <1>4, <2>2 DEF Bulk!List, Bulk!TypeOK
  <2> QED BY <1>4, <2>1, <2>2 DEF Bulk!List
<1>5. CASE Bulk!Rearm
  <2>1. call'[Scheduler] = None
    BY <1>0, <1>5 DEF Bulk!Rearm, Bulk!TypeOK
  <2> QED BY <1>0, <1>1, <1>5, <2>1, CallerSteps DEF Bulk!Rearm
<1>6. CASE Bulk!UserReturn
  <2>1. call'[Scheduler] = call[Scheduler]
    BY <1>0, <1>6 DEF Bulk!UserReturn, Bulk!TypeOK
  <2> QED BY <1>0, <1>1, <1>6, <2>1, CallerSteps DEF Bulk!UserReturn, Bulk!TypeOK
<1>7. ASSUME NEW t \in Bulk!UserTargets, Bulk!UserCall(t)
      PROVE  Bulk!TypeOK'
  <2>1. Bulk!NewCall(t) \in Bulk!CallType /\ Bulk!CallOK(Bulk!NewCall(t))
    BY UserTargetsType, NewCallOK
  <2>2. call'[Scheduler] = call[Scheduler]
    BY <1>0, <1>7 DEF Bulk!UserCall, Bulk!TypeOK
  <2> QED BY <1>0, <1>1, <1>7, <2>1, <2>2, CallerSteps DEF Bulk!UserCall, Bulk!TypeOK
<1>8. CASE Bulk!Crash
  BY <1>0, <1>1, <1>8 DEF Bulk!Crash, Bulk!TypeOK
<1>9. ASSUME NEW c \in Bulk!Callers, Bulk!TimeOut(c)
      PROVE  Bulk!TypeOK'
  BY <1>9, TimeOutOK
<1>10. ASSUME NEW c \in Bulk!Callers, NEW r \in Rooms, Bulk!Work(c, r)
       PROVE  Bulk!TypeOK'
  BY <1>10, WorkOK
<1>11. CASE Bulk!Elapse
  <2>1. Bulk!LineOK'
    BY <1>11 DEF Bulk!Elapse, Bulk!TypeOK, Bulk!LineOK
  <2> QED BY <1>11, <2>1 DEF Bulk!Elapse, Bulk!TypeOK
<1> QED
  BY <1>0, <1>2, <1>3, <1>4, <1>5, <1>6, <1>7, <1>8, <1>9, <1>10, <1>11
  DEF Bulk!Next, Bulk!SchedulerStep, Bulk!UserStep

(* The calls of every run are in order: each listed source has its outcome, *)
(* or is being synced, or is still left to its room.                        *)
THEOREM BulkTypeCorrect ==
    ASSUME Bulk!Assumptions
    PROVE  Bulk!Spec => []Bulk!TypeOK
<1>1. Bulk!Init => Bulk!TypeOK
  BY BulkInit
<1>2. Bulk!TypeOK /\ [Bulk!Next]_Bulk!vars => Bulk!TypeOK'
  BY BulkNext
<1> QED BY <1>1, <1>2, PTL DEF Bulk!Spec

(* No two rooms of a call hold the key of the same room.                    *)
LEMMA OwnKeysApart ==
    ASSUME Bulk!Assumptions, Bulk!TypeOK, NEW c \in Bulk!Callers, NEW r \in Rooms,
           Bulk!Running(c), call[c].current[r] = None, NEW h \in Bulk!HeldBy(c)
    PROVE  RoomOf[h] # r
<1>1. PICK q \in Rooms : h = call[c].current[q] /\ h # None
  BY DEF Bulk!HeldBy
<1>2. RoomOf[h] = q
  BY <1>1 DEF Bulk!TypeOK, Bulk!CallOK, Bulk!RoomOK
<1> QED BY <1>1, <1>2

(* What a step refuses, it refuses for the time limit or another's key.     *)
LEMMA RefusalsAreForeign ==
    ASSUME Bulk!Assumptions, Bulk!TypeOK, [Bulk!Next]_Bulk!vars,
           NEW c \in Bulk!Callers, NEW s \in Sources,
           Bulk!Running(c), Bulk!Running(c)',
           call[c].result[s] = "NONE", call'[c].result[s] = "SKIPPED"
    PROVE  call[c].aborted \/ \E h \in Bulk!Held \ Bulk!HeldBy(c) : h = s \/ RoomOf[h] = RoomOf[s]
<1> DEFINE Goal == call[c].aborted
                     \/ \E h \in Bulk!Held \ Bulk!HeldBy(c) : h = s \/ RoomOf[h] = RoomOf[s]
<1>0. /\ call \in [Bulk!Callers -> Bulk!CallType \cup {None}]
      /\ Scheduler # User /\ Scheduler \in Bulk!Callers /\ User \in Bulk!Callers
      /\ call[c] \in Bulk!CallType
      /\ call'[c] # call[c]
  BY DEF Bulk!TypeOK, Bulk!Assumptions, Bulk!Callers, Bulk!Running
<1>1. \A r \in Rooms : Bulk!RoomOK(call[c], r)
  BY DEF Bulk!TypeOK, Bulk!CallOK
<1>2. ASSUME NEW r \in Rooms, NEW outcome \in Bulk!Outcomes, Bulk!RefuseRoom(c, r, outcome)
      PROVE  outcome = "SKIPPED"
  <2>1. call'[c].result = Bulk!All(c, r, outcome)
    BY <1>0, <1>2 DEF Bulk!RefuseRoom, Bulk!CallType
  <2> QED BY <2>1 DEF Bulk!All
<1>3. ASSUME NEW r \in Rooms, Bulk!StartRoom(c, r)
      PROVE  Goal
  <2>1. CASE call' = [call EXCEPT ![c].at[r] = "open", ![c].run[r] = "RUNNING"]
    <3>1. call'[c].result = call[c].result
      BY <1>0, <2>1 DEF Bulk!CallType
    <3> QED BY <3>1
  <2> QED BY <1>2, <1>3, <2>1 DEF Bulk!StartRoom, Bulk!Outcomes
<1>4. ASSUME NEW r \in Rooms, Bulk!StartSource(c, r)
      PROVE  Goal
  <2>1. PICK x \in Sources : /\ Bulk!IsNext(c, r, x)
                             /\ call' = IF Bulk!Refused(c, x)
                                  THEN [call EXCEPT ![c].left[r] = @ \ {x}, ![c].result[x] = "SKIPPED"]
                                  ELSE [call EXCEPT ![c].left[r] = @ \ {x}, ![c].current[r] = x]
    BY <1>4 DEF Bulk!StartSource
  <2>2. CASE ~Bulk!Refused(c, x)
    <3>1. call'[c].result = call[c].result
      BY <1>0, <2>1, <2>2 DEF Bulk!CallType
    <3> QED BY <3>1
  <2>3. CASE Bulk!Refused(c, x)
    <3>1. call'[c].result = [call[c].result EXCEPT ![x] = "SKIPPED"]
      BY <1>0, <2>1, <2>3 DEF Bulk!CallType
    <3>2. x = s
      BY <1>0, <3>1 DEF Bulk!CallType
    <3>3. RoomOf[s] = r /\ call[c].current[r] = None
      BY <1>4, <2>1, <3>2, NextIsLeft DEF Bulk!StartSource, Bulk!MayStartSource
    <3>4. \A h \in Bulk!HeldBy(c) : RoomOf[h] # RoomOf[s] /\ h # s
      BY <3>3, OwnKeysApart
    <3> QED BY <2>3, <3>2, <3>4 DEF Bulk!Refused
  <2> QED BY <2>2, <2>3
<1>5. ASSUME NEW r \in Rooms, NEW outcome \in {"SUCCESS", "FAILED"}, Bulk!EndSource(c, r, outcome)
      PROVE  FALSE
  <2>1. call'[c].result = [call[c].result EXCEPT ![call[c].current[r]] = outcome]
    BY <1>0, <1>5 DEF Bulk!EndSource, Bulk!CallType
  <2> QED BY <1>0, <2>1 DEF Bulk!CallType
<1>6. ASSUME NEW r \in Rooms, Bulk!FinishRoom(c, r)
      PROVE  FALSE
  <2>1. call'[c].result = call[c].result
    BY <1>0, <1>6 DEF Bulk!FinishRoom, Bulk!CallType
  <2> QED BY <2>1
<1>7. ASSUME Bulk!TimeOut(c)
      PROVE  FALSE
  <2>1. call'[c].result = call[c].result
    BY <1>0, <1>7 DEF Bulk!TimeOut, Bulk!CallType
  <2> QED BY <2>1
<1>8. ASSUME NEW d \in Bulk!Callers, NEW r \in Rooms, Bulk!Work(d, r)
      PROVE  d = c
  BY <1>0, <1>8 DEF Bulk!Work, Bulk!StartRoom, Bulk!RefuseRoom, Bulk!StartSource, Bulk!Succeed,
     Bulk!Fail, Bulk!EndSource, Bulk!FinishRoom
<1>9. ASSUME NEW d \in Bulk!Callers, Bulk!TimeOut(d)
      PROVE  d = c
  BY <1>0, <1>9 DEF Bulk!TimeOut
<1>10. ASSUME Bulk!Fire \/ Bulk!List \/ Bulk!Rearm \/ Bulk!Restart \/ Bulk!UserReturn
                \/ Bulk!Crash \/ Bulk!Elapse \/ UNCHANGED Bulk!vars
                \/ \E t \in Bulk!UserTargets : Bulk!UserCall(t)
       PROVE  FALSE
  BY <1>0, <1>10 DEF Bulk!Fire, Bulk!List, Bulk!Rearm, Bulk!Restart, Bulk!UserReturn, Bulk!Crash,
     Bulk!Elapse, Bulk!vars, Bulk!UserCall, Bulk!TypeOK, Bulk!Running
<1>11. ASSUME NEW r \in Rooms, Bulk!Work(c, r)
       PROVE  Goal
  BY <1>3, <1>4, <1>5, <1>6, <1>11 DEF Bulk!Work, Bulk!Succeed, Bulk!Fail
<1> QED
  BY <1>0, <1>7, <1>8, <1>9, <1>10, <1>11 DEF Bulk!Next, Bulk!SchedulerStep, Bulk!UserStep

(* sync-calendar-sources.ts:80: no source is refused because of a key that  *)
(* its own call holds.                                                      *)
THEOREM NoCallInItsOwnWay ==
    ASSUME Bulk!Assumptions
    PROVE  Bulk!Spec => Bulk!NeverInOwnWay
<1>1. Bulk!TypeOK /\ [Bulk!Next]_Bulk!vars =>
        [\A c \in Bulk!Callers, s \in Sources :
           Bulk!Running(c) /\ Bulk!Running(c)' /\ call[c].result[s] = "NONE"
             /\ call'[c].result[s] = "SKIPPED"
             => call[c].aborted
                  \/ \E h \in Bulk!Held \ Bulk!HeldBy(c) : h = s \/ RoomOf[h] = RoomOf[s]]_Bulk!vars
  BY RefusalsAreForeign
<1> QED BY <1>1, BulkTypeCorrect, PTL DEF Bulk!Spec, Bulk!NeverInOwnWay

(* A call that ends leaves no row open but those that could not be closed.  *)
LEMMA EndsWithRowsClosed ==
    ASSUME Bulk!Assumptions, Bulk!TypeOK, [Bulk!Next]_Bulk!vars,
           NEW c \in Bulk!Callers, NEW r \in Rooms, Bulk!Running(c), ~Bulk!Running(c)',
           sched' # "down", call[c].run[r] = "RUNNING"
    PROVE  r \in call[c].unsaved
<1>0. /\ call \in [Bulk!Callers -> Bulk!CallType \cup {None}]
      /\ Scheduler \in Bulk!Callers /\ User \in Bulk!Callers
      /\ call'[c] # call[c]
  BY DEF Bulk!TypeOK, Bulk!Callers, Bulk!Running
<1>1. ASSUME Bulk!Finished(c)
      PROVE  r \in call[c].unsaved
  BY <1>1 DEF Bulk!Finished, Bulk!TypeOK, Bulk!CallOK, Bulk!RoomOK
<1>2. ASSUME NEW d \in Bulk!Callers, NEW q \in Rooms, Bulk!Work(d, q)
      PROVE  FALSE
  <2>1. d = c
    BY <1>0, <1>2 DEF Bulk!Work, Bulk!StartRoom, Bulk!RefuseRoom, Bulk!StartSource, Bulk!Succeed,
       Bulk!Fail, Bulk!EndSource, Bulk!FinishRoom
  <2> QED BY <1>2, <2>1, WorkOK
<1>3. ASSUME NEW d \in Bulk!Callers, Bulk!TimeOut(d)
      PROVE  FALSE
  <2>1. d = c
    BY <1>0, <1>3 DEF Bulk!TimeOut
  <2> QED BY <1>3, <2>1, TimeOutOK
<1>4. ASSUME Bulk!Fire \/ Bulk!List \/ Bulk!Restart \/ Bulk!Crash \/ Bulk!Elapse
                \/ UNCHANGED Bulk!vars \/ \E t \in Bulk!UserTargets : Bulk!UserCall(t)
      PROVE  FALSE
  BY <1>0, <1>4 DEF Bulk!Fire, Bulk!List, Bulk!Restart, Bulk!Crash, Bulk!Elapse, Bulk!vars,
     Bulk!UserCall, Bulk!TypeOK, Bulk!Running
<1>5. CASE Bulk!Rearm \/ Bulk!UserReturn
  <2>1. Bulk!Finished(c)
    BY <1>0, <1>5 DEF Bulk!Rearm, Bulk!UserReturn
  <2> QED BY <1>1, <2>1
<1> QED
  BY <1>0, <1>2, <1>3, <1>4, <1>5 DEF Bulk!Next, Bulk!SchedulerStep, Bulk!UserStep

(* When a call is over, the SyncRun rows of its rooms are closed, whatever  *)
(* was refused, failed or ran into the time limit, but for the rows whose   *)
(* closing write failed.                                                    *)
THEOREM CallsCloseTheirRuns ==
    ASSUME Bulk!Assumptions
    PROVE  Bulk!Spec => Bulk!RunsClosed
<1>1. Bulk!TypeOK /\ [Bulk!Next]_Bulk!vars =>
        [\A c \in Bulk!Callers : Bulk!Running(c) /\ ~Bulk!Running(c)' /\ sched' # "down" =>
           \A r \in Rooms : call[c].run[r] = "RUNNING" => r \in call[c].unsaved]_Bulk!vars
  BY EndsWithRowsClosed
<1> QED BY <1>1, BulkTypeCorrect, PTL DEF Bulk!Spec, Bulk!RunsClosed

(* What a step of a call does to it: the list stays, a room is begun when   *)
(* it may be or is over, and a sync is begun when its keys are free or ends. *)
Advances(k, new, c, r) ==
    /\ new.targets = k.targets
    /\ \/ new.at = k.at
       \/ \E label \in {"open", "done"} :
            /\ Bulk!MayStart(c, r) \/ (k.at[r] = "open" /\ label = "done")
            /\ new.at = [k.at EXCEPT ![r] = label]
    /\ \/ new.current = k.current
       \/ new.current = [k.current EXCEPT ![r] = None]
       \/ \E s \in Sources :
            /\ RoomOf[s] = r /\ ~Bulk!Refused(c, s)
            /\ new.current = [k.current EXCEPT ![r] = s]

LEMMA WorkAdvances ==
    ASSUME Bulk!Assumptions, Bulk!TypeOK, NEW c \in Bulk!Callers, NEW r \in Rooms,
           Bulk!Work(c, r)
    PROVE  /\ Bulk!Running(c) /\ Bulk!Running(c)'
           /\ Advances(call[c], call'[c], c, r)
           /\ \A d \in Bulk!Callers \ {c} : call'[d] = call[d]
<1>1. /\ call \in [Bulk!Callers -> Bulk!CallType \cup {None}]
      /\ Bulk!Running(c) /\ call[c] \in Bulk!CallType
  BY DEF Bulk!TypeOK, Bulk!Running, Bulk!Work, Bulk!StartRoom, Bulk!StartSource, Bulk!Succeed,
     Bulk!Fail, Bulk!EndSource, Bulk!FinishRoom
<1>2. \A d \in Bulk!Callers \ {c} : call'[d] = call[d]
  BY <1>1 DEF Bulk!Work, Bulk!StartRoom, Bulk!RefuseRoom, Bulk!StartSource, Bulk!Succeed,
     Bulk!Fail, Bulk!EndSource, Bulk!FinishRoom
<1>3. ASSUME Bulk!StartRoom(c, r)
      PROVE  Advances(call[c], call'[c], c, r)
  <2>1. ASSUME NEW outcome, Bulk!RefuseRoom(c, r, outcome)
        PROVE  Advances(call[c], call'[c], c, r)
    <3>1. /\ call'[c].targets = call[c].targets /\ call'[c].current = call[c].current
          /\ call'[c].at = [call[c].at EXCEPT ![r] = "done"]
      BY <1>1, <2>1 DEF Bulk!RefuseRoom, Bulk!CallType
    <3> QED BY <1>3, <3>1 DEF Bulk!StartRoom, Advances
  <2>2. CASE call' = [call EXCEPT ![c].at[r] = "open", ![c].run[r] = "RUNNING"]
    <3>1. /\ call'[c].targets = call[c].targets /\ call'[c].current = call[c].current
          /\ call'[c].at = [call[c].at EXCEPT ![r] = "open"]
      BY <1>1, <2>2 DEF Bulk!CallType
    <3>2. Bulk!MayStart(c, r) /\ "open" \in {"open", "done"}
      BY <1>3 DEF Bulk!StartRoom
    <3> QED BY <3>1, <3>2 DEF Advances
  <2> QED BY <1>3, <2>1, <2>2 DEF Bulk!StartRoom
<1>4. ASSUME Bulk!StartSource(c, r)
      PROVE  Advances(call[c], call'[c], c, r)
  <2>1. PICK x \in Sources : /\ Bulk!IsNext(c, r, x)
                             /\ call' = IF Bulk!Refused(c, x)
                                  THEN [call EXCEPT ![c].left[r] = @ \ {x}, ![c].result[x] = "SKIPPED"]
                                  ELSE [call EXCEPT ![c].left[r] = @ \ {x}, ![c].current[r] = x]
    BY <1>4 DEF Bulk!StartSource
  <2>2. RoomOf[x] = r
    BY <1>1, <2>1, NextIsLeft
  <2>3. call'[c].targets = call[c].targets /\ call'[c].at = call[c].at
    BY <1>1, <2>1 DEF Bulk!CallType
  <2>4. CASE Bulk!Refused(c, x)
    <3>1. call'[c].current = call[c].current
      BY <1>1, <2>1, <2>4 DEF Bulk!CallType
    <3> QED BY <2>3, <3>1 DEF Advances
  <2>5. CASE ~Bulk!Refused(c, x)
    <3>1. call'[c].current = [call[c].current EXCEPT ![r] = x]
      BY <1>1, <2>1, <2>5 DEF Bulk!CallType
    <3> QED BY <2>2, <2>3, <2>5, <3>1 DEF Advances
  <2> QED BY <2>4, <2>5
<1>5. ASSUME Bulk!Succeed(c, r) \/ Bulk!Fail(c, r)
      PROVE  Advances(call[c], call'[c], c, r)
  <2>1. /\ call'[c].targets = call[c].targets /\ call'[c].at = call[c].at
        /\ call'[c].current = [call[c].current EXCEPT ![r] = None]
    BY <1>1, <1>5 DEF Bulk!Succeed, Bulk!Fail, Bulk!EndSource, Bulk!CallType
  <2> QED BY <2>1 DEF Advances
<1>6. ASSUME Bulk!FinishRoom(c, r)
      PROVE  Advances(call[c], call'[c], c, r)
  <2>1. /\ call'[c].targets = call[c].targets /\ call'[c].current = call[c].current
        /\ call'[c].at = [call[c].at EXCEPT ![r] = "done"] /\ call[c].at[r] = "open"
    BY <1>1, <1>6 DEF Bulk!FinishRoom, Bulk!CallType
  <2> QED BY <2>1 DEF Advances
<1> QED BY <1>1, <1>2, <1>3, <1>4, <1>5, <1>6, WorkOK DEF Bulk!Work

(* A step that is not work begins a call, ends calls, or leaves the list,   *)
(* the rooms and the syncs of every call as they are.                       *)
Resting ==
    \A c \in Bulk!Callers : Bulk!Running(c)' =>
        \/ call'[c] \in {Bulk!NewCall(t) : t \in Seq(Sources)}
        \/ /\ Bulk!Running(c) /\ call'[c].targets = call[c].targets
           /\ call'[c].at = call[c].at /\ call'[c].current = call[c].current

LEMMA WorkOrRest ==
    ASSUME Bulk!Assumptions, Bulk!TypeOK, [Bulk!Next]_Bulk!vars
    PROVE  Resting \/ \E c \in Bulk!Callers, r \in Rooms : Bulk!Work(c, r)
<1>0. /\ call \in [Bulk!Callers -> Bulk!CallType \cup {None}]
      /\ Scheduler \in Bulk!Callers /\ User \in Bulk!Callers
  BY DEF Bulk!TypeOK, Bulk!Callers
<1>1. CASE UNCHANGED call
  BY <1>1 DEF Resting, Bulk!Running
<1>2. ASSUME NEW c \in Bulk!Callers, NEW t \in Seq(Sources),
             call' = [call EXCEPT ![c] = Bulk!NewCall(t)]
      PROVE  Resting
  BY <1>0, <1>2 DEF Resting, Bulk!Running
<1>3. ASSUME NEW c \in Bulk!Callers, call' = [call EXCEPT ![c] = None]
      PROVE  Resting
  BY <1>0, <1>3 DEF Resting, Bulk!Running
<1>4. CASE Bulk!List
  BY <1>0, <1>1, <1>2, <1>4, PickType DEF Bulk!List, Bulk!TypeOK
<1>5. ASSUME NEW t \in Bulk!UserTargets, Bulk!UserCall(t)
      PROVE  Resting
  BY <1>0, <1>2, <1>5, UserTargetsType DEF Bulk!UserCall
<1>6. ASSUME NEW c \in Bulk!Callers, Bulk!TimeOut(c)
      PROVE  Resting
  <2>1. call[c] \in Bulk!CallType
    BY <1>0, <1>6 DEF Bulk!TimeOut, Bulk!Running
  <2>2. /\ call'[c].targets = call[c].targets /\ call'[c].at = call[c].at
        /\ call'[c].current = call[c].current
    BY <1>0, <1>6, <2>1 DEF Bulk!TimeOut, Bulk!CallType
  <2>3. \A d \in Bulk!Callers \ {c} : call'[d] = call[d]
    BY <1>0, <1>6 DEF Bulk!TimeOut
  <2> QED BY <1>6, <2>2, <2>3 DEF Resting, Bulk!TimeOut, Bulk!Running
<1>7. CASE Bulk!Crash
  BY <1>7 DEF Bulk!Crash, Resting, Bulk!Running
<1>8. CASE Bulk!Fire \/ Bulk!Restart \/ Bulk!Elapse \/ UNCHANGED Bulk!vars
  BY <1>1, <1>8 DEF Bulk!Fire, Bulk!Restart, Bulk!Elapse, Bulk!vars
<1>9. CASE Bulk!Rearm \/ Bulk!UserReturn
  BY <1>0, <1>3, <1>9 DEF Bulk!Rearm, Bulk!UserReturn
<1> QED
  BY <1>0, <1>4, <1>5, <1>6, <1>7, <1>8, <1>9 DEF Bulk!Next, Bulk!SchedulerStep, Bulk!UserStep

(* The keys of a room are free when a sync of it begins.                    *)
LEMMA OneSyncStep ==
    ASSUME Bulk!Assumptions, Bulk!TypeOK, Bulk!OneSyncPerRoom, [Bulk!Next]_Bulk!vars
    PROVE  Bulk!OneSyncPerRoom'
<1>1. CASE Resting
  <2>1. ASSUME NEW c \in Bulk!Callers, NEW r \in Rooms, Bulk!Running(c)', call'[c].current[r] # None
        PROVE  Bulk!Running(c) /\ call[c].current[r] # None
    <3>1. ASSUME NEW t \in Seq(Sources), call'[c] = Bulk!NewCall(t)
          PROVE  FALSE
      BY <2>1, <3>1 DEF Bulk!NewCall
    <3> QED BY <1>1, <2>1, <3>1 DEF Resting
  <2> QED BY <2>1 DEF Bulk!OneSyncPerRoom
<1>2. ASSUME NEW c \in Bulk!Callers, NEW r \in Rooms, Bulk!Work(c, r)
      PROVE  Bulk!OneSyncPerRoom'
  <2>1. /\ Bulk!Running(c) /\ Advances(call[c], call'[c], c, r)
        /\ \A d \in Bulk!Callers \ {c} : call'[d] = call[d]
        /\ call[c] \in Bulk!CallType
    BY <1>2, WorkAdvances DEF Bulk!TypeOK, Bulk!Running
  <2>2. ASSUME NEW d \in Bulk!Callers, NEW q \in Rooms, Bulk!Running(d)', call'[d].current[q] # None
        PROVE  Bulk!Running(d) /\ (call[d].current[q] # None \/ (d = c /\ q = r))
    <3>1. CASE d = c
      <4>1. /\ call[c].current \in [Rooms -> Sources \cup {None}]
            /\ \/ call'[c].current = call[c].current
               \/ \E x : call'[c].current = [call[c].current EXCEPT ![r] = x]
        BY <2>1, CallParts DEF Advances
      <4>2. q # r => call'[c].current[q] = call[c].current[q]
        BY <4>1
      <4> QED BY <2>1, <2>2, <3>1, <4>2
    <3>2. CASE d # c
      BY <2>1, <2>2, <3>2 DEF Bulk!Running
    <3> QED BY <3>1, <3>2
  <2>3. ASSUME NEW d \in Bulk!Callers \ {c}, Bulk!Running(d), call[d].current[r] # None,
               call[c].current[r] = None, call'[c].current[r] # None
        PROVE  FALSE
    <3>1. PICK s \in Sources : RoomOf[s] = r /\ ~Bulk!Refused(c, s)
      <4>1. /\ call[c].current \in [Rooms -> Sources \cup {None}]
            /\ \/ call'[c].current = call[c].current
               \/ call'[c].current = [call[c].current EXCEPT ![r] = None]
               \/ \E s \in Sources : RoomOf[s] = r /\ ~Bulk!Refused(c, s)
        BY <2>1, CallParts DEF Advances
      <4> QED BY <2>3, <4>1
    <3>2. RoomOf[call[d].current[r]] = r
      BY <2>3 DEF Bulk!TypeOK, Bulk!CallOK, Bulk!RoomOK
    <3>3. call[d].current[r] \in Bulk!Held
      BY <2>3 DEF Bulk!Held, Bulk!HeldBy
    <3> QED BY <3>1, <3>2, <3>3 DEF Bulk!Refused
  <2>4. ASSUME NEW a \in Bulk!Callers, NEW b \in Bulk!Callers, NEW q \in Rooms, a # b,
               Bulk!Running(a)', Bulk!Running(b)', call'[a].current[q] # None, call'[b].current[q] # None
        PROVE  FALSE
    <3>1. call[a].current[q] # None \/ (a = c /\ q = r)
      BY <2>2, <2>4
    <3>2. call[b].current[q] # None \/ (b = c /\ q = r)
      BY <2>2, <2>4
    <3>3. Bulk!Running(a) /\ Bulk!Running(b)
      BY <2>2, <2>4
    <3>4. call[a].current[q] = None \/ call[b].current[q] = None
      BY <2>4, <3>3 DEF Bulk!OneSyncPerRoom
    <3> QED BY <2>3, <2>4, <3>1, <3>2, <3>3, <3>4
  <2> QED BY <2>4 DEF Bulk!OneSyncPerRoom
<1> QED BY <1>1, <1>2, WorkOrRest

(* The scheduler's syncs and a user's never work on one room together: what *)
(* MutualExclusion of CalendarSync is for jobs is kept by calls of many.    *)
THEOREM RoomsSyncedOneByOne ==
    ASSUME Bulk!Assumptions
    PROVE  Bulk!Spec => []Bulk!OneSyncPerRoom
<1>1. Bulk!Init => Bulk!OneSyncPerRoom
  BY DEF Bulk!Init, Bulk!OneSyncPerRoom, Bulk!Running
<1>2. Bulk!TypeOK /\ Bulk!OneSyncPerRoom /\ [Bulk!Next]_Bulk!vars => Bulk!OneSyncPerRoom'
  BY OneSyncStep
<1> QED BY <1>1, <1>2, BulkTypeCorrect, PTL DEF Bulk!Spec

(* A room stays in turn when a room that is waiting is begun in turn, or    *)
(* one that is open is done.                                                *)
Begins(k, new, r) ==
    \E label \in {"open", "done"} :
        /\ new.targets = k.targets /\ new.at = [k.at EXCEPT ![r] = label]
        /\ \/ k.at[r] = "waiting" /\ Bulk!InTurn(k, r)
           \/ k.at[r] = "open" /\ label = "done"

LEMMA TurnsStay ==
    ASSUME NEW k \in Bulk!CallType, NEW new, NEW r \in Rooms, Begins(k, new, r),
           NEW q \in Rooms, k.at[q] # "waiting" => Bulk!InTurn(k, q), new.at[q] # "waiting"
    PROVE  Bulk!InTurn(new, q)
<1>0. PICK label \in {"open", "done"} :
        /\ new.targets = k.targets /\ new.at = [k.at EXCEPT ![r] = label]
        /\ \/ k.at[r] = "waiting" /\ Bulk!InTurn(k, r)
           \/ k.at[r] = "open" /\ label = "done"
  BY DEF Begins
<1>1. Bulk!InTurn(k, q)
  BY <1>0, CallParts
<1>2. ASSUME NEW p \in Bulk!RoomsBefore(k.targets, q)
      PROVE  IF Bulk!BatchOf(k.targets, p) < Bulk!BatchOf(k.targets, q)
               THEN new.at[p] = "done" ELSE new.at[p] # "waiting"
  <2>1. p \in Rooms
    BY DEF Bulk!RoomsBefore
  <2>2. CASE p # r
    <3>1. new.at[p] = k.at[p]
      BY <1>0, <2>1, <2>2, CallParts
    <3> QED BY <1>1, <3>1 DEF Bulk!InTurn
  <2>3. CASE p = r
    <3>1. k.at[r] # "waiting"
      BY <1>1, <2>3 DEF Bulk!InTurn
    <3>2. new.at[p] = "done"
      BY <1>0, <2>3, <3>1, CallParts
    <3> QED BY <3>2
  <2> QED BY <2>2, <2>3
<1> QED BY <1>0, <1>2 DEF Bulk!InTurn

(* Rooms are begun in turn and stay so.                                     *)
LEMMA BatchesStep ==
    ASSUME Bulk!Assumptions, Bulk!TypeOK, Bulk!BatchesInOrder, [Bulk!Next]_Bulk!vars
    PROVE  Bulk!BatchesInOrder'
<1> DEFINE Ordered(k) == \A s \in Bulk!Range(k.targets) :
                           k.at[RoomOf[s]] # "waiting" => Bulk!InTurn(k, RoomOf[s])
<1>1. \A c \in Bulk!Callers : Bulk!Running(c) => Ordered(call[c])
  BY DEF Bulk!BatchesInOrder
<1>2. CASE Resting
  <2>1. ASSUME NEW t \in Seq(Sources)
        PROVE  Ordered(Bulk!NewCall(t))
    BY TargetsAreSources DEF Bulk!NewCall
  <2>2. ASSUME NEW c \in Bulk!Callers, Bulk!Running(c), call'[c].targets = call[c].targets,
               call'[c].at = call[c].at
        PROVE  Ordered(call'[c])
    BY <1>1, <2>2 DEF Bulk!InTurn
  <2>3. ASSUME NEW c \in Bulk!Callers, Bulk!Running(c)'
        PROVE  Ordered(call'[c])
    BY <1>2, <2>1, <2>2, <2>3 DEF Resting
  <2> QED BY <2>3 DEF Bulk!BatchesInOrder
<1>3. ASSUME NEW c \in Bulk!Callers, NEW r \in Rooms, Bulk!Work(c, r)
      PROVE  Bulk!BatchesInOrder'
  <2>1. /\ Bulk!Running(c) /\ Advances(call[c], call'[c], c, r)
        /\ \A d \in Bulk!Callers \ {c} : call'[d] = call[d]
        /\ call[c] \in Bulk!CallType
    BY <1>3, WorkAdvances DEF Bulk!TypeOK, Bulk!Running
  <2>2. Ordered(call'[c])
    <3>1. CASE call'[c].at = call[c].at
      BY <1>1, <2>1, <3>1 DEF Advances, Bulk!InTurn
    <3>2. ASSUME NEW label \in {"open", "done"},
                 Bulk!MayStart(c, r) \/ (call[c].at[r] = "open" /\ label = "done"),
                 call'[c].at = [call[c].at EXCEPT ![r] = label]
          PROVE  Ordered(call'[c])
      <4> SUFFICES ASSUME NEW s \in Bulk!Range(call[c].targets), call'[c].at[RoomOf[s]] # "waiting"
                   PROVE  Bulk!InTurn(call'[c], RoomOf[s])
        BY <2>1 DEF Advances
      <4>1. /\ RoomOf[s] \in Rooms
            /\ call[c].at[RoomOf[s]] # "waiting" => Bulk!InTurn(call[c], RoomOf[s])
        BY <1>1, <2>1, CallParts, TargetsAreSources
      <4>2. call'[c].targets = call[c].targets
        BY <2>1 DEF Advances
      <4>3. \/ call[c].at[r] = "waiting" /\ Bulk!InTurn(call[c], r)
            \/ call[c].at[r] = "open" /\ label = "done"
        BY <3>2 DEF Bulk!MayStart
      <4>4. PICK k, new, q : k = call[c] /\ new = call'[c] /\ q = RoomOf[s]
        OBVIOUS
      <4>5. k \in Bulk!CallType /\ new.targets = k.targets /\ new.at = [k.at EXCEPT ![r] = label]
        BY <2>1, <3>2, <4>2, <4>4
      <4>6. Begins(k, new, r)
        BY <4>3, <4>4, <4>5 DEF Begins
      <4>7. q \in Rooms /\ (k.at[q] # "waiting" => Bulk!InTurn(k, q)) /\ new.at[q] # "waiting"
        BY <4>1, <4>4
      <4>8. Bulk!InTurn(new, q)
        BY <4>5, <4>6, <4>7, TurnsStay
      <4> QED BY <4>4, <4>8
    <3> QED BY <2>1, <3>1, <3>2 DEF Advances
  <2>3. ASSUME NEW d \in Bulk!Callers, Bulk!Running(d)'
        PROVE  Ordered(call'[d])
    BY <1>1, <2>1, <2>2, <2>3 DEF Bulk!Running
  <2> QED BY <2>3 DEF Bulk!BatchesInOrder
<1> QED BY <1>2, <1>3, WorkOrRest

(* mapWithConcurrency over each batch, one batch after the other: no room   *)
(* is begun before its turn, however many workers, batches and rooms.       *)
THEOREM BatchesAreOrdered ==
    ASSUME Bulk!Assumptions
    PROVE  Bulk!Spec => []Bulk!BatchesInOrder
<1>1. Bulk!Init => Bulk!BatchesInOrder
  BY DEF Bulk!Init, Bulk!BatchesInOrder, Bulk!Running
<1>2. Bulk!TypeOK /\ Bulk!BatchesInOrder /\ [Bulk!Next]_Bulk!vars => Bulk!BatchesInOrder'
  BY BatchesStep
<1> QED BY <1>1, <1>2, BulkTypeCorrect, PTL DEF Bulk!Spec
=============================================================================
