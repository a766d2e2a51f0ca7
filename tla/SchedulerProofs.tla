-------------------------- MODULE SchedulerProofs ---------------------------
(***************************************************************************)
(* Proofs about Scheduler, for every set of projects, tasks and runners    *)
(* and every bound.                                                        *)
(***************************************************************************)
EXTENDS Scheduler, SequenceTheorems, TLAPS

USE DEF Status, task_new, task_running, task_done, task_aborted, Reported

(***************************************************************************)
(* Lemmas about the operations of the task list.                           *)
(***************************************************************************)
(* What is left of a sequence without one of its elements are elements of  *)
(* the sequence, in order.                                                 *)
LEMMA RemoveAtProperties ==
    ASSUME NEW S, NEW s \in Seq(S), NEW i \in DOMAIN s
    PROVE  /\ RemoveAt(s, i) \in Seq(S)
           /\ Len(RemoveAt(s, i)) = Len(s) - 1
           /\ \A k \in 1 .. Len(s) - 1 :
                RemoveAt(s, i)[k] = IF k < i THEN s[k] ELSE s[k + 1]
<1>1. i \in 1 .. Len(s) /\ Len(s) \in Nat
  OBVIOUS
<1> DEFINE a == SubSeq(s, 1, i - 1)  b == SubSeq(s, i + 1, Len(s))
<1>2. a \in Seq(S) /\ Len(a) = i - 1 /\ \A k \in 1 .. i - 1 : a[k] = s[k]
  BY <1>1, SubSeqProperties
<1>3. b \in Seq(S) /\ Len(b) = Len(s) - i
        /\ \A k \in 1 .. Len(s) - i : b[k] = s[i + k]
  BY <1>1, SubSeqProperties
<1>4. RemoveAt(s, i) = a \o b
  BY DEF RemoveAt
<1> HIDE DEF a, b
<1>5. /\ a \o b \in Seq(S)
      /\ Len(a \o b) = Len(a) + Len(b)
      /\ \A k \in 1 .. Len(a) + Len(b) :
           (a \o b)[k] = IF k <= Len(a) THEN a[k] ELSE b[k - Len(a)]
  BY <1>2, <1>3, ConcatProperties
<1>6. Len(a) + Len(b) = Len(s) - 1
  BY <1>1, <1>2, <1>3
<1>7. ASSUME NEW k \in 1 .. Len(s) - 1
      PROVE  (a \o b)[k] = IF k < i THEN s[k] ELSE s[k + 1]
  <2>1. CASE k < i
    BY <1>1, <1>2, <1>5, <1>6, <2>1
  <2>2. CASE ~(k < i)
    <3>1. (a \o b)[k] = b[k - (i - 1)]
      <4>1. k \in 1 .. Len(a) + Len(b)
        BY <1>6
      <4>2. Len(a) = i - 1 /\ ~(k <= i - 1)
        BY <1>1, <1>2, <2>2
      <4> QED
        BY <1>5, <4>1, <4>2, ZenonT(30)
    <3>2. k - (i - 1) \in 1 .. Len(s) - i /\ i + (k - (i - 1)) = k + 1
      BY <1>1, <2>2
    <3> QED
      BY <1>3, <2>2, <3>1, <3>2
  <2> QED
    BY <2>1, <2>2
<1> QED
  BY <1>4, <1>5, <1>6, <1>7

LEMMA RemoveAtElements ==
    ASSUME NEW S, NEW s \in Seq(S), NEW i \in DOMAIN s
    PROVE  \A k \in DOMAIN RemoveAt(s, i) :
             \E l \in DOMAIN s : RemoveAt(s, i)[k] = s[l]
<1> DEFINE rest == RemoveAt(s, i)
<1>1. /\ rest \in Seq(S) /\ Len(rest) = Len(s) - 1
      /\ \A k \in 1 .. Len(s) - 1 : rest[k] = IF k < i THEN s[k] ELSE s[k + 1]
  BY RemoveAtProperties
<1> HIDE DEF rest
<1>2. Len(s) \in Nat /\ DOMAIN s = 1 .. Len(s)
  OBVIOUS
<1>3. DOMAIN rest = 1 .. Len(s) - 1
  BY <1>1
<1>4. ASSUME NEW k \in 1 .. Len(s) - 1
      PROVE  k \in DOMAIN s /\ k + 1 \in DOMAIN s
  BY <1>2
<1> QED
  BY <1>1, <1>3, <1>4 DEF rest

(* Adding keeps the types.                                                 *)
LEMMA NewTaskType ==
    ASSUME NEW i \in Nat, NEW w \in Work
    PROVE  NewTask(i, w) \in QueuedTask /\ NewRow(w) \in Row
BY DEF NewTask, QueuedTask, NewRow, Row

LEMMA AddType ==
    ASSUME TaskListType, NEW w \in Work, Add(w) \/ AddUnsaved(w)
    PROVE  TaskListType'
<1> USE DEF TaskListType
<1>1. CASE Add(w)
  <2>1. NewTask(Len(db) + 1, w) \in QueuedTask /\ NewRow(w) \in Row
    BY NewTaskType
  <2>2. CASE IsQueued(w)
    BY <1>1, <2>2 DEF Add
  <2>3. CASE ~IsQueued(w)
    <3>1. db' = Append(db, NewRow(w)) /\ tasklist' = Append(tasklist, NewTask(Len(db) + 1, w))
      BY <1>1, <2>3 DEF Add
    <3> QED
      BY <2>1, <3>1
  <2> QED
    BY <2>2, <2>3
<1>2. CASE AddUnsaved(w)
  <2>1. PICK i \in 0 .. Len(db) + 1 : tasklist' = Append(tasklist, NewTask(i, w))
    BY <1>2 DEF AddUnsaved
  <2>2. NewTask(i, w) \in QueuedTask
    BY NewTaskType
  <2> QED
    BY <1>2, <2>1, <2>2 DEF AddUnsaved
<1> QED
  BY <1>1, <1>2

LEMMA GetType ==
    ASSUME TaskListType, NEW i \in DOMAIN tasklist, Get(i)
    PROVE  TaskListType'
BY RemoveAtProperties DEF Get, TaskListType

LEMMA UpdateType ==
    ASSUME TaskListType, NEW i \in Nat, NEW s \in Status, UpdateTaskStatus(i, s)
    PROVE  TaskListType'
<1>1. \A row \in Row : [row EXCEPT !.status = s] \in Row
  BY DEF Row
<1>2. CASE i \in DOMAIN db
  <2>1. db' = [db EXCEPT ![i] = [db[i] EXCEPT !.status = s]]
    BY <1>2 DEF UpdateTaskStatus
  <2> QED
    BY <1>1, <1>2, <2>1 DEF TaskListType, UpdateTaskStatus
<1>3. CASE i \notin DOMAIN db
  BY <1>3 DEF TaskListType, UpdateTaskStatus
<1> QED
  BY <1>2, <1>3

(* A restored task carries the id and the work of a row that is new, and   *)
(* they come in the order of the ids, even when the SELECT fails half way. *)
LEMMA RestoreProperties ==
    ASSUME TaskListType, Restore \/ RestorePartly
    PROVE  /\ TaskListType'
           /\ db' = db
           /\ \A k \in DOMAIN tasklist' :
                \E i \in NewIds : tasklist'[k] = RestoredTask(i)
           /\ \A j, k \in DOMAIN tasklist' : j < k => tasklist'[j].id < tasklist'[k].id
<1>1. \E ids : \E n \in 0 .. Len(ids) :
         IsSelection(ids) /\ tasklist' = [k \in 1 .. n |-> RestoredTask(ids[k])]
  <2>1. CASE Restore
    <3>1. PICK ids : /\ IsSelection(ids)
                     /\ tasklist' = [k \in DOMAIN ids |-> RestoredTask(ids[k])]
      BY <2>1 DEF Restore
    <3>2. DOMAIN ids = 1 .. Len(ids) /\ Len(ids) \in 0 .. Len(ids)
      BY <3>1 DEF IsSelection
    <3> QED
      BY <3>1, <3>2
  <2>2. CASE RestorePartly
    <3>1. PICK ids : \E n \in 0 .. Len(ids) - 1 :
             /\ IsSelection(ids)
             /\ tasklist' = [k \in 1 .. n |-> RestoredTask(ids[k])]
      BY <2>2 DEF RestorePartly
    <3>2. Len(ids) \in Nat
      BY <3>1 DEF IsSelection
    <3> QED
      BY <3>1, <3>2
  <2> QED
    BY <2>1, <2>2
<1>2. PICK ids : \E n \in 0 .. Len(ids) :
         IsSelection(ids) /\ tasklist' = [k \in 1 .. n |-> RestoredTask(ids[k])]
  BY <1>1
<1>3. PICK n \in 0 .. Len(ids) :
         IsSelection(ids) /\ tasklist' = [k \in 1 .. n |-> RestoredTask(ids[k])]
  BY <1>2
<1>4. ids \in Seq(NewIds) /\ DOMAIN ids = 1 .. Len(ids) /\ Len(ids) \in Nat
  BY <1>3 DEF IsSelection
<1>5. ASSUME NEW i \in NewIds
      PROVE  i \in Nat /\ RestoredTask(i) \in QueuedTask
  <2>1. i \in Nat /\ db[i] \in Row
    BY DEF NewIds, TaskListType
  <2> QED
    BY <2>1 DEF RestoredTask, QueuedTask, Row
<1>6. n \in Nat /\ \A k \in 1 .. n : k \in DOMAIN ids /\ ids[k] \in NewIds
  BY <1>3, <1>4
<1>7. tasklist' \in Seq(QueuedTask) /\ DOMAIN tasklist' = 1 .. n
  BY <1>3, <1>5, <1>6
<1>8. \A k \in DOMAIN tasklist' : tasklist'[k] = RestoredTask(ids[k])
  BY <1>3, <1>7
<1>9. \A j, k \in DOMAIN tasklist' : j < k => tasklist'[j].id < tasklist'[k].id
  BY <1>3, <1>6, <1>7, <1>8 DEF IsSelection, RestoredTask
<1>10. db' = db
  BY DEF Restore, RestorePartly
<1> QED
  BY <1>6, <1>7, <1>8, <1>9, <1>10 DEF TaskListType

LEMMA ReinstallType ==
    ASSUME Reinstall
    PROVE  TaskListType'
BY DEF Reinstall, TaskListType
-----------------------------------------------------------------------------
(***************************************************************************)
(* Type correctness.  It needs to know what a handler that is half way     *)
(* through a successful result holds.                                      *)
(***************************************************************************)
Phase == main = "report" => adding \in Work /\ owed \in Runner

TypeInv == TypeOK /\ Phase

LEMMA NoneIsNothing ==
    None \notin Runner /\ None \notin Query /\ None \notin Job /\ None \notin Work
BY SchedulerAssumption, TasksAssumption

(* A configuration is made of projects. *)
LEMMA ConfsType == Confs \subseteq SUBSET Project
<1> SUFFICES ASSUME NEW file \in ConfFiles PROVE Configured(file) \subseteq Project
  BY DEF Confs
<1>1. \A i \in DOMAIN file : file[i] \in Entry
  BY ConfAssumption
<1> QED
  BY <1>1 DEF Configured, Complete, Entry

LEMMA ReplyType ==
    ASSUME TypeOK, NEW r \in Runner, NEW j \in Job \cup {None}, Reply(r, j)
    PROVE  /\ query' \in [Runner -> Query \cup {None}]
           /\ job' \in [Runner -> Job \cup {None}]
           /\ \A x \in Runner : query'[x] \in Query \ {"get_task"} => job'[x] # None
           /\ losses' \in Nat
<1> USE DEF TypeOK, Reply
<1>1. /\ query' \in [Runner -> Query \cup {None}]
      /\ job' \in [Runner -> Job \cup {None}]
      /\ losses' \in Nat
  OBVIOUS
<1>2. ASSUME NEW x \in Runner, query'[x] \in Query \ {"get_task"}
      PROVE  job'[x] # None
  <2>1. x # r
    BY <1>2, NoneIsNothing
  <2> QED
    BY <1>2, <2>1
<1> QED
  BY <1>1, <1>2

LEMMA FailType ==
    ASSUME TypeOK, NEW kind \in FaultKind, Fail(kind)
    PROVE  failed' \in [FaultKind -> Nat]
BY DEF TypeOK, Fail

LEMMA AddTaskType ==
    ASSUME TypeOK, NEW w \in Work, AddTask(w)
    PROVE  TaskListType' /\ failed' \in [FaultKind -> Nat]
<1>1. "insert" \in FaultKind
  BY DEF FaultKind
<1> QED
  BY <1>1, AddType, FailType DEF TypeOK, AddTask

LEMMA UpdateStatusType ==
    ASSUME TypeOK, NEW i \in Nat, NEW s \in Status, UpdateStatus(i, s)
    PROVE  TaskListType' /\ failed' \in [FaultKind -> Nat]
<1>1. CASE UpdateTaskStatus(i, s) /\ UNCHANGED failed
  BY <1>1, UpdateType DEF TypeOK
<1>2. CASE UNCHANGED <<tasklist, db>> /\ Fail("update")
  BY <1>2, FailType DEF TypeOK, TaskListType, FaultKind
<1> QED
  BY <1>1, <1>2 DEF UpdateStatus

(* The job of a runner whose result is awaited. *)
LEMMA ResultJob ==
    ASSUME TypeOK, NEW r \in Runner, NEW q \in Query \ {"get_task"},
           query[r] = q
    PROVE  job[r] \in Job /\ job[r].id \in Nat /\ job[r].work \in Work
BY DEF TypeOK, Job

LEMMA NextTaskType ==
    ASSUME NEW w \in Work
    PROVE  /\ NextTask(w) \in Work /\ NextTask(w).index > 0
           /\ NextTask(w).index = w.index + 1
BY DEF NextTask, Work

LEMMA FirstTaskType ==
    ASSUME TypeOK, NEW p \in Project, repo[p] # upstream[p]
    PROVE  FirstTask(p) \in Work /\ FirstTask(p).index = 0
BY DEF TypeOK, FirstTask, Work, Ref

LEMMA TypeInit == Init => TypeInv
<1> SUFFICES ASSUME Init PROVE TypeInv
  OBVIOUS
<1>1. TaskListType
  BY DEF Init, InitTaskList, TaskListType
<1>2. \A r \in Runner : query[r] \notin Query \ {"get_task"}
  BY NoneIsNothing DEF Init
<1>3. publish \in BOOLEAN
  BY Zenon DEF Init
<1>4. /\ main = "down" /\ conf \in Confs /\ todo = {} /\ adding = None
      /\ owed = None /\ quiet = {} /\ handed = {} /\ succeeded = {}
      /\ starts = 0 /\ losses = 0 /\ failed \in [FaultKind -> Nat]
  BY DEF Init
<1>5. /\ upstream \in [Project -> Nat] /\ repo \in [Project -> Nat]
      /\ \A p \in Project : repo[p] <= upstream[p]
      /\ query \in [Runner -> Query \cup {None}]
      /\ job \in [Runner -> Job \cup {None}]
  BY DEF Init
<1>6. TypeOK
  BY <1>1, <1>2, <1>3, <1>4, <1>5 DEF TypeOK
<1> QED
  BY <1>4, <1>6 DEF TypeInv, Phase

LEMMA TypeStep == TypeInv /\ [Next]_vars => TypeInv'
<1> SUFFICES ASSUME TypeInv, [Next]_vars
             PROVE  TypeInv'
  OBVIOUS
<1> USE DEF TypeInv, coreVars, history
<1>1. ASSUME NEW p \in Project, Push(p)
      PROVE  TypeInv'
  <2>1. /\ upstream' = [upstream EXCEPT ![p] = @ + 1] /\ upstream[p] \in Nat
        /\ UNCHANGED <<tasklist, db, main, conf, todo, adding, owed, publish, repo,
                       query, job, quiet, handed, succeeded, starts, losses, failed>>
    BY <1>1 DEF Push, TypeOK
  <2>2. upstream' \in [Project -> Nat] /\ \A x \in Project : repo[x] <= upstream'[x]
    BY <2>1 DEF TypeOK
  <2> QED
    BY <2>1, <2>2 DEF TypeOK, TaskListType, Phase
<1>2. ASSUME NEW r \in Runner, AskTask(r)
      PROVE  TypeInv'
  BY <1>2, NoneIsNothing DEF AskTask, Ask, TypeOK, TaskListType, Phase, Query
<1>3. ASSUME NEW r \in Runner, SendResult(r)
      PROVE  TypeInv'
  BY <1>3 DEF SendResult, Ask, TypeOK, TaskListType, Phase, Query
<1>4. ASSUME NEW r \in Runner, LoseQuery(r)
      PROVE  TypeInv'
  BY <1>4, NoneIsNothing DEF LoseQuery, TypeOK, TaskListType, Phase
<1>5. ASSUME NEW r \in Runner, RunnerLost(r)
      PROVE  TypeInv'
  BY <1>5, NoneIsNothing DEF RunnerLost, TypeOK, TaskListType, Phase
<1>6. CASE Start
  <2>1. TaskListType'
    <3>1. TaskListType /\ (Restore \/ RestorePartly \/ Reinstall)
      BY <1>6 DEF Start, TypeOK
    <3> QED
      BY <3>1, RestoreProperties, ReinstallType
  <2>2. failed' \in [FaultKind -> Nat]
    BY <1>6, FailType DEF Start, TypeOK, FaultKind
  <2> QED
    BY <1>6, <2>1, <2>2 DEF Start, TypeOK, Phase
<1>7. ASSUME Die
      PROVE  TypeInv'
  <2>1. publish' \in BOOLEAN
    BY <1>7, Zenon DEF Die, Stop
  <2>2. /\ TaskListType' /\ main' = "down" /\ todo' = {} /\ adding' = None
        /\ owed' = None
    BY <1>7 DEF Die, Stop, TypeOK, TaskListType
  <2>3. UNCHANGED <<conf, upstream, repo, query, job, quiet, handed, succeeded,
                    starts, losses, failed>>
    BY <1>7 DEF Die, Stop
  <2> QED
    BY <2>1, <2>2, <2>3 DEF TypeOK, Phase
<1>8. CASE Crash
  BY <1>7, <1>8 DEF Crash
<1>9. CASE StartCheck
  BY <1>9, ConfsType DEF StartCheck, TypeOK, TaskListType, Phase
<1>10. ASSUME NEW p \in Project, FetchProject(p)
       PROVE  TypeInv'
  <2>1. adding' \in Work \cup {None}
    BY <1>10, FirstTaskType DEF FetchProject, TypeOK
  <2>2. repo' \in [Project -> Nat] /\ \A x \in Project : repo'[x] <= upstream'[x]
    <3>1. repo' = repo \/ repo' = [repo EXCEPT ![p] = upstream[p]]
      BY <1>10 DEF FetchProject
    <3>2. upstream' = upstream
      BY <1>10 DEF FetchProject
    <3> QED
      BY <3>1, <3>2 DEF TypeOK
  <2>3. failed' \in [FaultKind -> Nat]
    BY <1>10, FailType DEF FetchProject, TypeOK, FaultKind
  <2> QED
    BY <1>10, <2>1, <2>2, <2>3 DEF FetchProject, TypeOK, TaskListType, Phase
<1>11. CASE AddFound
  <2>1. TaskListType' /\ failed' \in [FaultKind -> Nat]
    BY <1>11, AddTaskType DEF AddFound, TypeOK
  <2> QED
    BY <1>11, <2>1 DEF AddFound, TypeOK, Phase
<1>12. CASE EndCheck
  BY <1>12 DEF EndCheck, TypeOK, TaskListType, Phase
<1>13. ASSUME NEW r \in Runner, RefuseTask(r)
       PROVE  TypeInv'
  <2>1. Reply(r, None)
    BY <1>13 DEF RefuseTask
  <2> QED
    BY <1>13, <2>1, ReplyType DEF RefuseTask, TypeOK, TaskListType, Phase
<1>14. ASSUME NEW r \in Runner, NEW i \in DOMAIN tasklist, HandOut(r, i)
       PROVE  TypeInv'
  <2>1. tasklist[i] \in QueuedTask
    BY DEF TypeOK, TaskListType
  <2>2. tasklist[i].id \in Nat /\ [id |-> tasklist[i].id, work |-> tasklist[i].work] \in Job
    BY <2>1 DEF QueuedTask, Job
  <2>3. TaskListType'
    BY <1>14, GetType DEF HandOut, TypeOK
  <2> QED
    BY <1>14, <2>2, <2>3, ReplyType DEF HandOut, TypeOK, Phase
<1>15. ASSUME NEW r \in Runner, NEW i \in DOMAIN tasklist, HandOutOrphan(r, i)
       PROVE  TypeInv'
  BY <1>7, <1>15 DEF HandOutOrphan
<1>16. ASSUME NEW r \in Runner, Abort(r)
       PROVE  TypeInv'
  <2>1. job[r].id \in Nat
    BY <1>16, ResultJob DEF Abort, Result, Receives, Query
  <2>2. TaskListType' /\ failed' \in [FaultKind -> Nat]
    BY <1>16, <2>1, UpdateStatusType DEF Abort
  <2>3. Reply(r, None)
    BY <1>16 DEF Abort
  <2> QED
    BY <1>16, <2>2, <2>3, ReplyType DEF Abort, TypeOK, Phase
<1>17. ASSUME NEW r \in Runner, Succeed(r)
       PROVE  TypeInv'
  <2>1. job[r].id \in Nat /\ job[r].work \in Work
    BY <1>17, ResultJob DEF Succeed, Result, Receives, Query
  <2>2. TaskListType' /\ failed' \in [FaultKind -> Nat]
    BY <1>17, <2>1, UpdateStatusType DEF Succeed
  <2>3. succeeded' \subseteq Nat
    BY <1>17, <2>1 DEF Succeed, TypeOK
  <2>4. CASE HasNext(job[r].work)
    BY <1>17, <2>1, <2>2, <2>3, <2>4, NextTaskType DEF Succeed, TypeOK, Phase
  <2>5. CASE ~HasNext(job[r].work)
    <3>1. Reply(r, None) /\ UNCHANGED <<main, adding, owed>>
      BY <1>17, <2>5 DEF Succeed
    <3> QED
      BY <1>17, <2>2, <2>3, <3>1, ReplyType DEF Succeed, TypeOK, Phase
  <2> QED
    BY <2>4, <2>5
<1>18. CASE AddNext
  <2>1. adding \in Work /\ owed \in Runner
    BY <1>18 DEF AddNext, Phase
  <2>2. TaskListType' /\ failed' \in [FaultKind -> Nat]
    BY <1>18, <2>1, AddTaskType DEF AddNext
  <2>3. Reply(owed, None)
    BY <1>18 DEF AddNext
  <2> QED
    BY <1>18, <2>1, <2>2, <2>3, ReplyType DEF AddNext, TypeOK, Phase
<1>19. ASSUME NEW r \in Runner, IgnoreResult(r)
       PROVE  TypeInv'
  BY <1>19 DEF IgnoreResult, Receives, TypeOK, TaskListType, Phase
<1>20. CASE UNCHANGED vars
  BY <1>20 DEF vars, TypeOK, TaskListType, Phase
<1>21. ASSUME NEW p \in Project, FetchForNothing(p)
       PROVE  TypeInv'
  <2>1. /\ publish' = FALSE /\ TaskListType' /\ main' = "down" /\ todo' = {}
        /\ adding' = None /\ owed' = None
        /\ UNCHANGED <<conf, upstream, query, job, quiet, handed, succeeded,
                       starts, losses, failed>>
    BY <1>21 DEF FetchForNothing, Stop, TypeOK, TaskListType
  <2>2. publish' \in BOOLEAN
    BY <2>1, Zenon
  <2>3. repo' \in [Project -> Nat] /\ \A x \in Project : repo'[x] <= upstream'[x]
    BY <1>21 DEF FetchForNothing, TypeOK
  <2> QED
    BY <2>1, <2>2, <2>3 DEF TypeOK, Phase
<1> QED
  BY <1>1, <1>2, <1>3, <1>4, <1>5, <1>6, <1>8, <1>9, <1>10, <1>11, <1>12,
     <1>13, <1>14, <1>15, <1>16, <1>17, <1>18, <1>19, <1>20, <1>21
     DEF Next, RunnerStep, Serve, CheckStep

(* The variables keep their types; in particular the clone of a project is *)
(* never ahead of its upstream, and a result is only ever sent for a task. *)
THEOREM TypeCorrect == Spec => []TypeOK
<1>1. TypeInv => TypeOK
  BY DEF TypeInv
<1> QED
  BY <1>1, TypeInit, TypeStep, PTL DEF Spec
-----------------------------------------------------------------------------
(***************************************************************************)
(* Safety as long as the record is intact.  The inductive invariant adds,  *)
(* to the properties, where the task about to be added comes from.         *)
(***************************************************************************)
Justified ==
    adding # None =>
      \/ adding.index = 0
      \/ \E k \in succeeded : NextTask(db[k].work) = adding

Inv ==
    /\ TypeInv
    /\ Intact
    /\ Backed
    /\ succeeded \subseteq DOMAIN db
    /\ Justified
    /\ PipelineOrder

LEMMA InvInit == Init => Inv
<1> SUFFICES ASSUME Init PROVE Inv
  OBVIOUS
<1>1. tasklist = <<>> /\ db = <<>> /\ adding = None /\ succeeded = {}
  BY DEF Init, InitTaskList
<1>2. \A r \in Runner : job[r] = None
  BY DEF Init
<1>3. Intact
  BY DEF Init, Intact, FaultKind
<1> QED
  BY <1>1, <1>2, <1>3, TypeInit DEF Inv, Backed, Justified, PipelineOrder

(***************************************************************************)
(* Failures are only ever counted, so that what was not yet so is not so.  *)
(***************************************************************************)
LEMMA StepFails ==
    ASSUME TypeOK, [Next]_vars
    PROVE  failed' = failed \/ \E kind \in FaultKind : Fail(kind)
<1> USE DEF coreVars, history
<1>1. CASE UNCHANGED failed
  BY <1>1
<1>2. CASE Start
  BY <1>2 DEF Start, FaultKind
<1>3. ASSUME NEW p \in Project, FetchProject(p)
      PROVE  failed' = failed \/ \E kind \in FaultKind : Fail(kind)
  BY <1>3 DEF FetchProject, FaultKind
<1>4. ASSUME NEW w, AddTask(w)
      PROVE  failed' = failed \/ \E kind \in FaultKind : Fail(kind)
  BY <1>4 DEF AddTask, FaultKind
<1>5. CASE AddFound \/ AddNext
  BY <1>4, <1>5 DEF AddFound, AddNext
<1>6. ASSUME NEW i, NEW s, UpdateStatus(i, s)
      PROVE  failed' = failed \/ \E kind \in FaultKind : Fail(kind)
  BY <1>6 DEF UpdateStatus, FaultKind
<1>7. ASSUME NEW r \in Runner, Abort(r) \/ Succeed(r)
      PROVE  failed' = failed \/ \E kind \in FaultKind : Fail(kind)
  BY <1>6, <1>7 DEF Abort, Succeed
<1>8. ASSUME NEW p \in Project, Push(p) \/ FetchForNothing(p)
      PROVE  UNCHANGED failed
  BY <1>8 DEF Push, FetchForNothing
<1>9. ASSUME NEW r \in Runner, RunnerStep(r) \/ RefuseTask(r) \/ IgnoreResult(r)
      PROVE  UNCHANGED failed
  BY <1>9 DEF RunnerStep, AskTask, SendResult, Ask, LoseQuery, RunnerLost,
              RefuseTask, IgnoreResult
<1>10. ASSUME NEW r \in Runner, NEW i \in DOMAIN tasklist,
              HandOut(r, i) \/ HandOutOrphan(r, i)
       PROVE  UNCHANGED failed
  BY <1>10 DEF HandOut, HandOutOrphan, Die
<1>11. CASE StartCheck \/ EndCheck \/ Crash \/ UNCHANGED vars
  BY <1>11 DEF StartCheck, EndCheck, Crash, Die, vars
<1> QED
  BY <1>1, <1>2, <1>3, <1>5, <1>7, <1>8, <1>9, <1>10, <1>11
     DEF Next, Serve, CheckStep

LEMMA FailedGrows ==
    ASSUME TypeOK, [Next]_vars, NEW kind \in FaultKind
    PROVE  /\ failed[kind] \in Nat /\ failed'[kind] \in Nat
           /\ failed[kind] <= failed'[kind]
<1>1. failed \in [FaultKind -> Nat]
  BY DEF TypeOK
<1>2. CASE failed' = failed
  BY <1>1, <1>2
<1>3. CASE \E k \in FaultKind : Fail(k)
  BY <1>1, <1>3 DEF Fail
<1> QED
  BY <1>2, <1>3, StepFails

LEMMA IntactBefore ==
    ASSUME TypeOK, [Next]_vars, Intact'
    PROVE  Intact
<1>1. "insert" \in FaultKind /\ "version" \in FaultKind
  BY DEF FaultKind
<1>2. failed["insert"] \in Nat /\ failed["insert"] <= failed'["insert"]
  BY <1>1, FailedGrows
<1>3. failed["version"] \in Nat /\ failed["version"] <= failed'["version"]
  BY <1>1, FailedGrows
<1> QED
  BY <1>2, <1>3 DEF Intact

(* A failure of a kind shows in its count. *)
LEMMA FailShows ==
    ASSUME TypeOK, NEW kind \in FaultKind, Fail(kind)
    PROVE  failed'[kind] # 0 /\ failed'[kind] = failed[kind] + 1
BY DEF TypeOK, Fail

(* A step after which the record is intact has not failed to insert or to  *)
(* read the version.                                                       *)
LEMMA IntactSteps ==
    ASSUME TypeOK, Intact'
    PROVE  /\ \A w : AddTask(w) => Add(w)
           /\ Start => Restore \/ RestorePartly
<1>1. "insert" \in FaultKind /\ "version" \in FaultKind
  BY DEF FaultKind
<1>2. ~Fail("insert") /\ ~Fail("version")
  BY <1>1, FailShows DEF Intact
<1> QED
  BY <1>2 DEF AddTask, Start

(* No step changes what a row is about.                                    *)
WorkKept ==
    /\ DOMAIN db \subseteq DOMAIN db'
    /\ \A i \in DOMAIN db : db'[i].work = db[i].work

LEMMA AddEffect ==
    ASSUME TaskListType, NEW w \in Work, Add(w)
    PROVE  \/ UNCHANGED <<tasklist, db>>
           \/ /\ db' = Append(db, NewRow(w))
              /\ tasklist' = Append(tasklist, NewTask(Len(db) + 1, w))
              /\ WorkKept
              /\ DOMAIN db' = 1 .. Len(db) + 1
              /\ db'[Len(db) + 1] = NewRow(w)
<1>1. CASE IsQueued(w)
  BY <1>1 DEF Add
<1>2. CASE ~IsQueued(w)
  <2>1. /\ db' = Append(db, NewRow(w))
        /\ tasklist' = Append(tasklist, NewTask(Len(db) + 1, w))
    BY <1>2 DEF Add
  <2>2. NewRow(w) \in Row
    BY NewTaskType
  <2>3. db \in Seq(Row)
    BY DEF TaskListType
  <2>4. /\ DOMAIN db' = 1 .. Len(db) + 1
        /\ db'[Len(db) + 1] = NewRow(w)
        /\ \A i \in 1 .. Len(db) : db'[i] = db[i]
    BY <2>1, <2>2, <2>3, AppendProperties
  <2> QED
    BY <2>1, <2>3, <2>4 DEF WorkKept
<1> QED
  BY <1>1, <1>2

LEMMA UpdateEffect ==
    ASSUME TaskListType, NEW i \in Nat, NEW s \in Status, UpdateStatus(i, s)
    PROVE  WorkKept /\ DOMAIN db' = DOMAIN db /\ tasklist' = tasklist
<1>1. DOMAIN db' = DOMAIN db /\ tasklist' = tasklist
  BY DEF UpdateStatus, UpdateTaskStatus
<1>2. ASSUME NEW k \in DOMAIN db
      PROVE  db'[k].work = db[k].work
  <2>1. db[k] \in Row
    BY DEF TaskListType
  <2> QED
    BY <2>1 DEF UpdateStatus, UpdateTaskStatus, Row
<1> QED
  BY <1>1, <1>2 DEF WorkKept

(* What was backed stays backed, and jobs that runners had stay backed.    *)
LEMMA BackedKept ==
    ASSUME WorkKept, NEW t, BackedBy(t)
    PROVE  t.id \in DOMAIN db' /\ db'[t.id].work = t.work
BY DEF WorkKept, BackedBy

LEMMA ReplyJob ==
    ASSUME TypeOK, NEW r \in Runner, NEW j, Reply(r, j), NEW x \in Runner
    PROVE  job'[x] = job[x] \/ job'[x] = j
BY DEF Reply, TypeOK

LEMMA OrderKept ==
    ASSUME Inv, WorkKept, DOMAIN db' = DOMAIN db, succeeded \subseteq succeeded'
    PROVE  PipelineOrder'
<1> SUFFICES ASSUME NEW i \in DOMAIN db, db[i].work.index > 0
             PROVE  \E k \in 1 .. i - 1 :
                      k \in succeeded' /\ NextTask(db'[k].work) = db'[i].work
  BY DEF PipelineOrder, WorkKept
<1>1. PICK k \in 1 .. i - 1 : k \in succeeded /\ NextTask(db[k].work) = db[i].work
  BY DEF Inv, PipelineOrder
<1>2. k \in DOMAIN db
  BY <1>1 DEF Inv
<1> QED
  BY <1>1, <1>2 DEF WorkKept

(* The steps that change neither the list nor the table, nor give a job.   *)
LEMMA Frame ==
    ASSUME Inv, TypeInv', Intact', UNCHANGED <<tasklist, db, succeeded>>, Justified',
           \A r \in Runner : job'[r] = job[r] \/ job'[r] = None
    PROVE  Inv'
<1>1. Backed'
  BY DEF Inv, Backed, BackedBy
<1>2. PipelineOrder'
  BY DEF Inv, PipelineOrder
<1> QED
  BY <1>1, <1>2 DEF Inv

LEMMA JustifiedKept ==
    ASSUME Inv, WorkKept, succeeded \subseteq succeeded', adding' = adding
    PROVE  Justified'
<1>1. CASE adding = None \/ adding.index = 0
  BY <1>1 DEF Justified
<1>2. CASE \E k \in succeeded : NextTask(db[k].work) = adding
  BY <1>2 DEF Justified, Inv, WorkKept
<1> QED
  BY <1>1, <1>2 DEF Inv, Justified

(* Adding the task that is being added.                                    *)
LEMMA AddInv ==
    ASSUME Inv, TypeInv', Intact', Add(adding), adding \in Work, adding' = None,
           succeeded' = succeeded,
           \A r \in Runner : job'[r] = job[r] \/ job'[r] = None
    PROVE  Inv'
<1>1. Justified'
  BY DEF Justified
<1>2. CASE UNCHANGED <<tasklist, db>>
  BY <1>1, <1>2, Frame
<1>3. CASE /\ db' = Append(db, NewRow(adding))
           /\ tasklist' = Append(tasklist, NewTask(Len(db) + 1, adding))
           /\ WorkKept
           /\ DOMAIN db' = 1 .. Len(db) + 1
           /\ db'[Len(db) + 1] = NewRow(adding)
  <2>1. Len(db) \in Nat /\ DOMAIN db = 1 .. Len(db) /\ tasklist \in Seq(QueuedTask)
    BY DEF Inv, TypeInv, TypeOK, TaskListType
  <2>2. NewTask(Len(db) + 1, adding) \in QueuedTask
    BY <2>1, NewTaskType
  <2>3. ASSUME NEW i \in DOMAIN tasklist'
        PROVE  BackedBy(tasklist[i])'
    <3>1. CASE i \in DOMAIN tasklist
      <4>1. tasklist'[i] = tasklist[i] /\ BackedBy(tasklist[i])
        BY <1>3, <2>1, <2>2, <3>1, AppendProperties DEF Inv, Backed
      <4> QED
        BY <1>3, <4>1, BackedKept DEF BackedBy
    <3>2. CASE i \notin DOMAIN tasklist
      <4>1. tasklist'[i] = NewTask(Len(db) + 1, adding)
        BY <1>3, <2>1, <2>2, <3>2, AppendProperties
      <4> QED
        BY <1>3, <2>1, <4>1 DEF BackedBy, NewTask, NewRow
    <3> QED
      BY <3>1, <3>2
  <2>4. ASSUME NEW r \in Runner, job'[r] # None
        PROVE  BackedBy(job[r])'
    <3>1. job'[r] = job[r] /\ BackedBy(job[r])
      BY <2>4 DEF Inv, Backed
    <3> QED
      BY <1>3, <3>1, BackedKept DEF BackedBy
  <2>5. succeeded' \subseteq DOMAIN db'
    BY <1>3, <2>1 DEF Inv
  <2>6. ASSUME NEW i \in DOMAIN db', db'[i].work.index > 0
        PROVE  \E k \in 1 .. i - 1 :
                 k \in succeeded' /\ NextTask(db'[k].work) = db'[i].work
    <3>1. CASE i \in DOMAIN db
      <4>1. db'[i].work = db[i].work
        BY <1>3, <3>1 DEF WorkKept
      <4>2. PICK k \in 1 .. i - 1 : k \in succeeded /\ NextTask(db[k].work) = db[i].work
        BY <2>6, <3>1, <4>1 DEF Inv, PipelineOrder
      <4>3. db'[k].work = db[k].work
        BY <1>3, <4>2 DEF Inv, WorkKept
      <4> QED
        BY <4>1, <4>2, <4>3
    <3>2. CASE i = Len(db) + 1
      <4>1. db'[i].work = adding /\ adding # None
        BY <1>3, <3>2, NoneIsNothing DEF NewRow
      <4>2. PICK k \in succeeded : NextTask(db[k].work) = adding
        BY <2>6, <4>1 DEF Inv, Justified, Work
      <4>3. k \in 1 .. i - 1 /\ db'[k].work = db[k].work
        BY <1>3, <2>1, <3>2, <4>2 DEF Inv, WorkKept
      <4> QED
        BY <4>1, <4>2, <4>3
    <3> QED
      BY <1>3, <2>1, <3>1, <3>2
  <2> QED
    BY <1>1, <2>3, <2>4, <2>5, <2>6 DEF Inv, Backed, PipelineOrder
<1> QED
  BY <1>2, <1>3, AddEffect DEF Inv, TypeInv, TypeOK

(* Recording the result of a job.                                          *)
LEMMA UpdateInv ==
    ASSUME Inv, TypeInv', Intact', NEW i \in Nat, NEW s \in Status, UpdateStatus(i, s),
           succeeded \subseteq succeeded', succeeded' \subseteq DOMAIN db, Justified',
           \A r \in Runner : job'[r] = job[r] \/ job'[r] = None
    PROVE  Inv'
<1>1. WorkKept /\ DOMAIN db' = DOMAIN db /\ tasklist' = tasklist
  BY UpdateEffect DEF Inv, TypeInv, TypeOK
<1>2. ASSUME NEW k \in DOMAIN tasklist'
      PROVE  BackedBy(tasklist[k])'
  BY <1>1, BackedKept DEF Inv, Backed, BackedBy
<1>3. ASSUME NEW r \in Runner, job'[r] # None
      PROVE  BackedBy(job[r])'
  <2>1. job'[r] = job[r] /\ BackedBy(job[r])
    BY <1>3 DEF Inv, Backed
  <2> QED
    BY <1>1, <2>1, BackedKept DEF BackedBy
<1>4. PipelineOrder'
  BY <1>1, OrderKept
<1> QED
  BY <1>1, <1>2, <1>3, <1>4 DEF Inv, Backed

(* Handing a task out: what was queued is now a runner's job, at most.     *)
LEMMA HandOutInv ==
    ASSUME Inv, TypeInv', Intact', NEW r \in Runner, NEW i \in DOMAIN tasklist,
           HandOut(r, i)
    PROVE  Inv'
<1> DEFINE j == [id |-> tasklist[i].id, work |-> tasklist[i].work]
<1>1. /\ tasklist' = RemoveAt(tasklist, i) /\ db' = db
      /\ UNCHANGED <<succeeded, adding>> /\ Reply(r, j)
  BY DEF HandOut, Get, coreVars
<1>2. tasklist \in Seq(QueuedTask)
  BY DEF Inv, TypeInv, TypeOK, TaskListType
<1>3. \A k \in DOMAIN tasklist' : \E l \in DOMAIN tasklist : tasklist'[k] = tasklist[l]
  BY <1>1, <1>2, RemoveAtElements
<1>4. \A k \in DOMAIN tasklist' : BackedBy(tasklist[k])'
  BY <1>1, <1>3 DEF Inv, Backed, BackedBy
<1>5. j.id \in DOMAIN db /\ db[j.id].work = j.work
  BY DEF Inv, Backed, BackedBy
<1>6. ASSUME NEW x \in Runner, job'[x] # None
      PROVE  BackedBy(job[x])'
  <2>1. job'[x] = job[x] \/ job'[x] = j
    BY <1>1, ReplyJob DEF Inv, TypeInv
  <2> HIDE DEF j
  <2>2. CASE job'[x] = j
    BY <1>1, <1>5, <2>2 DEF BackedBy
  <2>3. CASE job'[x] = job[x]
    BY <1>1, <1>6, <2>3 DEF Inv, Backed, BackedBy
  <2> QED
    BY <2>1, <2>2, <2>3
<1> QED
  BY <1>1, <1>4, <1>6 DEF Inv, Backed, Justified, PipelineOrder

LEMMA InvStep == ASSUME Inv, [Next]_vars, Intact' PROVE Inv'
<1>1. TypeInv' /\ Intact'
  BY TypeStep DEF Inv
<1> USE DEF coreVars, history
<1>2. ASSUME UNCHANGED <<tasklist, db, succeeded, adding>>,
             \A r \in Runner : job'[r] = job[r] \/ job'[r] = None
      PROVE  Inv'
  BY <1>1, <1>2, Frame DEF Inv, Justified
<1>3. ASSUME NEW p \in Project, Push(p)
      PROVE  Inv'
  BY <1>2, <1>3 DEF Push
<1>4. ASSUME NEW r \in Runner, RunnerStep(r)
      PROVE  Inv'
  <2>1. UNCHANGED <<tasklist, db, succeeded, adding>>
    BY <1>4 DEF RunnerStep, AskTask, SendResult, Ask, LoseQuery, RunnerLost
  <2>2. job' = job \/ job' = [job EXCEPT ![r] = None]
    BY <1>4 DEF RunnerStep, AskTask, SendResult, Ask, LoseQuery, RunnerLost
  <2> QED
    BY <1>2, <2>1, <2>2 DEF Inv, TypeInv, TypeOK
<1>5. CASE Start
  <2>1. /\ TaskListType /\ (Restore \/ RestorePartly)
        /\ UNCHANGED <<adding, job, succeeded>>
    BY <1>5, IntactSteps DEF Start, Inv, TypeInv, TypeOK
  <2>2. /\ db' = db
        /\ \A k \in DOMAIN tasklist' : \E i \in NewIds : tasklist'[k] = RestoredTask(i)
    BY <2>1, RestoreProperties
  <2>3. \A k \in DOMAIN tasklist' : BackedBy(tasklist[k])'
    BY <2>2 DEF BackedBy, RestoredTask, NewIds
  <2> QED
    BY <1>1, <2>1, <2>2, <2>3 DEF Inv, Backed, BackedBy, Justified, PipelineOrder
<1>6. ASSUME Die
      PROVE  Inv'
  <2>1. tasklist' = <<>> /\ adding' = None /\ UNCHANGED <<db, job, succeeded>>
    BY <1>6 DEF Die, Stop
  <2> QED
    BY <1>1, <2>1 DEF Inv, Backed, BackedBy, Justified, PipelineOrder
<1>7. CASE StartCheck
  BY <1>2, <1>7 DEF StartCheck
<1>8. ASSUME NEW p \in Project, FetchProject(p)
      PROVE  Inv'
  <2>1. UNCHANGED <<tasklist, db, succeeded, job>>
    BY <1>8 DEF FetchProject
  <2>2. CASE adding' = adding
    BY <1>2, <2>1, <2>2
  <2>3. CASE repo[p] # upstream[p] /\ adding' = FirstTask(p)
    <3>1. Justified'
      BY <2>3, FirstTaskType DEF Justified, Inv, TypeInv
    <3> QED
      BY <1>1, <2>1, <3>1, Frame
  <2> QED
    BY <1>8, <2>2, <2>3 DEF FetchProject
<1>9. CASE AddFound
  <2>1. adding \in Work /\ UNCHANGED <<job, succeeded>> /\ adding' = None
    BY <1>9 DEF AddFound, Inv, TypeInv, TypeOK
  <2>2. Add(adding)
    BY <1>9, IntactSteps DEF AddFound, Inv, TypeInv
  <2> QED
    BY <1>1, <2>1, <2>2, AddInv
<1>10. CASE EndCheck
  BY <1>2, <1>10 DEF EndCheck
<1>11. ASSUME NEW r \in Runner, RefuseTask(r)
       PROVE  Inv'
  <2>1. UNCHANGED <<tasklist, db, succeeded, adding>> /\ Reply(r, None)
    BY <1>11 DEF RefuseTask
  <2> QED
    BY <1>2, <2>1, ReplyJob DEF Inv, TypeInv
<1>12. ASSUME NEW r \in Runner, NEW i \in DOMAIN tasklist,
              HandOut(r, i) \/ HandOutOrphan(r, i)
       PROVE  Inv'
  BY <1>1, <1>6, <1>12, HandOutInv DEF HandOutOrphan
<1>13. ASSUME NEW r \in Runner, Abort(r)
       PROVE  Inv'
  <2>1. job[r].id \in Nat
    BY <1>13, ResultJob DEF Abort, Result, Receives, Query, Inv, TypeInv
  <2>2. UpdateStatus(job[r].id, task_aborted)
    BY <1>13 DEF Abort
  <2>3. Reply(r, None) /\ UNCHANGED <<succeeded, adding>>
    BY <1>13 DEF Abort
  <2>4. \A x \in Runner : job'[x] = job[x] \/ job'[x] = None
    BY <2>3, ReplyJob DEF Inv, TypeInv
  <2>5. WorkKept
    BY <2>1, <2>2, UpdateEffect DEF Inv, TypeInv, TypeOK
  <2>6. Justified'
    BY <2>3, <2>5, JustifiedKept
  <2> QED
    BY <1>1, <2>1, <2>2, <2>3, <2>4, <2>6, UpdateInv DEF Inv
<1>14. ASSUME NEW r \in Runner, Succeed(r)
       PROVE  Inv'
  <2>1. job[r] # None /\ job[r].id \in Nat
    BY <1>14, ResultJob, NoneIsNothing DEF Succeed, Result, Receives, Query, Inv, TypeInv
  <2>2. UpdateStatus(job[r].id, task_done)
    BY <1>14 DEF Succeed
  <2>3. succeeded' = succeeded \cup {job[r].id}
    BY <1>14 DEF Succeed
  <2>4. BackedBy(job[r])
    BY <2>1 DEF Inv, Backed
  <2>5. succeeded' \subseteq DOMAIN db
    BY <2>3, <2>4 DEF BackedBy, Inv
  <2>6. WorkKept
    BY <2>1, <2>2, UpdateEffect DEF Inv, TypeInv, TypeOK
  <2>7. CASE HasNext(job[r].work)
    <3>1. adding' = NextTask(job[r].work) /\ UNCHANGED job
      BY <1>14, <2>7 DEF Succeed
    <3>2. NextTask(db'[job[r].id].work) = adding'
      BY <2>4, <2>6, <3>1 DEF BackedBy, WorkKept
    <3>3. Justified'
      BY <2>3, <3>2 DEF Justified
    <3> QED
      BY <1>1, <2>1, <2>2, <2>3, <2>5, <3>1, <3>3, UpdateInv
  <2>8. CASE ~HasNext(job[r].work)
    <3>1. Reply(r, None) /\ adding' = adding
      BY <1>14, <2>8 DEF Succeed
    <3>2. Justified'
      BY <2>3, <2>6, <3>1, JustifiedKept
    <3>3. \A x \in Runner : job'[x] = job[x] \/ job'[x] = None
      BY <3>1, ReplyJob DEF Inv, TypeInv
    <3> QED
      BY <1>1, <2>1, <2>2, <2>3, <2>5, <3>2, <3>3, UpdateInv
  <2> QED
    BY <2>7, <2>8
<1>15. CASE AddNext
  <2>1. adding \in Work /\ owed \in Runner
    BY <1>15 DEF AddNext, Inv, TypeInv, Phase
  <2>2. Add(adding)
    BY <1>15, IntactSteps DEF AddNext, Inv, TypeInv
  <2>3. Reply(owed, None) /\ adding' = None /\ succeeded' = succeeded
    BY <1>15 DEF AddNext
  <2>4. \A x \in Runner : job'[x] = job[x] \/ job'[x] = None
    BY <2>1, <2>3, ReplyJob DEF Inv, TypeInv
  <2> QED
    BY <1>1, <2>1, <2>2, <2>3, <2>4, AddInv
<1>16. ASSUME NEW r \in Runner, IgnoreResult(r)
       PROVE  Inv'
  BY <1>2, <1>16 DEF IgnoreResult
<1>17. CASE UNCHANGED vars
  BY <1>2, <1>17 DEF vars
<1>18. ASSUME NEW p \in Project, FetchForNothing(p)
       PROVE  Inv'
  <2>1. tasklist' = <<>> /\ adding' = None /\ UNCHANGED <<db, job, succeeded>>
    BY <1>18 DEF FetchForNothing, Stop
  <2> QED
    BY <1>1, <2>1 DEF Inv, Backed, BackedBy, Justified, PipelineOrder
<1> QED
  BY <1>3, <1>4, <1>5, <1>6, <1>7, <1>8, <1>9, <1>10, <1>11, <1>12, <1>13, <1>14,
     <1>15, <1>16, <1>17, <1>18 DEF Next, Serve, CheckStep, Crash

LEMMA IntactAlways == Spec => [](TypeInv /\ (Intact => Inv))
<1>1. Init => TypeInv /\ (Intact => Inv)
  BY TypeInit, InvInit
<1>2. TypeInv /\ (Intact => Inv) /\ [Next]_vars => (TypeInv /\ (Intact => Inv))'
  BY TypeStep, IntactBefore, InvStep DEF TypeInv
<1> QED
  BY <1>1, <1>2, PTL DEF Spec

(* A queued task, and the task a runner holds, always are the ones their   *)
(* row says, unless an insert failed or the table was dropped: the result  *)
(* of a task is recorded in that task's row, whatever is lost, however     *)
(* often the core dies, and whichever selects, updates and fetches fail.   *)
THEOREM BackedAlways == Spec => []Backed
<1>1. TypeInv /\ (Intact => Inv) => Backed
  BY DEF Inv, Backed
<1> QED
  BY <1>1, IntactAlways, PTL

(* A later task of a project is in the table only if its predecessor's     *)
(* success, for the same commit, was recorded, unless an insert failed or  *)
(* the table was dropped: no pipeline skips a step, even over crashes,     *)
(* repeated reports, and updates that fail.                                *)
THEOREM PipelineInOrder == Spec => []PipelineOrder
<1>1. TypeInv /\ (Intact => Inv) => PipelineOrder
  BY DEF Inv, PipelineOrder
<1> QED
  BY <1>1, IntactAlways, PTL
-----------------------------------------------------------------------------
(***************************************************************************)
(* A task is handed out once between two starts.  What makes it so is that *)
(* ids come from the table: those handed out have a row, so the id of a    *)
(* new row is none of them.                                                *)
(***************************************************************************)
OnceInv == Inv /\ HandedOutOnce /\ handed \subseteq DOMAIN db

LEMMA OnceInit == Init => OnceInv
<1> SUFFICES ASSUME Init PROVE OnceInv
  OBVIOUS
<1>1. tasklist = <<>> /\ handed = {}
  BY DEF Init, InitTaskList
<1> QED
  BY <1>1, InvInit DEF OnceInv, HandedOutOnce

(* Steps that leave the list and what was handed out, or empty the list.   *)
LEMMA OnceFrame ==
    ASSUME OnceInv, Inv', tasklist' \in {tasklist, <<>>}, handed' = handed,
           DOMAIN db \subseteq DOMAIN db'
    PROVE  OnceInv'
BY DEF OnceInv, Inv, HandedOutOnce

LEMMA OnceAdd ==
    ASSUME OnceInv, Inv', NEW w \in Work, Add(w), handed' = handed
    PROVE  OnceInv'
<1>1. /\ TaskListType /\ db \in Seq(Row) /\ tasklist \in Seq(QueuedTask)
      /\ Len(db) \in Nat /\ DOMAIN db = 1 .. Len(db)
  BY DEF OnceInv, Inv, TypeInv, TypeOK, TaskListType
<1>2. CASE UNCHANGED <<tasklist, db>>
  BY <1>2, OnceFrame
<1>3. CASE /\ tasklist' = Append(tasklist, NewTask(Len(db) + 1, w))
           /\ DOMAIN db' = 1 .. Len(db) + 1
  <2> DEFINE t == NewTask(Len(db) + 1, w)
  <2>1. t \in QueuedTask /\ t.id = Len(db) + 1
    BY <1>1, NewTaskType DEF NewTask
  <2> HIDE DEF t
  <2>2. /\ DOMAIN tasklist' = 1 .. Len(tasklist) + 1
        /\ DOMAIN tasklist = 1 .. Len(tasklist) /\ Len(tasklist) \in Nat
        /\ \A i \in 1 .. Len(tasklist) : tasklist'[i] = tasklist[i]
        /\ tasklist'[Len(tasklist) + 1] = t
    BY <1>1, <1>3, <2>1, AppendProperties DEF t
  <2>3. \A i \in 1 .. Len(tasklist) : tasklist[i].id # t.id /\ tasklist[i].id \notin handed
    BY <1>1, <2>1, <2>2 DEF OnceInv, HandedOutOnce, Inv, Backed, BackedBy
  <2>4. t.id \notin handed
    BY <1>1, <2>1 DEF OnceInv
  <2>5. \A i, k \in DOMAIN tasklist' : tasklist'[i].id = tasklist'[k].id => i = k
    BY <2>2, <2>3 DEF OnceInv, Inv, HandedOutOnce
  <2>6. \A i \in DOMAIN tasklist' : tasklist'[i].id \notin handed'
    BY <2>2, <2>3, <2>4
  <2>7. handed' \subseteq DOMAIN db'
    BY <1>1, <1>3 DEF OnceInv
  <2> QED
    BY <2>5, <2>6, <2>7 DEF OnceInv, HandedOutOnce
<1> QED
  BY <1>1, <1>2, <1>3, AddEffect

LEMMA OnceHandOut ==
    ASSUME OnceInv, Inv', NEW r \in Runner, NEW i \in DOMAIN tasklist, HandOut(r, i)
    PROVE  OnceInv'
<1>1. /\ tasklist' = RemoveAt(tasklist, i) /\ db' = db
      /\ handed' = handed \cup {tasklist[i].id}
  BY DEF HandOut, Get
<1>2. tasklist \in Seq(QueuedTask) /\ Len(tasklist) \in Nat
        /\ DOMAIN tasklist = 1 .. Len(tasklist)
  BY DEF OnceInv, Inv, TypeInv, TypeOK, TaskListType
<1> DEFINE old(k) == IF k < i THEN k ELSE k + 1
<1>3. DOMAIN tasklist' = 1 .. Len(tasklist) - 1
        /\ \A k \in 1 .. Len(tasklist) - 1 :
             tasklist'[k] = IF k < i THEN tasklist[k] ELSE tasklist[k + 1]
  <2>1. /\ tasklist' \in Seq(QueuedTask) /\ Len(tasklist') = Len(tasklist) - 1
        /\ \A k \in 1 .. Len(tasklist) - 1 :
             tasklist'[k] = IF k < i THEN tasklist[k] ELSE tasklist[k + 1]
    BY <1>1, <1>2, RemoveAtProperties
  <2> QED
    BY <2>1
<1>4. ASSUME NEW k \in DOMAIN tasklist'
      PROVE  tasklist'[k] = tasklist[old(k)] /\ old(k) \in DOMAIN tasklist /\ old(k) # i
  BY <1>2, <1>3
<1>5. \A k, l \in DOMAIN tasklist' : old(k) = old(l) => k = l
  BY <1>2, <1>3
<1> HIDE DEF old
<1>6. \A k, l \in DOMAIN tasklist' : tasklist'[k].id = tasklist'[l].id => k = l
  BY <1>4, <1>5 DEF OnceInv, Inv, HandedOutOnce
<1>7. \A k \in DOMAIN tasklist' : tasklist'[k].id \notin handed'
  BY <1>1, <1>4 DEF OnceInv, Inv, HandedOutOnce
<1>8. handed' \subseteq DOMAIN db'
  BY <1>1 DEF OnceInv, Inv, Backed, BackedBy
<1> QED
  BY <1>6, <1>7, <1>8 DEF OnceInv, HandedOutOnce

LEMMA OnceStep == ASSUME OnceInv, [Next]_vars, Intact' PROVE OnceInv'
<1>1. Inv /\ Inv'
  BY InvStep DEF OnceInv
<1> USE DEF coreVars, history
<1>2. ASSUME NEW p \in Project, Push(p) \/ FetchProject(p) \/ FetchForNothing(p)
      PROVE  OnceInv'
  BY <1>1, <1>2, OnceFrame DEF Push, FetchProject, FetchForNothing, Stop
<1>3. ASSUME NEW r \in Runner, RunnerStep(r) \/ RefuseTask(r) \/ IgnoreResult(r)
      PROVE  OnceInv'
  <2>1. UNCHANGED <<tasklist, db, handed>>
    BY <1>3 DEF RunnerStep, AskTask, SendResult, Ask, LoseQuery, RunnerLost,
                RefuseTask, IgnoreResult
  <2> QED
    BY <1>1, <2>1, OnceFrame
<1>4. CASE Start
  <2>1. TaskListType /\ (Restore \/ RestorePartly) /\ handed' = {}
    BY <1>1, <1>4, IntactSteps DEF Start, Inv, TypeInv, TypeOK
  <2>2. \A j, k \in DOMAIN tasklist' : j < k => tasklist'[j].id < tasklist'[k].id
    BY <2>1, RestoreProperties
  <2>3. /\ tasklist' \in Seq(QueuedTask) /\ DOMAIN tasklist' \subseteq Nat
        /\ \A k \in DOMAIN tasklist' : tasklist'[k].id \in Nat
    <3>1. tasklist' \in Seq(QueuedTask)
      BY <2>1, RestoreProperties DEF TaskListType
    <3>2. DOMAIN tasklist' = 1 .. Len(tasklist')
            /\ \A k \in DOMAIN tasklist' : tasklist'[k] \in QueuedTask
      BY <3>1
    <3> QED
      BY <3>1, <3>2 DEF QueuedTask
  <2>4. \A j, k \in DOMAIN tasklist' : tasklist'[j].id = tasklist'[k].id => j = k
    BY <2>2, <2>3
  <2> QED
    BY <1>1, <2>1, <2>4 DEF OnceInv, HandedOutOnce
<1>5. ASSUME Die
      PROVE  OnceInv'
  BY <1>1, <1>5, OnceFrame DEF Die, Stop
<1>6. CASE StartCheck \/ EndCheck
  BY <1>1, <1>6, OnceFrame DEF StartCheck, EndCheck
<1>7. CASE AddFound
  BY <1>1, <1>7, IntactSteps, OnceAdd DEF AddFound, Inv, TypeInv, TypeOK
<1>8. ASSUME NEW r \in Runner, NEW i \in DOMAIN tasklist,
             HandOut(r, i) \/ HandOutOrphan(r, i)
      PROVE  OnceInv'
  BY <1>1, <1>5, <1>8, OnceHandOut DEF HandOutOrphan
<1>9. ASSUME NEW r \in Runner, Abort(r) \/ Succeed(r)
      PROVE  OnceInv'
  <2>1. job[r].id \in Nat
    BY <1>1, <1>9, ResultJob
       DEF Abort, Succeed, Result, Receives, Query, Inv, TypeInv
  <2>2. \E s \in Status : UpdateStatus(job[r].id, s)
    BY <1>9 DEF Abort, Succeed
  <2>3. DOMAIN db' = DOMAIN db /\ tasklist' = tasklist
    BY <1>1, <2>1, <2>2, UpdateEffect DEF Inv, TypeInv, TypeOK
  <2>4. handed' = handed
    BY <1>9 DEF Abort, Succeed
  <2> QED
    BY <1>1, <2>3, <2>4, OnceFrame
<1>10. CASE AddNext
  BY <1>1, <1>10, IntactSteps, OnceAdd DEF AddNext, Inv, TypeInv, Phase
<1>11. CASE UNCHANGED vars
  BY <1>1, <1>11, OnceFrame DEF vars
<1> QED
  BY <1>2, <1>3, <1>4, <1>5, <1>6, <1>7, <1>8, <1>9, <1>10, <1>11
     DEF Next, Serve, CheckStep, Crash

(* The list holds a task once and never again one that left it since the   *)
(* core started: get (tasklist.c) hands a task out at most once between    *)
(* two starts, unless an insert failed or the table was dropped.           *)
THEOREM HandedOutAtMostOnce == Spec => []HandedOutOnce
<1> DEFINE I == TypeInv /\ (Intact => OnceInv)
<1>1. Init => I
  BY TypeInit, OnceInit
<1>2. I /\ [Next]_vars => I'
  BY TypeStep, IntactBefore, OnceStep DEF TypeInv
<1>3. I => HandedOutOnce
  BY DEF OnceInv, HandedOutOnce
<1> QED
  BY <1>1, <1>2, <1>3, PTL DEF Spec
-----------------------------------------------------------------------------
(***************************************************************************)
(* No task is run twice while the core is up for the first time: what a    *)
(* runner works on was handed out, and is neither handed out again nor     *)
(* queued any more when its result comes.                                  *)
(***************************************************************************)
JobsHanded == \A r \in Runner : job[r] # None => job[r].id \in handed

JobsDiffer ==
    \A r1, r2 \in Runner :
       r1 # r2 /\ job[r1] # None /\ job[r2] # None => job[r1].id # job[r2].id

QueuedNew == \A i \in DOMAIN tasklist : db[tasklist[i].id].status = task_new

RunInv ==
    /\ OnceInv
    /\ starts = 0 => main = "down" /\ \A r \in Runner : job[r] = None
    /\ starts <= 1 => JobsHanded /\ JobsDiffer /\ QueuedNew

LEMMA RunInit == Init => RunInv
<1> SUFFICES ASSUME Init PROVE RunInv
  OBVIOUS
<1>1. tasklist = <<>> /\ main = "down" /\ \A r \in Runner : job[r] = None
  BY DEF Init, InitTaskList
<1> QED
  BY <1>1, OnceInit DEF RunInv, JobsHanded, JobsDiffer, QueuedNew

(* Steps that hand out nothing, and add and conclude nothing.              *)
LEMMA RunFrame ==
    ASSUME RunInv, OnceInv', UNCHANGED <<starts, handed, db>>,
           tasklist' \in {tasklist, <<>>}, main = "down" => main' = "down",
           \A r \in Runner : job'[r] \in {job[r], None}
    PROVE  RunInv'
BY DEF RunInv, JobsHanded, JobsDiffer, QueuedNew

(* A new task is new. *)
LEMMA RunAdd ==
    ASSUME RunInv, OnceInv', main # "down", NEW w \in Work, Add(w),
           UNCHANGED <<starts, handed>>,
           \A r \in Runner : job'[r] \in {job[r], None}
    PROVE  RunInv'
<1>1. /\ TaskListType /\ db \in Seq(Row) /\ tasklist \in Seq(QueuedTask)
      /\ Len(db) \in Nat /\ DOMAIN db = 1 .. Len(db) /\ Backed /\ starts \in Nat
  BY DEF RunInv, OnceInv, Inv, TypeInv, TypeOK, TaskListType
<1>2. starts # 0
  BY DEF RunInv
<1>3. starts <= 1 => JobsHanded' /\ JobsDiffer'
  BY DEF RunInv, JobsHanded, JobsDiffer
<1>4. starts <= 1 => QueuedNew'
  <2> SUFFICES ASSUME starts <= 1 PROVE QueuedNew'
    OBVIOUS
  <2>1. CASE UNCHANGED <<tasklist, db>>
    BY <2>1 DEF RunInv, QueuedNew
  <2>2. CASE /\ tasklist' = Append(tasklist, NewTask(Len(db) + 1, w))
             /\ db' = Append(db, NewRow(w))
    <3> DEFINE t == NewTask(Len(db) + 1, w)  row == NewRow(w)
    <3>1. /\ t \in QueuedTask /\ t.id = Len(db) + 1
          /\ row \in Row /\ row.status = task_new
      BY <1>1, NewTaskType DEF NewTask, NewRow
    <3> HIDE DEF t, row
    <3>2. /\ DOMAIN tasklist' = 1 .. Len(tasklist) + 1 /\ Len(tasklist) \in Nat
          /\ DOMAIN tasklist = 1 .. Len(tasklist)
          /\ \A i \in 1 .. Len(tasklist) : tasklist'[i] = tasklist[i]
          /\ tasklist'[Len(tasklist) + 1] = t
      BY <1>1, <2>2, <3>1, AppendProperties DEF t
    <3>3. /\ \A i \in 1 .. Len(db) : db'[i] = db[i]
          /\ db'[Len(db) + 1] = row
      BY <1>1, <2>2, <3>1, AppendProperties DEF row
    <3>4. ASSUME NEW i \in 1 .. Len(tasklist)
          PROVE  db'[tasklist'[i].id].status = task_new
      <4>1. tasklist[i].id \in DOMAIN db /\ db[tasklist[i].id].status = task_new
        BY <1>1, <3>2 DEF RunInv, OnceInv, Inv, QueuedNew, Backed, BackedBy
      <4> QED
        BY <1>1, <3>2, <3>3, <4>1
    <3>5. db'[tasklist'[Len(tasklist) + 1].id].status = task_new
      BY <3>1, <3>2, <3>3
    <3> QED
      BY <3>2, <3>4, <3>5 DEF QueuedNew
  <2> QED
    BY <1>1, <2>1, <2>2 DEF Add
<1> QED
  BY <1>2, <1>3, <1>4 DEF RunInv

(* The task that is handed out is no other runner's. *)
LEMMA RunHandOut ==
    ASSUME RunInv, OnceInv', NEW r \in Runner, NEW i \in DOMAIN tasklist, HandOut(r, i)
    PROVE  RunInv'
<1> DEFINE new == [id |-> tasklist[i].id, work |-> tasklist[i].work]
<1>1. /\ tasklist' = RemoveAt(tasklist, i) /\ db' = db /\ starts' = starts
      /\ handed' = handed \cup {tasklist[i].id} /\ main = "poll"
      /\ job' = job \/ job' = [job EXCEPT ![r] = new]
  BY DEF HandOut, Get, Receives, Reply
<1>2. /\ tasklist \in Seq(QueuedTask) /\ Len(tasklist) \in Nat
      /\ DOMAIN tasklist = 1 .. Len(tasklist) /\ starts \in Nat
      /\ job \in [Runner -> Job \cup {None}]
  BY DEF RunInv, OnceInv, Inv, TypeInv, TypeOK, TaskListType
<1>3. starts # 0
  BY <1>1 DEF RunInv
<1>4. tasklist[i].id \notin handed
  BY DEF RunInv, OnceInv, Inv, HandedOutOnce
<1> HIDE DEF new
<1>5. new.id = tasklist[i].id
  BY DEF new
<1>6. starts <= 1 => JobsHanded' /\ JobsDiffer'
  BY <1>1, <1>2, <1>4, <1>5 DEF RunInv, JobsHanded, JobsDiffer
<1>7. starts <= 1 => QueuedNew'
  <2>1. \A k \in DOMAIN tasklist' : \E l \in DOMAIN tasklist : tasklist'[k] = tasklist[l]
    BY <1>1, <1>2, RemoveAtElements
  <2> QED
    BY <1>1, <2>1 DEF RunInv, QueuedNew
<1> QED
  BY <1>1, <1>3, <1>6, <1>7 DEF RunInv

(* A result concludes the row of a job, which is of no task in the queue.  *)
LEMMA RunConclude ==
    ASSUME RunInv, OnceInv', NEW r \in Runner, NEW s \in Status, job[r] # None,
           main # "down", UpdateStatus(job[r].id, s), UNCHANGED <<starts, handed>>,
           \A x \in Runner : job'[x] \in {job[x], None}
    PROVE  RunInv'
<1>1. starts # 0
  BY DEF RunInv
<1>2. starts <= 1 => JobsHanded' /\ JobsDiffer'
  BY DEF RunInv, JobsHanded, JobsDiffer
<1>3. starts <= 1 => QueuedNew'
  <2> SUFFICES ASSUME starts <= 1, NEW i \in DOMAIN tasklist'
               PROVE  db'[tasklist'[i].id].status = task_new
    BY DEF QueuedNew
  <2>1. tasklist' = tasklist
    BY DEF UpdateStatus, UpdateTaskStatus
  <2>2. tasklist[i].id # job[r].id
    BY <2>1 DEF RunInv, OnceInv, Inv, HandedOutOnce, JobsHanded
  <2>3. db'[tasklist[i].id] = db[tasklist[i].id]
    BY <2>1, <2>2 DEF UpdateStatus, UpdateTaskStatus, RunInv, OnceInv, Inv, Backed, BackedBy
  <2> QED
    BY <2>1, <2>3 DEF RunInv, QueuedNew
<1> QED
  BY <1>1, <1>2, <1>3 DEF RunInv

LEMMA RunStep == ASSUME RunInv, [Next]_vars, Intact' PROVE RunInv'
<1>1. /\ OnceInv /\ OnceInv' /\ Inv /\ TypeOK
      /\ job \in [Runner -> Job \cup {None}] /\ starts \in Nat
  BY OnceStep DEF RunInv, OnceInv, Inv, TypeInv, TypeOK
<1> USE DEF coreVars, history
<1>2. ASSUME NEW p \in Project, Push(p) \/ FetchProject(p)
      PROVE  RunInv'
  BY <1>1, <1>2, RunFrame DEF Push, FetchProject
<1>3. ASSUME NEW r \in Runner, RunnerStep(r) \/ IgnoreResult(r) \/ RefuseTask(r)
      PROVE  RunInv'
  <2>1. UNCHANGED <<starts, handed, db, tasklist, main>>
    BY <1>3 DEF RunnerStep, AskTask, SendResult, Ask, LoseQuery, RunnerLost,
                IgnoreResult, RefuseTask
  <2>2. \A x \in Runner : job'[x] \in {job[x], None}
    BY <1>1, <1>3 DEF RunnerStep, AskTask, SendResult, Ask, LoseQuery, RunnerLost,
                      IgnoreResult, RefuseTask, Reply
  <2> QED
    BY <1>1, <2>1, <2>2, RunFrame
<1>4. CASE Start
  <2>1. /\ TaskListType /\ (Restore \/ RestorePartly)
        /\ handed' = {} /\ starts' = starts + 1 /\ job' = job
    BY <1>1, <1>4, IntactSteps DEF Start, TypeOK
  <2>2. /\ db' = db
        /\ \A k \in DOMAIN tasklist' : \E i \in NewIds : tasklist'[k] = RestoredTask(i)
    BY <2>1, RestoreProperties
  <2>3. QueuedNew'
    BY <2>2 DEF QueuedNew, NewIds, RestoredTask
  <2>4. starts' <= 1 => \A r \in Runner : job'[r] = None
    BY <1>1, <2>1 DEF RunInv
  <2> QED
    BY <1>1, <2>1, <2>3, <2>4 DEF RunInv, JobsHanded, JobsDiffer
<1>5. ASSUME Stop, UNCHANGED <<db, job, handed, starts>>
      PROVE  RunInv'
  BY <1>1, <1>5, RunFrame DEF Stop
<1>6. CASE StartCheck \/ EndCheck
  BY <1>1, <1>6, RunFrame DEF StartCheck, EndCheck
<1>7. CASE AddFound
  <2>1. adding \in Work /\ Add(adding)
    BY <1>1, <1>7, IntactSteps DEF AddFound, TypeOK
  <2>2. main # "down" /\ UNCHANGED <<starts, handed, job>>
    BY <1>7 DEF AddFound
  <2> QED
    BY <1>1, <2>1, <2>2, RunAdd
<1>8. ASSUME NEW r \in Runner, NEW i \in DOMAIN tasklist, HandOut(r, i)
      PROVE  RunInv'
  BY <1>1, <1>8, RunHandOut
<1>9. ASSUME NEW r \in Runner, Abort(r) \/ Succeed(r)
      PROVE  RunInv'
  <2>1. job[r] # None
    BY <1>1, <1>9, ResultJob, NoneIsNothing
       DEF Abort, Succeed, Result, Receives, Query
  <2>2. \E s \in Status : UpdateStatus(job[r].id, s)
    BY <1>9 DEF Abort, Succeed
  <2>3. main # "down" /\ UNCHANGED <<starts, handed>>
    BY <1>9 DEF Abort, Succeed, Result, Receives
  <2>4. \A x \in Runner : job'[x] \in {job[x], None}
    BY <1>1, <1>9 DEF Abort, Succeed, Reply
  <2> QED
    BY <1>1, <2>1, <2>2, <2>3, <2>4, RunConclude
<1>10. CASE AddNext
  <2>1. adding \in Work /\ Add(adding)
    BY <1>1, <1>10, IntactSteps DEF AddNext, Inv, TypeInv, Phase
  <2>2. main # "down" /\ UNCHANGED <<starts, handed>>
    BY <1>10 DEF AddNext
  <2>3. \A x \in Runner : job'[x] \in {job[x], None}
    BY <1>1, <1>10 DEF AddNext, Reply
  <2> QED
    BY <1>1, <2>1, <2>2, <2>3, RunAdd
<1>11. CASE UNCHANGED vars
  BY <1>1, <1>11, RunFrame DEF vars
<1> QED
  BY <1>2, <1>3, <1>4, <1>5, <1>6, <1>7, <1>8, <1>9, <1>10, <1>11
     DEF Next, Serve, CheckStep, Crash, Die, FetchForNothing, HandOutOrphan

(* As long as the core does not restart, and no insert failed, no task is  *)
(* run by two runners, and one whose result is recorded is not queued any  *)
(* more, whatever messages and runners are lost (get and set_task_* of the *)
(* task list under on_pollin_zrunner) and whichever updates fail.          *)
THEOREM RunAtMostOnce == Spec => []RunOnce
<1> DEFINE I == TypeInv /\ (Intact => RunInv)
<1>1. Init => I
  BY TypeInit, RunInit
<1>2. I /\ [Next]_vars => I'
  BY TypeStep, IntactBefore, RunStep DEF TypeInv
<1>3. I => RunOnce
  BY DEF RunInv, RunOnce, JobsDiffer, QueuedNew
<1> QED
  BY <1>1, <1>2, <1>3, PTL DEF Spec
-----------------------------------------------------------------------------
(***************************************************************************)
(* The core implements the ledger: an insert enters a job, an update       *)
(* concludes one, and no other step touches the table.                     *)
(***************************************************************************)
LEMMA AddEnters ==
    ASSUME Inv, adding \in Work, Add(adding), succeeded' = succeeded
    PROVE  [LedgerView!LedgerNext]_<<db, succeeded>>
<1>1. TaskListType /\ db \in Seq(Row)
  BY DEF Inv, TypeInv, TypeOK, TaskListType
<1>2. CASE UNCHANGED <<tasklist, db>>
  BY <1>2
<1>3. CASE /\ db' = Append(db, NewRow(adding))
           /\ DOMAIN db' = 1 .. Len(db) + 1
           /\ db'[Len(db) + 1] = NewRow(adding)
  <2>1. Len(db') = Len(db) + 1 /\ db'[Len(db')].work = adding
    BY <1>1, <1>3, NewTaskType, AppendProperties DEF NewRow
  <2>2. CASE adding.index = 0
    BY <1>3, <2>1, <2>2
       DEF LedgerView!LedgerNext, LedgerView!Enter, LedgerView!task_new, NewRow
  <2>3. CASE adding.index # 0
    <3>1. PICK k \in succeeded : NextTask(db[k].work) = adding
      BY <2>3, NoneIsNothing DEF Inv, Justified
    <3>2. db[k].work \in Work
      <4>1. db[k] \in Row
        BY <1>1, <3>1 DEF Inv
      <4> QED
        BY <4>1 DEF Row
    <3>3. db[k].work = [adding EXCEPT !.index = @ - 1]
      BY <3>1, <3>2 DEF NextTask, Work
    <3> QED
      BY <1>3, <2>1, <3>3
       DEF LedgerView!LedgerNext, LedgerView!Enter, LedgerView!task_new, NewRow
  <2> QED
    BY <2>2, <2>3
<1> QED
  BY <1>1, <1>2, <1>3, AddEffect

(* No statement that writes has failed, and the table was never dropped.   *)
AllWritten == Intact /\ failed["update"] = 0

LEMMA WrittenSteps ==
    ASSUME TypeOK, AllWritten'
    PROVE  \A i, s : UpdateStatus(i, s) => UpdateTaskStatus(i, s)
<1>1. "update" \in FaultKind
  BY DEF FaultKind
<1>2. ~Fail("update")
  BY <1>1, FailShows DEF AllWritten
<1> QED
  BY <1>2 DEF UpdateStatus

LEMMA LedgerStep ==
    ASSUME Inv, [Next]_vars, AllWritten'
    PROVE  [LedgerView!LedgerNext]_<<db, succeeded>>
<1>0. Intact' /\ TypeOK
  BY DEF AllWritten, Inv, TypeInv
<1> USE DEF coreVars, history
<1>1. ASSUME UNCHANGED <<db, succeeded>>
      PROVE  [LedgerView!LedgerNext]_<<db, succeeded>>
  BY <1>1
<1>2. ASSUME NEW p \in Project, Push(p) \/ FetchProject(p) \/ FetchForNothing(p)
      PROVE  UNCHANGED <<db, succeeded>>
  BY <1>2 DEF Push, FetchProject, FetchForNothing
<1>3. ASSUME NEW r \in Runner, RunnerStep(r) \/ RefuseTask(r) \/ IgnoreResult(r)
      PROVE  UNCHANGED <<db, succeeded>>
  BY <1>3 DEF RunnerStep, AskTask, SendResult, Ask, LoseQuery, RunnerLost,
              RefuseTask, IgnoreResult
<1>4. CASE Start \/ Crash \/ StartCheck \/ EndCheck \/ UNCHANGED vars
  <2>1. CASE Start
    BY <1>0, <1>1, <2>1, IntactSteps DEF Start, Restore, RestorePartly
  <2> QED
    BY <1>1, <1>4, <2>1 DEF Crash, Die, Stop, StartCheck, EndCheck, vars
<1>5. CASE AddFound
  <2>1. adding \in Work /\ succeeded' = succeeded
    BY <1>5 DEF AddFound, Inv, TypeInv, TypeOK
  <2> QED
    BY <1>0, <1>5, <2>1, IntactSteps, AddEnters DEF AddFound
<1>6. ASSUME NEW r \in Runner, NEW i \in DOMAIN tasklist,
             HandOut(r, i) \/ HandOutOrphan(r, i)
      PROVE  UNCHANGED <<db, succeeded>>
  BY <1>6 DEF HandOut, Get, HandOutOrphan, Die, Stop
<1>7. ASSUME NEW r \in Runner, Abort(r) \/ Succeed(r)
      PROVE  [LedgerView!LedgerNext]_<<db, succeeded>>
  <2>1. job[r] # None
    BY <1>7, ResultJob, NoneIsNothing
       DEF Abort, Succeed, Result, Receives, Query, Inv, TypeInv
  <2>2. job[r].id \in DOMAIN db
    BY <2>1 DEF Inv, Backed, BackedBy
  <2>3. CASE Abort(r)
    <3>1. UpdateTaskStatus(job[r].id, task_aborted) /\ succeeded' = succeeded
      BY <1>0, <2>3, WrittenSteps DEF Abort
    <3>2. LedgerView!Conclude(job[r].id, task_aborted)
      BY <2>2, <3>1
         DEF LedgerView!Conclude, LedgerView!task_done, UpdateTaskStatus
    <3> QED
      BY <2>2, <3>2
         DEF LedgerView!LedgerNext, LedgerView!task_done, LedgerView!task_aborted
  <2>4. CASE Succeed(r)
    <3>1. /\ UpdateTaskStatus(job[r].id, task_done)
          /\ succeeded' = succeeded \cup {job[r].id}
      BY <1>0, <2>4, WrittenSteps DEF Succeed
    <3>2. LedgerView!Conclude(job[r].id, task_done)
      BY <2>2, <3>1
         DEF LedgerView!Conclude, LedgerView!task_done, UpdateTaskStatus
    <3> QED
      BY <2>2, <3>2
         DEF LedgerView!LedgerNext, LedgerView!task_done, LedgerView!task_aborted
  <2> QED
    BY <1>7, <2>3, <2>4
<1>8. CASE AddNext
  <2>1. adding \in Work /\ succeeded' = succeeded
    BY <1>8 DEF AddNext, Inv, TypeInv, Phase
  <2> QED
    BY <1>0, <1>8, <2>1, IntactSteps, AddEnters DEF AddNext
<1> QED
  BY <1>1, <1>2, <1>3, <1>4, <1>5, <1>6, <1>7, <1>8 DEF Next, Serve, CheckStep

(* Over all the lives of the core the table is a ledger up to the first    *)
(* write that fails: rows are never forgotten, rewritten nor made new      *)
(* again, and a later task of a project enters after its predecessor       *)
(* succeeded (add, set_task_done and set_task_aborted of the task list).   *)
THEOREM LedgerUntilFailure ==
    Spec => /\ LedgerView!LedgerInit
            /\ [][AllWritten' => LedgerView!LedgerNext]_<<db, succeeded>>
<1>1. Init => LedgerView!LedgerInit
  BY DEF Init, InitTaskList, LedgerView!LedgerInit
<1>2. TypeInv /\ (Intact => Inv) /\ [Next]_vars
        => [AllWritten' => LedgerView!LedgerNext]_<<db, succeeded>>
  BY IntactBefore, LedgerStep DEF TypeInv, AllWritten
<1> QED
  BY <1>1, <1>2, IntactAlways, PTL DEF Spec

(* Where nothing fails it is one for ever: the detailed specification      *)
(* implements the abstract one.                                            *)
THEOREM ImplementsLedger == ASSUME MaxFaults = 0 PROVE Spec => LedgerSpec
<1> DEFINE NoFailure == \A kind \in FaultKind : failed[kind] = 0
<1>1. Init => NoFailure
  BY DEF Init
<1>2. TypeInv /\ NoFailure /\ [Next]_vars => NoFailure'
  <2> SUFFICES ASSUME TypeInv, NoFailure, [Next]_vars PROVE NoFailure'
    OBVIOUS
  <2>1. Failures = 0
    BY DEF Failures, FaultKind
  <2>2. \A kind : ~Fail(kind)
    BY <2>1 DEF Fail
  <2>3. failed' = failed
    BY <2>2, StepFails DEF TypeInv
  <2> QED
    BY <2>3
<1>3. NoFailure' => AllWritten'
  BY DEF AllWritten, Intact, FaultKind
<1>4. Init => TypeInv
  BY TypeInit
<1>5. TypeInv /\ [Next]_vars => TypeInv'
  BY TypeStep
<1>6. [AllWritten' => LedgerView!LedgerNext]_<<db, succeeded>> /\ AllWritten'
        => [LedgerView!LedgerNext]_<<db, succeeded>>
  OBVIOUS
<1> HIDE DEF NoFailure
<1> QED
  BY <1>1, <1>2, <1>3, <1>4, <1>5, <1>6, LedgerUntilFailure, PTL
     DEF Spec, LedgerSpec, LedgerView!Spec
=============================================================================
