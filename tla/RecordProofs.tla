---------------------------- MODULE RecordProofs ----------------------------
(***************************************************************************)
(* Proofs about what Scheduler owes to the commits it fetched and to the   *)
(* results it was sent: a task in the table.  They hold for every bound;   *)
(* the process may die at every step, messages and runners may be lost,    *)
(* and each theorem says which failures it allows, and what they cost.     *)
(***************************************************************************)
EXTENDS SchedulerProofs, FiniteSetTheorems

USE DEF Status, task_new, task_running, task_done, task_aborted, Reported

(***************************************************************************)
(* The inductive invariant.  A task waits in `adding' only inside the two  *)
(* handlers that add one.                                                  *)
(***************************************************************************)
AddingPhase ==
    /\ main \in {"down", "poll"} => adding = None
    /\ main = "check" /\ adding # None => adding.index = 0
    /\ starts = 0 => main = "down"

ForgetInv ==
    /\ Inv
    /\ AddingPhase
    /\ IsFiniteSet(Missing)
    /\ OneLossPerDeath

(* The missing tasks that a result, and not a commit, promised.            *)
MissingSuccessors == {w \in Missing : w.index > 0}

LEMMA ForgetInit == Init => ForgetInv
<1> SUFFICES ASSUME Init PROVE ForgetInv
  OBVIOUS
<1>1. /\ succeeded = {} /\ main = "down" /\ starts = 0 /\ adding = None
      /\ failed["fetch"] = 0 /\ \A p \in Project : repo[p] = 0
  BY DEF Init, FaultKind
<1>2. Missing = {}
  BY <1>1 DEF Missing, Promised
<1>3. MissingSuccessors = {}
  BY <1>2 DEF MissingSuccessors
<1>4. /\ IsFiniteSet(Missing) /\ Cardinality(Missing) = 0
      /\ Cardinality(MissingSuccessors) = 0
  BY <1>2, <1>3, FS_EmptySet
<1>5. OneLossPerDeath
  BY <1>1, <1>4 DEF OneLossPerDeath, MissingSuccessors, Deaths
<1> QED
  BY <1>1, <1>4, <1>5, InvInit DEF ForgetInv, AddingPhase

(***************************************************************************)
(* What is promised is a task, and a promise is only forgotten with it.    *)
(***************************************************************************)
LEMMA PromisedType == ASSUME Inv PROVE Promised \subseteq Work
<1>1. ASSUME NEW i \in succeeded
      PROVE  NextTask(db[i].work) \in Work
  <2>1. db[i] \in Row
    BY DEF Inv, TypeInv, TypeOK, TaskListType
  <2>2. db[i].work \in Work
    BY <2>1 DEF Row
  <2> QED
    BY <2>2, NextTaskType
<1>2. ASSUME NEW p \in Project, repo[p] > 0
      PROVE  ChangeTask(p) \in Work
  BY <1>2 DEF ChangeTask, Work, Ref, Inv, TypeInv, TypeOK
<1> QED
  BY <1>1, <1>2 DEF Promised

LEMMA PromisedKept ==
    ASSUME Inv, WorkKept, UNCHANGED <<succeeded, repo>>
    PROVE  Promised' = Promised
<1>1. \A i \in succeeded : db'[i].work = db[i].work
  BY DEF Inv, WorkKept
<1>2. \A p : ChangeTask(p)' = ChangeTask(p)
  BY DEF ChangeTask
<1> QED
  BY <1>1, <1>2 DEF Promised

(* A row that tells of a task goes on telling of it.                       *)
LEMMA RecordedKept ==
    ASSUME WorkKept, NEW w, Recorded(w)
    PROVE  Recorded(w)'
<1>1. PICK i \in DOMAIN db : SameRun(w, db[i].work)
  BY DEF Recorded
<1>2. i \in DOMAIN db' /\ db'[i].work = db[i].work
  BY DEF WorkKept
<1> QED
  BY <1>1, <1>2 DEF Recorded

(* add leaves a row that tells of the task: a new one, or that of a queued *)
(* task that runs the same.                                                *)
LEMMA AddRecords ==
    ASSUME Inv, NEW w \in Work, Add(w)
    PROVE  WorkKept /\ Recorded(w)'
<1>1. CASE IsQueued(w)
  <2>1. UNCHANGED <<tasklist, db>>
    BY <1>1 DEF Add
  <2>2. PICK k \in DOMAIN tasklist : SameAs(w, tasklist[k])
    BY <1>1 DEF IsQueued
  <2>3. tasklist[k].id \in DOMAIN db /\ db[tasklist[k].id].work = tasklist[k].work
    BY DEF Inv, Backed, BackedBy
  <2>4. SameRun(w, tasklist[k].work)
    BY <2>2 DEF SameAs, SameJson, SameRun
  <2>5. Recorded(w)
    BY <2>3, <2>4 DEF Recorded
  <2>6. WorkKept
    BY <2>1 DEF WorkKept
  <2> QED
    BY <2>5, <2>6, RecordedKept
<1>2. CASE ~IsQueued(w)
  <2>0. db' = Append(db, NewRow(w)) /\ db \in Seq(Row) /\ NewRow(w) \in Row
    BY <1>2, NewTaskType DEF Add, Inv, TypeInv, TypeOK, TaskListType
  <2>1. /\ DOMAIN db' = 1 .. Len(db) + 1 /\ DOMAIN db = 1 .. Len(db) /\ Len(db) \in Nat
        /\ db'[Len(db) + 1] = NewRow(w)
        /\ \A i \in 1 .. Len(db) : db'[i] = db[i]
    BY <2>0, AppendProperties
  <2>2. WorkKept
    BY <2>1 DEF WorkKept
  <2>3. db'[Len(db) + 1].work = w
    BY <2>1 DEF NewRow
  <2>4. SameRun(w, w)
    BY DEF SameRun, SameId
  <2> QED
    BY <2>1, <2>2, <2>3, <2>4 DEF Recorded
<1> QED
  BY <1>1, <1>2

LEMMA DeathsType ==
    ASSUME TypeOK, AddingPhase
    PROVE  Deaths \in Nat /\ failed["fetch"] \in Nat
BY DEF TypeOK, AddingPhase, Deaths, FaultKind

LEMMA DeathsTypeAfter ==
    ASSUME TypeOK', AddingPhase'
    PROVE  Deaths' \in Nat /\ failed'["fetch"] \in Nat
<1>1. starts' \in Nat
  BY DEF TypeOK
<1>2. main' # "down" => starts' # 0
  BY DEF AddingPhase
<1>3. failed'["fetch"] \in Nat
  BY DEF TypeOK, FaultKind
<1>4. \A n \in Nat : n # 0 => n - 1 \in Nat
  OBVIOUS
<1>5. Deaths' \in Nat
  BY <1>1, <1>2, <1>4, Zenon DEF Deaths
<1> QED
  BY <1>3, <1>5

(* What ForgetInv says of the missing tasks, as numbers.                   *)
LEMMA MissingCounts ==
    ASSUME ForgetInv
    PROVE  /\ Deaths \in Nat /\ failed["fetch"] \in Nat
           /\ IsFiniteSet(MissingSuccessors) /\ Cardinality(MissingSuccessors) \in Nat
           /\ Cardinality(MissingSuccessors) <= Deaths
           /\ IsFiniteSet(Missing) /\ Cardinality(Missing) \in Nat
           /\ Cardinality(Missing) <= Deaths + failed["fetch"]
<1>1. Deaths \in Nat /\ failed["fetch"] \in Nat
  BY DeathsType DEF ForgetInv, Inv, TypeInv
<1>2. MissingSuccessors \in SUBSET Missing
  BY DEF MissingSuccessors
<1>3. /\ IsFiniteSet(Missing) /\ Cardinality(Missing) \in Nat
      /\ IsFiniteSet(MissingSuccessors) /\ Cardinality(MissingSuccessors) \in Nat
  BY <1>2, FS_Subset, FS_CardinalityType DEF ForgetInv
<1> QED
  BY <1>1, <1>3 DEF ForgetInv, Inv, OneLossPerDeath, MissingSuccessors

(* A step after which at most n tasks more are missing, s of them          *)
(* successors, keeps the bounds if it counts as many deaths and failures.  *)
LEMMA CountKept ==
    ASSUME Inv', AddingPhase', NEW A, NEW B,
           IsFiniteSet(A), Missing' \in SUBSET A,
           IsFiniteSet(B), MissingSuccessors' \in SUBSET B,
           Cardinality(A) <= Deaths' + failed'["fetch"], Cardinality(B) <= Deaths'
    PROVE  ForgetInv'
<1>1. /\ IsFiniteSet(Missing') /\ IsFiniteSet(MissingSuccessors')
      /\ Cardinality(Missing') <= Cardinality(A)
      /\ Cardinality(MissingSuccessors') <= Cardinality(B)
  BY FS_Subset
<1>2. /\ Cardinality(Missing') \in Nat /\ Cardinality(MissingSuccessors') \in Nat
      /\ Cardinality(A) \in Nat /\ Cardinality(B) \in Nat
  BY <1>1, FS_CardinalityType
<1>3. Deaths' \in Nat /\ failed'["fetch"] \in Nat
  BY DeathsTypeAfter DEF Inv, TypeInv
<1>4. /\ Cardinality(Missing') <= Deaths' + failed'["fetch"]
      /\ Cardinality(MissingSuccessors') <= Deaths'
  BY <1>1, <1>2, <1>3
<1>5. OneLossPerDeath'
  BY <1>4 DEF OneLossPerDeath, MissingSuccessors
<1> QED
  BY <1>1, <1>5 DEF ForgetInv

(***************************************************************************)
(* Steps that forget nothing: what they promise anew is about to be added, *)
(* and what was about to be added is recorded.                             *)
(***************************************************************************)
LEMMA NothingForgotten ==
    ASSUME ForgetInv, Inv', AddingPhase', WorkKept, Deaths' = Deaths,
           failed["fetch"] <= failed'["fetch"],
           \A w \in Promised' : w \in Promised \/ w = adding',
           \A w \in Work : w = adding => adding' = adding \/ Recorded(w)'
    PROVE  ForgetInv'
<1>1. Missing' \in SUBSET Missing
  <2> SUFFICES ASSUME NEW w \in Missing' PROVE w \in Missing
    OBVIOUS
  <2>1. w \in Promised' /\ ~Recorded(w)' /\ w # adding'
    BY DEF Missing
  <2>2. w \in Promised
    BY <2>1
  <2>3. ~Recorded(w)
    BY <2>1, RecordedKept
  <2>4. w # adding
    <3>1. w \in Work
      BY <2>2, PromisedType DEF ForgetInv
    <3> QED
      BY <2>1, <3>1
  <2> QED
    BY <2>2, <2>3, <2>4 DEF Missing
<1>2. MissingSuccessors' \in SUBSET MissingSuccessors
  BY <1>1 DEF MissingSuccessors
<1>3. failed'["fetch"] \in Nat
  BY DEF Inv, TypeInv, TypeOK, FaultKind
<1>4. Cardinality(Missing) <= Deaths' + failed'["fetch"]
  BY <1>3, MissingCounts
<1> QED
  BY <1>1, <1>2, <1>4, MissingCounts, CountKept

LEMMA ForgetFrame ==
    ASSUME ForgetInv, Inv', AddingPhase', WorkKept, Deaths' = Deaths,
           failed["fetch"] <= failed'["fetch"], UNCHANGED <<succeeded, repo, adding>>
    PROVE  ForgetInv'
BY PromisedKept, NothingForgotten DEF ForgetInv

LEMMA ForgetAdd ==
    ASSUME ForgetInv, Inv', AddingPhase', Deaths' = Deaths,
           failed["fetch"] <= failed'["fetch"], adding \in Work, Add(adding), UNCHANGED <<succeeded, repo>>
    PROVE  ForgetInv'
<1>1. PICK w \in Work : w = adding
  OBVIOUS
<1>2. WorkKept /\ Recorded(w)'
  BY <1>1, AddRecords DEF ForgetInv
<1>3. Promised' = Promised
  BY <1>2, PromisedKept DEF ForgetInv
<1> QED
  BY <1>1, <1>2, <1>3, NothingForgotten

(* With one element more a finite set is larger by one at most.            *)
LEMMA OneMore ==
    ASSUME NEW S, NEW x, IsFiniteSet(S)
    PROVE  /\ IsFiniteSet(S \cup {x})
           /\ Cardinality(S \cup {x}) <= Cardinality(S) + 1
           /\ Cardinality(S) \in Nat /\ Cardinality(S \cup {x}) \in Nat
<1>1. /\ IsFiniteSet(S \cup {x}) /\ Cardinality(S) \in Nat
      /\ Cardinality(S \cup {x}) = IF x \in S THEN Cardinality(S) ELSE Cardinality(S) + 1
  BY FS_AddElement, FS_CardinalityType
<1> QED
  BY <1>1, FS_CardinalityType

(* The process dies, and forgets what it was about to add.                 *)
LEMMA ForgetDeath ==
    ASSUME ForgetInv, Inv', main # "down", Stop, UNCHANGED <<db, starts, failed>>,
           Promised' = Promised
    PROVE  ForgetInv'
<1>1. Missing' \in SUBSET (Missing \cup {adding})
  BY DEF Missing, Recorded
<1>2. MissingSuccessors' \in SUBSET (MissingSuccessors \cup {adding})
  BY <1>1 DEF MissingSuccessors
<1>3. Deaths' = Deaths + 1
  BY DEF Deaths, Stop, ForgetInv, Inv, TypeInv, TypeOK
<1>4. AddingPhase'
  BY DEF Stop, AddingPhase
<1>5. /\ IsFiniteSet(Missing \cup {adding})
      /\ IsFiniteSet(MissingSuccessors \cup {adding})
      /\ Cardinality(Missing \cup {adding}) <= Deaths' + failed'["fetch"]
      /\ Cardinality(MissingSuccessors \cup {adding}) <= Deaths'
  <2>1. /\ IsFiniteSet(Missing \cup {adding})
        /\ Cardinality(Missing \cup {adding}) <= Cardinality(Missing) + 1
        /\ Cardinality(Missing \cup {adding}) \in Nat
    BY MissingCounts, OneMore
  <2>2. /\ IsFiniteSet(MissingSuccessors \cup {adding})
        /\ Cardinality(MissingSuccessors \cup {adding}) <= Cardinality(MissingSuccessors) + 1
        /\ Cardinality(MissingSuccessors \cup {adding}) \in Nat
    BY MissingCounts, OneMore
  <2> QED
    BY <1>3, <2>1, <2>2, MissingCounts
<1> QED
  BY <1>1, <1>2, <1>4, <1>5, CountKept

(* A fetch fails, and the commit it brought is not reported: a first task, *)
(* and no successor, is missing.                                           *)
LEMMA ForgetFetch ==
    ASSUME ForgetInv, Inv', AddingPhase', Deaths' = Deaths, NEW p \in Project,
           repo' = [repo EXCEPT ![p] = upstream[p]], Fail("fetch"),
           UNCHANGED <<db, succeeded, adding>>
    PROVE  ForgetInv'
<1> DEFINE change == [project |-> p, index |-> 0, env |-> repo'[p]]
<1>0. TypeOK /\ "fetch" \in FaultKind
  BY DEF ForgetInv, Inv, TypeInv, FaultKind
<1>1. \A w : Recorded(w)' = Recorded(w)
  BY DEF Recorded
<1>2. \A w \in Promised' : w \in Promised \/ w = change
  <2> SUFFICES ASSUME NEW w \in Promised', w \notin Promised PROVE w = change
    OBVIOUS
  <2>1. PICK x \in Project : repo'[x] > 0 /\ Tasks[x] # <<>> /\ w = ChangeTask(x)'
    BY DEF Promised
  <2>2. w = [project |-> x, index |-> 0, env |-> repo'[x]]
    BY <2>1 DEF ChangeTask
  <2>3. repo'[x] # repo[x]
    <3> SUFFICES ASSUME repo'[x] = repo[x] PROVE FALSE
      OBVIOUS
    <3>1. w = ChangeTask(x)
      BY <2>2 DEF ChangeTask
    <3> QED
      BY <2>1, <3>1 DEF Promised
  <2>4. x = p
    BY <1>0, <2>3 DEF TypeOK
  <2> QED
    BY <2>2, <2>4
<1>3. change.index = 0
  OBVIOUS
<1> HIDE DEF change
<1>4. Missing' \in SUBSET (Missing \cup {change})
  BY <1>1, <1>2 DEF Missing
<1>5. MissingSuccessors' \in SUBSET MissingSuccessors
  BY <1>3, <1>4 DEF MissingSuccessors
<1>6. failed'["fetch"] = failed["fetch"] + 1
  BY <1>0, FailShows
<1>7. /\ IsFiniteSet(Missing \cup {change})
      /\ Cardinality(Missing \cup {change}) <= Cardinality(Missing) + 1
      /\ Cardinality(Missing \cup {change}) \in Nat
  BY MissingCounts, OneMore
<1>8. Cardinality(Missing \cup {change}) <= Deaths' + failed'["fetch"]
  BY <1>6, <1>7, MissingCounts
<1> QED
  BY <1>4, <1>5, <1>7, <1>8, MissingCounts, CountKept

LEMMA ForgetStep == ASSUME ForgetInv, [Next]_vars, Intact' PROVE ForgetInv'
<1>0. /\ Inv /\ Inv' /\ TypeOK /\ TaskListType
      /\ failed["fetch"] <= failed'["fetch"]
  BY InvStep, FailedGrows DEF ForgetInv, Inv, TypeInv, TypeOK, FaultKind
<1> USE DEF coreVars, history
<1>1. ASSUME UNCHANGED <<db, succeeded, repo, adding, main, starts>>
      PROVE  ForgetInv'
  <2>1. WorkKept /\ AddingPhase' /\ Deaths' = Deaths
    BY <1>1 DEF WorkKept, AddingPhase, Deaths, ForgetInv
  <2> QED
    BY <1>0, <1>1, <2>1, ForgetFrame
<1>2. ASSUME NEW p \in Project, Push(p)
      PROVE  ForgetInv'
  BY <1>1, <1>2 DEF Push
<1>3. ASSUME NEW r \in Runner, RunnerStep(r) \/ RefuseTask(r) \/ IgnoreResult(r)
      PROVE  ForgetInv'
  BY <1>1, <1>3 DEF RunnerStep, AskTask, SendResult, Ask, LoseQuery, RunnerLost,
                    RefuseTask, IgnoreResult
<1>4. CASE UNCHANGED vars
  BY <1>1, <1>4 DEF vars
<1>5. CASE Start
  <2>1. /\ main = "down" /\ main' = "poll" /\ starts' = starts + 1 /\ starts \in Nat
        /\ UNCHANGED <<db, succeeded, repo, adding>>
    BY <1>0, <1>5, IntactSteps DEF Start, Restore, RestorePartly, TypeOK
  <2>2. WorkKept /\ AddingPhase' /\ Deaths' = Deaths
    BY <2>1 DEF WorkKept, AddingPhase, Deaths, ForgetInv
  <2> QED
    BY <1>0, <2>1, <2>2, ForgetFrame
<1>6. CASE StartCheck \/ EndCheck
  <2>1. /\ main \in {"poll", "check"} /\ main' \in {"poll", "check"}
        /\ adding = None /\ UNCHANGED <<db, succeeded, repo, adding, starts>>
    BY <1>6 DEF StartCheck, EndCheck, ForgetInv, AddingPhase
  <2>2. WorkKept /\ AddingPhase' /\ Deaths' = Deaths
    BY <2>1 DEF WorkKept, AddingPhase, Deaths, ForgetInv
  <2> QED
    BY <1>0, <2>1, <2>2, ForgetFrame
<1>7. ASSUME NEW p \in Project, FetchProject(p)
      PROVE  ForgetInv'
  <2>1. /\ main = "check" /\ adding = None
        /\ UNCHANGED <<tasklist, db, succeeded, main, starts>>
    BY <1>7 DEF FetchProject
  <2>2. CASE UNCHANGED <<repo, adding>>
    BY <1>1, <2>1, <2>2
  <2>3. CASE /\ repo[p] # upstream[p]
             /\ repo' = [repo EXCEPT ![p] = upstream[p]]
             /\ adding' = FirstTask(p)
    <3>1. WorkKept /\ Deaths' = Deaths
      BY <2>1 DEF WorkKept, Deaths
    <3>2. AddingPhase'
      BY <2>1, <2>3 DEF AddingPhase, ForgetInv, FirstTask
    <3>3. ASSUME NEW w \in Promised', w \notin Promised
          PROVE  w = adding'
      <4>1. PICK x \in Project : repo'[x] > 0 /\ Tasks[x] # <<>> /\ w = ChangeTask(x)'
        BY <2>1, <3>3 DEF Promised
      <4>2. w = [project |-> x, index |-> 0, env |-> repo'[x]]
        BY <4>1 DEF ChangeTask
      <4>3. repo'[x] # repo[x]
        <5> SUFFICES ASSUME repo'[x] = repo[x] PROVE FALSE
          OBVIOUS
        <5>1. w = ChangeTask(x)
          BY <4>2 DEF ChangeTask
        <5> QED
          BY <3>3, <4>1, <5>1 DEF Promised
      <4>4. x = p /\ repo'[p] = upstream[p]
        BY <1>0, <2>3, <4>3 DEF TypeOK
      <4> QED
        BY <2>3, <4>2, <4>4 DEF FirstTask
    <3> QED
      BY <1>0, <2>1, <3>1, <3>2, <3>3, NoneIsNothing, NothingForgotten
  <2>4. CASE /\ repo' = [repo EXCEPT ![p] = upstream[p]]
             /\ Fail("fetch") /\ UNCHANGED adding
    <3>1. AddingPhase' /\ Deaths' = Deaths
      BY <2>1, <2>4 DEF AddingPhase, Deaths, ForgetInv
    <3> QED
      BY <1>0, <2>1, <2>4, <3>1, ForgetFetch
  <2> QED
    BY <1>7, <2>2, <2>3, <2>4 DEF FetchProject
<1>8. ASSUME NEW p \in Project, FetchForNothing(p)
      PROVE  ForgetInv'
  <2>1. /\ main # "down" /\ Stop /\ UNCHANGED <<db, starts, failed, succeeded>>
        /\ Tasks[p] = <<>> /\ \A x \in Project : x # p => repo'[x] = repo[x]
    BY <1>0, <1>8 DEF FetchForNothing, TypeOK
  <2>2. Promised' = Promised
    BY <2>1 DEF Promised, ChangeTask
  <2> QED
    BY <1>0, <2>1, <2>2, ForgetDeath
<1>9. CASE AddFound
  <2>1. /\ adding \in Work /\ Add(adding) /\ adding' = None
        /\ UNCHANGED <<main, starts, succeeded, repo>>
    BY <1>0, <1>9, IntactSteps DEF AddFound, TypeOK
  <2>2. AddingPhase' /\ Deaths' = Deaths
    BY <2>1 DEF AddingPhase, Deaths, ForgetInv
  <2> QED
    BY <1>0, <2>1, <2>2, ForgetAdd
<1>10. ASSUME NEW r \in Runner, NEW i \in DOMAIN tasklist, HandOut(r, i)
       PROVE  ForgetInv'
  BY <1>1, <1>10 DEF HandOut, Get
<1>11. ASSUME main # "down", Die
       PROVE  ForgetInv'
  <2>1. Stop /\ UNCHANGED <<db, starts, failed, succeeded, repo>>
    BY <1>11 DEF Die
  <2>2. Promised' = Promised
    BY <2>1 DEF Promised, ChangeTask
  <2> QED
    BY <1>0, <1>11, <2>1, <2>2, ForgetDeath
<1>12. ASSUME NEW r \in Runner, Abort(r)
       PROVE  ForgetInv'
  <2>1. job[r].id \in Nat
    BY <1>0, <1>12, ResultJob DEF Abort, Result, Receives, Query
  <2>2. /\ UpdateStatus(job[r].id, task_aborted)
        /\ UNCHANGED <<main, adding, repo, succeeded, starts>>
    BY <1>12 DEF Abort
  <2>3. WorkKept
    BY <1>0, <2>1, <2>2, UpdateEffect
  <2>4. AddingPhase' /\ Deaths' = Deaths
    BY <2>2 DEF AddingPhase, Deaths, ForgetInv
  <2> QED
    BY <1>0, <2>2, <2>3, <2>4, ForgetFrame
<1>13. ASSUME NEW r \in Runner, Succeed(r)
       PROVE  ForgetInv'
  <2>1. job[r] \in Job /\ job[r].id \in Nat /\ job[r].work \in Work
    BY <1>0, <1>13, ResultJob DEF Succeed, Result, Receives, Query
  <2>2. /\ UpdateStatus(job[r].id, task_done)
        /\ succeeded' = succeeded \cup {job[r].id}
        /\ UNCHANGED <<repo, starts>> /\ main = "poll"
    BY <1>13 DEF Succeed, Result, Receives
  <2>3. WorkKept
    BY <1>0, <2>1, <2>2, UpdateEffect
  <2>4. job[r].id \in DOMAIN db /\ db[job[r].id].work = job[r].work
    BY <1>0, <2>1, NoneIsNothing DEF Inv, Backed, BackedBy
  <2>5. adding = None
    BY <2>2 DEF ForgetInv, AddingPhase
  <2>6. /\ main' \in {"poll", "report"}
        /\ main' = "poll" => adding' = None
        /\ HasNext(job[r].work) => adding' = NextTask(job[r].work)
    BY <1>13, <2>2, <2>5 DEF Succeed
  <2>7. AddingPhase' /\ Deaths' = Deaths
    BY <2>2, <2>6 DEF AddingPhase, Deaths, ForgetInv
  <2>8. ASSUME NEW w \in Promised', w \notin Promised
        PROVE  w = adding'
    <3>1. \A p : ChangeTask(p)' = ChangeTask(p)
      BY <2>2 DEF ChangeTask
    <3>2. PICK i \in succeeded' : HasNext(db'[i].work) /\ w = NextTask(db'[i].work)
      BY <2>2, <2>8, <3>1 DEF Promised
    <3>3. i \in DOMAIN db /\ db'[i].work = db[i].work
      BY <1>0, <2>2, <2>3, <2>4 DEF Inv, WorkKept
    <3>4. i = job[r].id
      BY <2>2, <2>8, <3>2, <3>3 DEF Promised
    <3> QED
      BY <2>4, <2>6, <3>2, <3>3, <3>4
  <2> QED
    BY <1>0, <2>3, <2>5, <2>7, <2>8, NoneIsNothing, NothingForgotten
<1>14. CASE AddNext
  <2>1. /\ adding \in Work /\ Add(adding) /\ adding' = None /\ main = "report"
        /\ main' = "poll" /\ UNCHANGED <<starts, succeeded, repo>>
    BY <1>0, <1>14, IntactSteps DEF AddNext, Inv, TypeInv, Phase
  <2>2. AddingPhase' /\ Deaths' = Deaths
    BY <2>1 DEF AddingPhase, Deaths, ForgetInv
  <2> QED
    BY <1>0, <2>1, <2>2, ForgetAdd
<1> QED
  BY <1>2, <1>3, <1>4, <1>5, <1>6, <1>7, <1>8, <1>9, <1>10, <1>11, <1>12, <1>13,
     <1>14
     DEF Next, Serve, CheckStep, Crash, HandOutOrphan, Receives

LEMMA NeverMoreForgotten == Spec => [](TypeInv /\ (Intact => ForgetInv))
<1>1. Init => TypeInv /\ (Intact => ForgetInv)
  BY TypeInit, ForgetInit
<1>2. TypeInv /\ (Intact => ForgetInv) /\ [Next]_vars
        => (TypeInv /\ (Intact => ForgetInv))'
  BY TypeStep, IntactBefore, ForgetStep DEF TypeInv
<1> QED
  BY <1>1, <1>2, PTL DEF Spec
-----------------------------------------------------------------------------
(* Each life of the process forgets at most one task that it owes: the one *)
(* it was about to add when it died (between yacad_scm fetch and the add   *)
(* of the check handler, or between set_task_done and the add of the       *)
(* result handler).  A fetch that fails in its last stage costs one more,  *)
(* a first task; selects and updates that fail, lost messages and lost     *)
(* runners cost none.                                                      *)
THEOREM ForgetsOnePerDeath == Spec => []OneLossPerDeath
<1>1. TypeInv /\ (Intact => ForgetInv) => OneLossPerDeath
  BY DEF ForgetInv, OneLossPerDeath
<1> QED
  BY <1>1, NeverMoreForgotten, PTL

(* In the first life no successor is missing, and no change either if no   *)
(* fetch failed.                                                           *)
LEMMA NothingMissing ==
    ASSUME ForgetInv, starts <= 1, main # "down", NEW w \in Promised, w # adding,
           w.index > 0 \/ failed["fetch"] = 0
    PROVE  Recorded(w)
<1>1. starts \in Nat
  BY DEF ForgetInv, Inv, TypeInv, TypeOK
<1>2. Deaths = 0
  BY <1>1 DEF Deaths, ForgetInv, AddingPhase
<1>3. CASE w.index > 0
  <2>1. MissingSuccessors = {}
    BY <1>2, MissingCounts, FS_EmptySet
  <2> QED
    BY <1>3, <2>1 DEF MissingSuccessors, Missing
<1>4. CASE failed["fetch"] = 0
  <2>1. Missing = {}
    BY <1>2, <1>4, MissingCounts, FS_EmptySet
  <2> QED
    BY <2>1 DEF Missing
<1> QED
  BY <1>3, <1>4

(* As long as the core does not restart, every success that has a          *)
(* successor has, after the handler, left a row that runs it, unless an    *)
(* insert failed or the table was dropped.                                 *)
THEOREM SuccessorsRecorded == Spec => []SuccessorRecorded
<1>1. Intact /\ ForgetInv => SuccessorRecorded
  <2> SUFFICES ASSUME ForgetInv, starts <= 1, main \notin {"down", "report"},
                      NEW i \in succeeded, HasNext(db[i].work)
               PROVE  Recorded(NextTask(db[i].work))
    BY DEF SuccessorRecorded
  <2>1. db[i].work \in Work /\ main \in {"poll", "check"}
    <3>1. db[i] \in Row
      BY DEF ForgetInv, Inv, TypeInv, TypeOK, TaskListType
    <3> QED
      BY <3>1 DEF Row, ForgetInv, Inv, TypeInv, TypeOK
  <2>2. NextTask(db[i].work) \in Work /\ NextTask(db[i].work).index > 0
    BY <2>1, NextTaskType
  <2>3. NextTask(db[i].work) # adding
    BY <2>1, <2>2, NoneIsNothing DEF ForgetInv, AddingPhase
  <2>4. NextTask(db[i].work) \in Promised
    BY DEF Promised
  <2> QED
    BY <2>2, <2>3, <2>4, NothingMissing
<1>2. TypeInv /\ (Intact => ForgetInv) => SuccessorRecorded
  BY <1>1 DEF SuccessorRecorded
<1> QED
  BY <1>2, NeverMoreForgotten, PTL

(* ... and the commit that a clone stands at has a row that builds it, or  *)
(* is the one the check handler is about to add, unless an insert or a     *)
(* fetch failed or the table was dropped.                                  *)
THEOREM ChangesRecorded == Spec => []ChangeRecorded
<1>1. Intact /\ ForgetInv => ChangeRecorded
  <2> SUFFICES ASSUME ForgetInv, failed["fetch"] = 0, starts <= 1, main # "down",
                      NEW p \in Project, repo[p] > 0, Tasks[p] # <<>>,
                      adding # ChangeTask(p)
               PROVE  Recorded(ChangeTask(p))
    BY DEF ChangeRecorded
  <2>1. ChangeTask(p) \in Promised
    BY DEF Promised
  <2> QED
    BY <2>1, NothingMissing
<1>2. TypeInv /\ (Intact => ForgetInv) => ChangeRecorded
  BY <1>1 DEF ChangeRecorded
<1> QED
  BY <1>2, NeverMoreForgotten, PTL
-----------------------------------------------------------------------------
(***************************************************************************)
(* Tasks that succeeded and come back.  The invariant counts, with the     *)
(* rows of which that is true already, the ids of which it may come true:  *)
(* ids that no row has, and that a task in the queue, a runner, or the     *)
(* record of a success holds.  The next row may get such an id.            *)
(***************************************************************************)
Told ==
    {tasklist[k].id : k \in DOMAIN tasklist}
      \cup {job[r].id : r \in {x \in Runner : job[x] # None}}

Phantom ==
    {i \in succeeded : i \in DOMAIN db => db[i].status = task_new}
      \cup (Told \ DOMAIN db)

PhantomInv ==
    /\ IsFiniteSet(Phantom)
    /\ Cardinality(Phantom) <= failed["update"] + failed["insert"]

RevivedInv == TypeInv /\ (failed["version"] = 0 => PhantomInv)

LEMMA RevivedInit == Init => RevivedInv
<1> SUFFICES ASSUME Init PROVE RevivedInv
  OBVIOUS
<1>1. tasklist = <<>> /\ succeeded = {} /\ \A r \in Runner : job[r] = None
  BY DEF Init, InitTaskList
<1>2. Phantom = {}
  BY <1>1 DEF Phantom, Told
<1>3. IsFiniteSet(Phantom) /\ Cardinality(Phantom) = 0
  BY <1>2, FS_EmptySet
<1>4. failed["update"] = 0 /\ failed["insert"] = 0
  BY DEF Init, FaultKind
<1> QED
  BY <1>3, <1>4, TypeInit DEF RevivedInv, PhantomInv

(* The numbers that the bound is made of.                                  *)
LEMMA WriteCounts ==
    ASSUME TypeOK, [Next]_vars
    PROVE  /\ failed["update"] \in Nat /\ failed'["update"] \in Nat
           /\ failed["insert"] \in Nat /\ failed'["insert"] \in Nat
           /\ failed["update"] <= failed'["update"]
           /\ failed["insert"] <= failed'["insert"]
<1>1. "update" \in FaultKind /\ "insert" \in FaultKind
  BY DEF FaultKind
<1> QED
  BY <1>1, FailedGrows

(* Steps that make no id a phantom,                                        *)
LEMMA NoPhantom ==
    ASSUME TypeOK, [Next]_vars, PhantomInv, Phantom' \in SUBSET Phantom
    PROVE  PhantomInv'
<1>1. /\ IsFiniteSet(Phantom') /\ Cardinality(Phantom') <= Cardinality(Phantom)
      /\ Cardinality(Phantom) \in Nat /\ Cardinality(Phantom') \in Nat
  BY FS_Subset, FS_CardinalityType DEF PhantomInv
<1> QED
  BY <1>1, WriteCounts DEF PhantomInv

(* and steps that make one, and fail to write.                             *)
LEMMA OnePhantom ==
    ASSUME TypeOK, [Next]_vars, PhantomInv, Fail("update") \/ Fail("insert"),
           NEW i, Phantom' \in SUBSET (Phantom \cup {i})
    PROVE  PhantomInv'
<1>1. /\ IsFiniteSet(Phantom \cup {i})
      /\ Cardinality(Phantom \cup {i}) <= Cardinality(Phantom) + 1
      /\ Cardinality(Phantom) \in Nat /\ Cardinality(Phantom \cup {i}) \in Nat
  BY OneMore DEF PhantomInv
<1>2. /\ IsFiniteSet(Phantom') /\ Cardinality(Phantom') \in Nat
      /\ Cardinality(Phantom') <= Cardinality(Phantom \cup {i})
  BY <1>1, FS_Subset, FS_CardinalityType
<1>3. \/ failed'["update"] = failed["update"] + 1
      \/ failed'["insert"] = failed["insert"] + 1
  BY FailShows DEF FaultKind
<1> QED
  BY <1>1, <1>2, <1>3, WriteCounts DEF PhantomInv

(* Nobody is told an id but from the queue, and the table is left alone.   *)
LEMMA PhantomFrame ==
    ASSUME TypeOK, [Next]_vars, PhantomInv, UNCHANGED <<db, succeeded>>,
           Told' \subseteq Told \cup DOMAIN db
    PROVE  PhantomInv'
<1>1. Phantom' \in SUBSET Phantom
  BY DEF Phantom
<1> QED
  BY <1>1, NoPhantom

(* The ids in the queue and with the runners after a step.                 *)
LEMMA ToldAfter ==
    ASSUME NEW S,
           \A k \in DOMAIN tasklist' : tasklist'[k].id \in S,
           \A r \in Runner : job'[r] # None => job'[r].id \in S
    PROVE  Told' \subseteq S
BY DEF Told

LEMMA ToldNow ==
    /\ \A k \in DOMAIN tasklist : tasklist[k].id \in Told
    /\ \A r \in Runner : job[r] # None => job[r].id \in Told
BY DEF Told

LEMMA ToldKept ==
    ASSUME tasklist' \in {tasklist, <<>>},
           \A r \in Runner : job'[r] = job[r] \/ job'[r] = None
    PROVE  Told' \subseteq Told
BY DEF Told

(* A new row is new, and takes its id from those that no row has.          *)
LEMMA PhantomAdd ==
    ASSUME TypeOK, [Next]_vars, PhantomInv, NEW w \in Work, Add(w),
           succeeded' = succeeded,
           \A r \in Runner : job'[r] = job[r] \/ job'[r] = None
    PROVE  PhantomInv'
<1>1. /\ TaskListType /\ db \in Seq(Row) /\ tasklist \in Seq(QueuedTask)
      /\ Len(db) \in Nat /\ DOMAIN db = 1 .. Len(db)
  BY DEF TypeOK, TaskListType
<1>2. CASE UNCHANGED <<tasklist, db>>
  BY <1>2, ToldKept, PhantomFrame
<1>3. CASE /\ db' = Append(db, NewRow(w))
           /\ tasklist' = Append(tasklist, NewTask(Len(db) + 1, w))
  <2> DEFINE t == NewTask(Len(db) + 1, w)
  <2>0. t \in QueuedTask /\ NewRow(w) \in Row
    BY <1>1, NewTaskType
  <2>1. t \in QueuedTask /\ NewRow(w) \in Row /\ t.id = Len(db) + 1
    BY <2>0 DEF NewTask
  <2> HIDE DEF t
  <2>2. /\ DOMAIN db' = 1 .. Len(db) + 1 /\ \A i \in 1 .. Len(db) : db'[i] = db[i]
    BY <1>1, <1>3, <2>1, AppendProperties
  <2>3. \A k \in DOMAIN tasklist' : k \in DOMAIN tasklist \/ tasklist'[k] = t
    BY <1>1, <1>3, <2>1, AppendProperties DEF t
  <2>4. \A k \in DOMAIN tasklist : tasklist'[k] = tasklist[k]
    BY <1>1, <1>3, <2>1, AppendProperties DEF t
  <2>5. Told' \subseteq Told \cup {Len(db) + 1}
    <3>1. \A k \in DOMAIN tasklist' : tasklist'[k].id \in Told \cup {Len(db) + 1}
      BY <2>1, <2>3, <2>4, ToldNow
    <3>2. \A r \in Runner : job'[r] # None => job'[r].id \in Told \cup {Len(db) + 1}
      BY ToldNow
    <3> QED
      BY <3>1, <3>2, ToldAfter
  <2>6. DOMAIN db \subseteq DOMAIN db' /\ Len(db) + 1 \in DOMAIN db'
    BY <1>1, <2>2
  <2>7. Phantom' \in SUBSET Phantom
    BY <1>1, <2>2, <2>5, <2>6 DEF Phantom
  <2> QED
    BY <2>7, NoPhantom
<1> QED
  BY <1>1, <1>2, <1>3, AddEffect

(* A task that is queued without a row, under some id.                     *)
LEMMA PhantomUnsaved ==
    ASSUME TypeOK, [Next]_vars, PhantomInv, NEW w \in Work, AddUnsaved(w),
           Fail("insert"), succeeded' = succeeded,
           \A r \in Runner : job'[r] = job[r] \/ job'[r] = None
    PROVE  PhantomInv'
<1>1. TaskListType /\ tasklist \in Seq(QueuedTask)
  BY DEF TypeOK, TaskListType
<1>2. PICK i \in 0 .. Len(db) + 1 : tasklist' = Append(tasklist, NewTask(i, w))
  BY DEF AddUnsaved
<1> DEFINE t == NewTask(i, w)
<1>3. t \in QueuedTask /\ t.id = i
  BY NewTaskType DEF NewTask
<1> HIDE DEF t
<1>4. \A k \in DOMAIN tasklist' : k \in DOMAIN tasklist \/ tasklist'[k] = t
  BY <1>1, <1>2, <1>3, AppendProperties DEF t
<1>5. \A k \in DOMAIN tasklist : tasklist'[k] = tasklist[k]
  BY <1>1, <1>2, <1>3, AppendProperties DEF t
<1>6. Told' \subseteq Told \cup {i}
  <2>1. \A k \in DOMAIN tasklist' : tasklist'[k].id \in Told \cup {i}
    BY <1>3, <1>4, <1>5, ToldNow
  <2>2. \A r \in Runner : job'[r] # None => job'[r].id \in Told \cup {i}
    BY ToldNow
  <2> QED
    BY <2>1, <2>2, ToldAfter
<1>7. db' = db
  BY DEF AddUnsaved
<1>8. Phantom' \in SUBSET (Phantom \cup {i})
  BY <1>6, <1>7 DEF Phantom
<1> QED
  BY <1>8, OnePhantom

LEMMA PhantomAddTask ==
    ASSUME TypeOK, [Next]_vars, PhantomInv, NEW w \in Work, AddTask(w),
           succeeded' = succeeded,
           \A r \in Runner : job'[r] = job[r] \/ job'[r] = None
    PROVE  PhantomInv'
BY PhantomAdd, PhantomUnsaved DEF AddTask

(* A result marks its row, or fails to.                                    *)
LEMMA PhantomUpdate ==
    ASSUME TypeOK, [Next]_vars, PhantomInv, NEW r \in Runner, job[r] # None,
           NEW s \in {task_done, task_aborted}, UpdateStatus(job[r].id, s),
           succeeded' \subseteq succeeded \cup {job[r].id},
           \A x \in Runner : job'[x] = job[x] \/ job'[x] = None
    PROVE  PhantomInv'
<1> DEFINE i == job[r].id
<1>1. i \in Told
  BY ToldNow
<1> HIDE DEF i
<1>2. tasklist' = tasklist /\ Told' \subseteq Told
  BY ToldKept DEF UpdateStatus, UpdateTaskStatus
<1>3. CASE UpdateTaskStatus(i, s)
  <2>1. /\ DOMAIN db' = DOMAIN db
        /\ \A k \in DOMAIN db : k # i => db'[k] = db[k]
    BY <1>3 DEF UpdateTaskStatus
  <2>2. i \in DOMAIN db => db'[i].status # task_new
    <3> SUFFICES ASSUME i \in DOMAIN db PROVE db'[i].status # task_new
      OBVIOUS
    <3>1. db[i] \in Row /\ s # task_new
      BY DEF TypeOK, TaskListType
    <3>2. db' = [db EXCEPT ![i].status = s]
      BY <1>3 DEF UpdateTaskStatus
    <3>3. db'[i].status = s
      BY <3>1, <3>2 DEF Row
    <3> QED
      BY <3>1, <3>3
  <2>3. Phantom' \in SUBSET Phantom
    BY <1>1, <1>2, <2>1, <2>2 DEF Phantom, i
  <2> QED
    BY <2>3, NoPhantom
<1>4. CASE UNCHANGED <<tasklist, db>> /\ Fail("update")
  <2>1. Phantom' \in SUBSET (Phantom \cup {i})
    BY <1>2, <1>4 DEF Phantom, i
  <2> QED
    BY <1>4, <2>1, OnePhantom
<1> QED
  BY <1>3, <1>4 DEF UpdateStatus, i

LEMMA RevivedStep == RevivedInv /\ [Next]_vars => RevivedInv'
<1> SUFFICES ASSUME RevivedInv, [Next]_vars, failed'["version"] = 0
             PROVE  PhantomInv'
  BY TypeStep DEF RevivedInv
<1>0. /\ TypeInv /\ TypeOK /\ TaskListType /\ PhantomInv
      /\ job \in [Runner -> Job \cup {None}] /\ "version" \in FaultKind
  <2>1. TypeInv /\ TypeOK /\ "version" \in FaultKind
    BY DEF RevivedInv, TypeInv, FaultKind
  <2>2. failed["version"] = 0
    BY <2>1, FailedGrows
  <2> QED
    BY <2>1, <2>2 DEF RevivedInv, TypeOK
<1> USE DEF coreVars, history
<1>1. ASSUME UNCHANGED <<db, succeeded>>, tasklist' \in {tasklist, <<>>},
             \A r \in Runner : job'[r] = job[r] \/ job'[r] = None
      PROVE  PhantomInv'
  BY <1>0, <1>1, ToldKept, PhantomFrame
<1>2. ASSUME NEW p \in Project, Push(p) \/ FetchProject(p) \/ FetchForNothing(p)
      PROVE  PhantomInv'
  BY <1>1, <1>2 DEF Push, FetchProject, FetchForNothing, Stop
<1>3. ASSUME NEW r \in Runner, RunnerStep(r) \/ IgnoreResult(r) \/ RefuseTask(r)
      PROVE  PhantomInv'
  <2>1. UNCHANGED <<db, succeeded, tasklist>>
    BY <1>3 DEF RunnerStep, AskTask, SendResult, Ask, LoseQuery, RunnerLost,
                IgnoreResult, RefuseTask
  <2>2. \A x \in Runner : job'[x] = job[x] \/ job'[x] = None
    BY <1>0, <1>3 DEF RunnerStep, AskTask, SendResult, Ask, LoseQuery, RunnerLost,
                      IgnoreResult, RefuseTask, Reply
  <2> QED
    BY <1>1, <2>1, <2>2
<1>4. CASE Start
  <2>1. ~Fail("version")
    BY <1>0, FailShows
  <2>2. (Restore \/ RestorePartly) /\ UNCHANGED <<job, succeeded>>
    BY <1>4, <2>1 DEF Start
  <2>3. /\ db' = db
        /\ \A k \in DOMAIN tasklist' : \E i \in NewIds : tasklist'[k] = RestoredTask(i)
    BY <1>0, <2>2, RestoreProperties
  <2>4. \A k \in DOMAIN tasklist' : tasklist'[k].id \in DOMAIN db
    BY <2>3 DEF NewIds, RestoredTask
  <2>5. Told' \subseteq Told \cup DOMAIN db
    BY <2>2, <2>4, ToldNow, ToldAfter
  <2> QED
    BY <1>0, <2>2, <2>3, <2>5, PhantomFrame
<1>5. ASSUME Die
      PROVE  PhantomInv'
  BY <1>1, <1>5 DEF Die, Stop
<1>6. CASE StartCheck \/ EndCheck \/ UNCHANGED vars
  BY <1>1, <1>6 DEF StartCheck, EndCheck, vars
<1>7. CASE AddFound
  <2>1. adding \in Work /\ AddTask(adding) /\ UNCHANGED <<succeeded, job>>
    BY <1>0, <1>7 DEF AddFound, TypeOK
  <2> QED
    BY <1>0, <2>1, PhantomAddTask
<1>8. ASSUME NEW r \in Runner, NEW i \in DOMAIN tasklist, HandOut(r, i)
      PROVE  PhantomInv'
  <2> DEFINE j == [id |-> tasklist[i].id, work |-> tasklist[i].work]
  <2>1. /\ tasklist' = RemoveAt(tasklist, i) /\ tasklist \in Seq(QueuedTask)
        /\ UNCHANGED <<db, succeeded>> /\ Reply(r, j)
    BY <1>0, <1>8 DEF HandOut, Get, TaskListType
  <2>2. \A k \in DOMAIN tasklist' : \E l \in DOMAIN tasklist : tasklist'[k] = tasklist[l]
    BY <2>1, RemoveAtElements
  <2>3. \A x \in Runner : job'[x] = job[x] \/ job'[x] = j
    BY <1>0, <2>1, ReplyJob
  <2>4. j.id \in Told
    BY ToldNow
  <2> HIDE DEF j
  <2>5. Told' \subseteq Told
    BY <2>2, <2>3, <2>4, ToldNow, ToldAfter
  <2> QED
    BY <1>0, <2>1, <2>5, PhantomFrame
<1>9. ASSUME NEW r \in Runner, Abort(r) \/ Succeed(r)
      PROVE  PhantomInv'
  <2>1. job[r] # None
    BY <1>0, <1>9, ResultJob, NoneIsNothing
       DEF Abort, Succeed, Result, Receives, Query
  <2>2. \E s \in {task_done, task_aborted} : UpdateStatus(job[r].id, s)
    BY <1>9 DEF Abort, Succeed
  <2>3. succeeded' \subseteq succeeded \cup {job[r].id}
    BY <1>9 DEF Abort, Succeed
  <2>4. \A x \in Runner : job'[x] = job[x] \/ job'[x] = None
    BY <1>0, <1>9, ReplyJob DEF Abort, Succeed
  <2> QED
    BY <1>0, <2>1, <2>2, <2>3, <2>4, PhantomUpdate
<1>10. CASE AddNext
  <2>1. adding \in Work /\ owed \in Runner /\ succeeded' = succeeded
    BY <1>0, <1>10 DEF AddNext, TypeInv, Phase
  <2>2. AddTask(adding) /\ Reply(owed, None)
    BY <1>10 DEF AddNext
  <2>3. \A x \in Runner : job'[x] = job[x] \/ job'[x] = None
    BY <1>0, <2>1, <2>2, ReplyJob
  <2> QED
    BY <1>0, <2>1, <2>2, <2>3, PhantomAddTask
<1> QED
  BY <1>2, <1>3, <1>4, <1>5, <1>6, <1>7, <1>8, <1>9, <1>10
     DEF Next, Serve, CheckStep, Crash, HandOutOrphan

(* At most as many of the tasks that succeeded have a row that is still,   *)
(* or again, new, and so are run again after the next start, as UPDATE and *)
(* INSERT statements failed (run_insert and update_status of the task      *)
(* list), over all the lives of the core that find their table.            *)
THEOREM RevivedOnlyByFailure == Spec => []RevivedByFailure
<1>1. RevivedInv => RevivedByFailure
  <2> SUFFICES ASSUME RevivedInv, failed["version"] = 0
               PROVE  Cardinality(Revived) <= failed["update"] + failed["insert"]
    BY DEF RevivedByFailure
  <2>1. PhantomInv /\ failed["update"] \in Nat /\ failed["insert"] \in Nat
    BY DEF RevivedInv, TypeInv, TypeOK, FaultKind
  <2>2. Revived \in SUBSET Phantom
    BY DEF Revived, Phantom
  <2>3. /\ Cardinality(Revived) <= Cardinality(Phantom)
        /\ Cardinality(Phantom) \in Nat /\ Cardinality(Revived) \in Nat
    BY <2>1, <2>2, FS_Subset, FS_CardinalityType DEF PhantomInv
  <2> QED
    BY <2>1, <2>3 DEF PhantomInv
<1> QED
  BY <1>1, RevivedInit, RevivedStep, PTL DEF Spec
=============================================================================
