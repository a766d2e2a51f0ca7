---------------------------- MODULE ServiceProofs ---------------------------
(***************************************************************************)
(* Proofs about what Scheduler owes to its runners: answers, and events.   *)
(* They hold for every bound, whatever statements and fetches fail.        *)
(***************************************************************************)
EXTENDS SchedulerProofs

USE DEF Reported

(***************************************************************************)
(* Answers.  Outside of the handler of a result, a runner is owed an       *)
(* answer only if what it works on belongs to no project of the            *)
(* configuration; and a process that is down owes nothing.                 *)
(***************************************************************************)
OwedInv ==
    /\ TypeInv
    /\ main = "down" => owed = None
    /\ DeafOnlyByOrphan

LEMMA OwedInit == Init => OwedInv
BY TypeInit DEF Init, OwedInv, DeafOnlyByOrphan, Deaf

(* Steps that change neither the configuration nor what is owed to whom,   *)
(* and leave the runner that is owed an answer its job.                    *)
LEMMA OwedFrame ==
    ASSUME OwedInv, TypeInv', conf' = conf, owed' = owed,
           main # "report", main' # "report", main' = "down" => main = "down",
           owed # None => job'[owed] = job[owed]
    PROVE  OwedInv'
BY DEF OwedInv, DeafOnlyByOrphan, Deaf

(* Steps after which nothing is owed. *)
LEMMA OwedNothing ==
    ASSUME TypeInv', owed' = None
    PROVE  OwedInv'
BY DEF OwedInv, DeafOnlyByOrphan, Deaf

(* A step of the world leaves the core as it is. *)
LEMMA WorldStep ==
    ASSUME OwedInv, TypeInv', UNCHANGED <<main, conf, owed>>,
           owed # None => job'[owed] = job[owed]
    PROVE  OwedInv'
BY DEF OwedInv, DeafOnlyByOrphan, Deaf

LEMMA OwedStep == OwedInv /\ [Next]_vars => OwedInv'
<1> SUFFICES ASSUME OwedInv, [Next]_vars
             PROVE  OwedInv'
  OBVIOUS
<1>0. TypeInv /\ TypeOK /\ TypeInv'
  BY TypeStep DEF OwedInv, TypeInv
<1> USE DEF coreVars, history
<1>1. ASSUME NEW p \in Project, Push(p)
      PROVE  OwedInv'
  BY <1>0, <1>1, WorldStep DEF Push
<1>2. ASSUME NEW r \in Runner, RunnerStep(r)
      PROVE  OwedInv'
  <2>1. UNCHANGED <<main, conf, owed>>
    BY <1>2 DEF RunnerStep, AskTask, SendResult, Ask, LoseQuery, RunnerLost
  <2>2. owed # None => job'[owed] = job[owed]
    BY <1>0, <1>2
       DEF RunnerStep, AskTask, SendResult, Ask, LoseQuery, RunnerLost, TypeOK
  <2> QED
    BY <1>0, <2>1, <2>2, WorldStep
<1>3. CASE Start
  <2>1. main = "down" /\ owed' = owed
    BY <1>3 DEF Start
  <2> QED
    BY <1>0, <2>1, OwedNothing DEF OwedInv
<1>4. ASSUME Stop
      PROVE  OwedInv'
  BY <1>0, <1>4, OwedNothing DEF Stop
<1>5. CASE StartCheck \/ AddFound \/ EndCheck
  <2>1. /\ main \in {"poll", "check"} /\ main' \in {"poll", "check"}
        /\ UNCHANGED <<conf, owed, job>>
    BY <1>5 DEF StartCheck, AddFound, EndCheck
  <2> QED
    BY <1>0, <2>1, OwedFrame
<1>6. ASSUME NEW p \in Project, FetchProject(p)
      PROVE  OwedInv'
  BY <1>0, <1>6, WorldStep DEF FetchProject
<1>7. ASSUME NEW r \in Runner, RefuseTask(r) \/ Abort(r)
      PROVE  OwedInv'
  <2>1. owed = None /\ owed' = owed
    BY <1>7 DEF RefuseTask, Abort, Result, Receives
  <2> QED
    BY <1>0, <2>1, OwedNothing
<1>8. ASSUME NEW r \in Runner, NEW i \in DOMAIN tasklist, HandOut(r, i)
      PROVE  OwedInv'
  <2>1. owed = None /\ owed' = owed
    BY <1>8 DEF HandOut, Receives
  <2> QED
    BY <1>0, <2>1, OwedNothing
<1>9. ASSUME NEW r \in Runner, Succeed(r)
      PROVE  OwedInv'
  <2>1. owed = None
    BY <1>9 DEF Succeed, Result, Receives
  <2>2. CASE HasNext(job[r].work)
    <3>1. main' = "report"
      BY <1>9, <2>2 DEF Succeed
    <3> QED
      BY <1>0, <3>1 DEF OwedInv, DeafOnlyByOrphan, Deaf
  <2>3. CASE ~HasNext(job[r].work)
    <3>1. owed' = owed
      BY <1>9, <2>3 DEF Succeed
    <3> QED
      BY <1>0, <2>1, <3>1, OwedNothing
  <2> QED
    BY <2>2, <2>3
<1>10. CASE AddNext
  BY <1>0, <1>10, OwedNothing DEF AddNext
<1>11. ASSUME NEW r \in Runner, IgnoreResult(r)
       PROVE  OwedInv'
  <2>1. /\ main = "poll" /\ main' = "poll" /\ owed' = r /\ conf' = conf /\ job' = job
        /\ job[r].work.project \notin conf
    BY <1>11 DEF IgnoreResult, Receives
  <2>2. job[r] # None
    <3>1. query[r] \in Query \ {"get_task"}
      BY <1>11 DEF IgnoreResult, Receives, Query
    <3> QED
      BY <1>0, <3>1 DEF TypeOK
  <2> QED
    BY <1>0, <2>1, <2>2 DEF OwedInv, DeafOnlyByOrphan, Deaf
<1>12. CASE UNCHANGED vars
  BY <1>0, <1>12, WorldStep DEF vars
<1> QED
  BY <1>1, <1>2, <1>3, <1>4, <1>5, <1>6, <1>7, <1>8, <1>9, <1>10, <1>11, <1>12
     DEF Next, Serve, CheckStep, Crash, Die, FetchForNothing, HandOutOrphan

(* The one way to leave a query without its answer is a result for a       *)
(* project that left the configuration (visit_query_set_result, "Unknown   *)
(* project"): no other path through the handlers of the scheduler does.    *)
THEOREM DeafOnlyByOrphans == Spec => []DeafOnlyByOrphan
<1>1. OwedInv => DeafOnlyByOrphan
  BY DEF OwedInv
<1> QED
  BY <1>1, OwedInit, OwedStep, PTL DEF Spec

(* So a core whose configuration always has every project answers every    *)
(* query in the callback that reads it.                                    *)
THEOREM AnswersWithFixedConf ==
    ASSUME \A c \in Confs : c = Project PROVE Spec => []AlwaysAnswers
<1>1. OwedInv => AlwaysAnswers
  <2> SUFFICES ASSUME OwedInv, main = "poll", owed # None
               PROVE  FALSE
    BY DEF AlwaysAnswers
  <2>1. owed \in Runner /\ conf = Project /\ job \in [Runner -> Job \cup {None}]
    BY DEF OwedInv, TypeInv, TypeOK
  <2>2. job[owed] # None /\ job[owed].work.project \notin conf
    BY DEF OwedInv, DeafOnlyByOrphan, Deaf
  <2>3. job[owed] \in Job
    BY <2>1, <2>2
  <2> QED
    BY <2>1, <2>2, <2>3 DEF Job, Work
<1> QED
  BY <1>1, OwedInit, OwedStep, PTL DEF Spec

(* What does not change for the runners, nor in the rows there are.        *)
Deafening ==
    /\ Deaf'
    /\ \A r \in Runner : job'[r] \in {job[r], None}
    /\ \A i \in DOMAIN db : i \in DOMAIN db' /\ db'[i] = db[i]

(* New rows come last, and a row that is not saved changes none.           *)
LEMMA AddKeepsRows ==
    ASSUME TypeOK, NEW w \in Work, AddTask(w)
    PROVE  \A i \in DOMAIN db : i \in DOMAIN db' /\ db'[i] = db[i]
<1>1. CASE db' = db
  BY <1>1
<1>2. CASE db' = Append(db, NewRow(w))
  <2>1. db \in Seq(Row) /\ NewRow(w) \in Row
    BY NewTaskType DEF TypeOK, TaskListType
  <2>2. /\ DOMAIN db' = 1 .. Len(db) + 1 /\ DOMAIN db = 1 .. Len(db)
        /\ \A i \in 1 .. Len(db) : db'[i] = db[i]
    BY <1>2, <2>1, AppendProperties
  <2>3. Len(db) \in Nat
    BY <2>1
  <2> QED
    BY <2>2, <2>3
<1> QED
  BY <1>1, <1>2 DEF AddTask, Add, AddUnsaved

LEMMA DeafStep ==
    ASSUME OwedInv, [Next]_vars, Deaf
    PROVE  main' = "down" \/ Deafening
<1>1. owed # None /\ main \in {"poll", "check"} /\ TypeOK
  BY DEF Deaf, OwedInv, TypeInv, TypeOK
<1> USE DEF coreVars, history
<1>2. ~AddNext /\ ~Start /\ \A r \in Runner : ~Serve(r)
  BY <1>1 DEF AddNext, Start, Serve, RefuseTask, HandOut, HandOutOrphan, Abort,
              Succeed, Result, IgnoreResult, Receives
<1>3. ASSUME NEW r \in Runner, RunnerStep(r)
      PROVE  Deafening
  <2>1. UNCHANGED <<main, owed, db>>
    BY <1>3 DEF RunnerStep, AskTask, SendResult, Ask, LoseQuery, RunnerLost
  <2>2. \A x \in Runner : job'[x] \in {job[x], None}
    BY <1>1, <1>3
       DEF RunnerStep, AskTask, SendResult, Ask, LoseQuery, RunnerLost, TypeOK
  <2> QED
    BY <2>1, <2>2 DEF Deafening, Deaf
<1>4. ASSUME NEW p \in Project, Push(p) \/ FetchProject(p)
      PROVE  Deafening
  BY <1>4 DEF Push, FetchProject, Deafening, Deaf
<1>5. CASE StartCheck \/ EndCheck
  BY <1>1, <1>5 DEF StartCheck, EndCheck, Deafening, Deaf
<1>6. CASE AddFound
  <2>1. adding \in Work /\ AddTask(adding)
    BY <1>1, <1>6 DEF AddFound, TypeOK
  <2>2. UNCHANGED <<main, owed, job>>
    BY <1>6 DEF AddFound
  <2> QED
    BY <1>1, <2>1, <2>2, AddKeepsRows DEF Deafening, Deaf
<1>7. ASSUME Stop
      PROVE  main' = "down"
  BY <1>7 DEF Stop
<1>8. CASE UNCHANGED vars
  BY <1>8 DEF vars, Deafening, Deaf
<1> QED
  BY <1>2, <1>3, <1>4, <1>5, <1>6, <1>7, <1>8
     DEF Next, CheckStep, Crash, Die, FetchForNothing

(* The answer that on_pollin_zrunner did not send keeps the REP socket     *)
(* from reading: nothing but the end of the process ends that, and until   *)
(* then no runner gets a task and no result is recorded.                   *)
THEOREM DeafUntilRestarted == Spec => DeafUntilRestart
<1>1. OwedInv /\ [Next]_vars
        => [Deaf => \/ main' = "down"
                    \/ /\ Deaf'
                       /\ \A r \in Runner : job'[r] \in {job[r], None}
                       /\ \A i \in DOMAIN db : i \in DOMAIN db' /\ db'[i] = db[i]]_vars
  BY DeafStep DEF Deafening
<1> QED
  BY <1>1, OwedInit, OwedStep, PTL DEF Spec, DeafUntilRestart
-----------------------------------------------------------------------------
(***************************************************************************)
(* Events.  Between two callbacks, and in the handler of a check that has  *)
(* found nothing yet, the runners that were told there is no task miss     *)
(* none but those the last start queued.                                   *)
(***************************************************************************)
Overlooks(r) == \E i \in DOMAIN tasklist :
                 Suitable(RunnerIdOf[r], i) /\ ~tasklist[i].reparsed

WakeInv ==
    /\ TypeInv
    /\ (main = "check" /\ publish) \/ \A r \in quiet : ~Overlooks(r)

LEMMA WakeInit == Init => WakeInv
<1> SUFFICES ASSUME Init PROVE WakeInv
  OBVIOUS
<1>1. quiet = {}
  BY DEF Init
<1> QED
  BY <1>1, TypeInit DEF WakeInv

(* Steps that leave the list as it is, or empty it, and tell no runner.    *)
LEMMA WakeFrame ==
    ASSUME WakeInv, TypeInv', tasklist' = tasklist, quiet' = quiet,
           main' = main, publish' = publish
    PROVE  WakeInv'
BY DEF WakeInv, Overlooks, Suitable, MatchAt

LEMMA WakeEmpty ==
    ASSUME TypeInv', tasklist' = <<>>
    PROVE  WakeInv'
BY DEF WakeInv, Overlooks

LEMMA WakeAll ==
    ASSUME TypeInv', quiet' = {}
    PROVE  WakeInv'
BY DEF WakeInv

(* Fewer runners, or fewer tasks, and nobody misses more.                  *)
LEMMA WakeHandOut ==
    ASSUME WakeInv, TypeInv', NEW r \in Runner, NEW i \in DOMAIN tasklist,
           HandOut(r, i)
    PROVE  WakeInv'
<1>1. /\ tasklist' = RemoveAt(tasklist, i) /\ quiet' = quiet \ {r}
      /\ main = "poll"
  BY DEF HandOut, Get, Receives
<1>2. tasklist \in Seq(QueuedTask) /\ DOMAIN tasklist = 1 .. Len(tasklist)
        /\ Len(tasklist) \in Nat
  BY DEF WakeInv, TypeInv, TypeOK, TaskListType
<1>3. /\ DOMAIN tasklist' = 1 .. Len(tasklist) - 1
      /\ \A k \in 1 .. Len(tasklist) - 1 :
           tasklist'[k] = IF k < i THEN tasklist[k] ELSE tasklist[k + 1]
  <2>1. /\ tasklist' \in Seq(QueuedTask) /\ Len(tasklist') = Len(tasklist) - 1
        /\ \A k \in 1 .. Len(tasklist) - 1 :
             tasklist'[k] = IF k < i THEN tasklist[k] ELSE tasklist[k + 1]
    BY <1>1, <1>2, RemoveAtProperties
  <2> QED
    BY <2>1
<1>4. \A k \in DOMAIN tasklist' : \E l \in DOMAIN tasklist : tasklist'[k] = tasklist[l]
  BY <1>2, <1>3
<1>5. ASSUME NEW x \in quiet'
      PROVE  ~Overlooks(x)'
  <2>1. x \in quiet /\ ~Overlooks(x)
    BY <1>1 DEF WakeInv
  <2> QED
    BY <1>4, <2>1 DEF Overlooks, Suitable, MatchAt
<1> QED
  BY <1>5 DEF WakeInv

LEMMA WakeStep == WakeInv /\ [Next]_vars => WakeInv'
<1> SUFFICES ASSUME WakeInv, [Next]_vars
             PROVE  WakeInv'
  OBVIOUS
<1>0. TypeInv /\ TypeOK /\ TypeInv'
  BY TypeStep DEF WakeInv, TypeInv
<1> USE DEF coreVars, history
<1>1. ASSUME NEW p \in Project, Push(p) \/ FetchProject(p)
      PROVE  WakeInv'
  BY <1>0, <1>1, WakeFrame DEF Push, FetchProject
<1>2. ASSUME NEW r \in Runner, RunnerStep(r) \/ IgnoreResult(r)
      PROVE  WakeInv'
  <2>1. UNCHANGED <<tasklist, quiet, main, publish>>
    BY <1>2 DEF RunnerStep, AskTask, SendResult, Ask, LoseQuery, RunnerLost,
                IgnoreResult
  <2> QED
    BY <1>0, <2>1, WakeFrame
<1>3. CASE Start
  <2>1. \A k \in DOMAIN tasklist' : tasklist'[k].reparsed
    <3>1. \A i : RestoredTask(i).reparsed
      BY Zenon DEF RestoredTask
    <3>2. CASE Restore
      <4>1. TaskListType
        BY <1>0 DEF TypeOK
      <4>2. \A k \in DOMAIN tasklist' : \E i \in NewIds : tasklist'[k] = RestoredTask(i)
        BY <3>2, <4>1, RestoreProperties
      <4> QED
        BY <3>1, <4>2, Zenon
    <3>3. CASE RestorePartly
      <4>1. PICK ids : \E n \in 0 .. Len(ids) - 1 :
              tasklist' = [k \in 1 .. n |-> RestoredTask(ids[k])]
        BY <3>3 DEF RestorePartly
      <4>2. PICK n \in 0 .. Len(ids) - 1 :
              tasklist' = [k \in 1 .. n |-> RestoredTask(ids[k])]
        BY <4>1
      <4> QED
        BY <3>1, <4>2
    <3>4. CASE Reinstall
      BY <3>4 DEF Reinstall
    <3> QED
      BY <1>3, <3>2, <3>3, <3>4 DEF Start
  <2> QED
    BY <1>0, <2>1 DEF WakeInv, Overlooks
<1>4. ASSUME Stop
      PROVE  WakeInv'
  BY <1>0, <1>4, WakeEmpty DEF Stop
<1>5. CASE StartCheck
  <2>1. \A r \in quiet : ~Overlooks(r)
    BY <1>5 DEF StartCheck, WakeInv
  <2>2. UNCHANGED <<tasklist, quiet>>
    BY <1>5 DEF StartCheck
  <2> QED
    BY <1>0, <2>1, <2>2 DEF WakeInv, Overlooks, Suitable, MatchAt
<1>6. CASE AddFound
  BY <1>0, <1>6 DEF AddFound, WakeInv
<1>7. CASE EndCheck
  <2>1. CASE publish
    BY <1>0, <1>7, <2>1, WakeAll DEF EndCheck
  <2>2. CASE ~publish
    <3>1. \A r \in quiet : ~Overlooks(r)
      BY <2>2 DEF WakeInv
    <3>2. UNCHANGED <<tasklist, quiet>>
      BY <1>7, <2>2 DEF EndCheck
    <3> QED
      BY <1>0, <3>1, <3>2 DEF WakeInv, Overlooks, Suitable, MatchAt
  <2> QED
    BY <2>1, <2>2
<1>8. ASSUME NEW r \in Runner, RefuseTask(r)
      PROVE  WakeInv'
  <2>1. /\ main = "poll" /\ NoTaskFor(RunnerIdOf[r])
        /\ quiet' = quiet \cup {r} /\ UNCHANGED <<tasklist, main, publish>>
    BY <1>8 DEF RefuseTask, Receives
  <2>2. \A x \in quiet' : ~Overlooks(x)
    BY <2>1 DEF WakeInv, Overlooks, NoTaskFor
  <2> QED
    BY <1>0, <2>1, <2>2 DEF WakeInv, Overlooks, Suitable, MatchAt
<1>9. ASSUME NEW r \in Runner, NEW i \in DOMAIN tasklist, HandOut(r, i)
      PROVE  WakeInv'
  BY <1>0, <1>9, WakeHandOut
<1>10. ASSUME NEW r \in Runner, Abort(r) \/ Succeed(r)
       PROVE  WakeInv'
  <2>1. /\ main = "poll" /\ quiet' = quiet /\ tasklist' = tasklist
    BY <1>10 DEF Abort, Succeed, Result, Receives, UpdateStatus, UpdateTaskStatus
  <2>2. \A x \in quiet : ~Overlooks(x)
    BY <2>1 DEF WakeInv
  <2> QED
    BY <1>0, <2>1, <2>2 DEF WakeInv, Overlooks, Suitable, MatchAt
<1>11. CASE AddNext
  BY <1>0, <1>11, WakeAll DEF AddNext
<1>12. CASE UNCHANGED vars
  BY <1>0, <1>12, WakeFrame DEF vars
<1> QED
  BY <1>1, <1>2, <1>3, <1>4, <1>5, <1>6, <1>7, <1>8, <1>9, <1>10, <1>11, <1>12
     DEF Next, Serve, CheckStep, Crash, Die, FetchForNothing, HandOutOrphan

(* A runner that was told "no task" and has seen no event since misses no  *)
(* task that was queued since the core started: the check handler collects *)
(* its one event in a flag, and set_result publishes after each successor. *)
THEOREM WakeupNeverLost == Spec => []NoLostWakeup
<1>1. WakeInv => NoLostWakeup
  BY DEF WakeInv, NoLostWakeup, Overlooks
<1> QED
  BY <1>1, WakeInit, WakeStep, PTL DEF Spec
=============================================================================
