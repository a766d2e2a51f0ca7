----------------------------- MODULE Scheduler ------------------------------
(***************************************************************************)
(* The core at work: the main thread of src/src/core/scheduler over the    *)
(* task list, the projects and their repositories, with the runners it     *)
(* serves over a REP socket, and the process dying and being restarted.    *)
(*                                                                         *)
(* The main thread runs one callback at a time, so a handler is one step   *)
(* except where the process may die between two effects that survive it:   *)
(* the fetch of a repository and the insert of its task, and the update of *)
(* a finished task and the insert of its successor.                        *)
(***************************************************************************)
EXTENDS TaskList, Conf

CONSTANTS
    Runner,        \* the runners
    RunnerIdOf,    \* the runner id each of them sends
    MaxRef,        \* bound: commits pushed to each project's upstream
    MaxStarts,     \* bound: starts of the core
    MaxLosses,     \* bound: messages lost and runners lost
    MaxFaults      \* bound: failed statements and failed fetches

Query == {"get_task", "set_result_success", "set_result_failure"}

(* What can fail: the statements of the task list, the reading of the      *)
(* version of the database, and the last stage of a fetch.                 *)
FaultKind == {"insert", "update", "select", "version", "fetch"}

Job == [id : Nat, work : Work]

ASSUME SchedulerAssumption ==
    /\ None \notin Runner /\ None \notin Query /\ None \notin Job
    /\ MaxRef \in [Project -> Nat]
    /\ {MaxStarts, MaxLosses, MaxFaults} \subseteq Nat

VARIABLES
    main,       \* where the main thread is
    conf,       \* the projects of the configuration the core was started with
    todo,       \* projects the check handler has not visited yet
    adding,     \* the task the handler is about to add, or None
    owed,       \* the runner whose query was read and not answered, or None
    publish,    \* the check handler's flag: an event to publish?  FALSE outside it
    upstream,   \* last commit of each project's upstream repository
    repo,       \* last commit the core's bare clone has
    query,      \* what each runner has asked and awaits the answer of
    job,        \* the task each runner works on: id, as it was told, and work
    quiet,      \* runners told "no task" and sent no event since
    handed,     \* ids handed out since the core started
    succeeded,  \* ids whose success the core has recorded
    failed,     \* failures so far, of each kind
    starts, losses

coreVars == <<main, conf, todo, adding, owed, publish>>
history  == <<quiet, handed, succeeded>>
vars == <<tasklist, db, coreVars, upstream, repo, query, job, history,
          failed, starts, losses>>

TypeOK ==
    /\ TaskListType
    /\ main \in {"down", "poll", "check", "report"}
    /\ conf \in Confs
    /\ todo \subseteq Project
    /\ adding \in Work \cup {None}
    /\ owed \in Runner \cup {None}
    /\ publish \in BOOLEAN
    /\ upstream \in [Project -> Nat] /\ repo \in [Project -> Nat]
    /\ \A p \in Project : repo[p] <= upstream[p]
    /\ query \in [Runner -> Query \cup {None}]
    /\ job \in [Runner -> Job \cup {None}]
    /\ \A r \in Runner : query[r] \in Query \ {"get_task"} => job[r] # None
    /\ quiet \subseteq Runner
    /\ handed \subseteq Nat /\ succeeded \subseteq Nat
    /\ failed \in [FaultKind -> Nat]
    /\ starts \in Nat /\ losses \in Nat

Init ==
    /\ InitTaskList
    /\ main = "down" /\ conf \in Confs
    /\ todo = {} /\ adding = None /\ owed = None /\ publish = FALSE
    /\ upstream = [p \in Project |-> 0] /\ repo = [p \in Project |-> 0]
    /\ query = [r \in Runner |-> None] /\ job = [r \in Runner |-> None]
    /\ quiet = {} /\ handed = {} /\ succeeded = {}
    /\ failed = [k \in FaultKind |-> 0]
    /\ starts = 0 /\ losses = 0

Failures ==
    failed["insert"] + failed["update"] + failed["select"]
      + failed["version"] + failed["fetch"]

(* A failure is logged at most, and the core goes on.                      *)
Fail(kind) ==
    /\ Failures < MaxFaults
    /\ failed' = [failed EXCEPT ![kind] = @ + 1]
-----------------------------------------------------------------------------
(***************************************************************************)
(* The world around the core.                                              *)
(***************************************************************************)
Push(p) ==
    /\ upstream[p] < MaxRef[p]
    /\ upstream' = [upstream EXCEPT ![p] = @ + 1]
    /\ UNCHANGED <<tasklist, db, coreVars, repo, query, job, history,
                   starts, losses, failed>>

Ask(r, q) ==
    /\ query[r] = None
    /\ query' = [query EXCEPT ![r] = q]
    /\ UNCHANGED <<tasklist, db, coreVars, upstream, repo, job, history,
                   starts, losses, failed>>

(* A runner with nothing to do asks for a task, *)
AskTask(r) == job[r] = None /\ Ask(r, "get_task")

(* and one that has run its task reports how it went. *)
SendResult(r) ==
    /\ job[r] # None
    /\ \E q \in {"set_result_success", "set_result_failure"} : Ask(r, q)

(* The query is lost, or the runner stops waiting for the answer. *)
LoseQuery(r) ==
    /\ query[r] # None /\ owed # r /\ losses < MaxLosses
    /\ query' = [query EXCEPT ![r] = None]
    /\ losses' = losses + 1
    /\ UNCHANGED <<tasklist, db, coreVars, upstream, repo, job, history,
                   starts, failed>>

(* The runner is shut down, with the task it had grabbed. *)
RunnerLost(r) ==
    /\ job[r] # None /\ owed # r /\ losses < MaxLosses
    /\ query' = [query EXCEPT ![r] = None]
    /\ job' = [job EXCEPT ![r] = None]
    /\ losses' = losses + 1
    /\ UNCHANGED <<tasklist, db, coreVars, upstream, repo, history,
                   starts, failed>>
-----------------------------------------------------------------------------
(***************************************************************************)
(* Start and death of the core.                                            *)
(***************************************************************************)
Start ==
    /\ main = "down" /\ starts < MaxStarts
    /\ starts' = starts + 1
    /\ main' = "poll"
    /\ conf' \in Confs
    /\ handed' = {}
    /\ \/ Restore /\ UNCHANGED failed
       \/ RestorePartly /\ Fail("select")
       \/ Reinstall /\ Fail("version")
    /\ UNCHANGED <<todo, adding, owed, publish, upstream, repo, query, job,
                   quiet, succeeded, losses>>

(* What memory held is gone; the table and the clones are on disk. *)
Stop ==
    /\ main' = "down"
    /\ tasklist' = <<>>
    /\ todo' = {} /\ adding' = None /\ owed' = None /\ publish' = FALSE

Die ==
    /\ Stop
    /\ UNCHANGED <<db, conf, upstream, repo, query, job, history,
                   starts, losses, failed>>

Crash == main # "down" /\ starts < MaxStarts /\ Die
-----------------------------------------------------------------------------
(***************************************************************************)
(* on_pollin_zworker_check: the worker thread sent "check".                *)
(***************************************************************************)
StartCheck ==
    /\ main = "poll"
    /\ main' = "check"
    /\ todo' = conf
    /\ UNCHANGED <<tasklist, db, conf, adding, owed, publish, upstream, repo,
                   query, job, history, starts, losses, failed>>

(***************************************************************************)
(* project->check for the next project: fetch, and make a task for the     *)
(* first template if anything came.  A connection that fails, or brings    *)
(* nothing, changes nothing; a fetch whose last stage fails leaves the     *)
(* commits in the clone and reports no change.                             *)
(***************************************************************************)
(* Mutant: the first template is taken to have index 1.                    *)
SecondTask(p) == [project |-> p, index |-> 1, env |-> upstream[p]]

FirstTask(p) == [project |-> p, index |-> 0, env |-> upstream[p]]

FetchProject(p) ==
    /\ main = "check" /\ adding = None /\ p \in todo
    /\ todo' = todo \ {p}
    /\ \/ UNCHANGED <<repo, adding, failed>>
       \/ /\ repo[p] # upstream[p]
          /\ repo' = [repo EXCEPT ![p] = upstream[p]]
          /\ \/ Tasks[p] # <<>> /\ adding' = FirstTask(p) /\ UNCHANGED failed
             \/ Fail("fetch") /\ UNCHANGED adding
    /\ UNCHANGED <<tasklist, db, main, conf, owed, publish, upstream, query,
                   job, history, starts, losses>>

(* A project without a template: the missing template is resolved through  *)
(* a null pointer, after the clone has moved to the new commit.            *)
FetchForNothing(p) ==
    /\ main = "check" /\ adding = None /\ p \in todo
    /\ Tasks[p] = <<>> /\ repo[p] # upstream[p]
    /\ repo' = [repo EXCEPT ![p] = upstream[p]]
    /\ Stop
    /\ UNCHANGED <<db, conf, upstream, query, job, history,
                   starts, losses, failed>>

AddTask(w) ==
    \/ Add(w) /\ UNCHANGED failed
    \/ AddUnsaved(w) /\ Fail("insert")

AddFound ==
    /\ main = "check" /\ adding # None
    /\ AddTask(adding)
    /\ adding' = None
    /\ publish' = TRUE
    /\ UNCHANGED <<main, conf, todo, owed, upstream, repo, query, job,
                   history, starts, losses>>

(* Mutant: no event is published.                                          *)
EndCheckSilently ==
    /\ main = "check" /\ adding = None /\ todo = {}
    /\ main' = "poll"
    /\ publish' = FALSE
    /\ UNCHANGED <<tasklist, db, conf, todo, adding, owed, upstream, repo,
                   query, job, history, starts, losses, failed>>

EndCheck ==
    /\ main = "check" /\ adding = None /\ todo = {}
    /\ main' = "poll"
    /\ quiet' = IF publish THEN {} ELSE quiet
    /\ publish' = FALSE
    /\ UNCHANGED <<tasklist, db, conf, todo, adding, owed, upstream, repo,
                   query, job, handed, succeeded, starts, losses, failed>>
-----------------------------------------------------------------------------
(***************************************************************************)
(* on_pollin_zrunner.  A REP socket takes the next query only after it has *)
(* sent the answer to the last one, hence owed = None.                     *)
(***************************************************************************)
(* Mutant: as if the socket did not wait for the last answer.              *)
ReceivesAnyway(r, queries) == main = "poll" /\ query[r] \in queries

Receives(r, queries) == main = "poll" /\ owed = None /\ query[r] \in queries

(* Mutant: an answer without a task does not end the query.                *)
ReplyUnread(r, j) ==
    /\ query' = [query EXCEPT ![r] = IF j = None THEN @ ELSE None]
    /\ \/ job' = [job EXCEPT ![r] = j] /\ UNCHANGED losses
       \/ losses < MaxLosses /\ losses' = losses + 1 /\ UNCHANGED job

(* The answer reaches r, which then works on j, or is lost. *)
Reply(r, j) ==
    /\ query' = [query EXCEPT ![r] = None]
    /\ \/ job' = [job EXCEPT ![r] = j] /\ UNCHANGED losses
       \/ losses < MaxLosses /\ losses' = losses + 1 /\ UNCHANGED job

(* Mutant: nothing is sent when there is no task.                          *)
RefuseSilently(r) ==
    /\ Receives(r, {"get_task"})
    /\ NoTaskFor(RunnerIdOf[r])
    /\ owed' = r
    /\ quiet' = quiet \cup {r}
    /\ UNCHANGED <<tasklist, db, main, conf, todo, adding, publish, upstream,
                   repo, query, job, handed, succeeded, starts, losses, failed>>

(* Mutant: "no task" whatever the list holds.                              *)
RefuseAnyway(r) ==
    /\ Receives(r, {"get_task"})
    /\ Reply(r, None)
    /\ quiet' = quiet \cup {r}
    /\ UNCHANGED <<tasklist, db, coreVars, upstream, repo, handed, succeeded,
                   starts, failed>>

(* visit_query_get_task: "No suitable task for runnerid" *)
RefuseTask(r) ==
    /\ Receives(r, {"get_task"})
    /\ NoTaskFor(RunnerIdOf[r])
    /\ Reply(r, None)
    /\ quiet' = quiet \cup {r}
    /\ UNCHANGED <<tasklist, db, coreVars, upstream, repo, handed, succeeded,
                   starts, failed>>

(* visit_query_get_task: "Sending task" *)
HandOut(r, i) ==
    /\ Receives(r, {"get_task"})
    /\ IsBest(RunnerIdOf[r], i)
    /\ tasklist[i].work.project \in conf
    /\ Get(i)
    /\ Reply(r, [id |-> tasklist[i].id, work |-> tasklist[i].work])
    /\ quiet' = quiet \ {r}
    /\ handed' = handed \cup {tasklist[i].id}
    /\ UNCHANGED <<coreVars, upstream, repo, succeeded, starts, failed>>

(* reply_get_task asks the task's project for its scm, through the NULL    *)
(* pointer if the project has left the configuration.                      *)
HandOutOrphan(r, i) ==
    /\ Receives(r, {"get_task"})
    /\ IsBest(RunnerIdOf[r], i)
    /\ tasklist[i].work.project \notin conf
    /\ Die

UpdateStatus(i, status) ==
    \/ UpdateTaskStatus(i, status) /\ UNCHANGED failed
    \/ UNCHANGED <<tasklist, db>> /\ Fail("update")

(* The task that a set_result message of r carries, as it is read back.    *)
Reported(r) == job[r]

Result(r, q) == Receives(r, {q}) /\ Reported(r).work.project \in conf

(* visit_query_set_result: not successful *)
Abort(r) ==
    /\ Result(r, "set_result_failure")
    /\ UpdateStatus(Reported(r).id, task_aborted)
    /\ Reply(r, None)
    /\ UNCHANGED <<coreVars, upstream, repo, history, starts>>

(* project->next_task: the successor of work w, in the same environment *)
HasNext(w) == w.index + 1 < Len(Tasks[w.project])
NextTask(w) == [w EXCEPT !.index = @ + 1]

(* visit_query_set_result: successful, up to next_task *)
Succeed(r) ==
    /\ Result(r, "set_result_success")
    /\ UpdateStatus(Reported(r).id, task_done)
    /\ succeeded' = succeeded \cup {Reported(r).id}
    /\ IF HasNext(Reported(r).work)
          THEN /\ main' = "report"
               /\ adding' = NextTask(Reported(r).work)
               /\ owed' = r
               /\ UNCHANGED <<query, job, losses>>
          ELSE Reply(r, None) /\ UNCHANGED <<main, adding, owed>>
    /\ UNCHANGED <<conf, todo, publish, upstream, repo, quiet, handed, starts>>

(* Mutant: the successor is not added.                                     *)
ForgetNext ==
    /\ main = "report"
    /\ Reply(owed, None)
    /\ main' = "poll" /\ adding' = None /\ owed' = None
    /\ quiet' = {}
    /\ UNCHANGED <<tasklist, db, conf, todo, publish, upstream, repo, handed,
                   succeeded, starts, failed>>

(* Mutant: the report is not answered.                                     *)
AddNextUnanswered ==
    /\ main = "report"
    /\ AddTask(adding)
    /\ main' = "poll" /\ adding' = None
    /\ quiet' = {}
    /\ UNCHANGED <<conf, todo, owed, publish, upstream, repo, query, job,
                   handed, succeeded, starts, losses>>

(* Mutant: no event is published.                                          *)
AddNextSilently ==
    /\ main = "report"
    /\ AddTask(adding)
    /\ Reply(owed, None)
    /\ main' = "poll" /\ adding' = None /\ owed' = None
    /\ UNCHANGED <<conf, todo, publish, upstream, repo, history, starts>>

(* The rest of the handler: add the successor, answer, publish. *)
AddNext ==
    /\ main = "report"
    /\ AddTask(adding)
    /\ Reply(owed, None)
    /\ main' = "poll" /\ adding' = None /\ owed' = None
    /\ quiet' = {}
    /\ UNCHANGED <<conf, todo, publish, upstream, repo, handed, succeeded,
                   starts>>

(* visit_query_set_result: "Unknown project", and no answer is sent. *)
IgnoreResult(r) ==
    /\ Receives(r, {"set_result_success", "set_result_failure"})
    /\ Reported(r).work.project \notin conf
    /\ owed' = r
    /\ UNCHANGED <<tasklist, db, main, conf, todo, adding, publish, upstream,
                   repo, query, job, history, starts, losses, failed>>
-----------------------------------------------------------------------------
RunnerStep(r) ==
    \/ AskTask(r) \/ SendResult(r) \/ LoseQuery(r) \/ RunnerLost(r)

Serve(r) ==
    \/ RefuseTask(r)
    \/ \E i \in DOMAIN tasklist : HandOut(r, i) \/ HandOutOrphan(r, i)
    \/ Abort(r) \/ Succeed(r) \/ IgnoreResult(r)

CheckStep ==
    \/ \E p \in Project : FetchProject(p) \/ FetchForNothing(p)
    \/ AddFound \/ EndCheck

Next ==
    \/ \E p \in Project : Push(p)
    \/ \E r \in Runner : RunnerStep(r) \/ Serve(r)
    \/ Start \/ Crash
    \/ StartCheck \/ CheckStep \/ AddNext

(***************************************************************************)
(* The poller calls back for every socket that has a message, in turn, so  *)
(* a query that keeps waiting is served even if other work keeps arriving; *)
(* a callback that began ends.  Runners ask regularly (doc/main.md), and   *)
(* report what they ran.  Nothing is assumed of pushes, checks, losses,    *)
(* crashes, nor of restarts.                                               *)
(***************************************************************************)
Fairness ==
    /\ \A r \in Runner : SF_vars(Serve(r))
    /\ WF_vars(CheckStep) /\ WF_vars(AddNext)
    /\ \A r \in Runner : WF_vars(AskTask(r)) /\ WF_vars(SendResult(r))

Spec == Init /\ [][Next]_vars /\ Fairness
-----------------------------------------------------------------------------
(***************************************************************************)
(* Properties.                                                             *)
(***************************************************************************)
(* What the properties about the record rest on: every task that was added *)
(* got its row and the row's id, and the table was never dropped.  Selects *)
(* and updates may have failed.                                            *)
Intact == failed["insert"] = 0 /\ failed["version"] = 0

(* What is queued or being run is what its row says: the id a task got     *)
(* from the INSERT (tasklist.c, add) or from the restored row still names  *)
(* that very task when its result comes back.                              *)
BackedBy(t) == t.id \in DOMAIN db /\ db[t.id].work = t.work

Backed ==
    Intact =>
      /\ \A i \in DOMAIN tasklist : BackedBy(tasklist[i])
      /\ \A r \in Runner : job[r] # None => BackedBy(job[r])

(* The array holds a task once, and never one that left it since the core  *)
(* started: between two starts a task is handed out at most once.          *)
HandedOutOnce ==
    Intact =>
      /\ \A i, j \in DOMAIN tasklist : tasklist[i].id = tasklist[j].id => i = j
      /\ \A i \in DOMAIN tasklist : tasklist[i].id \notin handed

(* As long as the core does not restart, no task is run by two runners,    *)
(* and one whose result is recorded is not queued any more, whatever       *)
(* messages and runners are lost.                                          *)
RunOnce ==
    Intact /\ starts <= 1 =>
      /\ \A r1, r2 \in Runner :
            r1 # r2 /\ job[r1] # None /\ job[r2] # None => job[r1].id # job[r2].id
      /\ \A i \in DOMAIN tasklist : db[tasklist[i].id].status = task_new

(* A later task of a project enters the table only after the success of    *)
(* the task before it, for the same commit, was recorded.                  *)
PipelineOrder ==
    Intact =>
      \A i \in DOMAIN db : db[i].work.index > 0 =>
        \E k \in 1 .. i - 1 :
           k \in succeeded /\ NextTask(db[k].work) = db[i].work

(* The tasks the core owes to what it has heard of: the successors of the  *)
(* tasks that succeeded, and a first task for the commit a clone stands at.*)
ChangeTask(p) == [project |-> p, index |-> 0, env |-> repo[p]]

Promised ==
    {NextTask(db[i].work) : i \in {k \in succeeded : HasNext(db[k].work)}}
      \cup {ChangeTask(p) : p \in {x \in Project : repo[x] > 0 /\ Tasks[x] # <<>>}}

(* A row runs what w runs.                                                 *)
SameRun(w1, w2) ==
    SameId(Template(w1).runner, Template(w2).runner) /\ Resolve(w1) = Resolve(w2)

Recorded(w) == \E i \in DOMAIN db : SameRun(w, db[i].work)

(* A task that is owed, of which no row tells, and which no handler is     *)
(* about to add, is forgotten, unless its predecessor is reported again.   *)
Missing == {w \in Promised : ~Recorded(w)} \ {adding}

(* The process forgets a task only by dying between two effects of one     *)
(* handler, so a life of it costs one task at most, whatever was pushed,   *)
(* queued and run, and whatever messages and runners were lost.  A fetch   *)
(* that fails in its last stage costs one too, and never a successor.      *)
Deaths == IF main = "down" THEN starts ELSE starts - 1

OneLossPerDeath ==
    Intact =>
      LET missing == Missing
      IN  /\ Cardinality(missing) <= Deaths + failed["fetch"]
          /\ Cardinality({w \in missing : w.index > 0}) <= Deaths

(* In its first life, once the handler is over, the success of a task that *)
(* has a successor has left a row that runs what the successor runs.       *)
SuccessorRecorded ==
    Intact /\ starts <= 1 /\ main \notin {"down", "report"} =>
      \A i \in succeeded : HasNext(db[i].work) => Recorded(NextTask(db[i].work))

(* The same, for the successor itself and not for a task that looks alike. *)
SuccessorOwned ==
    main # "report" =>
      \A i \in succeeded : HasNext(db[i].work) =>
        \E k \in DOMAIN db : db[k].work = NextTask(db[i].work)

(* In the core's first life the commit a clone stands at has been given to *)
(* the task list: a change that was fetched is not forgotten.              *)
ChangeRecorded ==
    Intact /\ failed["fetch"] = 0 /\ starts <= 1 /\ main # "down" =>
      \A p \in Project : repo[p] > 0 /\ Tasks[p] # <<>> =>
        adding = ChangeTask(p) \/ Recorded(ChangeTask(p))

(* A task that succeeded comes back at the next start if its row is "new". *)
(* Each failed UPDATE leaves one such row, and so does, later, each failed *)
(* INSERT: its task may report under the id that the next row gets.        *)
Revived == {i \in succeeded : i \in DOMAIN db /\ db[i].status = task_new}

RevivedByFailure ==
    failed["version"] = 0 =>
      Cardinality(Revived) <= failed["update"] + failed["insert"]

(* A runner that was told there is nothing for it, and has seen no event   *)
(* since, is not missing a task that was queued since the core started.    *)
NoLostWakeup ==
    main \in {"poll", "report"} =>
      \A r \in quiet : \A i \in DOMAIN tasklist :
        Suitable(RunnerIdOf[r], i) => tasklist[i].reparsed

(* Between two callbacks the REP socket owes no answer.                    *)
AlwaysAnswers == main = "poll" => owed = None

(* The one way to owe an answer is a result for a project that left the    *)
(* configuration, and from then on no runner gets a task and no row is     *)
(* updated until the core is restarted.                                    *)
Deaf == main # "down" /\ owed # None /\ main # "report"

DeafOnlyByOrphan ==
    Deaf => job[owed] # None /\ job[owed].work.project \notin conf

DeafUntilRestart ==
    [][Deaf => \/ main' = "down"
               \/ /\ Deaf'
                  /\ \A r \in Runner : job'[r] \in {job[r], None}
                  /\ \A i \in DOMAIN db : i \in DOMAIN db' /\ db'[i] = db[i]]_vars

(* While the core is up, every query is answered, or given up.             *)
QueryAnswered ==
    \A r \in Runner :
      query[r] # None /\ main # "down" ~> query[r] = None \/ main = "down"

(* A queued task that suits some runner leaves the queue.                  *)
Waiting(w) ==
    \E k \in DOMAIN tasklist :
      /\ tasklist[k].work = w
      /\ \E r \in Runner : Suitable(RunnerIdOf[r], k)

TaskDispatched ==
    \A p \in Project : \A n \in DOMAIN Tasks[p] : \A c \in 1 .. MaxRef[p] :
      LET w == [project |-> p, index |-> n - 1, env |-> c]
      IN  Waiting(w) ~> ~Waiting(w)

(***************************************************************************)
(* What the table amounts to, whatever happens to the process: a Ledger.   *)
(***************************************************************************)
LedgerView == INSTANCE Ledger WITH rows <- db, won <- succeeded

LedgerSpec == LedgerView!Spec
=============================================================================
