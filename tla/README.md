# A formal model of yaCAD

yaCAD watches git repositories, and when one changes has its tasks run by
*runners*. This directory models its *core* in TLA+, model-checks it with TLC
and proves theorems about it with TLAPS. All paths are those of the repository;
the code is under `src/`, and `src/x/y.c:10` is line 10.

## The system

```
   clock, cron                 git upstreams
       |                            |
 [worker thread] --"check"--> [main thread] <--REQ/REP--> runners
       ^                        |   |   \------PUB------> (events)
       '---"start", "stop"------'   v
                                 tasklist --- sqlite: TASKLIST, PARAM
```

| component | state | operations | talks to |
|---|---|---|---|
| core main (`core/yacad_core.c`) | `conf`, `scheduler` | start, `handle_signal` | scheduler |
| scheduler, main thread (`core/scheduler`) | `running`, `publish`, the REP, PUB and PAIR sockets | `on_pollin_zworker_check`, `on_pollin_zrunner`, `stop`, `free` | projects, tasklist, runners, worker |
| scheduler, worker thread | `worker_next_check`, `context.check` | wait for start, time-out, read stop | main thread by inproc messages, projects' `next_check` |
| tasklist (`core/tasklist`) | the array of queued tasks | `add`, `get`, `set_task_done`, `set_task_aborted`, restore | database |
| task (`common/task`) | id, status, index, environment, JSON | create, (un)serialize, `same_as` | JSON |
| runnerid (`common/runnerid`) | bytes of name and arch | `match`, `same_as` | |
| project (`core/project`) | tasks, cron, scm | `check`, `next_task`, `next_check` | scm, cron |
| scm git (`common/scm`) | the bare clone, its remote | `check`, `fill_env`, open or create | libgit2 |
| cron (`common/cron`) | five bit fields | parse, `next` | mktime |
| configuration (`core/conf`) | projects | read the file | JSON |
| database (`common/database`) | the sqlite file | open or create, `need_install`, `set_installed`, statements | sqlite |
| zmq (`common/zmq`) | pollers, sockets | `run`, send | ZeroMQ |
| messages (`common/message`) | | serialize, unserialize | JSON |
| JSON visitors (`common/json`) | | find a path, resolve variables, compare | tasks, messages |
| runner (`runner`) | | its `run` is empty at this commit | |

What is hard:

- **Failure between effects.** The clone, the table and the memory of the core
  change one after the other; the process may die in between, and a statement
  that fails is logged and forgotten.
- **Requests and replies.** A REP socket answers before it reads again. A
  handler that returns without an answer ends the service to everybody.
- **Restarts under runners.** A task that is handed out stays "new" in the
  table; a restart queues it again while it is run, and its report may come
  late, twice, or contradict another.
- **Sameness.** Tasks are deduplicated by runner and resolved JSON only.
- **Reading again.** A task is resolved anew each time it is read, from a row or
  a message, and its variables may stand for what looks like a variable.
- **Two threads, signals.** A stop may be taken by either thread, at any time.
- **The calendar.** `next` walks a `struct tm` that `mktime` normalizes.

What makes the parts correct:

- *tasklist, scheduler*: an id names the same task for ever; no task is run
  twice while the core is up; no change and no successor is forgotten; a
  pipeline is run in order; no runner sleeps on a task it could have; every
  query is answered.
- *worker*: at most one check per due time, and the planned one is asked for; a
  stop stops.
- *cron*: the first time that agrees, none skipped, and the walk ends.
- *database*: no rows are lost to a crash, no database becomes unusable by one but
  the very first start's, and a start gets past any database that is usable.
- *clones*: a start that dies costs no later start a project; what a check
  brings is reported, and nothing is built that nobody pushed.
- *messages, JSON*: a task that is written and read is the task it was.

## Modules

| module | what it is | code |
|---|---|---|
| `RunnerId` | runner ids, `Match`, `SameId` | `common/runnerid` |
| `Task` | works, templates, `SameAs` | `common/task`, `common/json` (results only) |
| `TaskList` | the array and the table; one action per operation, one more per failure | `core/tasklist` |
| `Conf` | which entries of the file make projects | `core/conf`, `common/scm/yacad_scm.c` |
| `Scheduler` | composes the above with runners, repositories, losses and crashes | `core/scheduler` (main thread), `core/project`, `scm_git.c` (`check`) |
| `Ledger` | abstract: what the task table promises | |
| `Worker` | the two threads, the poller and the signals | `core/scheduler` (threads), `core/yacad_core.c`, `common/zmq` |
| `Cron` | parsing to sets, the walk of `next` | `common/cron` |
| `Database` | the start of the core over its database | `common/database`, constructor of `core/tasklist` |
| `Clone` | the bare clones, one libgit2 call a step | `common/scm/yacad_scm_git.c` |
| `Startup` | composes `Clone` and `Database`: a start from `main` on, checks, crashes | `core/yacad_core.c`, `core/conf`, constructor of `core/scheduler` |
| `Json` | JSON values; the finder, the template, the comparison | `common/json` |
| `Messages` | the way of a task through rows and messages | `common/task`, `common/message` |
| `MCScheduler`, `MCWorker`, `MCCron`, `MCStartup`, `MCMessages` | instances for TLC | |
| `SchedulerProofs`, `RecordProofs`, `ServiceProofs`, `WorkerProofs`, `CronProofs`, `DatabaseProofs`, `StartupProofs`, `ReportProofs` | theorems and proofs | |

- `RunnerId <- Task <- TaskList, Conf <- Scheduler <- SchedulerProofs`, on
  which `ServiceProofs` and `RecordProofs` rest;
  `Scheduler` instantiates `Ledger` with `rows <- db` and `won <- succeeded`.
- `Database, Clone <- Startup <- StartupProofs <- ReportProofs`, with
  `DatabaseProofs` under `StartupProofs`: the invariant of the database carries
  over, as `Startup` takes its steps from `Database`.
- `Json <- Messages`. `Worker <- WorkerProofs`. `Cron <- CronProofs`.

`Scheduler` takes from `Startup` what a check and a start come to, from
`Messages` that a task is read as it was written (a library that reads the report,
names without a quote) and compared safely (templates whose objects have few
keys), and from `Worker` that checks are asked for.

### How state and actions correspond

**Scheduler.** `tasklist` is the array; `db` is TASKLIST (a row is
never deleted but with the table, ids start at 1, so the row of id *i* is
`db[i]`). `repo[p]` is the
commit the bare clone stands at, `upstream[p]` that of the repository, and a
commit is a number. `query[r]` is what runner *r* has sent and awaits the answer
of, `job[r]` what it was handed. `owed` is the runner whose query was read and
not answered: non-`None` means the REP socket cannot read. `publish` is the
field of that name, and sending the event empties `quiet`, the runners that were
told there is no task and have heard nothing since. `handed`, `succeeded` and
`failed` are history.

The main thread runs one callback at a time. A callback is one step, except
where the process may die between two effects that survive it:

- the check handler: `StartCheck`, then for each project in any order (a hash)
  `FetchProject` and perhaps `AddFound`, then `EndCheck` with the event;
- a successful result with a successor: `Succeed`, then `AddNext`.

`HandOutOrphan` is `reply_get_task` through the null pointer of a project that
is not configured any more: the process dies. `IgnoreResult` is "Unknown
project": no answer. `AddUnsaved`, `RestorePartly` and the failing alternatives
of `UpdateStatus` and `FetchProject` are the code going on after a failure that
it logs; `failed` counts the failures of each kind. `Reinstall` is the start
that could not read the version and drops the
table, while runners still hold tasks with its ids. `FetchForNothing` is the
change of a project whose list of tasks is empty: the process dies on the
missing template, the clone having moved on. A restart may read another
configuration. `ExactRoundTrip` says whether JSON that was written and read
compares equal; in `Messages` that is `~keepsNul`.

**Worker.** One action per return of `zmq_poll` and per piece of code between
two polls. Any thread may take a signal; its `zmq_poll` then fails, which ends
its loop. The pipe of `scheduler-run` refuses a second connection while it still
holds a message, so a stop may be lost. `Excluded` are the times on which the cron
line of a project stands still (`Cron.StillForever`): a plan that has to walk over
one never returns, and the worker is *hung*. `UseFreed` is the worker after
`free_`, which does not wait for it: what it reads then may end the process or
hang the worker, or do no harm.

**Cron.** A step is a turn of the loop of `next`: `Normal` is
`mktime`/`localtime_r`, `Step` the chain of lookups. A month that the line
excludes, or a day of the week on a day that agrees, is where the walk moves a
field that `mktime` puts back: `StandsStill`.

**Database.** A step is a statement. What is on disk is a set: the file, its
PARAM table, the row of PARAM with the version, the TASKLIST table. `spoilt`: a
row is in it whose reading ends the process (`yacad_task_unserialize` of a text
that does not parse, or with a variable it cannot know, where that kills; it is
taken to do so at each start or at none).

**Clone, Startup.** A step is one call of libgit2: it works, or fails, and the
process may die before the next. `clone[p]` is none, a bare repository without
remote, or one with; `has[p]` the commits it holds, `refs[p]` the branches of the
upstream, `todo` the projects still to open or to check, `step` and `cur` the
next call and its project. `libgit` is the version the core is built with:
`DeleteRemote` differs (`#if` in `yacad_scm_git.c`), so that a clone left without
remote is `Stuck` with version 22. `fresh` is what the progress callback saw.
`CheckDies` is `fill_env` for an upstream without HEAD. `due`, `built` and
`reports` are history: heads whose commits a check brought, heads reported, and
how many reports. In `Startup`, `boot` goes from off to conf (the clones, then
`Database`'s `Start`) to on; `smooth` and `lacking` are history for the
properties. Two reductions are built in: the upstream moves only between two
checks, as a check sees it as it was on connecting, and only while the core is
up, as a later start sees no difference.

**Json, Messages.** A JSON value is a record; text is a sequence of characters
of the kinds the template tells apart. `Scan` is the template's automaton,
`Verdicts` the set of outcomes a comparison may have, "dies" among them where
the code reads a value as one of another type, or compares objects of more than
`Room` keys: `compare_object` asks for n bytes to hold n pointers. That is too few
for any n; what holds up to `Room` is that the allocator gives more. 3 is the
value where the smallest block is 24 bytes and a pointer 8. `Messages` follows one task:
`Create` from its template, `Write` to a row or a socket, and one action for each
place where it is read (`Restart`, `Take`, `Settle`). `keepsNul` and `lenient`
are two behaviours of the JSON library that the code depends on and does not
settle. Names of projects have no `$`. `query_get_task` and `reply_set_result`
carry a runner id only, and have no action.

Definitions whose comment begins with *Mutant* are faulty variants of the
definition that follows them: each breaks some property, which shows that the
property depends on that code. No specification uses them.

## Runs

| run | question | bounds | result |
|---|---|---|---|
| `core_live` | is every query answered, every task handed out, and to one runner only, when messages and runners are lost? | 2 pushes to one of the projects, 1 start, 1 loss | 2 invariants, 2 liveness properties hold (42 000) |
| `core_crash` | does the core forget or repeat work, before a crash and after one? | 2 projects of 2 tasks, 2 pushes, 2 runners, 2 starts, 1 loss | 5 invariants and the refinement hold (1.4 million) |
| `core_reconf` | what if a statement or a fetch fails, a project leaves the configuration or has no task? | 3 projects, a push each, 2 starts (from two files: with one project for another, which has no tasks), 1 failure, JSON that does not compare equal after a round trip | 6 invariants, 1 action property hold (1.9 million) |
| `core_dropped_successor` | is a successor always created? | 3 pushes | **violated** |
| `core_unanswered` | is every result answered? | 2 starts, 2 configurations | **violated** |
| `worker` | is the planned check asked for, none twice, and does a stop end the process? | clock to 7, periods 2 and 3, a time that one line excludes, 2 signals, pipes of 2 | 2 invariants, 2 liveness properties hold (38 000) |
| `worker_never_checks` | are projects checked? | the same without signals | **violated** |
| `cron` | first time that agrees; when does the walk end? | days of 2 hours of 2 minutes, 10 lines, every minute of 10 months | 3 invariants, 1 action and 1 liveness property hold (47 000) |
| `cron_day31` | is `* * * * *` every minute? | one line | **violated** |
| `cron_march` | is no day skipped? | one line | **violated** |
| `startup` | what does a start, or a check, that dies or fails cost? | 2 projects, 2 pushes, 2 branches, 1 task, 1 crash, 1 failed statement, 1 failed libgit2 call or death in the configuration, both versions | 7 invariants, 2 action and 1 liveness property hold (685 000) |
| `messages` | is a task read as it was written? | every text of up to 3 characters, and what may stand around a variable; names with and without quotes; objects of up to 4 keys, one more than there is room for; 3 readings | 4 invariants hold (173 000) |

The five violations:

- `core_dropped_successor`: `same_as` (`src/src/common/task/yacad_task.c:134`)
  compares runner and JSON only. When two projects have a task of the same
  text, the successor of one is dropped while that of the other is queued.
- `core_unanswered`: a result for a project that left the configuration
  (`src/src/core/scheduler/yacad_scheduler.c:264`) is not answered, after which
  the REP socket is stuck. `DeafUntilRestart` says that nothing but a restart
  helps, `DeafOnlyByOrphan` that nothing else has this effect.
- `worker_never_checks`: `worker_wait_start`
  (`src/src/core/scheduler/yacad_scheduler.c:98`) compares `data` instead of
  `message` with "start"; the second loop is only reached when a signal breaks
  the first. `DueAsked` and `OneCheckPerDueTime` are about that second loop,
  which the `worker` run reaches by such a signal.
  `DueAsked` speaks of the time that the worker has planned. Due times that pass
  while it is kept from sending, or before it plans again, get no check of their
  own: the code makes one check stand for them. Nor is there a check after a
  plan that does not return.
- `cron_day31`: days of the month count from 1, their bits from 0
  (`src/src/common/cron/yacad_cron.c:92`).
- `cron_march`: the same lookup takes the next day of the line whether or not the
  month has it. From 2 February on, a line for the days 1 and 30 goes to 30
  February, which `mktime` makes 2 March: 1 March is skipped. `NothingSkipped`
  says that this, in a February of 28 days, is the only way to skip a time.

What a death costs: the check handler moves the clone before it inserts the task,
and the handler of a result records the success before it inserts the successor.
A core that dies in between has forgotten a task that no later start adds.
`OneLossPerDeath` counts the tasks that are owed (`Promised`: the successor of
each task that succeeded, a first task for the commit each clone stands at) and
of which no row tells, and bounds them by the number of deaths.
`SuccessorRecorded` and `ChangeRecorded` are about the core's first life, in
which nothing is forgotten.

What a failure costs depends on the statement, all of which are only logged:

| failure | cost | property |
|---|---|---|
| SELECT of the tasks | nothing but that the rest waits for the next start | all of the others hold |
| UPDATE | a task that succeeded comes back at the next start, one per failure | `RevivedByFailure` |
| fetch, in its last stage | the first task of a commit, one per failure, never a successor | `OneLossPerDeath` |
| INSERT | the task is queued under an id nobody set, that the next row gets: from then on a report may mark another task's row, and `Backed`, the order of pipelines and the rest are lost; but a task that succeeded comes back at most once per failure | `RevivedByFailure` |
| version | the table is dropped and gives its ids again, to the same effect and worse | `DeafOnlyByOrphan`, `NoLostWakeup` hold |

`Intact` says that neither of the last two has happened, and the properties about
the record are claimed as long as it holds.

### Why the bounds are enough

Two projects with an equal second task and an own first one are what `same_as`
can confuse, with a push to each in `core_crash`; two pushes to one project, in
`core_live`, make two commits of one pipeline meet in the queue. Two runners,
one by architecture and one by name and architecture, are what dispatch can
choose among. The second start is the first that finds rows and late runners,
and a third finds nothing else. One loss is a lost query, a lost answer or a
lost runner, in any place. A failure of each kind in each place is what
`core_reconf` has; the theorems have no bound on how many meet. In `worker`,
time goes past the first common due time of both projects, and two signals are
what it takes to break both loops. In `cron`, days of four minutes keep every
carry between fields; the days, months and years are the real ones. In
`core_reconf`, one file has the project that leaves and the other the one
without tasks, so that the death it brings meets tasks of the others, queued and
handed out, and one project with two tasks is in both. In `startup`, one project
is pushed to and the other is there for a start to be interrupted between two
projects; two commits and two branches make every relation of the default branch
to what the clone has (behind, ahead, moved back, merged, none); the failures
are counted apart, so that one of each kind may meet in a run, and
`StartupProofs` has no such bound. In `messages`, a text of three characters
takes the scanner through its three states and back to the first, and the texts
around `${a}` through what may precede and follow; three readings are the way
through a restart, a runner and its report.

Deadlock is checked in `core_live` and `core_crash`. Elsewhere the
system may stop: a stuck REP socket, an exited process, a walk that is done,
a core that is up and at its bounds, a task that was read as often as the bound
allows.

### Fairness

- *Scheduler.* The poller calls back for every ready socket at each turn
  (`src/src/common/zmq/yacad_zmq.c:177`), so the query of a runner is served
  although checks and other queries keep coming: strong fairness of `Serve(r)`,
  as ZeroMQ queues fairly among peers. A callback that began goes on: weak
  fairness of `CheckStep` and `AddNext`. Runners ask regularly
  (`src/doc/main.md:52`) and report. Nothing is assumed of pushes, checks, losses,
  crashes or restarts.
- *Worker.* Both threads are scheduled, the clock advances, runners keep asking.
- *Cron.* The loop runs.
- *Startup.* A start that began goes on (weak fairness of `ConfStep` and
  `DatabaseStep`: the code of `main` is sequential); nobody needs to start the
  core again, to push or to check.

## Theorems

All are proved for every value of the constants: any projects, templates,
runners, configurations and bounds.

`SchedulerProofs` assumes `TasksAssumption`, `ConfAssumption` and
`SchedulerAssumption`; TLC evaluates them in the runs.

- `TypeCorrect`: `Spec => []TypeOK`. Type correctness is not inductive alone:
  `Phase` adds that a handler half way through a successful result holds a task
  to add and a runner to answer.
- `BackedAlways`, `PipelineInOrder`: the invariant
  `Inv` has both, as each needs the other parts. A row is found by an id only if
  `Backed` holds of the job reported; `Justified` remembers, between `Succeed`
  and `AddNext`, that the task to be added has a predecessor that succeeded;
  `succeeded \subseteq DOMAIN db` makes that predecessor a row.
- `HandedOutAtMostOnce`: `OnceInv` adds that what was
  handed out has a row, so that the id of a new row is fresh.
- `RunAtMostOnce`: `RunInv` adds, up to the first
  restart, that jobs were handed out and differ, and that what is queued is new.
  A report then marks a row that is not queued.
- `LedgerUntilFailure`: under `Inv`, every step is a
  step of `Ledger` or leaves `db` and `succeeded` alone, until an INSERT, an
  UPDATE or the reading of the version fails (`AllWritten`). `Add` is `Enter`, or
  nothing when the task is queued already; `Succeed` and `Abort` are `Conclude`;
  crashes and restarts are stutters. After an UPDATE that failed, a row says
  "new" of a task that succeeded, which the ledger excludes.
- `ImplementsLedger` is the corollary for a core in which nothing fails: it alone
  assumes `MaxFaults = 0`, as `LedgerSpec` makes no exception.

None of the others assumes that nothing fails. What they claim, they claim while
`Intact` holds, and their invariants have the form `TypeInv /\ (Intact => Inv)`.
This is inductive because counts of failures never decrease (`FailedGrows`):
a step after which `Intact` holds began with it (`IntactBefore`), and neither
`AddUnsaved` nor `Reinstall` is one (`IntactSteps`). The steps with an UPDATE, a
SELECT or a fetch that fails remain, and `Inv` holds through them: a queue that is
restored in part is a part of the queue that would have been restored
(`RestoreProperties`), and a row that stays "new" is still the row of its work.
The exception is needed: an INSERT that fails queues a task under an id nobody
set (`AddUnsaved`), and a table that is dropped gives its ids again (`Reinstall`).

`RecordProofs` adds `ForgetInv`, which says that `Missing` is finite and not larger
than `Deaths` and the failed fetches together, and that not more successors than
deaths are among it.

- `ForgetsOnePerDeath`: only four things change what is missing. A row never
  changes its work, so a record lasts (`RecordedKept`); a handler that fetches or
  concludes promises one task and sets `adding` to it (`NothingForgotten`); `Add`
  leaves a row for it, or finds one by `Backed` of the queued task that looks
  alike (`AddRecords`). A death clears `adding`, which makes at most one task
  missing, and is counted (`ForgetDeath`); a fetch that fails in its last stage
  promises a first task and adds none, and is counted (`ForgetFetch`).
  `AddingPhase` says in which callbacks there is a task to add.
- `SuccessorsRecorded` and `ChangesRecorded` follow: before the first death (and,
  for changes, the first fetch that fails) there is none to pay for a missing task.
- `RevivedOnlyByFailure`: that a succeeded task's row says "new" at most once per
  write that failed is not inductive: after an INSERT that failed, nothing is
  wrong yet, but the next row may get the id that the unsaved task reports under.
  `Phantom` therefore counts ahead the ids without a row that the queue or a runner
  holds (`Told`), or whose success is recorded, and `PhantomInv` bounds these
  together with what came back. An INSERT that works may turn one into a
  row, which is no new one; only an INSERT or an UPDATE that fails makes one
  (`OnePhantom`), and all other steps make none (`NoPhantom`).

`ServiceProofs` needs no `Intact`: whatever fails,

- `DeafOnlyByOrphans` and `DeafUntilRestarted`: by `OwedInv`, a process that is
  down owes nothing, and one that owes an answer outside of the handler of a
  result has ignored a result of an orphan. No step but the end of the process
  changes `owed`, hands out or updates a row while it is set.
- `AnswersWithFixedConf`: `AlwaysAnswers`, assuming that every configuration has
  every project.
- `WakeupNeverLost`: `WakeInv` says in which state the list may hold a task that
  a quiet runner misses: in the handler of a check that has added one and has yet
  to publish.

`WorkerProofs` assumes `WorkerAssumption`, which admits a core without projects.

- `WorkerTypeCorrect`: `Spec => []TypeOK`.
- `CheckedOncePerDueTime`: `AskInv` says of a planned check that is not yet asked
  for that `next_check` is a due time and that fewer checks were asked for than
  there are due times up to it. The rest is arithmetic: `NextCheck` is a due time
  in the future (`NextMultiple`, and the minimum of a set of numbers). Without
  projects there is no such time, and the worker asks at every turn: `NextCheck` is 0 then, as in the
  code, and the property makes the exception.

`CronProofs` assumes `CronAssumption` and `InputAssumption`, for days and hours of
any length, so those of the code too. The first part is the calendar: days are
numbered in their order (`DaysInOrder`), stamps order times (`StampsInOrder`), and
`Normal` carries a field that is too large to where it belongs (`Normalised`,
`BackToLastOfMonth`). The second says of a turn of the loop, one lemma per field
(`MonthStep`, `DayStep`, `WeekdayStep`, `HourStep`, `MinuteStep`), to which time
it goes and that it passes over none that agrees, but a 1 March behind February.

- `WalkAlways`: `WalkInv` puts the turns together. No time that agrees lies
  between the current minute and the walk, and the walk is past the current
  minute unless it stands still. Of a walk that stands still that would be false:
  on the last day of an excluded month it goes back to midnight.
- `WalkTypeCorrect`, `NoTimeSkipped` and `YieldsAgreeingTime` follow from it.
- `StandsStillForever`: at a time in an excluded month, or of an excluded day of
  the week on a day that agrees, `MonthStep` and `WeekdayStep` lead to another.

`DatabaseProofs` assumes `DatabaseAssumption`.

- `LossesBounded`: `Spec => []OneLossPerFailure`. The count of losses is not
  bounded by itself: `Doomed` says which states have a loss to come, and `Inv`
  that it is paid for by a failure not yet spent.
- `OnlyFirstStartIsFatal`: `Spec => []UnusableOnlyByFirstStart`, from the part
  `Staged` of the same invariant: without failures, the version is recorded only
  over a table that exists.
- `HopelessForGood`: `Spec => HopelessStays`. A start that finds an unusable
  database, or a row that it cannot read, dies, and leaves the next one the same:
  `HopelessStep` says, per statement, that the repairs are behind tests which such
  a database passes.

`StartupProofs` assumes `CloneAssumption` besides. `Visits` says what the
variables of a visit to a project imply of each other.

- `StartupLossesBounded` and `StartupHopelessForGood` carry the two results about
  the database over to the whole start, through `StepsOfDatabase`: each step of
  `Startup` takes one of `Database` or leaves its variables alone. (That is how
  `Startup` is written, so it is a lemma here and not a result.)
- `StartupTypeCorrect`: types, and in which part of a start which step is taken.
- `StuckBounded`: a clone is made to be without remote one project at a time,
  and left so by a failure or a death that is counted.
- `StuckForGood`: by `Opened`, the projects that are open have a remote, and only
  `DeleteRemote` takes one away, of a project that is not open yet.
- `SmoothStartIsComplete`: `SmoothInv` follows each project of a start in which
  nothing failed through before, during and after its visit.

`ReportProofs`:

- `NoBuildWithoutPush`: by `Known`, a clone holds pushed commits only; by
  `Accounted`, each report, and the one that is pending, has a commit of the
  clone of its own, since only a download that brings one is followed by a report.
- `MissesNeedFailures`: `MissInv` bounds the heads that a check brought and nobody
  reported by the failures and deaths, all but the head of the check that goes on
  (`PendingHead`). A download makes its head pending; from there the check reports
  it, or loses it to something that is counted.

Only model-checked:

- liveness (`QueryAnswered`, `TaskDispatched`, `DueAsked`, `StopEnds`,
  `SmoothStartComesUp`, `EndsOrStandsStill`): fairness and `ENABLED` are out of the
  prover's reach;
- the invariants of `Messages`: what recursive definitions compute for every
  input cannot be proved with the installed provers. `Json` has the only
  `RECURSIVE` operators, for values nested in values, and no module with a theorem
  uses it. Every other safety property that a passing run checks is proved.

`SetToSortSeq` in the restoration of the tasks comes with `IsSelection`, what the
SELECT promises of the ids it yields, as a conjunct, so that the proofs rest on
that promise and TLC computes the ids.

## What is not modelled

- How text becomes JSON and back, and formatting, logging, paths, dates.
- The reading of the configuration file besides which of its entries make
  projects: the endpoints, the database path, the environment. They are read
  once, and never change.
- The runner program, whose `run` is empty, and the CGI, which has no source.
  The runners of `Scheduler` follow `doc/main.md`; that of `Messages` reads with
  the repository's own code.
- Messages of other senders that do not parse or lack a part. The code does not
  answer them (`src/src/core/scheduler/yacad_scheduler.c:323`), or dies.
- Templates that change between starts.
- The scm in `reply_get_task`: nothing reads it.
- Names of projects with a `$`.
- A signal whose handler uses a freed scheduler. (What the worker uses of it is
  `UseFreed`.)
- What a comparison that overruns its block, or follows a pointer of the wrong
  type, does to the rest of the core: `Verdicts` tells that it may die, and the
  core's modules have no templates that lead there.
- POLLOUT, the socket options, and the use a runner makes of `common/zmq`.
- The custom scm, which is compiled out.
- Daylight saving time, and cron lines that are no lines, such as one with a step
  of 0, by which the parser divides.

## Plan

Done: the core and its promise (`RunnerId`, `Task`, `TaskList`, `Scheduler`,
`Ledger`), `Worker`, `Cron` with every field restricted, `Conf`, `Database`, the
clones and the start as a whole (`Clone`, `Startup`), tables that are dropped
and lists without a task in `Scheduler`, and tasks as text (`Json`, `Messages`);
the proofs of the core's safety, its service and what it records, with failures,
of the worker, the calendar walk, the database, the start and the checks.

Next: templates that change between starts, under queued and running tasks.
