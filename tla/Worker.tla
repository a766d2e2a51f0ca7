------------------------------- MODULE Worker -------------------------------
(***************************************************************************)
(* The two threads of the core, from the creation of the scheduler to the  *)
(* end of the process: the worker thread of src/src/core/scheduler, which  *)
(* asks the main thread for a check when a project is due, and the main    *)
(* thread's start, poll loop and stop, with the signals of yacad_core.c.   *)
(* What the main thread's callbacks do is in Scheduler; here they only     *)
(* take a message.                                                         *)
(*                                                                         *)
(* POSIX lets any thread handle a signal, and zmq_poll then fails in that  *)
(* thread (EINTR), which ends its poll loop.  zmq_poll also fails (ETERM)  *)
(* once the context is being terminated.                                   *)
(***************************************************************************)
EXTENDS Integers, Sequences, FiniteSets, FiniteSetsExt

CONSTANTS
    Project,     \* the projects of the configuration
    Period,      \* each project is due when the clock is a multiple of this
    Excluded,    \* but these times, on which its cron line stands still
    MaxTime,     \* bound: the clock
    MaxSignals,  \* bound: signals received
    HighWater    \* messages a PAIR pipe holds before zmq_send blocks

ASSUME WorkerAssumption ==
    /\ IsFiniteSet(Project)
    /\ Period \in [Project -> Nat \ {0}]
    /\ Excluded \in [Project -> SUBSET Nat]
    /\ {MaxTime, MaxSignals} \subseteq Nat /\ HighWater \in Nat \ {0}

VARIABLES
    now,         \* the clock
    main,        \* where the main thread is
    running,     \* this->running
    worker,      \* where the worker thread is
    runbox,      \* messages for the worker on scheduler-run
    checks,      \* "check" messages for the main thread on scheduler-check
    asked,       \* is there a runner's query on the REP socket?
    next_check,  \* worker_next_check.time
    planned,     \* worker_next_check.confgen = conf->generation()
    check,       \* context.check
    sent,        \* history: "check" messages sent
    signals

mainVars   == <<main, running>>
workerVars == <<worker, next_check, planned, check, sent>>
vars == <<now, mainVars, workerVars, runbox, checks, asked, signals>>

TypeOK ==
    /\ now \in 0 .. MaxTime
    /\ main \in {"new", "boot", "loop", "poll", "callback", "free", "term", "exited"}
    /\ running \in BOOLEAN
    /\ worker \in {"start", "wait", "connect", "plan", "poll", "hung", "ended"}
    /\ runbox \in Seq({"start", "stop"})
    /\ checks \in 0 .. HighWater
    /\ asked \in BOOLEAN
    /\ next_check \in Nat
    /\ planned \in BOOLEAN /\ check \in BOOLEAN
    /\ sent \in Nat
    /\ signals \in 0 .. MaxSignals

(* The main thread has created the worker and not yet returned from        *)
(* yacad_scheduler_new; generation is 0 and confgen -1.                    *)
Init ==
    /\ now = 0
    /\ main = "new" /\ running = FALSE
    /\ worker = "start"
    /\ runbox = <<>> /\ checks = 0 /\ asked = FALSE
    /\ next_check = now /\ planned = FALSE /\ check = FALSE
    /\ sent = 0 /\ signals = 0

Exited == main = "exited"
-----------------------------------------------------------------------------
Tick ==
    /\ now < MaxTime /\ ~Exited
    /\ now' = now + 1
    /\ UNCHANGED <<mainVars, workerVars, runbox, checks, asked, signals>>

RunnerAsks ==
    /\ ~asked /\ ~Exited
    /\ asked' = TRUE
    /\ UNCHANGED <<now, mainVars, workerVars, runbox, checks, signals>>
-----------------------------------------------------------------------------
(***************************************************************************)
(* The main thread.                                                        *)
(***************************************************************************)
(* yacad_scheduler_new returns: from now on handle_signal sees a scheduler. *)
Created ==
    /\ main = "new"
    /\ main' = "boot"
    /\ UNCHANGED <<now, running, workerVars, runbox, checks, asked, signals>>

(* run, up to its poller: send "start", then set running. *)
Run ==
    /\ main = "boot"
    /\ runbox' = Append(runbox, "start")
    /\ running' = TRUE
    /\ main' = "loop"
    /\ UNCHANGED <<now, workerVars, checks, asked, signals>>

EnterPoll ==
    /\ main = "loop"
    /\ main' = "poll"
    /\ UNCHANGED <<now, running, workerVars, runbox, checks, asked, signals>>

(* Mutant: a check is taken off the pipe even when there is none.          *)
ReceiveBlindly ==
    /\ main = "poll" /\ (checks > 0 \/ asked)
    /\ checks' = checks - 1
    /\ asked' = FALSE
    /\ main' = "callback"
    /\ UNCHANGED <<now, running, workerVars, runbox, signals>>

(* zmq_poll returns: one message is taken of each socket that has any. *)
Receive ==
    /\ main = "poll" /\ (checks > 0 \/ asked)
    /\ checks' = IF checks > 0 THEN checks - 1 ELSE 0
    /\ asked' = FALSE
    /\ main' = "callback"
    /\ UNCHANGED <<now, running, workerVars, runbox, signals>>

(* Mutant: the callbacks return true.                                      *)
EndCallbackGoesOn ==
    /\ main = "callback"
    /\ main' = "loop"
    /\ UNCHANGED <<now, running, workerVars, runbox, checks, asked, signals>>

(* Every callback returns this->running, which ends the loop or not. *)
EndCallback ==
    /\ main = "callback"
    /\ main' = IF running THEN "loop" ELSE "free"
    /\ UNCHANGED <<now, running, workerVars, runbox, checks, asked, signals>>

(* scheduler->free, which does not wait for the worker, then zmq_term. *)
Free ==
    /\ main = "free"
    /\ main' = "term"
    /\ UNCHANGED <<now, running, workerVars, runbox, checks, asked, signals>>

(* zmq_term returns when the worker has closed its sockets. *)
Exit ==
    /\ main = "term" /\ worker = "ended"
    /\ main' = "exited"
    /\ UNCHANGED <<now, running, workerVars, runbox, checks, asked, signals>>

MainStep ==
    Created \/ Run \/ EnterPoll \/ Receive \/ EndCallback \/ Free \/ Exit
-----------------------------------------------------------------------------
(***************************************************************************)
(* The worker thread.                                                      *)
(***************************************************************************)
Terminated == main = "term"

(* Bind scheduler-run; no socket can be had of a terminated context. *)
BindRun ==
    /\ worker = "start"
    /\ worker' = IF Terminated THEN "ended" ELSE "wait"
    /\ UNCHANGED <<now, mainVars, next_check, planned, check, sent, runbox,
                   checks, asked, signals>>

(* worker_wait_start compares its context, not the message, with "start":  *)
(* it goes on waiting whatever it reads.                                   *)
WaitStart ==
    /\ worker = "wait" /\ runbox # <<>>
    /\ runbox' = Tail(runbox)
    /\ UNCHANGED <<now, mainVars, workerVars, checks, asked, signals>>

ConnectCheck ==
    /\ worker = "connect"
    /\ worker' = IF Terminated THEN "ended" ELSE "plan"
    /\ UNCHANGED <<now, mainVars, next_check, planned, check, sent, runbox,
                   checks, asked, signals>>

(* cron->next of a project: the first due time after the current one. *)
NextDue(p) == (now \div Period[p] + 1) * Period[p]

(* It does not return when it meets a month, or a matching day, which the  *)
(* line excludes (Cron.StillForever).                                      *)
NextReturns(p) == (now + 1 .. NextDue(p)) \cap Excluded[p] = {}

(* worker_next_check: that of the project which is due first; the time     *)
(* stays 0, which has always come, when there is none.                     *)
NextCheck == IF Project = {} THEN 0 ELSE Min({NextDue(p) : p \in Project})

(* worker_timeout: compute the next check if one was just asked for. *)
PlanNext ==
    /\ worker = "plan"
    /\ \/ /\ check \/ ~planned
          /\ \A p \in Project : NextReturns(p)
          /\ worker' = "poll"
          /\ next_check' = NextCheck
          /\ planned' = TRUE /\ check' = FALSE
       \/ /\ check \/ ~planned
          /\ \E p \in Project : ~NextReturns(p)
          /\ worker' = "hung"
          /\ UNCHANGED <<next_check, planned, check>>
       \/ /\ planned /\ ~check
          /\ worker' = "poll"
          /\ UNCHANGED <<next_check, planned, check>>
    /\ UNCHANGED <<now, mainVars, sent, runbox, checks, asked, signals>>

(* Mutant: context.check is not set.                                       *)
SendCheckAgain ==
    /\ worker = "poll" /\ runbox = <<>> /\ main \notin {"free", "term"}
    /\ next_check <= now
    /\ checks < HighWater
    /\ checks' = checks + 1
    /\ sent' = sent + 1
    /\ worker' = "plan"
    /\ UNCHANGED <<now, mainVars, next_check, planned, check, runbox, asked,
                   signals>>

(* worker_on_timeout, when nothing came before the time of the check.  The  *)
(* pipe takes no message once run has closed the main thread's end of it.  *)
SendCheck ==
    /\ worker = "poll" /\ runbox = <<>> /\ main \notin {"free", "term"}
    /\ next_check <= now
    /\ checks < HighWater
    /\ checks' = checks + 1
    /\ sent' = sent + 1
    /\ check' = TRUE
    /\ worker' = "plan"
    /\ UNCHANGED <<now, mainVars, next_check, planned, runbox, asked, signals>>

(* worker_on_pollin *)
ReadRun ==
    /\ worker = "poll" /\ runbox # <<>>
    /\ runbox' = Tail(runbox)
    /\ worker' = IF Head(runbox) = "stop" THEN "ended" ELSE "plan"
    /\ UNCHANGED <<now, mainVars, next_check, planned, check, sent, checks,
                   asked, signals>>

(* Mutant: after its second loop, the thread begins again with the first.  *)
AfterFailureWaits == IF worker = "wait" THEN "connect" ELSE "wait"

(* zmq_poll fails: the loop is over, the thread goes on with what follows. *)
AfterFailure == IF worker = "wait" THEN "connect" ELSE "ended"

PollTerminated ==
    /\ Terminated /\ worker \in {"wait", "poll"}
    /\ worker' = AfterFailure
    /\ UNCHANGED <<now, mainVars, next_check, planned, check, sent, runbox,
                   checks, asked, signals>>

(* The scheduler is freed and its worker still uses it: that may be the    *)
(* end of the process, or of all progress in the worker, or (the other     *)
(* steps) make no difference.                                              *)
UseFreed ==
    /\ Terminated
    /\ \/ /\ worker \in {"start", "connect", "plan", "poll", "hung"}
          /\ main' = "exited" /\ worker' = "ended"
       \/ /\ worker \in {"plan", "poll"}
          /\ main' = main /\ worker' = "hung"
    /\ UNCHANGED <<now, running, next_check, planned, check, sent, runbox,
                   checks, asked, signals>>

WorkerStep ==
    BindRun \/ WaitStart \/ ConnectCheck \/ PlanNext \/ SendCheck \/ ReadRun
        \/ PollTerminated
-----------------------------------------------------------------------------
(***************************************************************************)
(* handle_signal: stop, if there is a scheduler.  Its connection is        *)
(* refused, and "stop" lost, while the pipe that brought "start" is open.  *)
(***************************************************************************)
Stop ==
    IF main = "new" THEN UNCHANGED <<running, runbox>>
    ELSE /\ running' = FALSE
         /\ \/ runbox' = Append(runbox, "stop")
            \/ runbox # <<>> /\ UNCHANGED runbox

Signal ==
    /\ signals < MaxSignals
    /\ signals' = signals + 1
    /\ main \notin {"free", "term", "exited"}
    /\ Stop
    /\ UNCHANGED <<now, next_check, planned, check, sent, checks, asked>>

SignalMain ==
    /\ Signal
    /\ main' = IF main = "poll" THEN "free" ELSE main
    /\ UNCHANGED worker

SignalWorker ==
    /\ Signal
    /\ worker # "ended"
    /\ worker' = IF worker \in {"wait", "poll"} THEN AfterFailure ELSE worker
    /\ UNCHANGED main
-----------------------------------------------------------------------------
Next ==
    \/ Tick \/ RunnerAsks \/ MainStep \/ WorkerStep \/ UseFreed
    \/ SignalMain \/ SignalWorker

(* Both threads run, the clock advances, and runners keep asking; signals  *)
(* may never come, and the use of freed memory may never do harm.          *)
Fairness ==
    WF_vars(Tick) /\ WF_vars(RunnerAsks) /\ WF_vars(MainStep) /\ WF_vars(WorkerStep)

Spec == Init /\ [][Next]_vars /\ Fairness
-----------------------------------------------------------------------------
Due(p, t) == t % Period[p] = 0 /\ t \notin Excluded[p]

DueTimes == {t \in 1 .. now : \E p \in Project : Due(p, t)}

(* The worker never asks twice for the same due time, nor for none, unless *)
(* there is no project: then it asks at every turn of its loop.            *)
OneCheckPerDueTime == Project # {} => sent <= Cardinality(DueTimes)

(* Once the time that the worker has planned has come, it asks for the     *)
(* check, or ends, or the scheduler is gone, however long the main thread  *)
(* leaves the pipe full and whatever messages come first.  This is about   *)
(* the planned time alone: one check stands for all the due times that     *)
(* pass until the worker plans again, and a worker that does not get to    *)
(* the end of a plan asks for nothing any more.                            *)
DueAsked ==
    (worker = "poll" /\ next_check <= now)
        ~> (check \/ worker = "ended" \/ Terminated)

(* A stop received once the scheduler runs ends the process, unless the    *)
(* worker hangs in next, or in memory that was freed: zmq_term then waits  *)
(* for the sockets it never closes.                                        *)
StopEnds ==
    (~running /\ main \in {"loop", "poll", "callback"})
        ~> (Exited \/ worker = "hung")

(* A core that runs checks its projects.                                   *)
ProjectsChecked == (main = "poll") ~> (sent > 0 \/ ~running)
=============================================================================
