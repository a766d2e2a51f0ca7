------------------------------ MODULE Startup -------------------------------
(***************************************************************************)
(* A start of the core from main on: the configuration opens the clones of *)
(* its projects (Clone), the scheduler its database (Database), and then   *)
(* the clones are checked, until the process ends, wherever it is, and is  *)
(* started again.                                                          *)
(***************************************************************************)
EXTENDS Database, Clone

VARIABLES
    boot,      \* is the core off, reading its configuration, or past that?
    smooth,    \* history: has nothing failed since main was entered?
    lacking    \* history: the projects whose clones were stuck then

startVars == <<libgit, clone, has, refs, pushed, todo, open, visit, history,
               gitFaults, cuts, boot, smooth, lacking>>
allVars == <<vars, startVars>>

(* The clone has no remote, and is not about to be given one: with version *)
(* 22, git_remote_delete comes first and fails.                            *)
Stuck == {p \in Project :
            /\ libgit = 22 /\ clone[p] = "bare"
            /\ ~ (cur = p /\ step \in {"init", "create"})}

StartupTypeOK ==
    /\ TypeOK
    /\ ClonesTypeOK
    /\ boot \in {"off", "conf", "on"} /\ (boot = "on" <=> stage # "down")
    /\ smooth \in BOOLEAN /\ lacking \subseteq Project
    /\ step \in OpenSteps => boot = "conf"
    /\ step \in CheckSteps => stage = "up" /\ cur \in open

StartupInit ==
    /\ Init /\ InitClones
    /\ boot = "off" /\ smooth = TRUE /\ lacking = {}
-----------------------------------------------------------------------------
(* main: yacad_core_conf_new begins, *)
Boot ==
    /\ boot = "off" /\ boot' = "conf"
    /\ todo' = Project
    /\ smooth' = TRUE /\ lacking' = Stuck
    /\ UNCHANGED <<vars, kept, upstream, open, visit, history, gitFaults, cuts>>

(* read_projects, one call after the other, *)
OpenClones ==
    /\ boot = "conf" /\ OpenClone
    /\ smooth' = (smooth /\ gitFaults' = gitFaults)
    /\ UNCHANGED <<vars, boot, lacking>>

(* and, when it has returned, yacad_scheduler_new. *)
OpenDatabase ==
    /\ boot = "conf" /\ todo = {} /\ step = "idle"
    /\ boot' = "on"
    /\ Start
    /\ UNCHANGED <<kept, upstream, todo, open, visit, history, gitFaults, cuts,
                   smooth, lacking>>

GoesOff ==
    /\ boot' = "off" /\ Forget
    /\ UNCHANGED <<kept, upstream, history, gitFaults, cuts>>

(* A step of yacad_tasklist_new, which may be the end of the process. *)
DatabaseStep ==
    /\ Advance
    /\ IF stage' = "down"
          THEN GoesOff
          ELSE UNCHANGED <<boot, kept, upstream, todo, open, visit, history,
                           gitFaults, cuts>>
    /\ smooth' = (smooth /\ faults' = faults)
    /\ UNCHANGED lacking

(* The worker asks for a check of the projects. *)
Check ==
    /\ stage = "up" /\ todo = {} /\ step = "idle"
    /\ todo' = open
    /\ UNCHANGED <<vars, boot, kept, upstream, open, visit, history, gitFaults,
                   cuts, smooth, lacking>>

CheckClones ==
    /\ stage = "up" /\ CheckClone
    /\ UNCHANGED <<vars, boot, smooth, lacking>>

(* For the database, this is a crash like any other. *)
CheckDies ==
    /\ stage = "up" /\ ReportNoHead
    /\ Crash /\ boot' = "off"
    /\ UNCHANGED <<smooth, lacking>>

Insert == InsertTask /\ UNCHANGED startVars

(* Crashes: in the scheduler, and before it. *)
CrashOn ==
    /\ Crash /\ GoesOff
    /\ smooth' = FALSE /\ UNCHANGED lacking

CrashInConf ==
    /\ boot = "conf" /\ gitFaults + cuts < MaxGitTroubles
    /\ cuts' = cuts + 1
    /\ boot' = "off" /\ Forget
    /\ smooth' = FALSE
    /\ UNCHANGED <<vars, kept, upstream, history, gitFaults, lacking>>

(* What becomes of the upstream repositories while the core is not up is   *)
(* seen no sooner than if it happened right after.                         *)
UpstreamStep ==
    /\ stage = "up"
    /\ \E p \in Project :
         TakeBack(p) \/ \E b \in Branch : Push(p, b) \/ Merge(p, b)
    /\ UNCHANGED <<vars, boot, smooth, lacking>>

ConfStep == OpenClones \/ OpenDatabase

StartupNext ==
    \/ Boot \/ ConfStep \/ DatabaseStep
    \/ Check \/ CheckClones \/ CheckDies \/ Insert
    \/ CrashOn \/ CrashInConf \/ UpstreamStep

(* A start that began goes on; nothing is assumed of anything else. *)
StartupSpec ==
    /\ StartupInit /\ [][StartupNext]_allVars
    /\ WF_allVars(ConfStep) /\ WF_allVars(DatabaseStep)
-----------------------------------------------------------------------------
(* A project is lost to a clone without remote only where a start died or  *)
(* a call failed, one project each time.                                   *)
StuckByAccident == Cardinality(Stuck) <= gitFaults + cuts

(* Such a clone is out of the configuration for all starts to come, unless *)
(* yet another call fails (the clone does not open, and is made again).    *)
StuckStays ==
    [][/\ gitFaults' = gitFaults => Stuck \subseteq Stuck'
       /\ Stuck \cap open' = {}]_allVars

(* A start in which nothing fails configures every other project, whatever *)
(* the starts before it did to the clones, *)
SmoothStartConfigures ==
    boot = "on" /\ smooth => open = Project \ lacking

(* and comes up, unless the database is beyond use or has a row that does  *)
(* not parse: no other death or failure of an earlier start is in the way. *)
SmoothStartComesUp ==
    (boot = "conf" /\ ~Hopeless /\ smooth) ~> (stage = "up" \/ ~smooth)

(* A head whose commits a check has brought is reported, unless the check  *)
(* died, or failed, on the way: one head each time.                        *)
Missed == UNION {{<<p, c>> : c \in due[p] \ built[p]} : p \in Project}

ChangesMissed ==
    step \notin CheckSteps => Cardinality(Missed) <= gitFaults + crashes

(* No push, no build: whatever restarts, failures and branches that move   *)
(* back and forth, there are at most as many reports as commits.           *)
ReportsNeedPushes == \A p \in Project : reports[p] <= pushed[p]
=============================================================================
