------------------------------- MODULE Clone --------------------------------
(***************************************************************************)
(* The core's bare clones of the upstream repositories: how a start of the *)
(* core opens or makes them (yacad_scm_git_new), and how a check fetches   *)
(* (check and fill_env of yacad_scm_git).  Startup composes it with the    *)
(* database; Scheduler has the outcome of a whole check.                   *)
(*                                                                         *)
(* A step is one call of libgit2, which may fail, and after which the      *)
(* process may die: what the calls did to the clone stays.                 *)
(***************************************************************************)
EXTENDS Integers, FiniteSets, SequencesExt

CONSTANTS
    Project,       \* the projects of the configuration file
    Branch,        \* the branches of an upstream repository, and the one
    Default,       \*   its HEAD names
    None,
    MaxPushes,     \* bound: commits pushed to each upstream
    MaxGitTroubles \* bound: calls of libgit2 that fail, and deaths of the
                   \*   process while the configuration is being read

ASSUME CloneAssumption ==
    /\ IsFiniteSet(Project)
    /\ Default \in Branch /\ None \notin Project
    /\ MaxPushes \in [Project -> Nat]
    /\ MaxGitTroubles \in Nat

VARIABLES
    libgit,    \* the version of libgit2 the core is built with
    clone,     \* per project: no clone, one without remote, one with
    has,       \* per project: the commits the clone has
    refs,      \* per project: the commits of each upstream branch, oldest first
    pushed,    \* per project: how many commits its upstream was given
    todo,      \* projects still to open, or to check
    open,      \* projects of the configuration
    step, cur, \* what is done next, and to which project
    fresh,     \* did this check bring commits?
    due,       \* history: default heads a check brought the commits of
    built,     \* history: commits reported for building
    reports,   \* history: how many reports there were
    gitFaults, cuts

kept     == <<libgit, clone, has>>
upstream == <<refs, pushed>>
visit    == <<step, cur, fresh>>
history  == <<due, built, reports>>

Refs == [Branch -> Seq(Nat)]
NoRefs == [b \in Branch |-> <<>>]

OpenSteps  == {"delete", "init", "create"}
CheckSteps == {"download", "update", "report"}

ClonesTypeOK ==
    /\ libgit \in {21, 22}
    /\ clone \in [Project -> {"none", "bare", "remote"}]
    /\ has \in [Project -> SUBSET Nat]
    /\ refs \in [Project -> Refs] /\ pushed \in [Project -> Nat]
    /\ todo \subseteq Project /\ open \subseteq Project
    /\ step \in {"idle"} \cup OpenSteps \cup CheckSteps
    /\ cur \in Project \cup {None} /\ (cur = None <=> step = "idle")
    /\ fresh \in BOOLEAN
    /\ due \in [Project -> SUBSET Nat] /\ built \in [Project -> SUBSET Nat]
    /\ reports \in [Project -> Nat]
    /\ gitFaults \in Nat /\ cuts \in Nat

InitClones ==
    /\ libgit \in {21, 22}
    /\ clone = [p \in Project |-> "none"] /\ has = [p \in Project |-> {}]
    /\ refs = [p \in Project |-> NoRefs] /\ pushed = [p \in Project |-> 0]
    /\ todo = {} /\ open = {}
    /\ step = "idle" /\ cur = None /\ fresh = FALSE
    /\ due = [p \in Project |-> {}] /\ built = [p \in Project |-> {}]
    /\ reports = [p \in Project |-> 0]
    /\ gitFaults = 0 /\ cuts = 0
-----------------------------------------------------------------------------
Works     == UNCHANGED gitFaults
Misfires  == gitFaults + cuts < MaxGitTroubles /\ gitFaults' = gitFaults + 1

GoTo(next) == step' = next /\ UNCHANGED <<cur, fresh>>
Leave      == step' = "idle" /\ cur' = None /\ fresh' = FALSE

(* What memory held of it is gone. *)
Forget == todo' = {} /\ open' = {} /\ Leave

(* The upstream repository: a commit is pushed to a branch, on top of what *)
(* is there; the default branch loses its last commit, or is moved to      *)
(* where another one is.  A check sees the branches as they were when it   *)
(* connected: what becomes of them later is seen by the next one, so that  *)
(* it may as well happen between two checks.                               *)
Push(p, b) ==
    /\ todo = {} /\ step = "idle" /\ pushed[p] < MaxPushes[p]
    /\ pushed' = [pushed EXCEPT ![p] = @ + 1]
    /\ refs' = [refs EXCEPT ![p][b] = Append(@, pushed[p] + 1)]
    /\ UNCHANGED <<kept, todo, open, visit, history, gitFaults, cuts>>

MoveDefault(p, to) ==
    /\ todo = {} /\ step = "idle" /\ refs[p][Default] # to
    /\ refs' = [refs EXCEPT ![p][Default] = to]
    /\ UNCHANGED <<kept, pushed, todo, open, visit, history, gitFaults, cuts>>

TakeBack(p) == refs[p][Default] # <<>> /\ MoveDefault(p, Front(refs[p][Default]))
Merge(p, b) == refs[p][b] # <<>> /\ MoveDefault(p, refs[p][b])
-----------------------------------------------------------------------------
(***************************************************************************)
(* yacad_scm_git_new, for the projects of the file in turn.                *)
(***************************************************************************)
(* Mutant: every clone is made again.                                      *)
InitEvery(p) ==
    /\ step = "idle" /\ p \in todo
    /\ todo' = todo \ {p} /\ cur' = p
    /\ UNCHANGED fresh
    /\ Works /\ step' = "init"
    /\ UNCHANGED <<kept, upstream, open, history, cuts>>

(* git_repository_open_bare *)
OpenBare(p) ==
    /\ step = "idle" /\ p \in todo
    /\ todo' = todo \ {p} /\ cur' = p
    /\ UNCHANGED fresh
    /\ \/ clone[p] # "none" /\ Works /\ step' = "delete"
       \/ clone[p] = "none" /\ Works /\ step' = "init"
       \/ clone[p] # "none" /\ Misfires /\ step' = "init"
    /\ UNCHANGED <<kept, upstream, open, history, cuts>>

(* The project is left out of the configuration. *)
GiveUp == Leave /\ UNCHANGED <<clone, open>>

(* Mutant: as with version 21 whatever the version.                        *)
DeleteIfAny ==
    /\ step = "delete"
    /\ \/ /\ clone[cur] = "remote" /\ Works
          /\ clone' = [clone EXCEPT ![cur] = "bare"]
          /\ GoTo("create") /\ UNCHANGED open
       \/ Misfires /\ GiveUp
       \/ clone[cur] = "bare" /\ Works /\ GoTo("create") /\ UNCHANGED <<clone, open>>
    /\ UNCHANGED <<libgit, has, upstream, todo, history, cuts>>

(* git_remote_delete, which version 21 is asked only for a remote that can *)
(* be loaded, and version 22 in any case.                                  *)
DeleteRemote ==
    /\ step = "delete"
    /\ \/ /\ clone[cur] = "remote" /\ Works
          /\ clone' = [clone EXCEPT ![cur] = "bare"]
          /\ GoTo("create") /\ UNCHANGED open
       \/ Misfires /\ GiveUp
       \/ clone[cur] = "bare" /\ libgit = 22 /\ Works /\ GiveUp
       \/ /\ libgit = 21
          /\ (clone[cur] = "bare" /\ Works) \/ Misfires
          /\ GoTo("create") /\ UNCHANGED <<clone, open>>
    /\ UNCHANGED <<libgit, has, upstream, todo, history, cuts>>

(* Mutant: a new clone is left without remote.                             *)
InitOnly ==
    /\ step = "init"
    /\ \/ /\ Works
          /\ clone' = [clone EXCEPT ![cur] = IF @ = "none" THEN "bare" ELSE @]
          /\ open' = open \cup {cur} /\ Leave
       \/ Misfires /\ GiveUp
    /\ UNCHANGED <<libgit, has, upstream, todo, history, cuts>>

(* git_repository_init, which leaves alone a repository that is there *)
InitBare ==
    /\ step = "init"
    /\ \/ /\ Works
          /\ clone' = [clone EXCEPT ![cur] = IF @ = "none" THEN "bare" ELSE @]
          /\ GoTo("create") /\ UNCHANGED open
       \/ Misfires /\ GiveUp
    /\ UNCHANGED <<libgit, has, upstream, todo, history, cuts>>

(* git_remote_create, refused if there is one, and then the callbacks *)
CreateRemote ==
    /\ step = "create"
    /\ \/ /\ clone[cur] = "bare" /\ Works
          /\ clone' = [clone EXCEPT ![cur] = "remote"]
          /\ open' = open \cup {cur}
          /\ Leave
       \/ clone[cur] = "remote" /\ Works /\ GiveUp
       \/ Misfires /\ GiveUp
       \/ /\ clone[cur] = "bare" /\ Misfires
          /\ clone' = [clone EXCEPT ![cur] = "remote"]
          /\ Leave /\ UNCHANGED open
    /\ UNCHANGED <<libgit, has, upstream, todo, history, cuts>>

OpenClone ==
    \/ \E p \in Project : OpenBare(p)
    \/ DeleteRemote \/ InitBare \/ CreateRemote
-----------------------------------------------------------------------------
(***************************************************************************)
(* A check of the projects that are open.                                  *)
(***************************************************************************)
Commits(r) == UNION {Range(r[b]) : b \in Branch}

(* git_remote_connect *)
Connect(p) ==
    /\ step = "idle" /\ p \in todo
    /\ todo' = todo \ {p}
    /\ \/ Works /\ step' = "download" /\ cur' = p /\ UNCHANGED fresh
       \/ Misfires /\ UNCHANGED visit
    /\ UNCHANGED <<kept, upstream, open, history, cuts>>

(* The commit HEAD names, as the advertisement of the upstream has it. *)
HeadOf(r) == IF r[Default] = <<>> THEN {} ELSE {Last(r[Default])}

(* Mutant: whatever was there counts as progress.                          *)
DownloadAnything ==
    /\ step = "download"
    /\ \/ /\ Works
          /\ has' = [has EXCEPT ![cur] = @ \cup Commits(refs[cur])]
          /\ due' = [due EXCEPT ![cur] = @ \cup (HeadOf(refs[cur]) \ has[cur])]
          /\ fresh' = TRUE
          /\ step' = "update" /\ UNCHANGED cur
       \/ Misfires /\ Leave /\ UNCHANGED <<has, due>>
    /\ UNCHANGED <<libgit, clone, upstream, todo, open, built, reports, cuts>>

(* git_remote_download: the commits the clone lacks, if any, and only they *)
(* make for a progress that the callback sees.                             *)
Download ==
    /\ step = "download"
    /\ \/ /\ Works
          /\ has' = [has EXCEPT ![cur] = @ \cup Commits(refs[cur])]
          /\ due' = [due EXCEPT ![cur] = @ \cup (HeadOf(refs[cur]) \ has[cur])]
          /\ fresh' = ~ (Commits(refs[cur]) \subseteq has[cur])
          /\ step' = "update" /\ UNCHANGED cur
       \/ Misfires /\ Leave /\ UNCHANGED <<has, due>>
    /\ UNCHANGED <<libgit, clone, upstream, todo, open, built, reports, cuts>>

(* Mutant: the counters of progress are reset before they are looked at.   *)
UpdateTipsAfterReset ==
    /\ step = "update"
    /\ Works \/ Misfires
    /\ Leave
    /\ UNCHANGED <<kept, upstream, todo, open, history, cuts>>

(* git_remote_update_tips: the remote is up to date, the download was not  *)
(* complete, or it needs building.                                         *)
UpdateTips ==
    /\ step = "update"
    /\ \/ fresh /\ Works /\ GoTo("report")
       \/ ~fresh /\ Works /\ Leave
       \/ Misfires /\ Leave
    /\ UNCHANGED <<kept, upstream, todo, open, history, cuts>>

(* fill_env: HEAD is what is reported, *)
Report ==
    /\ step = "report" /\ refs[cur][Default] # <<>>
    /\ built' = [built EXCEPT ![cur] = @ \cup HeadOf(refs[cur])]
    /\ reports' = [reports EXCEPT ![cur] = @ + 1]
    /\ Leave
    /\ UNCHANGED <<kept, upstream, todo, open, due, gitFaults, cuts>>

(* and without HEAD there is no default branch to copy the name of. *)
ReportNoHead ==
    /\ step = "report" /\ refs[cur][Default] = <<>>
    /\ Forget
    /\ UNCHANGED <<kept, upstream, history, gitFaults, cuts>>

CheckClone ==
    \/ \E p \in Project : Connect(p)
    \/ Download \/ UpdateTips \/ Report
=============================================================================
