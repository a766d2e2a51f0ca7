--------------------------- MODULE StartupProofs ----------------------------
(***************************************************************************)
(* Proofs about Startup, for all projects, branches and bounds.            *)
(***************************************************************************)
EXTENDS Startup, DatabaseProofs, FiniteSetTheorems, SequenceTheorems

(***************************************************************************)
(* The database inside the start: Startup's steps are Database's.          *)
(***************************************************************************)
LEMMA StepsOfDatabase == [StartupNext]_allVars => [Next]_vars
<1> SUFFICES ASSUME [StartupNext]_allVars PROVE [Next]_vars
  OBVIOUS
<1>1. CASE DatabaseStep
  BY <1>1 DEF DatabaseStep, Next
<1>2. CASE OpenDatabase
  BY <1>2 DEF OpenDatabase, Next
<1>3. CASE CheckDies \/ CrashOn
  BY <1>3 DEF CheckDies, CrashOn, Next
<1>4. CASE Insert
  BY <1>4 DEF Insert, Next
<1>5. CASE \/ Boot \/ OpenClones \/ Check \/ CheckClones \/ CrashInConf
           \/ UpstreamStep \/ UNCHANGED allVars
  BY <1>5 DEF Boot, OpenClones, Check, CheckClones, CrashInConf, UpstreamStep, allVars
<1> QED
  BY <1>1, <1>2, <1>3, <1>4, <1>5 DEF StartupNext, ConfStep

(* So that what is proved of Database holds of the whole start. *)
LEMMA StartIncludesDatabase == StartupSpec => Init /\ [][Next]_vars
<1>1. StartupInit => Init
  BY DEF StartupInit
<1> QED
  BY <1>1, StepsOfDatabase, PTL DEF StartupSpec

LEMMA DatabaseInv == StartupSpec => []Inv
<1>1. Init => Inv
  BY InvInit
<1>2. Inv /\ [Next]_vars => Inv'
  BY InvStep
<1> QED
  BY <1>1, <1>2, StartIncludesDatabase, PTL

-----------------------------------------------------------------------------
(***************************************************************************)
(* Types, and what the variables of a visit say of each other.             *)
(***************************************************************************)
Visits ==
    /\ ClonesTypeOK
    /\ boot \in {"off", "conf", "on"} /\ (boot = "on" <=> stage # "down")
    /\ smooth \in BOOLEAN /\ lacking \subseteq Project
    /\ step \in OpenSteps => boot = "conf"
    /\ step \in CheckSteps => stage = "up" /\ cur \in open
    /\ boot = "on" => todo \subseteq open
    /\ fresh => step \in {"update", "report"}
    /\ step = "report" => fresh

LEMMA VisitsInit == StartupInit => Visits
<1> SUFFICES ASSUME StartupInit PROVE Visits
  OBVIOUS
<1>1. NoRefs \in Refs
  BY DEF NoRefs, Refs
<1>2. ClonesTypeOK
  BY <1>1 DEF StartupInit, InitClones, ClonesTypeOK
<1> QED
  BY <1>2 DEF StartupInit, InitClones, Init, Visits, OpenSteps, CheckSteps

(* Opening a clone writes its entry of `clone' and goes on with it.        *)
LEMMA OpenCloneShape ==
  ASSUME ClonesTypeOK, OpenClone
  PROVE  /\ UNCHANGED <<libgit, has, refs, pushed, due, built, reports, cuts>>
         /\ gitFaults' \in {gitFaults, gitFaults + 1}
         /\ clone' \in [Project -> {"none", "bare", "remote"}]
         /\ \A p \in Project \ {cur} : clone'[p] = clone[p]
         /\ todo' \subseteq todo
         /\ open' \in {open, open \cup {cur}}
         /\ step' \in {"idle"} \cup OpenSteps
         /\ cur' \in Project \cup {None} /\ (cur' = None <=> step' = "idle")
         /\ fresh' = fresh \/ fresh' = FALSE
         /\ cur = None \/ cur' = None \/ cur' = cur
<1> USE CloneAssumption DEF ClonesTypeOK, kept, upstream, history, visit, Works, Misfires,
        GoTo, Leave, GiveUp, OpenSteps, CheckSteps
<1>1. ASSUME NEW p \in Project, OpenBare(p) PROVE cur = None /\ cur' = p /\ step' \in OpenSteps
                       /\ UNCHANGED <<clone, open, fresh>>
  BY <1>1 DEF OpenBare
<1>2. CASE \E p \in Project : OpenBare(p)
  BY <1>1, <1>2 DEF OpenBare
<1>3. CASE DeleteRemote
  <2>1. clone' = clone \/ clone' = [clone EXCEPT ![cur] = "bare"]
    BY <1>3 DEF DeleteRemote
  <2>2. step' \in {"idle", "create"} /\ cur \in Project /\ cur # None
    BY <1>3 DEF DeleteRemote
  <2>3. fresh' = fresh \/ fresh' = FALSE
    BY <1>3 DEF DeleteRemote
  <2>4. /\ clone' \in [Project -> {"none", "bare", "remote"}]
        /\ \A p \in Project \ {cur} : clone'[p] = clone[p]
    BY <2>1, <2>2
  <2>5. /\ UNCHANGED <<libgit, has, refs, pushed, due, built, reports, cuts, todo, open>>
        /\ gitFaults' \in {gitFaults, gitFaults + 1}
        /\ cur' \in Project \cup {None} /\ (cur' = None <=> step' = "idle")
        /\ cur = None \/ cur' = None \/ cur' = cur
    BY <1>3, <2>2 DEF DeleteRemote
  <2> QED
    BY <2>2, <2>3, <2>4, <2>5
<1>4. CASE InitBare
  <2>1. clone' = clone \/ clone' = [clone EXCEPT ![cur] = IF @ = "none" THEN "bare" ELSE @]
    BY <1>4 DEF InitBare
  <2>2. step' \in {"idle", "create"} /\ cur \in Project /\ cur # None
    BY <1>4 DEF InitBare
  <2>3. fresh' = fresh \/ fresh' = FALSE
    BY <1>4 DEF InitBare
  <2>4. /\ clone' \in [Project -> {"none", "bare", "remote"}]
        /\ \A p \in Project \ {cur} : clone'[p] = clone[p]
    BY <2>1, <2>2
  <2>5. /\ UNCHANGED <<libgit, has, refs, pushed, due, built, reports, cuts, todo, open>>
        /\ gitFaults' \in {gitFaults, gitFaults + 1}
        /\ cur' \in Project \cup {None} /\ (cur' = None <=> step' = "idle")
        /\ cur = None \/ cur' = None \/ cur' = cur
    BY <1>4, <2>2 DEF InitBare
  <2> QED
    BY <2>2, <2>3, <2>4, <2>5
<1>5. CASE CreateRemote
  <2>1. clone' = clone \/ clone' = [clone EXCEPT ![cur] = "remote"]
    BY <1>5 DEF CreateRemote
  <2>2. step' = "idle" /\ cur \in Project /\ cur # None
    BY <1>5 DEF CreateRemote
  <2> QED
    BY <1>5, <2>1, <2>2 DEF CreateRemote
<1> QED
  BY <1>2, <1>3, <1>4, <1>5 DEF OpenClone

(* A check writes what the clone has, and at its end what was reported.    *)
LEMMA CheckCloneShape ==
  ASSUME ClonesTypeOK, CheckClone, fresh => step \in {"update", "report"}
  PROVE  /\ UNCHANGED <<libgit, clone, refs, pushed, open, cuts>>
         /\ gitFaults' \in {gitFaults, gitFaults + 1}
         /\ has' \in [Project -> SUBSET Nat]
         /\ due' \in [Project -> SUBSET Nat] /\ built' \in [Project -> SUBSET Nat]
         /\ reports' \in [Project -> Nat]
         /\ todo' \subseteq todo
         /\ step' \in {"idle"} \cup CheckSteps
         /\ cur' \in Project \cup {None} /\ (cur' = None <=> step' = "idle")
         /\ cur' \in {None, cur} \cup todo
         /\ fresh' \in BOOLEAN
         /\ fresh' => step' \in {"update", "report"}
         /\ (step = "report" => fresh) => (step' = "report" => fresh')
<1> USE CloneAssumption DEF ClonesTypeOK, kept, upstream, history, visit, Works, Misfires,
        GoTo, Leave, OpenSteps, CheckSteps
<1>1. CASE \E p \in Project : Connect(p)
  BY <1>1 DEF Connect
<1> DEFINE Tip == refs[cur][Default]
<1>2. ASSUME cur \in Project PROVE Commits(refs[cur]) \subseteq Nat /\ HeadOf(refs[cur]) \subseteq Nat
  <2>1. \A b \in Branch : refs[cur][b] \in Seq(Nat)
    BY <1>2 DEF Refs
  <2>2. \A b \in Branch : Range(refs[cur][b]) \subseteq Nat
    BY <2>1 DEF Range
  <2>3. Tip \in Seq(Nat)
    BY <2>1
  <2>4. Tip # <<>> => Last(Tip) \in Nat
    BY <2>3 DEF Last
  <2> QED
    BY <2>2, <2>4 DEF Commits, HeadOf
<1>3. CASE Download
  <2>1. cur \in Project /\ cur # None
    BY <1>3 DEF Download
  <2>2. has' = has \/ has' = [has EXCEPT ![cur] = @ \cup Commits(refs[cur])]
    BY <1>3 DEF Download
  <2>3. due' = due \/ due' = [due EXCEPT ![cur] = @ \cup (HeadOf(refs[cur]) \ has[cur])]
    BY <1>3 DEF Download
  <2>4. has' \in [Project -> SUBSET Nat] /\ due' \in [Project -> SUBSET Nat]
    BY <1>2, <2>1, <2>2, <2>3
  <2> QED
    BY <1>3, <2>1, <2>4 DEF Download
<1>4. CASE UpdateTips
  BY <1>4 DEF UpdateTips
<1>5. CASE Report
  <2>1. cur \in Project /\ cur # None
    BY <1>5 DEF Report
  <2>2. built' \in [Project -> SUBSET Nat] /\ reports' \in [Project -> Nat]
    BY <1>2, <1>5, <2>1 DEF Report
  <2> QED
    BY <1>5, <2>1, <2>2 DEF Report
<1> QED
  BY <1>1, <1>3, <1>4, <1>5 DEF CheckClone

LEMMA PushShape ==
  ASSUME ClonesTypeOK, UpstreamStep
  PROVE  /\ UNCHANGED <<kept, todo, open, visit, history, gitFaults, cuts, boot, vars,
                        smooth, lacking>>
         /\ step = "idle"
         /\ refs' \in [Project -> Refs] /\ pushed' \in [Project -> Nat]
<1> USE CloneAssumption DEF ClonesTypeOK
<1>1. ASSUME NEW p \in Project, NEW b \in Branch, NEW s \in Seq(Nat),
             refs' = [refs EXCEPT ![p][b] = s]
      PROVE  refs' \in [Project -> Refs]
  BY <1>1 DEF Refs
<1>2. ASSUME NEW p \in Project, NEW b \in Branch, Push(p, b)
      PROVE  refs' \in [Project -> Refs] /\ pushed' \in [Project -> Nat]
  <2>1. Append(refs[p][b], pushed[p] + 1) \in Seq(Nat)
    BY DEF Refs
  <2>2. refs' = [refs EXCEPT ![p][b] = Append(refs[p][b], pushed[p] + 1)]
    BY <1>2 DEF Push, Refs
  <2>3. refs' \in [Project -> Refs]
    BY <1>1, <2>1, <2>2
  <2>4. pushed' \in [Project -> Nat]
    BY <1>2 DEF Push
  <2> QED
    BY <2>3, <2>4
<1>3. ASSUME NEW p \in Project, TakeBack(p)
      PROVE  refs' \in [Project -> Refs] /\ pushed' \in [Project -> Nat]
  <2>1. refs[p][Default] \in Seq(Nat)
    BY DEF Refs
  <2>2. Front(refs[p][Default]) \in Seq(Nat)
    BY <2>1, SubSeqProperties, SMT DEF Front
  <2> QED
    BY <1>1, <1>3, <2>2 DEF TakeBack, MoveDefault
<1>4. ASSUME NEW p \in Project, NEW b \in Branch, Merge(p, b)
      PROVE  refs' \in [Project -> Refs] /\ pushed' \in [Project -> Nat]
  <2>1. refs[p][b] \in Seq(Nat)
    BY DEF Refs
  <2> QED
    BY <1>1, <1>4, <2>1 DEF Merge, MoveDefault
<1>5. UNCHANGED <<kept, todo, open, visit, history, gitFaults, cuts>> /\ step = "idle"
  BY DEF UpstreamStep, Push, TakeBack, Merge, MoveDefault
<1> QED
  BY <1>2, <1>3, <1>4, <1>5 DEF UpstreamStep

LEMMA VisitsStep == Visits /\ [StartupNext]_allVars => Visits'
<1> SUFFICES ASSUME Visits, [StartupNext]_allVars PROVE Visits'
  OBVIOUS
<1> USE DEF Visits
<1> DEFINE Rest == UNCHANGED <<kept, upstream, history>> /\ gitFaults' = gitFaults
<1>1. ASSUME Rest, Forget, cuts' \in Nat, boot' = "off", stage' = "down",
             smooth' \in BOOLEAN, UNCHANGED lacking
      PROVE  Visits'
  BY <1>1 DEF Forget, Leave, ClonesTypeOK, kept, upstream, history, OpenSteps, CheckSteps
<1>2. ASSUME Rest, UNCHANGED <<cuts, todo, open, visit, boot, stage>>,
             smooth' \in BOOLEAN, UNCHANGED lacking
      PROVE  Visits'
  BY <1>2 DEF ClonesTypeOK, kept, upstream, history, visit
<1>3. CASE Boot
  BY <1>3 DEF Boot, ClonesTypeOK, kept, upstream, history, visit, vars, Stuck, OpenSteps, CheckSteps
<1>4. CASE OpenClones
  <2>1. /\ boot = "conf" /\ OpenClone /\ UNCHANGED <<vars, boot, lacking>>
        /\ smooth' \in BOOLEAN
    BY <1>4 DEF OpenClones
  <2>2. step \notin CheckSteps /\ ~fresh
    BY <2>1 DEF OpenSteps, CheckSteps
  <2>3. ClonesTypeOK'
    <3>1. /\ UNCHANGED <<libgit, has, refs, pushed, due, built, reports, cuts>>
          /\ gitFaults' \in {gitFaults, gitFaults + 1}
          /\ clone' \in [Project -> {"none", "bare", "remote"}]
          /\ todo' \subseteq todo /\ open' \in {open, open \cup {cur}}
          /\ step' \in {"idle"} \cup OpenSteps
          /\ cur' \in Project \cup {None} /\ (cur' = None <=> step' = "idle")
          /\ fresh' = fresh \/ fresh' = FALSE
      BY <2>1, OpenCloneShape
    <3>2. cur = None => open' = open
      BY <2>1, CloneAssumption DEF OpenClone, OpenBare, DeleteRemote, InitBare,
         CreateRemote, ClonesTypeOK, kept, GiveUp
    <3>3. open' \subseteq Project
      BY <3>1, <3>2 DEF ClonesTypeOK
    <3>4. gitFaults' \in Nat /\ todo' \subseteq Project
      BY <3>1 DEF ClonesTypeOK
    <3>5. fresh' \in BOOLEAN
      BY <3>1, Zenon DEF ClonesTypeOK
    <3>6. /\ (libgit \in {21, 22})'
          /\ clone' \in [Project -> {"none", "bare", "remote"}]
      BY <3>1 DEF ClonesTypeOK
    <3>7. /\ (has \in [Project -> SUBSET Nat])'
          /\ (refs \in [Project -> Refs])' /\ (pushed \in [Project -> Nat])'
      BY <3>1 DEF ClonesTypeOK
    <3>8. /\ (due \in [Project -> SUBSET Nat])' /\ (built \in [Project -> SUBSET Nat])'
          /\ (reports \in [Project -> Nat])' /\ cuts' \in Nat
      BY <3>1 DEF ClonesTypeOK
    <3>9. /\ step' \in {"idle"} \cup OpenSteps \cup CheckSteps
          /\ cur' \in Project \cup {None} /\ (cur' = None <=> step' = "idle")
      BY <3>1
    <3> QED
      BY <3>3, <3>4, <3>5, <3>6, <3>7, <3>8, <3>9 DEF ClonesTypeOK
  <2>4. (fresh' = fresh \/ fresh' = FALSE) /\ step' \in {"idle"} \cup OpenSteps
    BY <2>1, OpenCloneShape
  <2>5. ~fresh' /\ step' \notin CheckSteps /\ step' # "report"
    BY <2>2, <2>4 DEF OpenSteps, CheckSteps
  <2>6. UNCHANGED <<stage, boot, lacking>>
    BY <2>1 DEF vars
  <2> QED
    <3>1. step' \in OpenSteps => boot' = "conf"
      BY <2>1
    <3>2. boot' # "on"
      BY <2>1
    <3>3. (boot = "on" <=> stage # "down")' /\ (lacking \subseteq Project)'
      BY <2>6
    <3> QED
      BY <2>1, <2>3, <2>5, <3>1, <3>2, <3>3
<1>5. CASE OpenDatabase
  BY <1>5 DEF OpenDatabase, Start, ClonesTypeOK, kept, upstream, history, visit,
              OpenSteps, CheckSteps
<1>6. CASE DatabaseStep
  <2>1. stage # "down" /\ stage # "up"
    BY <1>6 DEF DatabaseStep, Advance, Open, CreateFile, CreateParams, NeedInstall,
                DropTable, MakeTable, MarkInstalled, SelectTasks
  <2>2. CASE stage' = "down"
    BY <1>1, <1>6, <2>2 DEF DatabaseStep, GoesOff, ClonesTypeOK
  <2>3. CASE stage' # "down"
    BY <1>6, <2>1, <2>3 DEF DatabaseStep, ClonesTypeOK, kept, upstream, history, visit,
                            OpenSteps, CheckSteps
  <2> QED
    BY <2>2, <2>3
<1>7. CASE Check
  BY <1>7 DEF Check, ClonesTypeOK, kept, upstream, history, visit, vars, OpenSteps, CheckSteps
<1>8. CASE CheckClones
  <2>1. stage = "up" /\ CheckClone /\ UNCHANGED <<vars, boot, smooth, lacking>>
    BY <1>8 DEF CheckClones
  <2>2. ClonesTypeOK'
    BY <2>1, CheckCloneShape DEF ClonesTypeOK
  <2>3. /\ UNCHANGED open /\ todo' \subseteq todo
        /\ step' \in {"idle"} \cup CheckSteps
        /\ cur' = None <=> step' = "idle"
        /\ cur' \in {None, cur} \cup todo
        /\ fresh' => step' \in {"update", "report"}
        /\ step' = "report" => fresh'
    BY <2>1, CheckCloneShape
  <2>4. boot = "on" /\ UNCHANGED <<stage, boot, smooth, lacking>>
    BY <2>1 DEF vars
  <2>5. step' \in CheckSteps => cur' \in open'
    <3>1. step = "idle" => cur = None
      BY DEF ClonesTypeOK
    <3>2. step \in CheckSteps \/ step = "idle"
      BY <2>4 DEF ClonesTypeOK
    <3> QED
      BY <2>3, <2>4, <3>1, <3>2 DEF CheckSteps
  <2>6. step' \notin OpenSteps
    BY <2>3 DEF OpenSteps, CheckSteps
  <2> QED
    BY <2>1, <2>2, <2>3, <2>4, <2>5, <2>6
<1>9. CASE CheckDies
  BY <1>1, <1>9 DEF CheckDies, ReportNoHead, Crash, Die, ClonesTypeOK
<1>10. CASE Insert
  BY <1>2, <1>10 DEF Insert, InsertTask, startVars, kept, upstream, visit, history, ClonesTypeOK
<1>11. CASE CrashOn
  BY <1>1, <1>11 DEF CrashOn, GoesOff, Crash, Die, ClonesTypeOK
<1>12. CASE CrashInConf
  <2>1. /\ boot = "conf" /\ cuts' = cuts + 1 /\ boot' = "off" /\ Forget
        /\ smooth' = FALSE /\ stage' = stage /\ Rest /\ UNCHANGED lacking
    BY <1>12 DEF CrashInConf, vars
  <2>2. stage' = "down"
    BY <2>1
  <2>3. cuts' \in Nat
    BY <2>1 DEF ClonesTypeOK
  <2> QED
    BY <1>1, <2>1, <2>2, <2>3
<1>13. CASE UpstreamStep
  BY <1>13, PushShape DEF ClonesTypeOK, kept, history, visit, vars
<1>14. CASE UNCHANGED allVars
  BY <1>2, <1>14 DEF allVars, startVars, vars, kept, upstream, visit, history, ClonesTypeOK
<1> QED
  BY <1>3, <1>4, <1>5, <1>6, <1>7, <1>8, <1>9, <1>10, <1>11, <1>12, <1>13, <1>14
     DEF StartupNext, ConfStep

LEMMA VisitsAlways == StartupSpec => []Visits
<1> QED
  BY VisitsInit, VisitsStep, PTL DEF StartupSpec

(***************************************************************************)
(* The variables of the whole start keep their types, and visits happen    *)
(* where they should: clones are opened only while the configuration is    *)
(* read, and checked only in a core that is up (main).                     *)
(***************************************************************************)
THEOREM StartupTypeCorrect == StartupSpec => []StartupTypeOK
<1>1. Visits /\ Inv => StartupTypeOK
  BY DEF Visits, Inv, Staged, StartupTypeOK
<1> QED
  BY <1>1, VisitsAlways, DatabaseInv, PTL

(***************************************************************************)
(* However the core is started, checks its clones and dies, the rows of    *)
(* its task table are dropped at most once per statement that failed       *)
(* (yacad_tasklist_new).                                                   *)
(***************************************************************************)
THEOREM StartupLossesBounded == StartupSpec => []OneLossPerFailure
<1>1. Inv => OneLossPerFailure
  BY DEF Inv, OneLossPerFailure
<1> QED
  BY <1>1, DatabaseInv, PTL

(***************************************************************************)
(* No start of the core gets past a database that is beyond use, or one    *)
(* with a row that does not parse, and neither a start nor the work of the *)
(* core repairs it (yacad_database_new, yacad_tasklist_new).               *)
(***************************************************************************)
THEOREM StartupHopelessForGood == StartupSpec => HopelessStays
<1>1. Inv /\ [Next]_vars => [Hopeless /\ faults' = faults => Hopeless']_vars
  BY HopelessStep DEF Inv
<1> QED
  BY <1>1, DatabaseInv, StartIncludesDatabase, PTL DEF HopelessStays

-----------------------------------------------------------------------------
(***************************************************************************)
(* Clones that are stuck.                                                  *)
(***************************************************************************)
(* Where nothing is done to the clones, the same ones are stuck.           *)
LEMMA SameStuck ==
  ASSUME UNCHANGED <<libgit, clone>>,
         step \notin {"init", "create"}, step' \notin {"init", "create"}
  PROVE  Stuck' = Stuck
BY DEF Stuck

(* What a call on a clone does to the set of those that are stuck.         *)
LEMMA OpenCloneStuck ==
  ASSUME ClonesTypeOK, OpenClone
  PROVE  /\ \/ Stuck' \subseteq Stuck
            \/ Stuck' \subseteq Stuck \cup {cur} /\ cur \in Project
               /\ gitFaults' = gitFaults + 1
         /\ gitFaults' = gitFaults => Stuck \subseteq Stuck'
<1> USE CloneAssumption DEF ClonesTypeOK, Stuck, kept, Works, Misfires, GoTo, Leave, GiveUp
<1>1. ASSUME NEW p \in Project, OpenBare(p)
      PROVE  /\ Stuck' \subseteq Stuck
             /\ gitFaults' = gitFaults => Stuck \subseteq Stuck'
  BY <1>1 DEF OpenBare
<1>2. CASE DeleteRemote
  <2>1. cur \in Project /\ libgit' = libgit /\ step = "delete"
    BY <1>2 DEF DeleteRemote
  <2>2. CASE clone' = clone /\ (libgit = 22 => step' = "idle")
    BY <2>1, <2>2
  <2>3. CASE clone[cur] = "remote" /\ clone' = [clone EXCEPT ![cur] = "bare"]
             /\ cur' = cur /\ step' = "create"
    BY <2>1, <2>3
  <2> QED
    BY <1>2, <2>1, <2>2, <2>3 DEF DeleteRemote
<1>3. CASE InitBare
  <2>1. cur \in Project /\ libgit' = libgit /\ step = "init"
    BY <1>3 DEF InitBare
  <2>2. CASE /\ clone' = [clone EXCEPT ![cur] = IF @ = "none" THEN "bare" ELSE @]
             /\ cur' = cur /\ step' = "create"
    BY <2>1, <2>2
  <2>3. CASE clone' = clone /\ gitFaults' = gitFaults + 1 /\ step' = "idle"
    BY <2>1, <2>3
  <2> QED
    BY <1>3, <2>2, <2>3 DEF InitBare
<1>4. CASE CreateRemote
  <2>1. cur \in Project /\ libgit' = libgit /\ step = "create" /\ step' = "idle"
    BY <1>4 DEF CreateRemote
  <2>2. CASE clone' = [clone EXCEPT ![cur] = "remote"]
    BY <2>1, <2>2
  <2>3. CASE clone' = clone /\ (clone[cur] = "remote" \/ gitFaults' = gitFaults + 1)
    BY <2>1, <2>3
  <2> QED
    BY <1>4, <2>2, <2>3 DEF CreateRemote
<1> QED
  BY <1>1, <1>2, <1>3, <1>4 DEF OpenClone

(* And what any step does to it.                                           *)
LEMMA StuckStep ==
  ASSUME Visits, [StartupNext]_allVars
  PROVE  /\ gitFaults' \in Nat /\ cuts' \in Nat
         /\ gitFaults' >= gitFaults /\ cuts' >= cuts
         /\ \/ Stuck' \subseteq Stuck
            \/ /\ cur \in Project /\ Stuck' \subseteq Stuck \cup {cur}
               /\ gitFaults' + cuts' = gitFaults + cuts + 1
         /\ gitFaults' = gitFaults => Stuck \subseteq Stuck'
<1> USE DEF Visits
<1>1. gitFaults' \in Nat /\ cuts' \in Nat
  BY VisitsStep DEF ClonesTypeOK
<1>2. gitFaults \in Nat /\ cuts \in Nat
  BY DEF ClonesTypeOK
<1>3. ASSUME UNCHANGED <<libgit, clone, cuts>>, gitFaults' >= gitFaults,
             step \notin {"init", "create"}, step' \notin {"init", "create"}
      PROVE  /\ gitFaults' >= gitFaults /\ cuts' >= cuts
             /\ Stuck' = Stuck
  BY <1>1, <1>2, <1>3, SameStuck
<1>4. boot # "conf" => step \notin {"init", "create"}
  BY DEF OpenSteps
<1>5. CASE OpenClones
  <2>1. ClonesTypeOK /\ OpenClone
    BY <1>5 DEF OpenClones
  <2>2. cuts' = cuts /\ gitFaults' \in {gitFaults, gitFaults + 1}
    BY <2>1, OpenCloneShape
  <2>3. /\ \/ Stuck' \subseteq Stuck
           \/ Stuck' \subseteq Stuck \cup {cur} /\ cur \in Project
              /\ gitFaults' = gitFaults + 1
        /\ gitFaults' = gitFaults => Stuck \subseteq Stuck'
    BY <2>1, OpenCloneStuck
  <2>4. gitFaults' >= gitFaults /\ cuts' >= cuts
    BY <1>2, <2>2
  <2>5. gitFaults' = gitFaults + 1 => gitFaults' + cuts' = gitFaults + cuts + 1
    BY <1>2, <2>2
  <2> QED
    BY <1>1, <2>3, <2>4, <2>5
<1>6. CASE CrashInConf
  <2>1. /\ cuts' = cuts + 1 /\ UNCHANGED <<libgit, clone, gitFaults>> /\ step' = "idle"
    BY <1>6 DEF CrashInConf, kept, Forget, Leave
  <2>2. cur \notin Project => cur = None /\ step = "idle"
    BY DEF ClonesTypeOK
  <2>3. Stuck \subseteq Stuck' /\ Stuck' \subseteq Stuck \cup {cur}
    BY <2>1 DEF Stuck
  <2>4. cur \notin Project => Stuck' \subseteq Stuck
    BY <2>1, <2>2 DEF Stuck
  <2> QED
    BY <1>1, <1>2, <2>1, <2>3, <2>4
<1>7. CASE CheckClones
  <2>1. CheckClone /\ ClonesTypeOK /\ (fresh => step \in {"update", "report"})
    BY <1>7 DEF CheckClones
  <2>2. /\ UNCHANGED <<libgit, clone, cuts>> /\ gitFaults' \in {gitFaults, gitFaults + 1}
        /\ step' \in {"idle"} \cup CheckSteps
    BY <2>1, CheckCloneShape
  <2>3. boot = "on" /\ gitFaults' >= gitFaults
    BY <1>2, <1>7, <2>2 DEF CheckClones
  <2>4. step' \notin {"init", "create"}
    BY <2>2 DEF CheckSteps
  <2>5. Stuck' = Stuck /\ cuts' >= cuts
    BY <1>3, <1>4, <2>2, <2>3, <2>4
  <2> QED
    BY <1>1, <2>3, <2>5
<1>8. CASE UpstreamStep
  <2>1. UNCHANGED <<libgit, clone, cuts, gitFaults, step>> /\ step = "idle"
    BY <1>8, PushShape DEF kept, visit
  <2> QED
    BY <1>1, <1>2, <1>3, <2>1
<1>9. CASE Boot \/ OpenDatabase \/ Check
  <2>1. UNCHANGED <<libgit, clone, cuts, gitFaults, step>>
    BY <1>9 DEF Boot, OpenDatabase, Check, kept, visit
  <2>2. step \notin {"init", "create"}
    BY <1>4, <1>9 DEF Boot, OpenDatabase, Check
  <2> QED
    BY <1>1, <1>2, <1>3, <2>1, <2>2
<1>10. CASE DatabaseStep
  <2>1. stage # "down"
    BY <1>10 DEF DatabaseStep, Advance, Open, CreateFile, CreateParams, NeedInstall,
                DropTable, MakeTable, MarkInstalled, SelectTasks
  <2>2. UNCHANGED <<libgit, clone, cuts, gitFaults>> /\ (step' = step \/ step' = "idle")
    BY <1>10 DEF DatabaseStep, GoesOff, Forget, Leave, kept, visit
  <2> QED
    BY <1>1, <1>2, <1>3, <1>4, <2>1, <2>2
<1>11. CASE CheckDies \/ CrashOn
  <2>1. stage # "down" /\ UNCHANGED <<libgit, clone, cuts, gitFaults>> /\ step' = "idle"
    BY <1>11 DEF CheckDies, CrashOn, ReportNoHead, GoesOff, Crash, Forget, Leave, kept
  <2> QED
    BY <1>1, <1>2, <1>3, <1>4, <2>1
<1>12. CASE Insert \/ UNCHANGED allVars
  <2>1. UNCHANGED <<libgit, clone, cuts, gitFaults, step, cur>>
    BY <1>12 DEF Insert, startVars, allVars, visit
  <2>2. Stuck' = Stuck
    BY <2>1 DEF Stuck
  <2> QED
    BY <1>1, <1>2, <2>1, <2>2
<1> QED
  BY <1>5, <1>6, <1>7, <1>8, <1>9, <1>10, <1>11, <1>12 DEF StartupNext, ConfStep

(***************************************************************************)
(* However often the core starts, at most one project is lost to a clone   *)
(* without remote for each call of libgit2 that failed and each death of   *)
(* the process while it read its configuration (yacad_scm_git_new).        *)
(***************************************************************************)
THEOREM StuckBounded == StartupSpec => []StuckByAccident
<1> DEFINE Bound == Visits /\ StuckByAccident
<1> USE CloneAssumption
<1>1. ASSUME Visits PROVE IsFiniteSet(Stuck) /\ Cardinality(Stuck) \in Nat
  <2>1. Stuck \subseteq Project
    BY DEF Stuck
  <2> QED
    BY <2>1, FS_Subset, FS_CardinalityType
<1>2. StartupInit => Bound
  <2> SUFFICES ASSUME StartupInit PROVE Bound
    OBVIOUS
  <2>1. Stuck = {}
    BY DEF StartupInit, InitClones, Stuck
  <2>2. gitFaults + cuts = 0
    BY DEF StartupInit, InitClones
  <2> QED
    BY <2>1, <2>2, VisitsInit, FS_EmptySet DEF StuckByAccident
<1>3. Bound /\ [StartupNext]_allVars => Bound'
  <2> SUFFICES ASSUME Bound, [StartupNext]_allVars PROVE Bound'
    OBVIOUS
  <2>1. Visits'
    BY VisitsStep
  <2>2. gitFaults \in Nat /\ cuts \in Nat
    BY DEF Visits, ClonesTypeOK
  <2>3. IsFiniteSet(Stuck) /\ Cardinality(Stuck) \in Nat
    BY <1>1
  <2>4. Stuck' \subseteq Project
    BY DEF Stuck
  <2>5. Cardinality(Stuck') \in Nat
    BY <2>4, FS_Subset, FS_CardinalityType
  <2>6. CASE Stuck' \subseteq Stuck
    <3>1. Cardinality(Stuck') <= Cardinality(Stuck)
      BY <2>3, <2>6, FS_Subset
    <3> QED
      BY <2>1, <2>2, <2>3, <2>5, <3>1, StuckStep DEF StuckByAccident
  <2>7. CASE /\ cur \in Project /\ Stuck' \subseteq Stuck \cup {cur}
             /\ gitFaults' + cuts' = gitFaults + cuts + 1
    <3>1. /\ IsFiniteSet(Stuck \cup {cur})
          /\ \/ Cardinality(Stuck \cup {cur}) = Cardinality(Stuck)
             \/ Cardinality(Stuck \cup {cur}) = Cardinality(Stuck) + 1
      BY <2>3, FS_AddElement, Zenon
    <3>2. Cardinality(Stuck \cup {cur}) \in Nat
      BY <3>1, FS_CardinalityType
    <3>3. Cardinality(Stuck') <= Cardinality(Stuck \cup {cur})
      BY <2>7, <3>1, FS_Subset
    <3> QED
      BY <2>1, <2>2, <2>3, <2>5, <2>7, <3>1, <3>2, <3>3 DEF StuckByAccident
  <2> QED
    BY <2>6, <2>7, StuckStep
<1> QED
  BY <1>2, <1>3, PTL DEF StartupSpec

-----------------------------------------------------------------------------
(***************************************************************************)
(* A project of the configuration has a clone with a remote, since a start *)
(* goes to every project once.                                             *)
(***************************************************************************)
Opened ==
    /\ Visits
    /\ \A p \in open : clone[p] = "remote"
    /\ boot = "off" => open = {} /\ step = "idle"
    /\ boot = "conf" => open \cap todo = {} /\ cur \notin open \cup todo

LEMMA OpenedStep == Opened /\ [StartupNext]_allVars => Opened'
<1> SUFFICES ASSUME Opened, [StartupNext]_allVars PROVE Opened'
  OBVIOUS
<1> USE CloneAssumption DEF Opened
<1>1. Visits' /\ Visits
  BY VisitsStep
<1>2. step = "idle" <=> cur = None
  BY DEF Visits, ClonesTypeOK
<1>3. todo \subseteq Project /\ open \subseteq Project /\ cur \in Project \cup {None}
  BY DEF Visits, ClonesTypeOK
<1>4. ASSUME boot' = "off", Forget PROVE Opened'
  BY <1>1, <1>4 DEF Forget, Leave
<1>5. ASSUME UNCHANGED <<open, clone>>, boot' = boot, boot = "on" PROVE Opened'
  BY <1>1, <1>5
<1>6. CASE Boot
  BY <1>1, <1>2, <1>3, <1>6 DEF Boot, kept, visit
<1>7. CASE OpenClones
  <2>1. boot = "conf" /\ boot' = "conf" /\ OpenClone
    BY <1>7 DEF OpenClones
  <2>2. ASSUME NEW p \in Project, OpenBare(p) PROVE Opened'
    BY <1>1, <2>1, <2>2 DEF OpenBare, kept
  <2>3. ASSUME UNCHANGED <<open, todo>>, cur' = cur \/ cur' = None,
               \A p \in Project \ {cur} : clone'[p] = clone[p]
        PROVE  Opened'
    BY <1>1, <1>3, <2>1, <2>3
  <2>4. CASE DeleteRemote
    <3>1. UNCHANGED <<open, todo>> /\ (cur' = cur \/ cur' = None)
      BY <2>4 DEF DeleteRemote, GoTo, Leave, GiveUp
    <3>2. \A p \in Project \ {cur} : clone'[p] = clone[p]
      BY <2>1, <2>4, OpenCloneShape DEF Visits
    <3> QED
      BY <2>3, <3>1, <3>2
  <2>5. CASE InitBare
    <3>1. UNCHANGED <<open, todo>> /\ (cur' = cur \/ cur' = None)
      BY <2>5 DEF InitBare, GoTo, Leave, GiveUp
    <3>2. \A p \in Project \ {cur} : clone'[p] = clone[p]
      BY <2>1, <2>5, OpenCloneShape DEF Visits
    <3> QED
      BY <2>3, <3>1, <3>2
  <2>6. CASE CreateRemote
    <3>1. UNCHANGED todo /\ cur' = None /\ cur \in Project
      BY <1>2, <1>3, <2>6 DEF CreateRemote, Leave, GiveUp
    <3>2. CASE UNCHANGED open
      BY <2>1, <2>3, <2>6, <3>1, <3>2, OpenCloneShape DEF Visits
    <3>3. CASE clone' = [clone EXCEPT ![cur] = "remote"] /\ open' = open \cup {cur}
      <4>1. \A p \in open' : clone'[p] = "remote"
        BY <1>3, <3>1, <3>3 DEF Visits, ClonesTypeOK
      <4> QED
        BY <1>1, <1>3, <2>1, <3>1, <3>3, <4>1
    <3> QED
      BY <2>6, <3>2, <3>3 DEF CreateRemote, GiveUp
  <2> QED
    BY <2>1, <2>2, <2>4, <2>5, <2>6 DEF OpenClone
<1>8. CASE OpenDatabase
  BY <1>1, <1>8 DEF OpenDatabase, kept
<1>9. CASE DatabaseStep
  <2>1. stage # "down"
    BY <1>9 DEF DatabaseStep, Advance, Open, CreateFile, CreateParams, NeedInstall,
                DropTable, MakeTable, MarkInstalled, SelectTasks
  <2>2. boot = "on"
    BY <2>1 DEF Visits
  <2> QED
    BY <1>4, <1>5, <1>9, <2>2 DEF DatabaseStep, GoesOff, kept
<1>10. CASE Check \/ Insert
  <2>1. boot = "on"
    BY <1>10 DEF Check, Insert, InsertTask, Visits
  <2> QED
    BY <1>5, <1>10, <2>1 DEF Check, Insert, startVars, kept
<1>11. CASE CheckClones
  <2>1. CheckClone /\ ClonesTypeOK /\ (fresh => step \in {"update", "report"})
    BY <1>11 DEF CheckClones, Visits
  <2>2. UNCHANGED <<clone, open>>
    BY <2>1, CheckCloneShape
  <2>3. boot = "on" /\ boot' = boot
    BY <1>11 DEF CheckClones, Visits
  <2> QED
    BY <1>5, <2>2, <2>3
<1>12. CASE CheckDies \/ CrashOn \/ CrashInConf
  BY <1>4, <1>12 DEF CheckDies, CrashOn, CrashInConf, GoesOff, ReportNoHead
<1>13. CASE UpstreamStep
  <2>1. boot = "on"
    BY <1>13 DEF UpstreamStep, Visits
  <2> QED
    BY <1>5, <1>13, <2>1, PushShape DEF kept, Visits
<1>14. CASE UNCHANGED allVars
  BY <1>1, <1>14 DEF allVars, startVars, visit
<1> QED
  BY <1>6, <1>7, <1>8, <1>9, <1>10, <1>11, <1>12, <1>13, <1>14 DEF StartupNext, ConfStep

(***************************************************************************)
(* A clone left without remote stays so, and its project out of the        *)
(* configuration, whatever starts follow, until another call of libgit2    *)
(* fails (yacad_scm_git_new, git_remote_delete of version 22).             *)
(***************************************************************************)
THEOREM StuckForGood == StartupSpec => StuckStays
<1>1. StartupInit => Opened
  BY VisitsInit DEF Opened, StartupInit, InitClones
<1>2. ASSUME Opened, [StartupNext]_allVars
      PROVE  /\ gitFaults' = gitFaults => Stuck \subseteq Stuck'
             /\ Stuck \cap open' = {}
  <2>1. gitFaults' = gitFaults => Stuck \subseteq Stuck'
    BY <1>2, StuckStep DEF Opened
  <2>2. Stuck \cap open = {}
    BY <1>2 DEF Opened, Stuck
  <2>3. ASSUME NEW p \in Stuck, p \in open' PROVE FALSE
    <3>1. p \notin open
      BY <2>2, <2>3
    <3>2. CreateRemote /\ open' = open \cup {cur}
      <4>1. CASE OpenClones
        BY <2>3, <3>1, <4>1, <1>2 DEF OpenClones, OpenClone, OpenBare, DeleteRemote, InitBare,
           CreateRemote, GiveUp
      <4>2. CASE CheckClones
        BY <2>3, <3>1, <4>2, <1>2, CheckCloneShape DEF CheckClones, Opened, Visits
      <4>3. CASE UpstreamStep
        BY <2>3, <3>1, <4>3, <1>2, PushShape DEF Opened, Visits
      <4>4. CASE \/ Boot \/ OpenDatabase \/ DatabaseStep \/ Check \/ CheckDies \/ Insert
                 \/ CrashOn \/ CrashInConf \/ UNCHANGED allVars
        BY <2>3, <3>1, <4>4 DEF Boot, OpenDatabase, DatabaseStep, Check, CheckDies, Insert,
           CrashOn, CrashInConf, GoesOff, ReportNoHead, Forget, allVars, startVars
      <4> QED
        BY <1>2, <4>1, <4>2, <4>3, <4>4 DEF StartupNext, ConfStep
    <3>3. p = cur /\ step = "create"
      BY <2>3, <3>1, <3>2 DEF CreateRemote
    <3> QED
      BY <3>3 DEF Stuck
  <2> QED
    BY <2>1, <2>3
<1> QED
  BY <1>1, <1>2, OpenedStep, PTL DEF StartupSpec, StuckStays
-----------------------------------------------------------------------------
(***************************************************************************)
(* A start in which nothing fails.  For each project, before, during and   *)
(* after its visit: what the start has found, and comes to.                *)
(***************************************************************************)
Lacks(p) == libgit = 22 /\ clone[p] = "bare"

BeforeVisit(p) ==
    p \in todo => cur # p /\ p \notin open /\ (p \in lacking <=> Lacks(p))

DuringVisit(p) ==
    cur = p =>
      /\ p \notin open
      /\ \/ step = "delete" /\ clone[p] # "none" /\ (p \in lacking <=> Lacks(p))
         \/ step = "init" /\ clone[p] = "none" /\ p \notin lacking
         \/ step = "create" /\ clone[p] = "bare" /\ p \notin lacking

AfterVisit(p) ==
    p \notin todo /\ cur # p => (p \in open <=> p \notin lacking)

SmoothInv ==
    /\ Visits
    /\ boot = "off" => open = {}
    /\ boot = "conf" /\ smooth =>
         \A p \in Project : BeforeVisit(p) /\ DuringVisit(p) /\ AfterVisit(p)
    /\ boot = "on" /\ smooth => open = Project \ lacking

LEMMA SmoothInit == StartupInit => SmoothInv
BY VisitsInit DEF StartupInit, InitClones, SmoothInv

(* Another project than the one that is visited: nothing changes for it.   *)
LEMMA SmoothOther ==
    ASSUME NEW p, BeforeVisit(p), DuringVisit(p), AfterVisit(p),
           UNCHANGED <<libgit, lacking>>, clone'[p] = clone[p],
           p \in todo' <=> p \in todo, p \in open' <=> p \in open,
           cur # p, cur' # p
    PROVE  (BeforeVisit(p) /\ DuringVisit(p) /\ AfterVisit(p))'
BY DEF BeforeVisit, DuringVisit, AfterVisit, Lacks

(* The calls that open a clone, when none fails. *)
LEMMA SmoothOpen ==
    ASSUME SmoothInv, boot = "conf", smooth, OpenClone, gitFaults' = gitFaults,
           UNCHANGED lacking, NEW p \in Project
    PROVE  (BeforeVisit(p) /\ DuringVisit(p) /\ AfterVisit(p))'
<1>1. /\ BeforeVisit(p) /\ DuringVisit(p) /\ AfterVisit(p)
      /\ gitFaults \in Nat /\ clone \in [Project -> {"none", "bare", "remote"}]
      /\ cur \in Project \cup {None} /\ (cur = None <=> step = "idle")
      /\ libgit \in {21, 22} /\ None \notin Project
  BY CloneAssumption DEF SmoothInv, Visits, ClonesTypeOK
<1>2. ~Misfires
  BY <1>1 DEF Misfires
<1> USE DEF kept, visit, GoTo, Leave, GiveUp
<1>3. ASSUME NEW x \in Project, OpenBare(x)
      PROVE  (BeforeVisit(p) /\ DuringVisit(p) /\ AfterVisit(p))'
  <2>1. /\ step = "idle" /\ x \in todo /\ todo' = todo \ {x} /\ cur' = x /\ cur = None
        /\ UNCHANGED <<libgit, clone, open, lacking>>
        /\ \/ clone[x] # "none" /\ step' = "delete"
           \/ clone[x] = "none" /\ step' = "init"
    BY <1>1, <1>2, <1>3 DEF OpenBare
  <2>2. CASE p = x
    BY <1>1, <2>1, <2>2 DEF BeforeVisit, DuringVisit, AfterVisit, Lacks
  <2>3. CASE p # x
    BY <1>1, <2>1, <2>3, SmoothOther
  <2> QED
    BY <2>2, <2>3
<1>4. ASSUME step # "idle", UNCHANGED <<libgit, todo>>,
             cur' \in {cur, None}, open' \in {open, open \cup {cur}},
             \A x \in Project \ {cur} : clone'[x] = clone[x],
             p # cur
      PROVE  (BeforeVisit(p) /\ DuringVisit(p) /\ AfterVisit(p))'
  BY <1>1, <1>4, SmoothOther
<1>5. CASE DeleteRemote
  <2>1. /\ step = "delete" /\ cur \in Project /\ UNCHANGED <<libgit, todo, open>>
        /\ \/ /\ clone[cur] = "remote" /\ clone' = [clone EXCEPT ![cur] = "bare"]
              /\ cur' = cur /\ step' = "create"
           \/ clone[cur] = "bare" /\ libgit = 22 /\ clone' = clone /\ cur' = None /\ step' = "idle"
           \/ clone[cur] = "bare" /\ libgit = 21 /\ clone' = clone /\ cur' = cur /\ step' = "create"
    BY <1>1, <1>2, <1>5 DEF DeleteRemote
  <2>2. CASE p = cur
    BY <1>1, <2>1, <2>2 DEF BeforeVisit, DuringVisit, AfterVisit, Lacks
  <2> QED
    BY <1>1, <1>4, <2>1, <2>2
<1>6. CASE InitBare
  <2>1. /\ step = "init" /\ cur \in Project /\ UNCHANGED <<libgit, todo, open>>
        /\ clone' = [clone EXCEPT ![cur] = IF @ = "none" THEN "bare" ELSE @]
        /\ cur' = cur /\ step' = "create"
    BY <1>1, <1>2, <1>6 DEF InitBare
  <2>2. CASE p = cur
    BY <1>1, <2>1, <2>2 DEF BeforeVisit, DuringVisit, AfterVisit, Lacks
  <2> QED
    BY <1>1, <1>4, <2>1, <2>2
<1>7. CASE CreateRemote
  <2>1. /\ step = "create" /\ cur \in Project /\ UNCHANGED <<libgit, todo>>
        /\ cur' = None /\ step' = "idle"
        /\ \/ /\ clone[cur] = "bare" /\ clone' = [clone EXCEPT ![cur] = "remote"]
              /\ open' = open \cup {cur}
           \/ clone[cur] = "remote" /\ UNCHANGED <<clone, open>>
    BY <1>1, <1>2, <1>7 DEF CreateRemote
  <2>2. CASE p = cur
    BY <1>1, <2>1, <2>2 DEF BeforeVisit, DuringVisit, AfterVisit, Lacks
  <2> QED
    BY <1>1, <1>4, <2>1, <2>2
<1> QED
  BY <1>3, <1>5, <1>6, <1>7 DEF OpenClone

(* Steps of a core that is up and stays up. *)
LEMMA SmoothFrame ==
    ASSUME SmoothInv, Visits', UNCHANGED <<boot, open, lacking>>,
           boot # "conf", smooth' => smooth
    PROVE  SmoothInv'
BY DEF SmoothInv

LEMMA SmoothOff ==
    ASSUME Visits', boot' = "off", open' = {}
    PROVE  SmoothInv'
BY DEF SmoothInv

LEMMA SmoothStep == SmoothInv /\ [StartupNext]_allVars => SmoothInv'
<1> SUFFICES ASSUME SmoothInv, [StartupNext]_allVars PROVE SmoothInv'
  OBVIOUS
<1>0. Visits /\ Visits' /\ ClonesTypeOK
  BY VisitsStep DEF SmoothInv, Visits
<1> USE DEF kept, upstream, history, visit
<1>1. CASE Boot
  <2>1. /\ boot = "off" /\ boot' = "conf" /\ todo' = Project /\ lacking' = Stuck
        /\ UNCHANGED <<libgit, clone, open, step, cur>>
    BY <1>1 DEF Boot
  <2>2. open = {} /\ cur = None /\ None \notin Project
    BY <1>0, <2>1, CloneAssumption DEF SmoothInv, Visits, ClonesTypeOK, OpenSteps, CheckSteps
  <2>3. \A p \in Project : p \in lacking' <=> Lacks(p)'
    BY <2>1, <2>2 DEF Stuck, Lacks
  <2>4. ASSUME NEW p \in Project
        PROVE  (BeforeVisit(p) /\ DuringVisit(p) /\ AfterVisit(p))'
    BY <2>1, <2>2, <2>3 DEF BeforeVisit, DuringVisit, AfterVisit
  <2> QED
    BY <1>0, <2>1, <2>4 DEF SmoothInv
<1>2. CASE OpenClones
  <2>1. /\ boot = "conf" /\ boot' = "conf" /\ OpenClone /\ UNCHANGED lacking
        /\ smooth' => smooth /\ gitFaults' = gitFaults
    BY <1>2, Zenon DEF OpenClones
  <2>2. smooth' => \A p \in Project : (BeforeVisit(p) /\ DuringVisit(p) /\ AfterVisit(p))'
    BY <2>1, SmoothOpen
  <2> QED
    BY <1>0, <2>1, <2>2 DEF SmoothInv
<1>3. CASE OpenDatabase
  <2>1. /\ boot = "conf" /\ boot' = "on" /\ todo = {} /\ step = "idle"
        /\ UNCHANGED <<open, smooth, lacking>>
    BY <1>3 DEF OpenDatabase
  <2>2. cur = None /\ None \notin Project /\ open \subseteq Project
    BY <1>0, <2>1, CloneAssumption DEF ClonesTypeOK
  <2>3. smooth => open = Project \ lacking
    BY <2>1, <2>2 DEF SmoothInv, AfterVisit
  <2> QED
    BY <1>0, <2>1, <2>3 DEF SmoothInv
<1>4. CASE DatabaseStep
  <2>1. stage # "down" /\ boot = "on"
    BY <1>0, <1>4 DEF DatabaseStep, Advance, Open, CreateFile, CreateParams, NeedInstall,
                DropTable, MakeTable, MarkInstalled, SelectTasks, Visits
  <2>2. CASE stage' = "down"
    BY <1>0, <1>4, <2>2, SmoothOff DEF DatabaseStep, GoesOff, Forget
  <2>3. CASE stage' # "down"
    <3>1. UNCHANGED <<boot, open, lacking>>
      BY <1>4, <2>3 DEF DatabaseStep
    <3>2. smooth' => smooth
      BY <1>4, Zenon DEF DatabaseStep
    <3> QED
      BY <1>0, <2>1, <3>1, <3>2, SmoothFrame
  <2> QED
    BY <2>2, <2>3
<1>5. CASE Check \/ Insert
  <2>1. boot = "on" /\ UNCHANGED <<boot, open, lacking, smooth>>
    BY <1>0, <1>5 DEF Check, Insert, InsertTask, startVars, Visits
  <2> QED
    BY <1>0, <2>1, SmoothFrame
<1>6. CASE CheckClones
  <2>1. boot = "on" /\ UNCHANGED <<boot, open, lacking, smooth>>
    BY <1>0, <1>6, CheckCloneShape DEF CheckClones, Visits
  <2> QED
    BY <1>0, <2>1, SmoothFrame
<1>7. CASE CheckDies \/ CrashOn \/ CrashInConf
  BY <1>0, <1>7, SmoothOff
     DEF CheckDies, ReportNoHead, CrashOn, CrashInConf, GoesOff, Forget
<1>8. CASE UpstreamStep
  <2>1. boot = "on" /\ UNCHANGED <<boot, open, lacking, smooth>>
    BY <1>0, <1>8, PushShape DEF UpstreamStep, Visits
  <2> QED
    BY <1>0, <2>1, SmoothFrame
<1>9. CASE UNCHANGED allVars
  BY <1>9 DEF allVars, startVars, vars, SmoothInv, Visits, ClonesTypeOK, BeforeVisit,
              DuringVisit, AfterVisit, Lacks
<1> QED
  BY <1>1, <1>2, <1>3, <1>4, <1>5, <1>6, <1>7, <1>8, <1>9 DEF StartupNext, ConfStep

(* A start in which nothing fails configures every project but those whose *)
(* clones were stuck when it began (yacad_scm_git_new, read_projects).     *)
THEOREM SmoothStartIsComplete == StartupSpec => []SmoothStartConfigures
<1>1. SmoothInv => SmoothStartConfigures
  BY DEF SmoothInv, SmoothStartConfigures
<1> QED
  BY <1>1, SmoothInit, SmoothStep, PTL DEF StartupSpec
=============================================================================
