---------------------------- MODULE ReportProofs ----------------------------
(***************************************************************************)
(* Proofs about the checks of Startup: no push, no build, and no change    *)
(* missed without a failure.                                               *)
(***************************************************************************)
EXTENDS StartupProofs

(* Whether the check under way has brought commits that it may report.     *)
Pending(p) == IF cur = p /\ fresh THEN 1 ELSE 0

(* Only pushed commits are known anywhere, and each report, and the one    *)
(* that is pending, has a commit of its own among those of the clone.      *)
Known ==
    \A p \in Project :
      /\ \A b \in Branch : Range(refs[p][b]) \subseteq 1 .. pushed[p]
      /\ has[p] \subseteq 1 .. pushed[p]

Accounted == \A p \in Project : reports[p] + Pending(p) <= Cardinality(has[p])

ReportInv == Visits /\ Known /\ Accounted

LEMMA ReportInit == StartupInit => ReportInv
<1> SUFFICES ASSUME StartupInit PROVE ReportInv
  OBVIOUS
<1>1. Visits
  BY VisitsInit
<1>2. \A b \in Branch : Range(NoRefs[b]) = {}
  BY DEF NoRefs, Range
<1>3. Known
  BY <1>2 DEF StartupInit, InitClones, Known
<1>4. Accounted
  BY FS_EmptySet DEF StartupInit, InitClones, Accounted, Pending
<1> QED
  BY <1>1, <1>3, <1>4 DEF ReportInv

(* A clone has finitely many commits, so that some more make a difference. *)
LEMMA CommitsCount ==
    ASSUME NEW n \in Nat, NEW S \in SUBSET (1 .. n), NEW T \in SUBSET (1 .. n)
    PROVE  /\ Cardinality(S) \in Nat /\ Cardinality(S) <= n
           /\ Cardinality(S) <= Cardinality(S \cup T)
           /\ ~ (T \subseteq S) => Cardinality(S) + 1 <= Cardinality(S \cup T)
<1>1. IsFiniteSet(1 .. n) /\ Cardinality(1 .. n) = n
  BY FS_Interval
<1>2. S \cup T \in SUBSET (1 .. n) /\ S \in SUBSET (S \cup T)
  OBVIOUS
<1>3. /\ IsFiniteSet(S \cup T) /\ IsFiniteSet(S) /\ Cardinality(S) <= n
      /\ Cardinality(S) <= Cardinality(S \cup T)
      /\ Cardinality(S) = Cardinality(S \cup T) => S = S \cup T
  BY <1>1, <1>2, FS_Subset
<1>4. Cardinality(S) \in Nat /\ Cardinality(S \cup T) \in Nat
  BY <1>3, FS_CardinalityType
<1> QED
  BY <1>3, <1>4

(* Steps that bring no commits and report none: at most what is pending is *)
(* forgotten.                                                              *)
LEMMA ReportFrame ==
    ASSUME ReportInv, Visits', UNCHANGED <<has, reports, refs, pushed>>,
           ~fresh' \/ (fresh' = fresh /\ cur' = cur)
    PROVE  ReportInv'
<1>1. Known'
  BY DEF ReportInv, Known
<1>2. ASSUME NEW p \in Project
      PROVE  (reports[p] + Pending(p) <= Cardinality(has[p]))'
  <2>1. reports[p] + Pending(p) <= Cardinality(has[p]) /\ reports[p] \in Nat
    BY DEF ReportInv, Accounted, Visits, ClonesTypeOK
  <2>2. Pending(p)' \in {0, Pending(p)} /\ Pending(p) \in {0, 1}
    BY DEF Pending
  <2>3. Cardinality(has[p]) \in Nat
    <3>1. pushed[p] \in Nat /\ has[p] \in SUBSET (1 .. pushed[p])
      BY DEF ReportInv, Known, Visits, ClonesTypeOK
    <3> QED
      BY <3>1, CommitsCount
  <2>4. Cardinality(has'[p]) = Cardinality(has[p]) /\ reports'[p] = reports[p]
    OBVIOUS
  <2> QED
    BY <2>1, <2>2, <2>3, <2>4
<1> QED
  BY <1>1, <1>2 DEF ReportInv, Accounted

(* A download that counts as progress brings at least one commit more.     *)
LEMMA ReportDownload ==
    ASSUME ReportInv, Visits', Download
    PROVE  ReportInv'
<1>0. /\ cur \in Project /\ ~fresh /\ UNCHANGED <<refs, pushed, reports>>
      /\ has \in [Project -> SUBSET Nat] /\ pushed \in [Project -> Nat]
      /\ reports \in [Project -> Nat]
  BY DEF Download, ReportInv, Visits, ClonesTypeOK, upstream, CheckSteps
<1>1. CASE has' = has /\ ~fresh'
  BY <1>0, <1>1, ReportFrame
<1>2. CASE /\ has' = [has EXCEPT ![cur] = @ \cup Commits(refs[cur])]
           /\ fresh' <=> ~ (Commits(refs[cur]) \subseteq has[cur])
           /\ cur' = cur
  <2>1. Commits(refs[cur]) \in SUBSET (1 .. pushed[cur])
    BY <1>0 DEF ReportInv, Known, Commits
  <2>2. \A p \in Project : has[p] \in SUBSET (1 .. pushed[p]) /\ pushed[p] \in Nat
    BY <1>0 DEF ReportInv, Known
  <2>3. Known'
    BY <1>0, <1>2, <2>1, <2>2 DEF ReportInv, Known
  <2>4. ASSUME NEW p \in Project
        PROVE  (reports[p] + Pending(p) <= Cardinality(has[p]))'
    <3>1. /\ reports[p] <= Cardinality(has[p]) /\ reports[p] \in Nat
          /\ Cardinality(has[p]) \in Nat
      BY <1>0, <2>2, CommitsCount DEF ReportInv, Accounted, Pending
    <3>2. CASE p # cur
      <4>1. has'[p] = has[p] /\ Pending(p)' = 0 /\ reports'[p] = reports[p]
        BY <1>0, <1>2, <3>2 DEF Pending
      <4> QED
        BY <3>1, <4>1
    <3>3. CASE p = cur
      <4>1. has'[p] = has[p] \cup Commits(refs[p]) /\ reports'[p] = reports[p]
        BY <1>0, <1>2, <3>3
      <4>2. /\ Cardinality(has'[p]) \in Nat
            /\ Cardinality(has[p]) <= Cardinality(has'[p])
            /\ ~ (Commits(refs[p]) \subseteq has[p])
                 => Cardinality(has[p]) + 1 <= Cardinality(has'[p])
        <5>1. has[p] \cup Commits(refs[p]) \in SUBSET (1 .. pushed[p])
          BY <2>1, <2>2, <3>3
        <5> QED
          BY <2>1, <2>2, <3>3, <4>1, <5>1, CommitsCount
      <4>3. CASE fresh'
        BY <1>2, <3>1, <3>3, <4>1, <4>2, <4>3 DEF Pending
      <4>4. CASE ~fresh'
        BY <3>1, <4>1, <4>2, <4>4 DEF Pending
      <4> QED
        BY <4>3, <4>4
    <3> QED
      BY <3>2, <3>3
  <2> QED
    BY <2>3, <2>4 DEF ReportInv, Accounted
<1>3. \/ has' = has /\ ~fresh'
      \/ /\ has' = [has EXCEPT ![cur] = @ \cup Commits(refs[cur])]
         /\ fresh' <=> ~ (Commits(refs[cur]) \subseteq has[cur])
         /\ cur' = cur
  BY DEF Download, Leave
<1> QED
  BY <1>1, <1>2, <1>3

(* A report uses up what was pending.                                      *)
LEMMA ReportReport ==
    ASSUME ReportInv, Visits', Report
    PROVE  ReportInv'
<1>1. /\ cur \in Project /\ fresh /\ ~fresh' /\ UNCHANGED <<has, refs, pushed>>
      /\ reports' = [reports EXCEPT ![cur] = @ + 1]
      /\ reports \in [Project -> Nat]
  BY DEF Report, Leave, ReportInv, Visits, ClonesTypeOK, kept, upstream, CheckSteps
<1>2. Known'
  BY <1>1 DEF ReportInv, Known
<1>3. ASSUME NEW p \in Project
      PROVE  (reports[p] + Pending(p) <= Cardinality(has[p]))'
  <2>1. /\ reports[p] + Pending(p) <= Cardinality(has[p])
        /\ Cardinality(has[p]) = Cardinality(has'[p])
    BY <1>1 DEF ReportInv, Accounted
  <2>2. Pending(p)' = 0 /\ Pending(p) = IF p = cur THEN 1 ELSE 0
    BY <1>1 DEF Pending
  <2>3. reports'[p] = (IF p = cur THEN reports[p] + 1 ELSE reports[p]) /\ reports[p] \in Nat
    BY <1>1
  <2>4. reports'[p] + Pending(p)' = reports[p] + Pending(p)
    BY <2>2, <2>3
  <2> QED
    BY <2>1, <2>4
<1> QED
  BY <1>2, <1>3 DEF ReportInv, Accounted

(* The upstream repositories name no commit that was not pushed.           *)
LEMMA ReportUpstream ==
    ASSUME ReportInv, Visits', UpstreamStep
    PROVE  ReportInv'
<1>0. /\ UNCHANGED <<has, reports, fresh, cur>> /\ step = "idle"
      /\ refs \in [Project -> Refs] /\ pushed \in [Project -> Nat]
      /\ Default \in Branch
  BY PushShape, CloneAssumption DEF ReportInv, Visits, ClonesTypeOK, kept, history, visit
<1>1. \A p \in Project : \A b \in Branch :
        refs[p][b] \in Seq(Nat) /\ Range(refs[p][b]) \subseteq 1 .. pushed[p]
  BY <1>0 DEF ReportInv, Known, Refs
<1>2. ASSUME NEW p \in Project, NEW b \in Branch, NEW s \in Seq(Nat),
             refs' = [refs EXCEPT ![p][b] = s],
             pushed' = pushed \/ pushed' = [pushed EXCEPT ![p] = @ + 1],
             Range(s) \subseteq 1 .. pushed'[p]
      PROVE  Known'
  <2>1. ASSUME NEW x \in Project
        PROVE  /\ has'[x] \subseteq 1 .. pushed'[x]
               /\ \A c \in Branch : Range(refs'[x][c]) \subseteq 1 .. pushed'[x]
    <3>1. pushed[x] \in Nat /\ pushed'[x] \in {pushed[x], pushed[x] + 1}
      BY <1>0, <1>2
    <3>2. 1 .. pushed[x] \subseteq 1 .. pushed'[x]
      BY <3>1
    <3>3. has[x] \subseteq 1 .. pushed[x] /\ has' = has
      BY <1>0 DEF ReportInv, Known
    <3>4. ASSUME NEW c \in Branch
          PROVE  Range(refs'[x][c]) \subseteq 1 .. pushed'[x]
      <4>1. CASE x = p /\ c = b
        BY <1>0, <1>2, <4>1 DEF Refs
      <4>2. CASE ~ (x = p /\ c = b)
        <5>1. refs'[x][c] = refs[x][c]
          BY <1>0, <1>2, <4>2 DEF Refs
        <5> QED
          BY <1>1, <3>2, <5>1
      <4> QED
        BY <4>1, <4>2
    <3> QED
      BY <3>2, <3>3, <3>4
  <2> QED
    BY <2>1 DEF Known
<1>3. ASSUME NEW p \in Project, NEW b \in Branch, Push(p, b)
      PROVE  Known'
  <2> DEFINE s == Append(refs[p][b], pushed[p] + 1)
  <2>1. /\ refs' = [refs EXCEPT ![p][b] = s]
        /\ pushed' = [pushed EXCEPT ![p] = @ + 1]
    BY <1>0, <1>3 DEF Push, Refs
  <2>2. s \in Seq(Nat) /\ pushed[p] \in Nat /\ pushed'[p] = pushed[p] + 1
    BY <1>0, <1>1, <2>1
  <2>3. Range(s) \subseteq 1 .. pushed'[p]
    <3>1. /\ DOMAIN s = 1 .. Len(refs[p][b]) + 1
          /\ \A i \in 1 .. Len(refs[p][b]) : s[i] = refs[p][b][i]
          /\ s[Len(refs[p][b]) + 1] = pushed[p] + 1
      BY <1>1, <2>2, AppendProperties
    <3>2. \A i \in 1 .. Len(refs[p][b]) : refs[p][b][i] \in 1 .. pushed[p]
      BY <1>1 DEF Range
    <3>3. Len(refs[p][b]) \in Nat
      BY <1>1
    <3> HIDE DEF s
    <3>4. ASSUME NEW i \in DOMAIN s
          PROVE  s[i] \in 1 .. pushed'[p]
      <4>1. i \in 1 .. Len(refs[p][b]) \/ i = Len(refs[p][b]) + 1
        BY <3>1, <3>3
      <4>2. CASE i \in 1 .. Len(refs[p][b])
        <5>1. s[i] \in 1 .. pushed[p]
          BY <3>1, <3>2, <4>2
        <5> QED
          BY <2>2, <5>1
      <4>3. CASE i = Len(refs[p][b]) + 1
        <5>1. s[i] = pushed[p] + 1
          BY <3>1, <4>3
        <5> QED
          BY <2>2, <5>1
      <4> QED
        BY <4>1, <4>2, <4>3
    <3> QED
      BY <3>4 DEF Range
  <2> HIDE DEF s
  <2> QED
    BY <1>2, <2>1, <2>2, <2>3
<1>4. ASSUME NEW p \in Project, TakeBack(p)
      PROVE  Known'
  <2> DEFINE t == refs[p][Default]  s == Front(t)
  <2>1. t \in Seq(Nat) /\ Range(t) \subseteq 1 .. pushed[p]
    BY <1>0, <1>1
  <2>2. t # <<>> /\ refs' = [refs EXCEPT ![p][Default] = s] /\ pushed' = pushed
    BY <1>4 DEF TakeBack, MoveDefault
  <2> HIDE DEF t
  <2>3. s \in Seq(Nat) /\ Range(s) \subseteq Range(t)
    <3>1. t # <<>> /\ Len(t) \in Nat /\ DOMAIN t = 1 .. Len(t) /\ Len(t) > 0
      BY <2>1, <2>2
    <3>2. s = SubSeq(t, 1, Len(t) - 1)
      BY <3>1 DEF Front
    <3>3. s \in Seq(Nat) /\ Len(s) = Len(t) - 1
            /\ \A i \in 1 .. Len(t) - 1 : s[i] = t[i]
      BY <2>1, <3>1, <3>2, SubSeqProperties, SMT
    <3> HIDE DEF s
    <3>4. DOMAIN s = 1 .. Len(t) - 1
      BY <3>3
    <3> QED
      BY <3>1, <3>3, <3>4 DEF Range
  <2> HIDE DEF s
  <2> QED
    BY <1>0, <1>2, <2>1, <2>2, <2>3
<1>5. ASSUME NEW p \in Project, NEW b \in Branch, Merge(p, b)
      PROVE  Known'
  <2>1. refs' = [refs EXCEPT ![p][Default] = refs[p][b]] /\ pushed' = pushed
    BY <1>5 DEF Merge, MoveDefault
  <2> QED
    BY <1>0, <1>1, <1>2, <2>1
<1>6. Known'
  BY <1>3, <1>4, <1>5 DEF UpstreamStep
<1>7. Accounted'
  BY <1>0 DEF ReportInv, Accounted, Pending
<1> QED
  BY <1>6, <1>7 DEF ReportInv

LEMMA ReportStep == ReportInv /\ [StartupNext]_allVars => ReportInv'
<1> SUFFICES ASSUME ReportInv, [StartupNext]_allVars PROVE ReportInv'
  OBVIOUS
<1>0. Visits /\ Visits' /\ ClonesTypeOK
  BY VisitsStep DEF ReportInv, Visits
<1> USE DEF kept, upstream, history, visit
<1>1. CASE Boot \/ OpenDatabase \/ Check \/ Insert
  BY <1>0, <1>1, ReportFrame DEF Boot, OpenDatabase, Check, Insert, startVars
<1>2. CASE OpenClones
  <2>1. OpenClone /\ boot = "conf" /\ UNCHANGED boot
    BY <1>2 DEF OpenClones
  <2>2. /\ UNCHANGED <<has, refs, pushed, reports>>
        /\ step' \in {"idle"} \cup OpenSteps
    BY <1>0, <2>1, OpenCloneShape
  <2>3. ~fresh'
    BY <1>0, <2>2 DEF Visits, OpenSteps
  <2> QED
    BY <1>0, <2>2, <2>3, ReportFrame
<1>3. CASE DatabaseStep
  BY <1>0, <1>3, ReportFrame DEF DatabaseStep, GoesOff, Forget, Leave
<1>4. CASE CheckClones
  <2>1. CASE \E p \in Project : Connect(p)
    <3>1. UNCHANGED <<has, refs, pushed, reports, fresh>> /\ step = "idle"
      BY <2>1 DEF Connect
    <3>2. ~fresh'
      BY <1>0, <3>1 DEF Visits
    <3> QED
      BY <1>0, <3>1, <3>2, ReportFrame
  <2>2. CASE Download
    BY <1>0, <2>2, ReportDownload
  <2>3. CASE UpdateTips
    <3>1. /\ UNCHANGED <<has, refs, pushed, reports>>
          /\ ~fresh' \/ (fresh' = fresh /\ cur' = cur)
      BY <2>3 DEF UpdateTips, GoTo, Leave
    <3> QED
      BY <1>0, <3>1, ReportFrame
  <2>4. CASE Report
    BY <1>0, <2>4, ReportReport
  <2> QED
    BY <1>4, <2>1, <2>2, <2>3, <2>4 DEF CheckClones, CheckClone
<1>5. CASE CheckDies
  BY <1>0, <1>5, ReportFrame DEF CheckDies, ReportNoHead, Forget, Leave
<1>6. CASE CrashOn \/ CrashInConf
  BY <1>0, <1>6, ReportFrame DEF CrashOn, CrashInConf, GoesOff, Forget, Leave
<1>7. CASE UpstreamStep
  BY <1>0, <1>7, ReportUpstream
<1>8. CASE UNCHANGED allVars
  BY <1>0, <1>8, ReportFrame DEF allVars, startVars
<1> QED
  BY <1>1, <1>2, <1>3, <1>4, <1>5, <1>6, <1>7, <1>8 DEF StartupNext, ConfStep

(* No push, no build: whatever restarts, failures, and branches that move  *)
(* back and forth, a project is reported for building (check of the git    *)
(* scm) at most as often as commits were pushed to its upstream.           *)
THEOREM NoBuildWithoutPush == StartupSpec => []ReportsNeedPushes
<1>1. ReportInv => ReportsNeedPushes
  <2> SUFFICES ASSUME ReportInv, NEW p \in Project PROVE reports[p] <= pushed[p]
    BY DEF ReportsNeedPushes
  <2>1. pushed[p] \in Nat /\ has[p] \in SUBSET (1 .. pushed[p]) /\ reports[p] \in Nat
    BY DEF ReportInv, Known, Visits, ClonesTypeOK
  <2>2. Cardinality(has[p]) \in Nat /\ Cardinality(has[p]) <= pushed[p]
    BY <2>1, CommitsCount
  <2>3. reports[p] + Pending(p) <= Cardinality(has[p]) /\ Pending(p) \in {0, 1}
    BY DEF ReportInv, Accounted, Pending
  <2> QED
    BY <2>1, <2>2, <2>3
<1> QED
  BY <1>1, ReportInit, ReportStep, PTL DEF StartupSpec
-----------------------------------------------------------------------------
(***************************************************************************)
(* The head that the check under way is to report.                         *)
(***************************************************************************)
PendingHead == IF fresh THEN {<<cur, c>> : c \in HeadOf(refs[cur])} ELSE {}

MissInv ==
    /\ Visits
    /\ IsFiniteSet(Missed \ PendingHead)
    /\ Cardinality(Missed \ PendingHead) <= gitFaults + crashes
    /\ crashes \in Nat

LEMMA MissInit == StartupInit => MissInv
<1> SUFFICES ASSUME StartupInit PROVE MissInv
  OBVIOUS
<1>1. Visits
  BY VisitsInit
<1>2. Missed \ PendingHead = {} /\ gitFaults = 0 /\ crashes = 0
  BY DEF StartupInit, InitClones, Init, Missed
<1> QED
  BY <1>1, <1>2, FS_EmptySet DEF MissInv

(* A head is one commit at most, and one of the upstream's.                *)
LEMMA OneHead ==
    ASSUME NEW r \in Refs
    PROVE  /\ HeadOf(r) \subseteq Commits(r)
           /\ HeadOf(r) = {} \/ \E c : HeadOf(r) = {c}
<1>1. CASE r[Default] = <<>>
  BY <1>1 DEF HeadOf
<1>2. CASE r[Default] # <<>>
  <2>1. r[Default] \in Seq(Nat) /\ Default \in Branch
    BY CloneAssumption DEF Refs
  <2>2. Len(r[Default]) \in DOMAIN r[Default]
    BY <1>2, <2>1
  <2>3. Last(r[Default]) \in Range(r[Default])
    BY <2>2 DEF Last, Range
  <2>4. HeadOf(r) = {Last(r[Default])}
    BY <1>2 DEF HeadOf
  <2> QED
    BY <2>1, <2>3, <2>4 DEF Commits
<1> QED
  BY <1>1, <1>2

(* Steps that miss nothing more than what is still to be reported.         *)
LEMMA MissFrame ==
    ASSUME MissInv, Visits', Missed' \ PendingHead' \subseteq Missed \ PendingHead,
           gitFaults' >= gitFaults, crashes' >= crashes, crashes' \in Nat
    PROVE  MissInv'
<1> DEFINE S == Missed \ PendingHead
           T == Missed' \ PendingHead'
<1>1. IsFiniteSet(S) /\ T \in SUBSET S /\ Cardinality(S) <= gitFaults + crashes
  BY DEF MissInv
<1> HIDE DEF S, T
<1>2. /\ IsFiniteSet(T) /\ Cardinality(T) <= Cardinality(S)
      /\ Cardinality(S) \in Nat /\ Cardinality(T) \in Nat
  BY <1>1, FS_Subset, FS_CardinalityType
<1>3. gitFaults \in Nat /\ gitFaults' \in Nat /\ crashes \in Nat
  BY DEF MissInv, Visits, ClonesTypeOK
<1>4. Cardinality(T) <= gitFaults' + crashes'
  BY <1>1, <1>2, <1>3
<1> QED
  BY <1>2, <1>4 DEF MissInv, T

(* Steps that leave a check without its report: a failure, or a death.     *)
LEMMA MissOne ==
    ASSUME MissInv, Visits', UNCHANGED <<due, built>>, ~fresh',
           \/ gitFaults' = gitFaults + 1 /\ crashes' = crashes
           \/ gitFaults' = gitFaults /\ crashes' = crashes + 1
    PROVE  MissInv'
<1> DEFINE S == Missed \ PendingHead
           T == Missed' \ PendingHead'
<1>0. gitFaults \in Nat /\ gitFaults' \in Nat /\ crashes \in Nat /\ crashes' \in Nat
  BY DEF MissInv, Visits, ClonesTypeOK
<1>1. IsFiniteSet(S) /\ Cardinality(S) <= gitFaults + crashes
  BY DEF MissInv
<1>2. PendingHead = {} \/ \E x : PendingHead = {x}
  <2>1. CASE ~fresh
    BY <2>1 DEF PendingHead
  <2>2. CASE fresh
    <3>1. cur \in Project /\ refs[cur] \in Refs
      BY <2>2 DEF MissInv, Visits, ClonesTypeOK
    <3>2. HeadOf(refs[cur]) = {} \/ \E c : HeadOf(refs[cur]) = {c}
      BY <3>1, OneHead
    <3> QED
      BY <2>2, <3>2 DEF PendingHead
  <2> QED
    BY <2>1, <2>2
<1>3. Missed' = Missed
  BY DEF Missed
<1>4. T \subseteq S \/ \E x : T \subseteq S \cup {x}
  BY <1>2, <1>3
<1> HIDE DEF S, T
<1>5. \E x : T \subseteq S \cup {x}
  BY <1>4
<1>6. PICK x : T \in SUBSET (S \cup {x})
  BY <1>5
<1>7. /\ IsFiniteSet(S \cup {x}) /\ Cardinality(S) \in Nat
      /\ Cardinality(S \cup {x}) = IF x \in S THEN Cardinality(S) ELSE Cardinality(S) + 1
  BY <1>1, FS_AddElement, FS_CardinalityType
<1>8. IsFiniteSet(T) /\ Cardinality(T) <= Cardinality(S \cup {x}) /\ Cardinality(T) \in Nat
  BY <1>6, <1>7, FS_Subset, FS_CardinalityType
<1>9. Cardinality(T) <= gitFaults' + crashes'
  BY <1>0, <1>1, <1>7, <1>8
<1> QED
  BY <1>0, <1>8, <1>9 DEF MissInv, T

(* A download that owes a report makes for progress.                       *)
LEMMA MissDownload ==
    ASSUME MissInv, Visits', Download, crashes' = crashes
    PROVE  MissInv'
<1>1. /\ cur \in Project /\ ~fresh /\ refs[cur] \in Refs /\ UNCHANGED <<refs, built>>
      /\ due \in [Project -> SUBSET Nat] /\ gitFaults \in Nat /\ crashes \in Nat
  BY DEF Download, MissInv, Visits, ClonesTypeOK, upstream
<1>2. CASE Works /\ step' = "update"
  <2>1. /\ due' = [due EXCEPT ![cur] = @ \cup (HeadOf(refs[cur]) \ has[cur])]
        /\ fresh' = ~ (Commits(refs[cur]) \subseteq has[cur])
        /\ cur' = cur /\ gitFaults' = gitFaults
    BY <1>2 DEF Download, Leave, Works
  <2>2. HeadOf(refs[cur]) \ has[cur] # {} => fresh'
    BY <1>1, <2>1, OneHead
  <2>3. Missed' \ PendingHead' \subseteq Missed \ PendingHead
    <3>1. PendingHead = {}
      BY <1>1 DEF PendingHead
    <3>2. ASSUME NEW p \in Project, NEW c \in due'[p] \ built'[p], <<p, c>> \notin PendingHead'
          PROVE  c \in due[p] \ built[p]
      <4> SUFFICES ASSUME c \notin due[p] PROVE FALSE
        BY <1>1, <3>2
      <4>1. p = cur /\ c \in HeadOf(refs[cur]) \ has[cur]
        BY <1>1, <2>1, <3>2
      <4>2. <<p, c>> \in PendingHead'
        BY <1>1, <2>1, <2>2, <4>1 DEF PendingHead
      <4> QED
        BY <3>2, <4>2
    <3> QED
      BY <3>1, <3>2 DEF Missed
  <2> QED
    BY <1>1, <2>1, <2>3, MissFrame
<1>3. CASE Misfires /\ Leave /\ UNCHANGED <<has, due>>
  BY <1>1, <1>3, MissOne DEF Misfires, Leave
<1>4. (Works /\ step' = "update") \/ (Misfires /\ Leave /\ UNCHANGED <<has, due>>)
  BY DEF Download
<1> QED
  BY <1>2, <1>3, <1>4

(* A report reports the head that is pending.                              *)
LEMMA MissReport ==
    ASSUME MissInv, Visits', Report, crashes' = crashes
    PROVE  MissInv'
<1>1. /\ cur \in Project /\ fresh /\ ~fresh' /\ UNCHANGED <<due, refs, gitFaults>>
      /\ built' = [built EXCEPT ![cur] = @ \cup HeadOf(refs[cur])]
      /\ built \in [Project -> SUBSET Nat] /\ gitFaults \in Nat /\ crashes \in Nat
  BY DEF Report, Leave, MissInv, Visits, ClonesTypeOK, upstream
<1>2. Missed' \subseteq Missed \ PendingHead
  <2>1. ASSUME NEW p \in Project, NEW c \in due[p] \ built'[p]
        PROVE  c \in due[p] \ built[p] /\ <<p, c>> \notin PendingHead
    BY <1>1, <2>1 DEF PendingHead
  <2> QED
    BY <1>1, <2>1 DEF Missed
<1> QED
  BY <1>1, <1>2, MissFrame

LEMMA MissStep == MissInv /\ [StartupNext]_allVars => MissInv'
<1> SUFFICES ASSUME MissInv, [StartupNext]_allVars PROVE MissInv'
  OBVIOUS
<1>0. /\ Visits /\ Visits' /\ ClonesTypeOK
      /\ gitFaults \in Nat /\ gitFaults' \in Nat /\ crashes \in Nat
  BY VisitsStep DEF MissInv, Visits, ClonesTypeOK
<1> USE DEF kept, upstream, history, visit
<1>1. ASSUME UNCHANGED <<due, built>>, ~fresh, ~fresh',
             gitFaults' >= gitFaults, crashes' \in {crashes, crashes + 1}
      PROVE  MissInv'
  <2>1. Missed' = Missed /\ PendingHead = {} /\ PendingHead' = {}
    BY <1>1 DEF Missed, PendingHead
  <2> QED
    BY <1>0, <1>1, <2>1, MissFrame
<1>2. ASSUME UNCHANGED <<due, built, refs, cur, fresh, gitFaults, crashes>>
      PROVE  MissInv'
  <2>1. Missed' = Missed /\ PendingHead' = PendingHead
    BY <1>2 DEF Missed, PendingHead
  <2> QED
    BY <1>0, <1>2, <2>1, MissFrame
<1>3. CASE Boot \/ OpenDatabase \/ Check \/ Insert \/ UNCHANGED allVars
  BY <1>2, <1>3 DEF Boot, OpenDatabase, Start, Check, Insert, InsertTask, startVars,
                    allVars, vars
<1>4. CASE OpenClones
  <2>1. OpenClone /\ boot = "conf" /\ boot' = boot /\ crashes' = crashes
    BY <1>4 DEF OpenClones, vars
  <2>2. /\ UNCHANGED <<due, built>> /\ gitFaults' \in {gitFaults, gitFaults + 1}
        /\ step' \in {"idle"} \cup OpenSteps
    BY <1>0, <2>1, OpenCloneShape
  <2>3. ~fresh /\ ~fresh'
    BY <1>0, <2>1, <2>2 DEF Visits, OpenSteps, CheckSteps
  <2> QED
    BY <1>0, <1>1, <2>1, <2>2, <2>3
<1>5. CASE DatabaseStep
  <2>1. stage # "up" /\ crashes' = crashes
    BY <1>5 DEF DatabaseStep, Advance, Open, CreateFile, CreateParams, NeedInstall,
                DropTable, MakeTable, MarkInstalled, SelectTasks
  <2>2. ~fresh
    BY <1>0, <2>1 DEF Visits, CheckSteps
  <2>3. ~fresh' /\ UNCHANGED <<due, built, gitFaults>>
    BY <1>5, <2>2 DEF DatabaseStep, GoesOff, Forget, Leave
  <2> QED
    BY <1>0, <1>1, <2>1, <2>2, <2>3
<1>6. CASE CheckClones
  <2>0. crashes' = crashes
    BY <1>6 DEF CheckClones, vars
  <2>1. CASE \E p \in Project : Connect(p)
    <3>1. /\ UNCHANGED <<due, built, fresh>> /\ step = "idle"
          /\ gitFaults' \in {gitFaults, gitFaults + 1}
      BY <2>1 DEF Connect, Works, Misfires
    <3>2. ~fresh
      BY <1>0, <3>1 DEF Visits
    <3> QED
      BY <1>0, <1>1, <2>0, <3>1, <3>2
  <2>2. CASE Download
    BY <1>0, <2>0, <2>2, MissDownload
  <2>3. CASE UpdateTips
    <3>1. CASE fresh /\ Works /\ GoTo("report")
      BY <1>2, <2>0, <2>3, <3>1 DEF UpdateTips, Works, GoTo
    <3>2. CASE ~fresh /\ Works /\ Leave
      BY <1>0, <1>1, <2>0, <2>3, <3>2 DEF UpdateTips, Works, Leave
    <3>3. CASE Misfires /\ Leave
      BY <1>0, <2>0, <2>3, <3>3, MissOne DEF UpdateTips, Misfires, Leave
    <3> QED
      BY <2>3, <3>1, <3>2, <3>3 DEF UpdateTips
  <2>4. CASE Report
    BY <1>0, <2>0, <2>4, MissReport
  <2> QED
    BY <1>6, <2>1, <2>2, <2>3, <2>4 DEF CheckClones, CheckClone
<1>7. CASE CheckDies \/ CrashOn
  BY <1>0, <1>7, MissOne DEF CheckDies, CrashOn, Crash, ReportNoHead, GoesOff, Forget, Leave
<1>8. CASE CrashInConf
  <2>1. boot = "conf" /\ UNCHANGED <<vars, due, built, gitFaults>> /\ ~fresh'
    BY <1>8 DEF CrashInConf, Forget, Leave
  <2>2. ~fresh
    BY <1>0, <2>1 DEF Visits, CheckSteps
  <2> QED
    BY <1>0, <1>1, <2>1, <2>2 DEF vars
<1>9. CASE UpstreamStep
  <2>1. /\ UNCHANGED <<due, built, fresh, gitFaults, crashes>> /\ step = "idle"
    BY <1>0, <1>9, PushShape DEF vars
  <2>2. ~fresh
    BY <1>0, <2>1 DEF Visits
  <2> QED
    BY <1>0, <1>1, <2>1, <2>2
<1> QED
  BY <1>3, <1>4, <1>5, <1>6, <1>7, <1>8, <1>9 DEF StartupNext, ConfStep

(* Between two checks, each head whose commits a check has brought (check  *)
(* of the git scm) has been reported for building, but for one at most per *)
(* failed call and per death of the process.                               *)
THEOREM MissesNeedFailures == StartupSpec => []ChangesMissed
<1>1. MissInv => ChangesMissed
  <2> SUFFICES ASSUME MissInv, step \notin CheckSteps
               PROVE  Cardinality(Missed) <= gitFaults + crashes
    BY DEF ChangesMissed
  <2>1. ~fresh
    BY DEF MissInv, Visits, CheckSteps
  <2>2. Missed \ PendingHead = Missed
    BY <2>1 DEF PendingHead
  <2> QED
    BY <2>2 DEF MissInv
<1> QED
  BY <1>1, MissInit, MissStep, PTL DEF StartupSpec
=============================================================================
