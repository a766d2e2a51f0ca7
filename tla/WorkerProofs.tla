---------------------------- MODULE WorkerProofs ----------------------------
(***************************************************************************)
(* Proofs about Worker, for all projects, periods and bounds.              *)
(***************************************************************************)
EXTENDS Worker, FiniteSetTheorems, SequenceTheorems, WellFoundedInduction, TLAPS

(***************************************************************************)
(* The time of the next check.                                             *)
(***************************************************************************)
IsDue(t) == \E p \in Project : Due(p, t)

LEMMA MinIsLeast ==
    ASSUME NEW S \in SUBSET Nat, S # {}
    PROVE  Min(S) \in S /\ \A x \in S : Min(S) <= x
<1>1. PICK x \in S : \A y \in S : ~ (<<y, x>> \in OpToRel(<, Nat))
  BY NatLessThanWellFounded, WFMin
<1>2. \A y \in S : x <= y
  <2>1. \A y \in S : ~ (y < x)
    BY <1>1 DEF OpToRel
  <2> QED
    BY <2>1
<1> QED
  BY <1>2 DEF Min

(* A multiple leaves no remainder. *)
LEMMA MultipleOf ==
    ASSUME NEW k \in Nat, NEW n \in Nat \ {0}
    PROVE  (k * n) % n = 0
<1> DEFINE m == k * n  d == m \div n  r == m % n
<1>1. m \in Nat
  OBVIOUS
<1> HIDE DEF m
<1>2. d \in Int /\ r \in 0 .. n - 1 /\ m = d * n + r
  BY <1>1
<1> HIDE DEF d, r
<1>3. (k - d) * n = r
  BY <1>2 DEF m
<1>4. k - d >= 1 => (k - d) * n >= n
  BY <1>2
<1>5. k - d <= -1 => (k - d) * n <= -n
  BY <1>2
<1>6. k - d = 0
  BY <1>2, <1>3, <1>4, <1>5
<1>7. r = 0
  BY <1>3, <1>6
<1> QED
  BY <1>7 DEF r, m

(* Rounding up to the next multiple of a period. *)
LEMMA NextMultiple ==
    ASSUME NEW t \in Nat, NEW n \in Nat \ {0}
    PROVE  /\ (t \div n + 1) * n \in Nat
           /\ (t \div n + 1) * n > t
           /\ ((t \div n + 1) * n) % n = 0
<1> DEFINE q == t \div n
<1>1. q \in Nat /\ t = q * n + (t % n) /\ t % n < n /\ t % n \in Nat
  OBVIOUS
<1> HIDE DEF q
<1>2. q + 1 \in Nat /\ (q + 1) * n = q * n + n /\ q * n \in Nat
  BY <1>1
<1>3. ((q + 1) * n) % n = 0
  BY <1>2, MultipleOf
<1> QED
  BY <1>1, <1>2, <1>3 DEF q

LEMMA NextCheckIsOne ==
    ASSUME now \in Nat, Project # {}
    PROVE  \E p \in Project :
              /\ NextCheck = NextDue(p)
              /\ NextDue(p) \in Nat /\ NextDue(p) > now /\ NextDue(p) % Period[p] = 0
<1> DEFINE S == {NextDue(p) : p \in Project}
<1>1. \A p \in Project : NextDue(p) \in Nat /\ NextDue(p) > now /\ NextDue(p) % Period[p] = 0
  BY WorkerAssumption, NextMultiple DEF NextDue
<1>2. S \in SUBSET Nat /\ S # {}
  BY <1>1, WorkerAssumption
<1>3. Min(S) \in S
  BY <1>2, MinIsLeast
<1>4. PICK p \in Project : NextCheck = NextDue(p)
  BY <1>3 DEF NextCheck
<1> QED
  BY <1>1, <1>4

(* A walk that returns has met no excluded time, not even at its end.      *)
LEMMA NextCheckIsDue ==
    ASSUME now \in Nat, Project # {}, \A p \in Project : NextReturns(p)
    PROVE  NextCheck \in Nat /\ NextCheck > now /\ IsDue(NextCheck)
<1>1. PICK p \in Project :
         /\ NextCheck = NextDue(p)
         /\ NextDue(p) \in Nat /\ NextDue(p) > now /\ NextDue(p) % Period[p] = 0
  BY NextCheckIsOne
<1>2. NextDue(p) \in now + 1 .. NextDue(p)
  BY <1>1
<1>3. NextDue(p) \notin Excluded[p]
  BY <1>2 DEF NextReturns
<1> QED
  BY <1>1, <1>3 DEF IsDue, Due

LEMMA NextCheckType ==
    ASSUME now \in Nat
    PROVE  NextCheck \in Nat
<1>1. CASE Project = {}
  BY <1>1 DEF NextCheck
<1>2. CASE Project # {}
  BY <1>2, NextCheckIsOne
<1> QED
  BY <1>1, <1>2
-----------------------------------------------------------------------------
(***************************************************************************)
(* Due times, and how many there are.                                      *)
(***************************************************************************)
DueUpTo(t) == {x \in 1 .. t : IsDue(x)}

LEMMA DueFinite ==
    ASSUME NEW t \in Nat
    PROVE  IsFiniteSet(DueUpTo(t)) /\ Cardinality(DueUpTo(t)) \in Nat
<1>1. IsFiniteSet(1 .. t) /\ DueUpTo(t) \in SUBSET (1 .. t)
  BY FS_Interval DEF DueUpTo
<1> QED
  BY <1>1, FS_Subset, FS_CardinalityType

LEMMA DueMonotonic ==
    ASSUME NEW s \in Nat, NEW t \in Nat, s <= t
    PROVE  Cardinality(DueUpTo(s)) <= Cardinality(DueUpTo(t))
<1>1. DueUpTo(s) \in SUBSET DueUpTo(t)
  BY DEF DueUpTo
<1> QED
  BY <1>1, DueFinite, FS_Subset

LEMMA DueOneMore ==
    ASSUME NEW t \in Nat \ {0}, IsDue(t)
    PROVE  Cardinality(DueUpTo(t)) = Cardinality(DueUpTo(t - 1)) + 1
<1>1. DueUpTo(t) = DueUpTo(t - 1) \cup {t} /\ t \notin DueUpTo(t - 1)
  BY DEF DueUpTo
<1>2. IsFiniteSet(DueUpTo(t - 1))
  BY DueFinite
<1> QED
  BY <1>1, <1>2, FS_AddElement
-----------------------------------------------------------------------------
(***************************************************************************)
(* Type correctness.                                                       *)
(***************************************************************************)
LEMMA TypeInit == Init => TypeOK
<1> SUFFICES ASSUME Init PROVE TypeOK
  OBVIOUS
<1>1. running \in BOOLEAN /\ asked \in BOOLEAN /\ planned \in BOOLEAN /\ check \in BOOLEAN
  BY Zenon DEF Init
<1> QED
  BY <1>1, WorkerAssumption DEF Init, TypeOK

LEMMA TypeStep == TypeOK /\ [Next]_vars => TypeOK'
<1> SUFFICES ASSUME TypeOK, [Next]_vars PROVE TypeOK'
  OBVIOUS
<1> USE WorkerAssumption DEF TypeOK, mainVars, workerVars
<1>1. CASE Tick
  BY <1>1 DEF Tick
<1>2. CASE RunnerAsks
  <2>1. asked' \in BOOLEAN
    BY <1>2, Zenon DEF RunnerAsks
  <2> QED
    BY <1>2, <2>1 DEF RunnerAsks
<1>3. CASE MainStep
  <2>1. CASE Created \/ EnterPoll \/ EndCallback \/ Free \/ Exit
    BY <2>1 DEF Created, EnterPoll, EndCallback, Free, Exit
  <2>2. CASE Run
    <3>1. Append(runbox, "start") \in Seq({"start", "stop"})
      OBVIOUS
    <3>2. running' \in BOOLEAN
      BY <2>2, Zenon DEF Run
    <3> QED
      BY <2>2, <3>1, <3>2 DEF Run
  <2>3. CASE Receive
    <3>1. asked' \in BOOLEAN
      BY <2>3, Zenon DEF Receive
    <3>2. checks' \in 0 .. HighWater
      BY <2>3 DEF Receive
    <3> QED
      BY <2>3, <3>1, <3>2 DEF Receive
  <2> QED
    BY <1>3, <2>1, <2>2, <2>3 DEF MainStep
<1>4. CASE BindRun \/ ConnectCheck \/ PollTerminated
  BY <1>4 DEF BindRun, ConnectCheck, PollTerminated, AfterFailure
<1>5. CASE WaitStart \/ ReadRun
  <2>1. runbox # <<>> => Tail(runbox) \in Seq({"start", "stop"})
    OBVIOUS
  <2> QED
    BY <1>5, <2>1 DEF WaitStart, ReadRun
<1>6. CASE PlanNext
  <2>1. planned' \in BOOLEAN /\ check' \in BOOLEAN
    BY <1>6, Zenon DEF PlanNext
  <2> QED
    BY <1>6, <2>1, NextCheckType DEF PlanNext
<1>7. CASE SendCheck
  <2>1. check' \in BOOLEAN
    BY <1>7, Zenon DEF SendCheck
  <2> QED
    BY <1>7, <2>1 DEF SendCheck
<1>8. CASE Signal /\ worker' \in {worker, AfterFailure} /\ main' \in {main, "free"}
  <2>1. Append(runbox, "stop") \in Seq({"start", "stop"})
    OBVIOUS
  <2>2. runbox' \in Seq({"start", "stop"}) /\ running' \in BOOLEAN
    BY <1>8, <2>1 DEF Signal, Stop
  <2> QED
    BY <1>8, <2>2 DEF Signal, AfterFailure
<1>9. CASE UseFreed
  BY <1>9 DEF UseFreed
<1>10. CASE UNCHANGED vars
  BY <1>10 DEF vars
<1> QED
  BY <1>1, <1>2, <1>3, <1>4, <1>5, <1>6, <1>7, <1>8, <1>9, <1>10
     DEF Next, WorkerStep, SignalMain, SignalWorker

(* The variables of both threads keep their types: the pipe of checks is   *)
(* never overfull, whatever the threads and signals do.                    *)
THEOREM WorkerTypeCorrect == Spec => []TypeOK
BY TypeInit, TypeStep, PTL DEF Spec
-----------------------------------------------------------------------------
(***************************************************************************)
(* One check per due time.  Between the plan and its check, the due time   *)
(* that is planned has not been asked for.                                 *)
(***************************************************************************)
AskInv ==
    /\ TypeOK
    /\ sent <= Cardinality(DueUpTo(now))
    /\ ~planned => sent = 0 /\ ~check
    /\ worker = "poll" => planned /\ ~check
    /\ planned /\ ~check => /\ next_check >= 1 /\ IsDue(next_check)
                            /\ sent <= Cardinality(DueUpTo(next_check - 1))

LEMMA AskInit == Init => AskInv
<1> SUFFICES ASSUME Init PROVE AskInv
  OBVIOUS
<1>1. ~planned /\ ~check /\ sent = 0 /\ worker = "start" /\ now = 0
  BY DEF Init
<1>2. 0 <= Cardinality(DueUpTo(now))
  BY <1>1, DueFinite
<1> QED
  BY <1>1, <1>2, TypeInit DEF AskInv

(* Steps that do not touch the plan. *)
LEMMA AskFrame ==
    ASSUME AskInv, TypeOK', UNCHANGED <<next_check, planned, check, sent>>,
           now' \in {now, now + 1}, worker' = "poll" => worker = "poll"
    PROVE  AskInv'
<1>1. now \in Nat /\ now' \in Nat /\ now <= now' /\ sent \in Nat
  BY WorkerAssumption DEF AskInv, TypeOK
<1>2. Cardinality(DueUpTo(now)) <= Cardinality(DueUpTo(now'))
  BY <1>1, DueMonotonic
<1>3. Cardinality(DueUpTo(now)) \in Nat /\ Cardinality(DueUpTo(now')) \in Nat
  BY <1>1, DueFinite
<1>4. sent' <= Cardinality(DueUpTo(now'))
  BY <1>1, <1>2, <1>3 DEF AskInv
<1> QED
  BY <1>4 DEF AskInv, DueUpTo, IsDue, Due

(* The new plan is in the future, and what was asked for in the past.      *)
LEMMA AskPlan ==
    ASSUME AskInv, TypeOK', PlanNext, Project # {}
    PROVE  AskInv'
<1>1. now \in Nat /\ sent \in Nat
  BY WorkerAssumption DEF AskInv, TypeOK
<1>2. UNCHANGED <<now, sent>>
  BY DEF PlanNext
<1>3. CASE /\ \A p \in Project : NextReturns(p)
           /\ next_check' = NextCheck /\ planned' /\ ~check'
  <2>1. NextCheck \in Nat /\ NextCheck > now /\ IsDue(NextCheck)
    BY <1>1, <1>3, NextCheckIsDue
  <2>2. Cardinality(DueUpTo(now)) <= Cardinality(DueUpTo(NextCheck - 1))
    BY <1>1, <2>1, DueMonotonic
  <2>3. /\ Cardinality(DueUpTo(now)) \in Nat
        /\ Cardinality(DueUpTo(NextCheck - 1)) \in Nat
    BY <1>1, <2>1, DueFinite
  <2>4. sent <= Cardinality(DueUpTo(NextCheck - 1))
    BY <1>1, <2>2, <2>3 DEF AskInv
  <2> QED
    BY <1>1, <1>2, <1>3, <2>1, <2>4 DEF AskInv, DueUpTo, IsDue, Due
<1>4. CASE worker' = "hung" /\ UNCHANGED <<next_check, planned, check>>
  BY <1>2, <1>4, AskFrame
<1>5. CASE planned /\ ~check /\ UNCHANGED <<next_check, planned, check>>
  BY <1>2, <1>5 DEF AskInv, DueUpTo, IsDue, Due
<1> QED
  BY <1>3, <1>4, <1>5, Zenon DEF PlanNext

(* The check is for the due time that was planned, and has come.           *)
LEMMA AskCheck ==
    ASSUME AskInv, TypeOK', SendCheck
    PROVE  AskInv'
<1>1. now \in Nat /\ sent \in Nat /\ next_check \in Nat
  BY WorkerAssumption DEF AskInv, TypeOK
<1>2. /\ planned /\ ~check /\ next_check >= 1 /\ next_check <= now
      /\ IsDue(next_check) /\ sent <= Cardinality(DueUpTo(next_check - 1))
  BY DEF SendCheck, AskInv
<1>3. /\ sent' = sent + 1 /\ UNCHANGED <<now, planned>>
      /\ worker' = "plan"
  BY DEF SendCheck
<1>4. check'
  BY Zenon DEF SendCheck
<1>5. Cardinality(DueUpTo(next_check)) = Cardinality(DueUpTo(next_check - 1)) + 1
  BY <1>1, <1>2, DueOneMore
<1>6. Cardinality(DueUpTo(next_check)) <= Cardinality(DueUpTo(now))
  BY <1>1, <1>2, DueMonotonic
<1>7. /\ Cardinality(DueUpTo(next_check - 1)) \in Nat
      /\ Cardinality(DueUpTo(now)) \in Nat
  BY <1>1, <1>2, DueFinite
<1>8. sent' <= Cardinality(DueUpTo(now))
  BY <1>1, <1>2, <1>3, <1>5, <1>6, <1>7
<1> QED
  BY <1>2, <1>3, <1>4, <1>8 DEF AskInv, DueUpTo, IsDue, Due

LEMMA AskStep == Project # {} /\ AskInv /\ [Next]_vars => AskInv'
<1> SUFFICES ASSUME Project # {}, AskInv, [Next]_vars PROVE AskInv'
  OBVIOUS
<1>0. TypeOK /\ TypeOK'
  BY TypeStep DEF AskInv
<1> USE DEF mainVars, workerVars
<1>1. CASE Tick \/ RunnerAsks
  BY <1>0, <1>1, AskFrame DEF Tick, RunnerAsks
<1>2. CASE MainStep
  BY <1>0, <1>2, AskFrame
     DEF MainStep, Created, Run, EnterPoll, Receive, EndCallback, Free, Exit
<1>3. CASE BindRun \/ WaitStart \/ ConnectCheck \/ ReadRun \/ PollTerminated
  BY <1>0, <1>3, AskFrame
     DEF BindRun, WaitStart, ConnectCheck, ReadRun, PollTerminated, AfterFailure
<1>4. CASE PlanNext
  BY <1>0, <1>4, AskPlan
<1>5. CASE SendCheck
  BY <1>0, <1>5, AskCheck
<1>6. CASE SignalMain \/ SignalWorker
  BY <1>0, <1>6, AskFrame DEF SignalMain, SignalWorker, Signal, AfterFailure
<1>7. CASE UseFreed
  BY <1>0, <1>7, AskFrame DEF UseFreed
<1>8. CASE UNCHANGED vars
  BY <1>0, <1>8, AskFrame DEF vars
<1> QED
  BY <1>1, <1>2, <1>3, <1>4, <1>5, <1>6, <1>7, <1>8 DEF Next, WorkerStep

(* The worker thread asks at most once for a due time, and only when it    *)
(* has come (worker_next_check, worker_timeout), however late it runs, and *)
(* whatever else wakes its poll, as long as there is a project.            *)
THEOREM CheckedOncePerDueTime == Spec => []OneCheckPerDueTime
<1> DEFINE I == Project # {} => AskInv
<1>1. Init => I
  BY AskInit
<1>2. I /\ [Next]_vars => I'
  BY AskStep
<1>3. I => OneCheckPerDueTime
  BY DEF AskInv, OneCheckPerDueTime, DueTimes, DueUpTo, IsDue
<1> QED
  BY <1>1, <1>2, <1>3, PTL DEF Spec
=============================================================================
