--------------------------- MODULE DatabaseProofs ---------------------------
(***************************************************************************)
(* Proofs about Database, for every bound.                                 *)
(***************************************************************************)
EXTENDS Database, TLAPS

(***************************************************************************)
(* What the disk holds at each stage of a start.  As long as nothing       *)
(* failed, the version is recorded only over a table that is there.        *)
(***************************************************************************)
Staged ==
    /\ TypeOK
    /\ "TASKLIST" \in disk => "PARAM" \in disk
    /\ stage \notin {"down", "open", "create"} => "file" \in disk
    /\ stage \in {"drop", "make", "mark", "select", "up"} => "PARAM" \in disk
    /\ faults = 0 =>
         /\ "version" \in disk \/ stage \in {"mark", "select", "up"} => "TASKLIST" \in disk
         /\ stage \in {"drop", "make"} => "version" \notin disk

(***************************************************************************)
(* A loss to come was paid for by a failure: rows that the next start will *)
(* drop, or this one is about to, or that a core without a recorded        *)
(* version may still insert.                                               *)
(***************************************************************************)
Doomed ==
    \/ stage \in {"select", "up"} /\ "version" \notin disk
    \/ tasks > 0 /\ ("version" \notin disk \/ stage = "drop")

Inv ==
    /\ Staged
    /\ dropped <= faults
    /\ Doomed => dropped < faults

LEMMA InvInit == Init => Inv
<1> SUFFICES ASSUME Init PROVE Inv
  OBVIOUS
<1>1. spoilt \in BOOLEAN /\ ~spoilt
  BY Zenon DEF Init
<1> QED
  BY <1>1, DatabaseAssumption DEF Init, Inv, Staged, Doomed, TypeOK, Stages, Parts

LEMMA InvStep == Inv /\ [Next]_vars => Inv'
<1> SUFFICES ASSUME Inv, [Next]_vars PROVE Inv'
  OBVIOUS
<1> USE DatabaseAssumption DEF Inv, Staged, Doomed, TypeOK, Stages, Parts, Succeeds, Fails,
           rows
<1>1. ASSUME stage' = "down", UNCHANGED <<disk, rows, dropped>>,
             crashes' \in 0 .. MaxCrashes, faults' \in 0 .. MaxFaults, faults' >= faults
      PROVE  Inv'
  BY <1>1
<1>2. CASE Start
  BY <1>2 DEF Start
<1>3. CASE Crash
  BY <1>1, <1>3 DEF Crash, Die
<1>4. CASE Open
  BY <1>4 DEF Open
<1>5. CASE CreateFile
  <2>1. CASE Succeeds /\ disk' = disk \cup {"file"} /\ stage' = "params" /\ UNCHANGED rows
    <3>1. /\ disk' \subseteq Parts /\ "file" \in disk'
          /\ \A x \in Parts \ {"file"} : x \in disk' <=> x \in disk
      BY <2>1
    <3> QED
      BY <1>5, <2>1, <3>1 DEF CreateFile
  <2>2. CASE Fails /\ Die
    BY <1>1, <1>5, <2>2 DEF CreateFile, Die
  <2> QED
    BY <1>5, <2>1, <2>2 DEF CreateFile
<1>6. CASE CreateParams
  <2>1. CASE "PARAM" \notin disk /\ Succeeds /\ disk' = disk \cup {"PARAM"}
               /\ stage' = "need" /\ UNCHANGED rows
    <3>1. /\ disk' \subseteq Parts /\ "PARAM" \in disk'
          /\ \A x \in Parts \ {"PARAM"} : x \in disk' <=> x \in disk
      BY <2>1
    <3> QED
      BY <1>6, <2>1, <3>1 DEF CreateParams
  <2>2. CASE Die /\ (Fails \/ Succeeds)
    BY <1>1, <1>6, <2>2 DEF CreateParams, Die
  <2> QED
    BY <1>6, <2>1, <2>2 DEF CreateParams
<1>7. CASE NeedInstall
  <2>1. CASE Die /\ Succeeds
    BY <1>1, <1>7, <2>1 DEF NeedInstall, Die
  <2>2. CASE "PARAM" \in disk /\ UNCHANGED <<disk, rows>>
    BY <1>7, <2>2 DEF NeedInstall
  <2> QED
    BY <1>7, <2>1, <2>2 DEF NeedInstall
<1>8. CASE DropTable
  <2>1. stage' = "make" /\ UNCHANGED crashes
    BY <1>8 DEF DropTable, After
  <2>2. CASE Succeeds /\ disk' = disk \ {"TASKLIST"} /\ tasks' = 0 /\ spoilt' = FALSE
               /\ dropped' = IF tasks > 0 THEN dropped + 1 ELSE dropped
    <3>1. /\ disk' \subseteq Parts /\ "TASKLIST" \notin disk'
          /\ \A x \in Parts \ {"TASKLIST"} : x \in disk' <=> x \in disk
      BY <2>2
    <3>2. dropped' \in Nat /\ dropped' <= faults'
      BY <1>8, <2>2 DEF DropTable
    <3>3. spoilt' \in BOOLEAN /\ ~spoilt'
      BY <2>2, Zenon
    <3> QED
      BY <1>8, <2>1, <2>2, <3>1, <3>2, <3>3 DEF DropTable
  <2>3. CASE Fails /\ UNCHANGED <<disk, rows, dropped>>
    BY <1>8, <2>1, <2>3 DEF DropTable
  <2> QED
    BY <1>8, <2>2, <2>3 DEF DropTable
<1>9. CASE MakeTable
  <2>1. UNCHANGED <<rows, dropped, crashes>> /\ stage = "make"
    BY <1>9 DEF MakeTable
  <2>2. CASE "TASKLIST" \notin disk /\ Succeeds /\ disk' = disk \cup {"TASKLIST"}
               /\ stage' = "mark"
    <3>1. /\ disk' \subseteq Parts /\ "TASKLIST" \in disk'
          /\ \A x \in Parts \ {"TASKLIST"} : x \in disk' <=> x \in disk
      BY <2>2
    <3> QED
      BY <2>1, <2>2, <3>1
  <2>3. CASE "TASKLIST" \notin disk /\ Fails /\ stage' = "mark" /\ UNCHANGED disk
    BY <2>1, <2>3
  <2>4. CASE Succeeds /\ Die
    BY <1>1, <2>1, <2>4 DEF Die
  <2> QED
    BY <1>9, <2>2, <2>3, <2>4 DEF MakeTable, After
<1>10. CASE MarkInstalled
  <2>1. stage = "mark" /\ stage' = "select" /\ UNCHANGED <<rows, dropped, crashes>>
    BY <1>10 DEF MarkInstalled, After
  <2>2. CASE Succeeds /\ disk' = disk \cup {"version"}
    <3>1. /\ disk' \subseteq Parts /\ "version" \in disk'
          /\ \A x \in Parts \ {"version"} : x \in disk' <=> x \in disk
      BY <2>2
    <3> QED
      BY <2>1, <2>2, <3>1
  <2>3. CASE Fails /\ UNCHANGED disk
    BY <2>1, <2>3
  <2> QED
    BY <1>10, <2>2, <2>3 DEF MarkInstalled
<1>11. CASE SelectTasks
  <2>1. stage = "select" /\ UNCHANGED <<disk, rows, dropped, crashes>>
    BY <1>11 DEF SelectTasks, Die
  <2>2. CASE "TASKLIST" \in disk /\ (Fails \/ Succeeds) /\ stage' = "up"
    BY <2>1, <2>2
  <2>3. CASE Succeeds /\ Die
    BY <1>1, <2>1, <2>3 DEF Die
  <2> QED
    BY <1>11, <2>2, <2>3 DEF SelectTasks
<1>12. CASE InsertTask
  <2>1. spoilt' \in BOOLEAN
    BY <1>12 DEF InsertTask
  <2> QED
    BY <1>12, <2>1 DEF InsertTask
<1>13. CASE UNCHANGED vars
  BY <1>13 DEF vars
<1> QED
  BY <1>2, <1>3, <1>4, <1>5, <1>6, <1>7, <1>8, <1>9, <1>10, <1>11, <1>12, <1>13
     DEF Next, Advance

LEMMA InvAlways == Spec => []Inv
<1>1. Init => Inv
  BY InvInit
<1>2. Inv /\ [Next]_vars => Inv'
  BY InvStep
<1> QED
  BY <1>1, <1>2, PTL DEF Spec

(***************************************************************************)
(* However many times the core is started and dies, at whatever statement, *)
(* the rows of the task table are dropped at most once per statement that  *)
(* failed (yacad_tasklist_new, set_installed, need_install).               *)
(***************************************************************************)
THEOREM LossesBounded == Spec => []OneLossPerFailure
<1>1. Inv => OneLossPerFailure
  BY DEF Inv, OneLossPerFailure
<1> QED
  BY <1>1, InvAlways, PTL

(***************************************************************************)
(* While no statement fails, what no start can put to work is a file the   *)
(* very first start left empty (yacad_database_new).                       *)
(***************************************************************************)
THEOREM OnlyFirstStartIsFatal == Spec => []UnusableOnlyByFirstStart
<1>1. ASSUME Inv, Unusable, faults = 0 PROVE disk = {"file"}
  <2>1. "file" \in disk /\ "PARAM" \notin disk
    BY <1>1 DEF Inv, Staged, TypeOK, Unusable
  <2>2. "version" \notin disk /\ "TASKLIST" \notin disk /\ disk \subseteq Parts
    BY <1>1, <2>1 DEF Inv, Staged, TypeOK
  <2> QED
    BY <2>1, <2>2 DEF Parts
<1>2. Inv => UnusableOnlyByFirstStart
  BY <1>1 DEF UnusableOnlyByFirstStart
<1> QED
  BY <1>2, InvAlways, PTL

(***************************************************************************)
(* A database that no start gets past stays so, until a statement fails:   *)
(* each of the steps that repair one (the creation of PARAM, the           *)
(* installation of TASKLIST) is behind a test that such a database passes  *)
(* (yacad_database_new, need_install).                                     *)
(***************************************************************************)
LEMMA HopelessStep ==
    ASSUME Staged, [Next]_vars, Hopeless, faults' = faults
    PROVE  Hopeless'
<1> USE DEF Hopeless, Unusable, rows
<1>1. ASSUME Die PROVE Hopeless'
  BY <1>1 DEF Die
<1>2. ~Fails
  BY DatabaseAssumption DEF Staged, TypeOK, Fails
<1>3. CASE Start
  BY <1>3 DEF Start
<1>4. CASE Crash
  BY <1>1, <1>4 DEF Crash
<1>5. CASE Open
  BY <1>2, <1>5 DEF Open, Staged, TypeOK
<1>6. CASE NeedInstall
  BY <1>1, <1>2, <1>6 DEF NeedInstall
<1>7. CASE SelectTasks
  BY <1>1, <1>2, <1>7 DEF SelectTasks, Staged
<1>8. CASE CreateFile \/ CreateParams \/ DropTable \/ MakeTable \/ MarkInstalled \/ InsertTask
  BY <1>8 DEF CreateFile, CreateParams, DropTable, MakeTable, MarkInstalled, InsertTask
<1>9. CASE UNCHANGED vars
  BY <1>9 DEF vars
<1> QED
  BY <1>3, <1>4, <1>5, <1>6, <1>7, <1>8, <1>9 DEF Next, Advance

(* No start gets past a database that is beyond use, or one with a row     *)
(* that does not parse, and none repairs it, until a statement fails.      *)
THEOREM HopelessForGood == Spec => HopelessStays
<1>1. Inv /\ [Next]_vars => [Hopeless /\ faults' = faults => Hopeless']_vars
  BY HopelessStep DEF Inv
<1> QED
  BY <1>1, InvAlways, PTL DEF Spec, HopelessStays
=============================================================================
