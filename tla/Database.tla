------------------------------ MODULE Database ------------------------------
(***************************************************************************)
(* How the database of the core comes to be, and what a start does to the  *)
(* tasks it holds: yacad_database_new and its PARAM table, and the part of *)
(* yacad_tasklist_new that installs the TASKLIST table when no version of  *)
(* it is recorded.  Scheduler takes over once the core is up.              *)
(*                                                                         *)
(* A statement is atomic and durable (SQLite commits it by itself), so a   *)
(* step here is one statement; the process may die between two of them.    *)
(* A statement that fails is logged and the code goes on, except that it   *)
(* writes through the NULL that stands for one that cannot be prepared,    *)
(* and reads through the NULL of a database that cannot be created.        *)
(***************************************************************************)
EXTENDS Integers

CONSTANTS
    MaxTasks,    \* bound: tasks in the table
    MaxCrashes,  \* bound: ends of the process the code did not bring about
    MaxFaults    \* bound: statements and opens that fail

ASSUME DatabaseAssumption == {MaxTasks, MaxCrashes, MaxFaults} \subseteq Nat

VARIABLES
    stage,     \* how far the start of the core has come
    disk,      \* what there is of Parts on disk
    tasks,     \* how many rows TASKLIST has
    spoilt,    \* does it have one that no start survives reading?
    dropped,   \* history: how many times rows were dropped
    crashes, faults

rows == <<tasks, spoilt>>
vars == <<stage, disk, rows, dropped, crashes, faults>>

(* The database file, its two tables, and the row of PARAM that tells      *)
(* their current version.                                                  *)
Parts == {"file", "PARAM", "version", "TASKLIST"}

Stages == {"open", "create", "params", "need", "drop", "make", "mark", "select"}

TypeOK ==
    /\ stage \in Stages \cup {"down", "up"}
    /\ disk \subseteq Parts
    /\ tasks \in 0 .. MaxTasks /\ dropped \in Nat
    /\ spoilt \in BOOLEAN /\ (spoilt => tasks > 0)
    /\ crashes \in 0 .. MaxCrashes /\ faults \in 0 .. MaxFaults
    /\ disk = {} \/ "file" \in disk
    /\ "version" \in disk => "PARAM" \in disk
    /\ tasks > 0 \/ stage = "up" => "TASKLIST" \in disk

Init ==
    /\ stage = "down" /\ disk = {} /\ tasks = 0 /\ spoilt = FALSE /\ dropped = 0
    /\ crashes = 0 /\ faults = 0
-----------------------------------------------------------------------------
Succeeds == UNCHANGED faults
Fails    == faults < MaxFaults /\ faults' = faults + 1

(* The process is gone; what is on disk stays. *)
Die == stage' = "down" /\ UNCHANGED <<disk, rows>>

Start ==
    /\ stage = "down"
    /\ stage' = "open"
    /\ UNCHANGED <<disk, rows, dropped, crashes, faults>>

Crash ==
    /\ stage # "down" /\ crashes < MaxCrashes
    /\ crashes' = crashes + 1
    /\ Die
    /\ UNCHANGED <<dropped, faults>>

(* Mutant: always open the file as one to be created.                      *)
OpenToCreate ==
    /\ stage = "open"
    /\ Succeeds /\ stage' = "create"
    /\ UNCHANGED <<disk, rows, dropped, crashes>>

(* yacad_database_new: open the file that is there, *)
Open ==
    /\ stage = "open"
    /\ \/ "file" \in disk /\ Succeeds /\ stage' = "need"
       \/ "file" \notin disk /\ Succeeds /\ stage' = "create"
       \/ "file" \in disk /\ Fails /\ stage' = "create"
    /\ UNCHANGED <<disk, rows, dropped, crashes>>

(* or else create it, *)
CreateFile ==
    /\ stage = "create"
    /\ \/ /\ Succeeds
          /\ disk' = disk \cup {"file"}
          /\ stage' = "params"
          /\ UNCHANGED rows
       \/ Fails /\ Die
    /\ UNCHANGED <<dropped, crashes>>

(* and its PARAM table: nothing is made of a failure of either. *)
CreateParams ==
    /\ stage = "params"
    /\ \/ /\ "PARAM" \notin disk /\ Succeeds
          /\ disk' = disk \cup {"PARAM"}
          /\ stage' = "need"
          /\ UNCHANGED rows
       \/ "PARAM" \notin disk /\ Fails /\ Die
       \/ "PARAM" \in disk /\ Succeeds /\ Die
    /\ UNCHANGED <<dropped, crashes>>

(* need_install: yes, unless the current version is read.                  *)
NeedInstall ==
    /\ stage = "need"
    /\ \/ "PARAM" \notin disk /\ Succeeds /\ Die
       \/ /\ "PARAM" \in disk
          /\ \/ "version" \in disk /\ Succeeds /\ stage' = "select"
             \/ "version" \notin disk /\ Succeeds /\ stage' = "drop"
             \/ Fails /\ stage' = "drop"
          /\ UNCHANGED <<disk, rows>>
    /\ UNCHANGED <<dropped, crashes>>

(* Mutant: the version is recorded before the table is made.               *)
AfterMarkingFirst == [drop |-> "mark", mark |-> "make", make |-> "select"]

(* yacad_tasklist_new, if need_install: three statements in this order.    *)
After == [drop |-> "make", make |-> "mark", mark |-> "select"]

DropTable ==
    /\ stage = "drop"
    /\ stage' = After.drop
    /\ \/ /\ Succeeds
          /\ disk' = disk \ {"TASKLIST"}
          /\ tasks' = 0 /\ spoilt' = FALSE
          /\ dropped' = IF tasks > 0 THEN dropped + 1 ELSE dropped
       \/ Fails /\ UNCHANGED <<disk, rows, dropped>>
    /\ UNCHANGED crashes

(* A table that is there already cannot be prepared to be created. *)
MakeTable ==
    /\ stage = "make"
    /\ \/ /\ "TASKLIST" \notin disk /\ Succeeds
          /\ disk' = disk \cup {"TASKLIST"}
          /\ stage' = After.make
       \/ "TASKLIST" \notin disk /\ Fails /\ stage' = After.make /\ UNCHANGED disk
       \/ "TASKLIST" \in disk /\ Succeeds /\ Die
    /\ UNCHANGED <<rows, dropped, crashes>>

(* Mutant: nothing is inserted.                                            *)
MarkNothing ==
    /\ stage = "mark"
    /\ stage' = After.mark
    /\ Succeeds
    /\ UNCHANGED <<disk, rows, dropped, crashes>>

(* set_installed *)
MarkInstalled ==
    /\ stage = "mark"
    /\ stage' = After.mark
    /\ \/ Succeeds /\ disk' = disk \cup {"version"}
       \/ Fails /\ UNCHANGED disk
    /\ UNCHANGED <<rows, dropped, crashes>>

(* Mutant: a SELECT that cannot be prepared is survived.                   *)
SelectAnyway ==
    /\ stage = "select"
    /\ stage' = "up"
    /\ UNCHANGED <<disk, rows, dropped, crashes, faults>>

(* Read the tasks back, row by row.  A SELECT that fails ends this early,  *)
(* and the core is up without the rest; a missing table, or a spoilt row   *)
(* (add_task, yacad_task_unserialize), ends the process.                   *)
SelectTasks ==
    /\ stage = "select"
    /\ \/ /\ "TASKLIST" \in disk
          /\ Fails \/ (Succeeds /\ ~spoilt)
          /\ stage' = "up" /\ UNCHANGED <<disk, rows>>
       \/ ("TASKLIST" \notin disk \/ spoilt) /\ Succeeds /\ Die
    /\ UNCHANGED <<dropped, crashes>>

(* A task is added by the core at work.  A quote in the name of its        *)
(* project, which is written as it is (yacad_task serialize), spoils the   *)
(* row, and so may a variable in it that the reader does not know.         *)
InsertTask ==
    /\ stage = "up" /\ tasks < MaxTasks
    /\ tasks' = tasks + 1
    /\ spoilt' \in {spoilt, TRUE}
    /\ UNCHANGED <<stage, disk, dropped, crashes, faults>>

Advance ==
    \/ Open \/ CreateFile \/ CreateParams \/ NeedInstall
    \/ DropTable \/ MakeTable \/ MarkInstalled \/ SelectTasks

Next == Start \/ Crash \/ Advance \/ InsertTask

(* A start that began goes on; nobody has to start the core again.         *)
Spec == Init /\ [][Next]_vars /\ WF_vars(Advance)
-----------------------------------------------------------------------------
(* A crash, at whatever statement, costs no task, and a statement that     *)
(* fails costs the rows of the table once, however many starts follow.     *)
OneLossPerFailure == dropped <= faults

(* With this on disk, a start dies: the file without PARAM is taken for a  *)
(* complete database (yacad_database_new), and the recorded version for    *)
(* the presence of TASKLIST (yacad_tasklist_new).                          *)
Unusable ==
    /\ "file" \in disk
    /\ "PARAM" \in disk => "version" \in disk /\ "TASKLIST" \notin disk

(* As long as no statement fails, only the very first start can leave an   *)
(* unusable database behind: no later crash is beyond repair, whatever     *)
(* became of the installation.                                             *)
UnusableOnlyByFirstStart ==
    Unusable /\ faults = 0 => disk = {"file"}

(* A start that has come this far, or the next one, is lost.  To read rows *)
(* that do not parse is as fatal as to find no table.                      *)
Hopeless ==
    /\ stage \in {"down", "open", "need", "select"}
    /\ Unusable \/ (spoilt /\ "version" \in disk)

(* It stays so: no start gets past the database, and none repairs it, and  *)
(* only a statement that fails may ever change that, by dropping the table *)
(* or ending the SELECT in time.                                           *)
HopelessStays == [][Hopeless /\ faults' = faults => Hopeless']_vars
=============================================================================
