------------------------------ MODULE TaskList ------------------------------
(***************************************************************************)
(* The core's list of tasks: src/src/core/tasklist over the TASKLIST table *)
(* of the database.  `tasklist' is the array in memory, which loses a task *)
(* as it is handed out; `db' is the table.  No row is ever deleted, unless *)
(* the whole table is dropped, and their autoincrement ids start at 1, so  *)
(* a row is the element of `db' at its id.                                 *)
(*                                                                         *)
(* The actions below each assign one or both of the two variables; who     *)
(* calls them, and when, is in Scheduler.                                  *)
(***************************************************************************)
EXTENDS Task, SequencesExt

VARIABLES
    tasklist,   \* queued tasks, oldest first; gone when the core is down
    db          \* rows [status, work], surviving everything

Row == [status : Status, work : Work]

QueuedTask == [id : Nat, status : Status, reparsed : BOOLEAN, work : Work]

TaskListType ==
    /\ tasklist \in Seq(QueuedTask)
    /\ db \in Seq(Row)

InitTaskList ==
    /\ tasklist = <<>>
    /\ db = <<>>

NewRow(w) == [status |-> task_new, work |-> w]

NewTask(i, w) == [id |-> i, status |-> task_new, reparsed |-> FALSE, work |-> w]

(***************************************************************************)
(* add: nothing when the same task is queued already; otherwise insert the *)
(* row, take its id, and queue the task last.                              *)
(***************************************************************************)
IsQueued(w) == \E i \in DOMAIN tasklist : SameAs(w, tasklist[i])

Add(w) ==
    IF IsQueued(w) THEN UNCHANGED <<tasklist, db>>
    ELSE /\ db' = Append(db, NewRow(w))
         /\ tasklist' = Append(tasklist, NewTask(Len(db) + 1, w))

(***************************************************************************)
(* add when the INSERT statement fails: the error is only logged, and the  *)
(* task is queued all the same, under an id read from a field nobody set.  *)
(***************************************************************************)
AddUnsaved(w) ==
    /\ ~IsQueued(w)
    /\ \E i \in 0 .. Len(db) + 1 :
          tasklist' = Append(tasklist, NewTask(i, w))
    /\ db' = db

(***************************************************************************)
(* get: among the new tasks that suit the runner, the first of those that  *)
(* suit it best leaves the array.  Its row keeps the status "new".         *)
(***************************************************************************)
MatchAt(rid, i) == Match(rid, Template(tasklist[i].work).runner)

Suitable(rid, i) ==
    /\ tasklist[i].status = task_new
    /\ MatchAt(rid, i) > -1

IsBest(rid, i) ==
    /\ Suitable(rid, i)
    /\ \A j \in DOMAIN tasklist :
          Suitable(rid, j) =>
             \/ MatchAt(rid, j) < MatchAt(rid, i)
             \/ MatchAt(rid, j) = MatchAt(rid, i) /\ i <= j

NoTaskFor(rid) == \A i \in DOMAIN tasklist : ~Suitable(rid, i)

(* Mutant: the task is handed out and stays in the array.                  *)
GetAndKeep(i) == i \in DOMAIN tasklist /\ UNCHANGED <<tasklist, db>>

Get(i) ==
    /\ tasklist' = RemoveAt(tasklist, i)
    /\ db' = db

(* Mutant: the statement lost its "where ID=?".                            *)
UpdateEveryStatus(i, status) ==
    /\ db' = [k \in DOMAIN db |-> [db[k] EXCEPT !.status = status]]
    /\ tasklist' = tasklist

(* Mutant: the status changes in the array and not in the table.           *)
UpdateInMemory(i, status) ==
    /\ tasklist' = [k \in DOMAIN tasklist |->
                      IF tasklist[k].id = i
                         THEN [tasklist[k] EXCEPT !.status = status]
                         ELSE tasklist[k]]
    /\ db' = db

(***************************************************************************)
(* set_task_done, set_task_aborted: only the row changes, whatever is left *)
(* in the array.  An id without a row updates nothing.                     *)
(***************************************************************************)
UpdateTaskStatus(i, status) ==
    /\ db' = IF i \in DOMAIN db THEN [db EXCEPT ![i].status = status] ELSE db
    /\ tasklist' = tasklist

(***************************************************************************)
(* The constructor: every row whose status is "new" comes back, in the     *)
(* order of the ids.  IsSelection is what "where STATUS=? order by ID asc" *)
(* promises of the ids it yields; SetToSortSeq computes them.              *)
(***************************************************************************)
NewIds == {i \in DOMAIN db : db[i].status = task_new}

IsSelection(ids) ==
    /\ ids \in Seq(NewIds)
    /\ \A i \in NewIds : \E k \in DOMAIN ids : ids[k] = i
    /\ \A j, k \in DOMAIN ids : j < k => ids[j] < ids[k]

(* Mutant: set_id is forgotten.                                            *)
RestoredWithoutId(i) ==
    [id |-> 0, status |-> db[i].status, reparsed |-> TRUE, work |-> db[i].work]

RestoredTask(i) ==
    [id |-> i, status |-> db[i].status, reparsed |-> TRUE, work |-> db[i].work]

Restore ==
    /\ \E ids \in {SetToSortSeq(NewIds, <)} :
          /\ IsSelection(ids)
          /\ tasklist' = [k \in DOMAIN ids |-> RestoredTask(ids[k])]
    /\ db' = db

(* The constructor when the SELECT fails on the way: the error is logged   *)
(* and the core goes on with the rows that came before it.                 *)
RestorePartly ==
    /\ \E ids \in {SetToSortSeq(NewIds, <)} : \E n \in 0 .. Len(ids) - 1 :
          /\ IsSelection(ids)
          /\ tasklist' = [k \in 1 .. n |-> RestoredTask(ids[k])]
    /\ db' = db

(* The constructor when the version cannot be read: it takes the database  *)
(* for a new one, and drops the table with all its rows.  Ids start again. *)
Reinstall ==
    /\ db' = <<>>
    /\ tasklist' = <<>>
=============================================================================
