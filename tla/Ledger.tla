------------------------------- MODULE Ledger -------------------------------
(***************************************************************************)
(* What the task table promises, with no list in memory, no runners, no    *)
(* messages and no crashes: a ledger of jobs.                              *)
(*                                                                         *)
(*   - A job is entered once, as new, and stays what it is for ever.       *)
(*   - The first job of a project may be entered at any time, a later one  *)
(*     only when the one before it, for the same commit, has succeeded.    *)
(*   - A job that was concluded never becomes new again, so that no start  *)
(*     of the core revives it.                                             *)
(***************************************************************************)
EXTENDS Task

VARIABLES
    rows,   \* the jobs [status, work], by id
    won     \* the ids that succeeded at least once

LedgerInit == rows = <<>> /\ won = {}

(* A job enters the ledger, last. *)
Enter ==
    /\ Len(rows') = Len(rows) + 1
    /\ LET w == rows'[Len(rows')].work IN
         /\ rows' = Append(rows, [status |-> task_new, work |-> w])
         /\ w.index = 0 \/ \E i \in won : rows[i].work = [w EXCEPT !.index = @ - 1]
    /\ won' = won

(* A job is concluded; reports may be repeated, and may contradict.        *)
Conclude(i, status) ==
    /\ rows' = [rows EXCEPT ![i].status = status]
    /\ won' = IF status = task_done THEN won \cup {i} ELSE won

LedgerNext ==
    \/ Enter
    \/ \E i \in DOMAIN rows, status \in {task_done, task_aborted} :
          Conclude(i, status)

Spec == LedgerInit /\ [][LedgerNext]_<<rows, won>>
=============================================================================
