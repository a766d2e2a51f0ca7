-------------------------------- MODULE Task --------------------------------
(***************************************************************************)
(* Tasks: src/src/common/task and the task templates of a project.         *)
(*                                                                         *)
(* A work is what a task is about: the project, the index of the template  *)
(* among the project's tasks (from 0, as in the code) and the environment  *)
(* in which it is resolved, of which only the commit ("ref") varies.       *)
(* A task as it is queued is a work with a database id, a status, and      *)
(* whether it was read back from the database.                             *)
(***************************************************************************)
EXTENDS RunnerId

CONSTANTS
    Project,        \* the projects some configuration names
    Tasks,          \* per project, its task templates; maybe none
    ExactRoundTrip  \* does JSON written and read back compare equal?

task_new     == 0
task_running == 1
task_done    == -1
task_aborted == -2
Status == {task_new, task_running, task_done, task_aborted}

Ref == Nat \ {0}                                  \* commits, oldest first

Work == [project : Project, index : Nat, env : Ref]

(***************************************************************************)
(* A template says which runner it wants, what to run (text), and whether  *)
(* its text mentions the commit; resolving it substitutes the commit.      *)
(***************************************************************************)
ASSUME TasksAssumption ==
    /\ None \notin Work
    /\ ExactRoundTrip \in BOOLEAN
    /\ DOMAIN Tasks = Project
    /\ \A p \in Project : Len(Tasks[p]) \in Nat

(* The template a work comes from: its runner, source and run (as text).   *)
Template(w) == Tasks[w.project][w.index + 1]

Resolve(w) == [text |-> Template(w).text,
               ref  |-> IF Template(w).uses_ref THEN w.env ELSE None]

(* Mutant: tasks that want the same runner are taken for one another.      *)
SameRunner(w, t) == SameId(Template(w).runner, Template(t.work).runner)

(***************************************************************************)
(* Is the new task about work w the same as the queued task t?  The runner *)
(* id and the resolved JSON decide.  The project, the index and the        *)
(* environment that did not make it into the JSON are not looked at.  No   *)
(* template here has an object with more keys than the comparison has room *)
(* for (Json.Verdicts says what it comes to otherwise).                    *)
(***************************************************************************)
SameJson(w, t) ==
    /\ Resolve(w) = Resolve(t.work)
    /\ t.reparsed => ExactRoundTrip

SameAs(w, t) ==
    /\ SameId(Template(w).runner, Template(t.work).runner)
    /\ SameJson(w, t)
=============================================================================
