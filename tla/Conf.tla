-------------------------------- MODULE Conf --------------------------------
(***************************************************************************)
(* Which projects a start of the core knows: src/src/core/conf.  The file  *)
(* lists entries; one that lacks something is skipped with a warning, so   *)
(* that a project may leave the configuration without its name leaving the *)
(* file.  What an entry holds besides (its cron line, its tasks) is in     *)
(* Cron and Task.                                                          *)
(***************************************************************************)
EXTENDS Task

CONSTANT ConfFiles   \* what the file may hold when the core is started

(* `opens': does the clone open, or is it created, and get its remote?     *)
Scm == [type : {"git", "other"}, opens : BOOLEAN]

Entry == [name : Project \cup {None}, scm : Scm \cup {None}, has_tasks : BOOLEAN]

ASSUME ConfAssumption ==
    /\ ConfFiles # {} /\ ConfFiles \subseteq Seq(Entry)
    /\ None \notin Project /\ None \notin Scm

(* yacad_scm_new: is there an scm to work with?                            *)
HasScm(e) == e.scm # None /\ e.scm.type = "git" /\ e.scm.opens

(* read_projects: the entries that make a project.  (Parsing the cron line *)
(* never fails, and a name that comes again is ignored.)                   *)
Complete(e) == e.name # None /\ HasScm(e) /\ e.has_tasks

Configured(file) == {file[i].name : i \in {j \in DOMAIN file : Complete(file[j])}}

Confs == {Configured(file) : file \in ConfFiles}
=============================================================================
