---------------------------- MODULE MCScheduler -----------------------------
(***************************************************************************)
(* Two projects, each a build on "foo" followed by a check on "bar", and   *)
(* a runner for each architecture.  The builds mention the commit; the     *)
(* checks do not and are the same text in both projects, so that the list  *)
(* meets a task that is the same as one of another project, or as one of   *)
(* an earlier commit.                                                      *)
(***************************************************************************)
EXTENDS Scheduler

CONSTANTS p, q, e, r1, r2

On(arch) == [name |-> None, arch |-> arch]

Build(what) == [runner |-> On("foo"), text |-> what, uses_ref |-> TRUE]
Check       == [runner |-> On("bar"), text |-> "check", uses_ref |-> FALSE]

MCProject == {p, q}
MCTasks == (p :> <<Build("make p"), Check>>) @@ (q :> <<Build("make q"), Check>>)

(* With a third project, whose list of tasks is empty, and one task for q. *)
MCProjectE == {p, q, e}
MCTasksE == (p :> MCTasks[p]) @@ (q :> <<Build("make q")>>) @@ (e :> <<>>)

MCRunner == {r1, r2}
MCRunnerIdOf == (r1 :> On("foo")) @@ (r2 :> [name |-> "n", arch |-> "bar"])

(* Two good entries; or q's scm cannot be opened, and an entry has no name. *)
(* The project without tasks is a good entry of such a file.               *)
Good(x) == [name |-> x, scm |-> [type |-> "git", opens |-> TRUE], has_tasks |-> TRUE]

FixedConf == {<<Good(p), Good(q)>>}
LosesQ    == <<[Good(q) EXCEPT !.scm.opens = FALSE], Good(None), Good(p)>>
AnyConf   == FixedConf \cup {LosesQ}
AnyConfE  == FixedConf \cup {Append(LosesQ, Good(e))}

OnePush  == [x \in MCProject |-> 1]
OnePushE == [x \in MCProjectE |-> 1]
TwoOnP   == (p :> 2) @@ (q :> 1)
OnlyP    == (p :> 2) @@ (q :> 0)
=============================================================================
