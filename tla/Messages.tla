------------------------------ MODULE Messages ------------------------------
(***************************************************************************)
(* The way of one task: resolved from its template, kept in the database,  *)
(* read back by the next start, sent to a runner, reported by it, and      *)
(* followed by its successor.  At each stage it is written as JSON and     *)
(* read again (yacad_task serialize and unserialize, yacad_message), and   *)
(* each reading resolves variables anew.                                   *)
(*                                                                         *)
(* The programs here are the core, and a runner that reads what it is sent *)
(* with the code of common/message: the repository's own does not yet.     *)
(***************************************************************************)
EXTENDS Json

CONSTANTS
    Templates,   \* task templates of a configuration
    Others,      \* those of tasks that come later
    Values,      \* what the variable may stand for: names of branches
    Names,       \* names of projects, and those of them
    QuotedNames, \*   with a quote or a backslash
    MaxLegs      \* bound: times a task is read

ASSUME MessagesAssumption == QuotedNames \subseteq Names /\ MaxLegs \in Nat

VARIABLES
    keepsNul, lenient, \* the library keeps a NUL, does without a last brace
    template, value, name,
    place,             \* where the task is
    task,              \* the task there
    legs               \* how often it was read

library == <<keepsNul, lenient>>
origin  == <<template, value, name>>
vars    == <<library, origin, place, task, legs>>

Variable == <<"a">>
NoEnv    == [x \in {} |-> <<>>]
Env(v)   == [x \in {Variable} |-> v]

NoTask == [json |-> Missing, env |-> <<>>, name |-> <<>>]

(* _task_new looks for the runner, and there is no task without.           *)
HasRunner(json) == Find(json, <<"runner">>, "object") # Missing

Held == {"core", "row", "offered", "runner", "reported", "settled"}

TypeOK ==
    /\ keepsNul \in BOOLEAN /\ lenient \in BOOLEAN
    /\ template \in Templates /\ value \in Values /\ name \in Names
    /\ place \in Held \cup {"none", "dead", "starved"} /\ legs \in 0 .. MaxLegs
    /\ IF place \in Held THEN HasRunner(task.json) ELSE task = NoTask

Init ==
    /\ keepsNul \in BOOLEAN /\ lenient \in BOOLEAN
    /\ template \in Templates /\ value \in Values /\ name \in Names
    /\ place = "none" /\ task = NoTask /\ legs = 0
-----------------------------------------------------------------------------
Resolved(v, env) == Resolve(v, env, keepsNul)

Dies == place' = "dead" /\ task' = NoTask

(* An unknown variable is reported through a log that was never set:       *)
(* undefined, and if it does not kill, the variable is gone.               *)
Arrives(at, t, asks) ==
    \/ place' = at /\ task' = t
    \/ asks /\ Dies

(* The text up to its NULs, which are only ever at its end.                *)
CString(s) == SelectSeq(s, LAMBDA c : c # Nul)

(* serialize and yacad_task_unserialize                                    *)
Serial(t) ==
    Obj([task         |-> t.json,
         project_name |-> Str(t.name),
         env          |-> Obj([branch |-> Str(t.env)])])

(* Mutant: the environment is not read back.                               *)
UnserializeBare(j) ==
    [json |-> Resolved(j.members.task, NoEnv),
     env  |-> <<>>,
     name |-> CString(j.members.project_name.text)]

Unserialize(j) ==
    [json |-> Resolved(j.members.task, NoEnv),
     env  |-> CString(j.members.env.members.branch.text),
     name |-> CString(j.members.project_name.text)]

(* The name of the project is put between quotes as it is.                 *)
Readable == task.name \notin QuotedNames

(* A task that is made from its template, by a check or to follow another. *)
CreateAnyway(env) ==
    /\ Arrives("core", [json |-> Resolved(template, Env(env)), env |-> env, name |-> name],
               Asks(template, Env(env)))
    /\ legs' = 0

Create(env) ==
    /\ IF HasRunner(template)
         THEN Arrives("core", [json |-> Resolved(template, Env(env)), env |-> env, name |-> name],
                      Asks(template, Env(env)))
         ELSE Dies
    /\ legs' = 0

Check == place = "none" /\ Create(value)

(* The project of a reported task makes the next one. *)
Succeed == place = "settled" /\ Create(task.env)

(* The task is written, to the database or to a socket. *)
Write(from, to) ==
    place = from /\ place' = to /\ UNCHANGED <<task, legs>>

Read(from) == place = from /\ legs < MaxLegs /\ legs' = legs + 1

(* yacad_tasklist_new: the text that cannot be parsed is read from, too.   *)
Restart ==
    /\ Read("row")
    /\ IF Readable
         THEN Arrives("core", Unserialize(Serial(task)), Asks(task.json, NoEnv))
         ELSE Dies

(* A message is resolved as a whole, and then the task in it.              *)
ReadMessage(message, at) ==
    LET serial == Resolved(message, NoEnv)
        inner  == Find(serial, <<"task">>, "object")
    IN  Arrives(at, Unserialize(inner),
                Asks(message, NoEnv) \/ Asks(inner.members.task, NoEnv))

reply_get_task(t) == Obj([type   |-> Str(<<"reply_get_task">>),
                          runner |-> Find(t.json, <<"runner">>, "object"),
                          task   |-> Serial(t)])

query_set_result(t) == Obj([type    |-> Str(<<"query_set_result">>),
                            runner  |-> Find(t.json, <<"runner">>, "object"),
                            task    |-> Serial(t),
                            success |-> Const("true")])

Take ==
    /\ Read("offered")
    /\ IF Readable THEN ReadMessage(reply_get_task(task), "runner") ELSE Dies

(* The text of query_set_result lacks its last brace.                      *)
Settle ==
    /\ Read("reported")
    /\ IF Readable /\ lenient
         THEN ReadMessage(query_set_result(task), "settled")
         ELSE Dies

(* A runner is told that there is no task: it reads through the NULL that  *)
(* stands for it.                                                          *)
TakeNothing ==
    place = "none" /\ place' = "starved" /\ UNCHANGED <<task, legs>>

Next ==
    /\ \/ Check \/ Succeed \/ Restart \/ Take \/ Settle \/ TakeNothing
       \/ Write("core", "row") \/ Write("core", "offered") \/ Write("runner", "reported")
    /\ UNCHANGED <<library, origin>>

Spec == Init /\ [][Next]_vars
-----------------------------------------------------------------------------
Plain == "$" \notin Range(value)

Fresh == Resolved(template, Env(value))

(* Whatever is read how often, a task remains what the core made of its    *)
(* template, and so does each that follows it; provided the name of the    *)
(* branch has no "$", whatever else its characters and those of the        *)
(* template are.                                                           *)
TripsChangeNothing ==
    ~keepsNul /\ Plain /\ place \in Held
      => task = [json |-> Fresh, env |-> value, name |-> name]

(* No reading kills a program that could make the task in the first place, *)
(* but for the quotes in a project's name and the missing brace.           *)
NoTripKills ==
    place = "dead" =>
      \/ ~HasRunner(template) \/ Asks(template, Env(value)) \/ ~Plain
      \/ name \in QuotedNames \/ ~lenient

(* The places of a value: paths of keys and indices, and what is there. *)
RECURSIVE Places(_)
Places(v) ==
    {<<<<>>, v>>} \cup
    CASE v.type = "object" ->
           UNION {{<<<<[key |-> k]>> \o x[1], x[2]>> : x \in Places(v.members[k])} :
                  k \in DOMAIN v.members}
      [] v.type = "array" ->
           UNION {{<<<<[index |-> i]>> \o x[1], x[2]>> : x \in Places(v.elements[i])} :
                  i \in DOMAIN v.elements}
      [] OTHER -> {}

(* At some place, values of different types meet, or objects of as many    *)
(* keys, too many for the comparison.                                      *)
Clash(v1, v2) ==
    \E x \in Places(v1), y \in Places(v2) :
      /\ x[1] = y[1]
      /\ \/ x[2].type # y[2].type
         \/ /\ x[2].type = "object" /\ y[2].type = "object"
            /\ Cardinality(DOMAIN x[2].members) > Room
            /\ Cardinality(DOMAIN y[2].members) > Room

(* A new task is taken for the same as the one in the queue if it is: but  *)
(* one that was read back is never recognised where the library keeps the  *)
(* NUL, and two in which values of different types, or large objects, meet *)
(* are not compared safely.                                                *)
NewTasksToldApart ==
    Plain /\ place = "core" =>
      \A o \in Others \cup {template} :
        LET new == Resolved(o, Env(value))
            v   == Verdicts(new, task.json)
        IN  \/ v = OneOf(new = Fresh /\ (legs = 0 \/ ~keepsNul))
            \/ "dies" \in v /\ Clash(new, task.json)
=============================================================================
