-------------------------------- MODULE Json --------------------------------
(***************************************************************************)
(* JSON values, and what the visitors of common/json make of them: the     *)
(* finder, the template and the comparison.  A value is a record of its    *)
(* type and of what is in it, an object's members being a function of keys. *)
(*                                                                         *)
(* Text is a sequence of characters, told apart as the template does: "$", *)
(* "{" and "}", those outside ' ' .. '~' (Outside: accented letters, say,  *)
(* and the terminating NUL where it is kept), and all others.              *)
(***************************************************************************)
EXTENDS Integers, FiniteSets, SequencesExt

CONSTANT Room  \* the keys of an object that the block to compare them holds

ASSUME JsonAssumption == Room \in Nat

Obj(f)      == [type |-> "object", members |-> f]
Arr(s)      == [type |-> "array",  elements |-> s]
Str(s)      == [type |-> "string", text |-> s]
Num(n, int) == [type |-> "number", number |-> n, int |-> int]
Const(c)    == [type |-> "const",  constant |-> c]

Missing == [type |-> "missing"]     \* the NULL pointer

Nul     == "NUL"
Outside == {"wide", Nul}
-----------------------------------------------------------------------------
(***************************************************************************)
(* The finder: the value at the end of a path of keys, if its type is the  *)
(* expected one.  An array takes a key for an index (atoi: 0 for a name),  *)
(* and a path that goes on past text, a number or a constant is lost.      *)
(***************************************************************************)
RECURSIVE Find(_, _, _)
Find(v, path, type) ==
    IF path = <<>> THEN (IF v.type = type THEN v ELSE Missing)
    ELSE IF v.type = "object" /\ Head(path) \in DOMAIN v.members
           THEN Find(v.members[Head(path)], Tail(path), type)
    ELSE IF v.type = "array" /\ v.elements # <<>> THEN Find(v.elements[1], Tail(path), type)
    ELSE Missing
-----------------------------------------------------------------------------
(***************************************************************************)
(* The template: variables of the environment, a function of names, are    *)
(* put in place of ${name} in all text.  The scan of a text is in one of   *)
(* three states: plain text, behind a "$", and in a name.                  *)
(***************************************************************************)
ScanStart == [state |-> "text", name |-> <<>>, out |-> <<>>, unknown |-> FALSE]

(* Mutant: a doubled "$" stands for one.                                   *)
BehindDollarUnescape(m, c) ==
    IF c = "{" THEN [m EXCEPT !.state = "name", !.name = <<>>]
    ELSE [m EXCEPT !.state = "text", !.out = @ \o IF c = "$" THEN <<c>> ELSE <<"$", c>>]

BehindDollar(m, c) ==
    IF c = "{" THEN [m EXCEPT !.state = "name", !.name = <<>>]
    ELSE [m EXCEPT !.state = "text", !.out = @ \o <<"$", c>>]

EndOfName(m, env) ==
    IF m.name \in DOMAIN env
      THEN [m EXCEPT !.state = "text", !.out = @ \o env[m.name]]
      ELSE [m EXCEPT !.state = "text", !.unknown = TRUE]

(* What is outside goes to the result at once, whatever the state is. *)
ScanChar(m, c, env) ==
    IF c \in Outside THEN [m EXCEPT !.out = Append(@, c), !.name = Append(@, c)]
    ELSE CASE m.state = "text" /\ c = "$" -> [m EXCEPT !.state = "dollar"]
           [] m.state = "text" /\ c # "$" -> [m EXCEPT !.out = Append(@, c)]
           [] m.state = "dollar"          -> BehindDollar(m, c)
           [] m.state = "name" /\ c = "}" -> EndOfName(m, env)
           [] m.state = "name" /\ c # "}" -> [m EXCEPT !.name = Append(@, c)]

Scan(text, env) == FoldLeft(LAMBDA m, c : ScanChar(m, c, env), ScanStart, text)

(* The scan goes over the terminating NUL too, which the result keeps or   *)
(* not, according to the library.                                          *)
RECURSIVE Resolve(_, _, _)
Resolve(v, env, keepsNul) ==
    CASE v.type = "object" ->
           Obj([k \in DOMAIN v.members |-> Resolve(v.members[k], env, keepsNul)])
      [] v.type = "array" ->
           Arr([i \in DOMAIN v.elements |-> Resolve(v.elements[i], env, keepsNul)])
      [] v.type = "string" ->
           Str(Scan(v.text, env).out \o IF keepsNul THEN <<Nul>> ELSE <<>>)
      [] v.type \in {"number", "const"} -> v

(* Does resolving it meet a variable the environment lacks? *)
RECURSIVE Asks(_, _)
Asks(v, env) ==
    CASE v.type = "object" -> \E k \in DOMAIN v.members : Asks(v.members[k], env)
      [] v.type = "array" -> \E i \in DOMAIN v.elements : Asks(v.elements[i], env)
      [] v.type = "string" -> Scan(v.text, env).unknown
      [] v.type \in {"number", "const"} -> FALSE
-----------------------------------------------------------------------------
(***************************************************************************)
(* The comparison of v1 with v2: the verdicts it may come to, or "dies".   *)
(* A second value of another type is taken for one of the first's type,    *)
(* and that is undefined.  So is what becomes of the keys of an object     *)
(* that is compared: n bytes are asked for to hold n pointers, and those   *)
(* that the allocator's block has no room for are written behind it.  The  *)
(* keys come in no known order, and the first difference ends the          *)
(* comparison.                                                             *)
(***************************************************************************)
Undefined == {"equal", "different", "dies"}

(* Of parts that are compared in any order.                                *)
AnyOrder(parts) ==
    {x \in {"different", "dies"} : \E s \in parts : x \in s}
      \cup {x \in {"equal"} : \A s \in parts : x \in s}

(* Of parts that are compared one after the other.                         *)
InOrder(parts) ==
    LET reached == {i \in DOMAIN parts : \A j \in 1 .. i - 1 : "equal" \in parts[j]}
    IN  AnyOrder({parts[i] : i \in reached})
          \ (IF reached = DOMAIN parts THEN {} ELSE {"equal"})

OneOf(test) == IF test THEN {"equal"} ELSE {"different"}

SameNumber(x, y) ==
    (x.int => y.int) /\ x.number = y.number

(* Mutant: the numbers of keys are not compared.                           *)
SameCountSkip(f, g) == TRUE

SameCount(f, g) == Cardinality(DOMAIN f) = Cardinality(DOMAIN g)

RECURSIVE Verdicts(_, _)
Verdicts(v1, v2) ==
    IF v1.type # v2.type THEN Undefined
    ELSE CASE v1.type = "object" ->
                LET f == v1.members  g == v2.members
                IN  IF ~SameCount(f, g) THEN {"different"}
                    ELSE IF Cardinality(DOMAIN f) > Room THEN Undefined
                    ELSE AnyOrder({IF k \in DOMAIN g THEN Verdicts(f[k], g[k])
                                   ELSE {"different"} : k \in DOMAIN f})
           [] v1.type = "array" ->
                LET f == v1.elements  g == v2.elements
                IN  IF Len(f) # Len(g) THEN {"different"}
                    ELSE InOrder([i \in DOMAIN f |-> Verdicts(f[i], g[i])])
           [] v1.type = "string" -> OneOf(v1.text = v2.text)
           [] v1.type = "number" -> OneOf(SameNumber(v1, v2))
           [] v1.type = "const"  -> OneOf(v1.constant = v2.constant)
=============================================================================
