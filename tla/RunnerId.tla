------------------------------ MODULE RunnerId ------------------------------
(***************************************************************************)
(* Who may run a task: src/src/common/runnerid.  A runner id is a name and *)
(* an architecture, either of which may be missing (None).  The same type  *)
(* describes a runner and the runner a task asks for.                      *)
(***************************************************************************)
EXTENDS Integers, Sequences

CONSTANT None   \* a missing JSON value: the NULL of the C code

RunnerIds(Name, Arch) == [name : Name \cup {None}, arch : Arch \cup {None}]

(***************************************************************************)
(* The bytes `_' of the C structure: the name, if any, then the arch, each *)
(* with its terminating NUL.  Nothing records which of the two is there.   *)
(***************************************************************************)
Bytes(id) == SelectSeq(<<id.name, id.arch>>, LAMBDA part : part # None)

(* Equality compares the bytes only: {name: x} is the same as {arch: x}.   *)
SameId(a, b) == Bytes(a) = Bytes(b)

(***************************************************************************)
(* How well runner `id' suits a task that asks for `wanted': -1 when       *)
(* nothing the two both state agrees, else the higher the better.  A task  *)
(* that states nothing suits nobody.                                       *)
(***************************************************************************)
Agree(x, y) == x # None /\ x = y

Match(id, wanted) ==
    -1 + (IF Agree(id.name, wanted.name) THEN 5 ELSE 0)
       + (IF Agree(id.arch, wanted.arch) THEN 2 ELSE 0)
=============================================================================
