----------------------------- MODULE MCMessages -----------------------------
(***************************************************************************)
(* All short texts, and the longer ones around a variable.                 *)
(***************************************************************************)
EXTENDS Messages

CONSTANTS
    MaxText,  \* length of the texts
    MaxAround \* length of what is around a variable

Chars == {"a", "$", "{", "}", "wide"}
Use   == <<"$", "{", "a", "}">>

Short  == SeqOf(Chars, MaxText)
Around == {x \o Use \o y : x, y \in SeqOf(Chars, MaxAround)}
Split  == {<<"$", "wide", "{", "a", "}">>, <<"$", "{", "wide", "a", "}">>}

Runner == Obj([arch |-> Str(<<"a">>)])

OfRun(run) == Obj([runner |-> Runner, run |-> run])

MCOthers == {
    OfRun(Str(Use)),
    OfRun(Str(<<"a">>)),
    OfRun(Arr(<<Str(Use)>>)),
    OfRun(Arr(<<Str(<<>>), Str(Use)>>)),
    OfRun(Obj([command |-> Str(Use), niceness |-> Num(1, TRUE)])),
    OfRun(Obj([command |-> Str(Use), niceness |-> Num(2, TRUE)])),
    OfRun(Obj([command |-> Str(Use)])),
    OfRun(Obj([command |-> Str(Use), niceness |-> Num(1, TRUE), shell |-> Const("true")])),
    OfRun(Obj([command |-> Str(Use), niceness |-> Num(1, TRUE), shell |-> Const("false")])),
    OfRun(Obj([command |-> Str(Use), niceness |-> Num(1, TRUE), shell |-> Const("true"),
               quiet |-> Const("true")])),
    OfRun(Obj([command |-> Str(Use), niceness |-> Num(1, TRUE), shell |-> Const("true"),
               quiet |-> Const("false")])),
    OfRun(Const("true")), OfRun(Const("false")) }

MCTemplates ==
    {OfRun(Str(t)) : t \in Short \cup Around \cup Split}
      \cup MCOthers \cup {Obj([run |-> Str(Use)])}

MCValues == {<<>>, <<"a">>, <<"{">>, <<"wide">>, <<"a", "}">>, <<"$">>, Use}
MCNames  == {<<"p">>, <<"quoted">>}
MCQuotedNames == {<<"quoted">>}
=============================================================================
