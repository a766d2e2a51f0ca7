------------------------------ MODULE MCWorker ------------------------------
(***************************************************************************)
(* Two projects whose due times sometimes coincide; a walk of p's line     *)
(* from the sixth minute stands still on the seventh.                      *)
(***************************************************************************)
EXTENDS Worker, TLC

CONSTANTS p, q

MCProject == {p, q}
MCPeriod == (p :> 2) @@ (q :> 3)
MCExcluded == (p :> {7}) @@ (q :> {})
=============================================================================
