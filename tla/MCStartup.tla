----------------------------- MODULE MCStartup ------------------------------
(***************************************************************************)
(* Two projects: one that is pushed to, and one for the start only.        *)
(***************************************************************************)
EXTENDS Startup

CONSTANTS p, q

MCProject   == {p, q}
MCMaxPushes == (p :> 2) @@ (q :> 0)
=============================================================================
