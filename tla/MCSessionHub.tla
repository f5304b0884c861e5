----------------------------- MODULE MCSessionHub -----------------------------
(***************************************************************************)
(* Two clients of one hub, interchangeable.                                *)
(***************************************************************************)
EXTENDS SessionHub, TLC

CONSTANTS c1, c2

Clients == {c1, c2}
Swap    == Permutations(Clients)
=============================================================================
