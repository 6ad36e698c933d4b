------------------------------ MODULE MCStartup ------------------------------
(***************************************************************************)
(* Startup for TLC: two commands, two keys that could be drawn, and three  *)
(* faults, so that a failed start can follow a stop and a lost connection. *)
(***************************************************************************)
EXTENDS Startup, TLC

CONSTANTS r1, r2, k1, k2

MCRefs == {r1, r2}
MCKeys == {k1, k2}
=============================================================================
