----------------------------- MODULE MCPortfolio -----------------------------
(***************************************************************************)
(* Portfolio for TLC: Home and two other workspaces, whose goroutines meet *)
(* at the mutex; two tokens, so that a dead cookie can meet a good         *)
(* callback and the other way round.                                       *)
(***************************************************************************)
EXTENDS Portfolio

CONSTANTS home, a, b, t1, t2, f1

MCOrgs == {home, a, b}
MCDeployed == {home, a, b}
MCTokens == {t1, t2}
MCPaths == {"/", "/api/portfolio", "/api/commands"}
MCPostOnly == {"/api/commands"}
MCIds == {f1}
=============================================================================
