---------------------------- MODULE MCOpsGuard -----------------------------
(* Small instances of OpsGuard for TLC. *)
EXTENDS OpsGuard

CONSTANTS e1, e2, e3, e4
=============================================================================
