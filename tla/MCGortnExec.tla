---------------------------- MODULE MCGortnExec -----------------------------
(* Instances of GortnExec for TLC. *)
EXTENDS GortnExec

CONSTANTS out, err
=============================================================================
