----------------------------- MODULE MCPrepare -----------------------------
(* Prepare for TLC. *)
EXTENDS Prepare
=============================================================================
