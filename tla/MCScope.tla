------------------------------ MODULE MCScope ------------------------------
(* Scope for TLC. *)
EXTENDS Scope
=============================================================================
