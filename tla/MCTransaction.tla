--------------------------- MODULE MCTransaction ---------------------------
(* Transaction for TLC: symmetric callers and connections. *)
EXTENDS Transaction, TLC

Symmetry == Permutations(Tx) \cup Permutations(Pooled) \cup Permutations(Conn)

=============================================================================
