----------------------------- MODULE AtomicTx -----------------------------
(***************************************************************************)
(* What the transactions of sqly promise their callers, without             *)
(* connections, sessions or futures: a transaction's acknowledged writes    *)
(* become durable in one step or never, and what the caller is told is      *)
(* true, then and later.  Transaction implements this specification.        *)
(***************************************************************************)
EXTENDS Naturals

CONSTANTS Tx, Pooled, MaxWrites

Caller == Tx \cup Pooled
Write == Caller \X (1..MaxWrites)
By(S, t) == {w \in S : w[1] = t}

(* Answers after which no write may ever become durable. *)
NotCommitted == {"aborted", "refused", "rolledBack", "dropped"}

VARIABLES acked,    \* writes acknowledged to their caller
          durable,  \* committed writes
          told      \* the final answer to each caller

vars == <<acked, durable, told>>

Init == acked = {} /\ durable = {} /\ told = [t \in Caller |-> "none"]

(* Statements of an unfinished transaction return Ok. *)
Acknowledge(t) ==
    /\ told[t] = "none" /\ By(durable, t) = {}
    /\ \E S \in SUBSET By(Write, t) : acked' = acked \cup S
    /\ UNCHANGED <<durable, told>>

(* The commit point: exactly the acknowledged writes, together. It may come *)
(* after the caller gave up waiting, never after a negative answer.         *)
CommitPoint(t) ==
    /\ told[t] \in {"none", "unknown"} /\ By(durable, t) = {}
    /\ durable' = durable \cup By(acked, t)
    /\ UNCHANGED <<acked, told>>

(* The caller is answered, once. *)
Tell(t) ==
    /\ told[t] = "none"
    /\ \/ /\ By(durable, t) = By(acked, t)
          /\ told' = [told EXCEPT ![t] = "committed"]
       \/ /\ By(durable, t) = {}
          /\ \E r \in NotCommitted : told' = [told EXCEPT ![t] = r]
       \/ told' = [told EXCEPT ![t] = "unknown"]
    /\ UNCHANGED <<acked, durable>>

(* A query outside a transaction commits by itself. *)
Autocommit(t) ==
    /\ told[t] \in {"none", "unknown"}
    /\ \E S \in SUBSET By(Write, t) : durable' = durable \cup S
    /\ UNCHANGED <<acked, told>>

TellPooled(t) ==
    /\ told[t] = "none"
    /\ \/ /\ acked' = acked \cup By(durable, t)
          /\ told' = [told EXCEPT ![t] = "committed"]
       \/ /\ \E r \in {"unknown", "dropped"} : told' = [told EXCEPT ![t] = r]
          /\ UNCHANGED acked
    /\ UNCHANGED durable

Next == \/ \E t \in Tx : Acknowledge(t) \/ CommitPoint(t) \/ Tell(t)
        \/ \E t \in Pooled : Autocommit(t) \/ TellPooled(t)

Spec == Init /\ [][Next]_vars

=============================================================================
