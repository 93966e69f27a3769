------------------------------- MODULE Scope -------------------------------
(***************************************************************************)
(* One ambient write scope (src/scoped.rs): ScopedDatabase::write, the      *)
(* buffered operations and the streams that join it, and its teardown.      *)
(*                                                                          *)
(* The application's body starts operations and streams, polls them in any  *)
(* order, drops them, or keeps them beyond the scope and hands them to      *)
(* another task.  Every poll is a step; "here" says whether it happens      *)
(* inside this scope (the task-local ACTIVE is this Scope).  The future     *)
(* that does the work lives in a slot of the Scope, so that the owner of    *)
(* the scope can drop it whoever holds the outer future.                    *)
(*                                                                          *)
(* The transaction is the one of module Transaction, reduced to its         *)
(* rollback-only flag and to what each statement leaves behind.             *)
(***************************************************************************)
EXTENDS Naturals, Sequences, SequencesExt

CONSTANTS Op,      \* futures of Query::run and ScopedDatabase::lock
          Stream,  \* ScopedRows
          None     \* an empty slot

Future == Op \cup Stream

ASSUME FutureAssumption == Op \cap Stream = {} /\ None \notin Future

VARIABLES
    phase,     \* where ScopedDatabase::enter is
    closed,    \* Scope.closed
    verdict,   \* what the body returned, with the streams it left active
    outcome,   \* what the caller of write is told
    tx,        \* Scope.transaction: "absent", "held", "taken"
    aborted,   \* Transaction.aborted
    txQ,       \* the transaction's mutex: its holder, then its waiters in order
    serialQ,   \* Scope.serial, likewise
    operation, \* Scope.operation, by the token of its future
    cursor,    \* Scope.cursor, likewise
    at,        \* where each future is
    work,      \* futures whose statement took effect in the transaction
    acked,     \* futures whose statement completed with Ok
    broken,    \* futures whose statement failed in the database or was abandoned
    durable    \* committed effects

enterVars == <<phase, closed, verdict, outcome, tx>>
slotVars  == <<operation, cursor>>
vars == <<enterVars, aborted, txQ, serialQ, slotVars, at, work, acked, broken, durable>>

Outcome == {"none", "ok", "error", "unknown", "dropped"}

TypeOK ==
    /\ phase \in {"idle", "begin", "lock", "body", "closing", "commit", "rollback", "done"}
    /\ closed \in BOOLEAN
    /\ verdict \in {"none", "ok", "err", "stream"}
    /\ outcome \in Outcome /\ (outcome # "none" <=> phase = "done")
    /\ tx \in {"absent", "held", "taken"}
    /\ aborted \in BOOLEAN
    /\ txQ \in Seq(Future) /\ serialQ \in Seq(Op)
    /\ operation \in Op \cup {None} /\ cursor \in Stream \cup {None}
    /\ at \in [Future -> {"new", "serial", "lock", "stmt", "pooled", "done"}]
    /\ work \in SUBSET Future /\ acked \in SUBSET Future
    /\ broken \in SUBSET Future /\ durable \in SUBSET Future

Init ==
    /\ phase = "idle" /\ closed = FALSE /\ verdict = "none" /\ outcome = "none"
    /\ tx = "absent" /\ aborted = FALSE
    /\ txQ = <<>> /\ serialQ = <<>>
    /\ operation = None /\ cursor = None
    /\ at = [f \in Future |-> "new"]
    /\ work = {} /\ acked = {} /\ broken = {} /\ durable = {}

Free(q) == q = <<>>
Holds(q, f) == ~Free(q) /\ Head(q) = f
Here(here) == here => phase = "body"

(* Scope::available. *)
Available == ~closed /\ cursor = None

-----------------------------------------------------------------------------
(* The futures in the slots.                                                *)

(* The futures F leave the slots and are dropped: they give up their place  *)
(* at the transaction's mutex, and a statement among them is abandoned. It  *)
(* leaves the transaction rollback-only and may still take effect.          *)
Discard(F) ==
    LET cut == {f \in F : at[f] = "stmt"}
        q   == IF operation \in F THEN RemoveFirst(txQ, operation) ELSE txQ
    IN  /\ txQ' = IF cursor \in F THEN RemoveFirst(q, cursor) ELSE q
        /\ broken' = broken \cup cut
        /\ \E done \in SUBSET cut : work' = work \cup done

InSlot(f) == f \in {operation, cursor}

(* Mutant of Complete: an error of the database leaves no trace. *)
CompleteClearing(f) ==
    /\ \/ acked' = acked \cup {f} /\ work' = work \cup {f} /\ UNCHANGED broken
       \/ UNCHANGED <<acked, work, broken>>
       \/ broken' = broken \cup {f} /\ UNCHANGED <<acked, work>>
    /\ aborted' = FALSE
    /\ txQ' = Tail(txQ)

(* The statement of f completes: Ok, an error found before execution        *)
(* (BindCount, Encode), or an error of the database.                        *)
Complete(f) ==
    /\ \/ acked' = acked \cup {f} /\ work' = work \cup {f} /\ aborted' = FALSE /\ UNCHANGED broken
       \/ aborted' = FALSE /\ UNCHANGED <<acked, work, broken>>
       \/ broken' = broken \cup {f} /\ UNCHANGED <<acked, work, aborted>>
    /\ txQ' = Tail(txQ)

(* Mutants of Close: a slot is cleared without comparing tokens, and the    *)
(* serial guard is not released.                                            *)
CloseAnyToken(f) ==
    /\ at' = [at EXCEPT ![f] = "done"]
    /\ operation' = IF f \in Op THEN None ELSE operation
    /\ cursor' = IF f \in Stream THEN None ELSE cursor
    /\ serialQ' = RemoveFirst(serialQ, f)

CloseKeepingSerial(f) ==
    /\ at' = [at EXCEPT ![f] = "done"]
    /\ operation' = IF operation = f THEN None ELSE operation
    /\ cursor' = IF cursor = f THEN None ELSE cursor
    /\ UNCHANGED serialQ

(* The outer future of f is over. OperationHandle::drop and                 *)
(* ScopedRows::finish clear a slot only if it holds their own token; the    *)
(* serial guard of an operation goes last.                                  *)
Close(f) ==
    /\ at' = [at EXCEPT ![f] = "done"]
    /\ operation' = IF operation = f THEN None ELSE operation
    /\ cursor' = IF cursor = f THEN None ELSE cursor
    /\ serialQ' = RemoveFirst(serialQ, f)

(* ... and with it the future in its slot, if that is still there.          *)
End(f) ==
    /\ Close(f)
    /\ Discard({f} \cap {operation, cursor})
    /\ UNCHANGED <<aborted, acked>>

(* run_statement and rows refuse a rollback-only transaction and make any   *)
(* other rollback-only for now.                                             *)
Refusing == tx # "held" \/ aborted

(* Mutant of Install: a statement makes the transaction rollback-only only  *)
(* if it fails.                                                             *)
InstallOptimistic(f) ==
    \/ /\ Free(txQ) /\ Refusing
       /\ Close(f)
       /\ UNCHANGED <<aborted, txQ>>
    \/ /\ ~Free(txQ) \/ ~Refusing
       /\ operation' = IF f \in Op THEN f ELSE operation
       /\ cursor' = IF f \in Stream THEN f ELSE cursor
       /\ txQ' = Append(txQ, f)
       /\ at' = [at EXCEPT ![f] = IF Free(txQ) THEN "stmt" ELSE "lock"]
       /\ UNCHANGED aborted
       /\ serialQ' = IF f \in Op /\ Free(serialQ) THEN <<f>> ELSE serialQ

(* f is put in its slot and polled for the first time. *)
Install(f) ==
    \/ /\ Free(txQ) /\ Refusing
       /\ Close(f)
       /\ UNCHANGED <<aborted, txQ>>
    \/ /\ ~Free(txQ) \/ ~Refusing
       /\ operation' = IF f \in Op THEN f ELSE operation
       /\ cursor' = IF f \in Stream THEN f ELSE cursor
       /\ txQ' = Append(txQ, f)
       /\ at' = [at EXCEPT ![f] = IF Free(txQ) THEN "stmt" ELSE "lock"]
       /\ aborted' = (aborted \/ Free(txQ))
       /\ serialQ' = IF f \in Op /\ Free(serialQ) THEN <<f>> ELSE serialQ

(* A later poll of an operation (poll_fn in operate) or of a bound stream   *)
(* (ScopedRows::poll). A row that a stream yields changes nothing.          *)
Poll(f, here) ==
    /\ at[f] \in {"lock", "stmt"} /\ Here(here)
    /\ \/ /\ closed \/ ~here \/ ~InSlot(f)
          /\ End(f)
       \/ /\ ~closed /\ here /\ InSlot(f)
          /\ at[f] = "lock" /\ Holds(txQ, f)
          /\ IF Refusing
             THEN End(f)
             ELSE /\ at' = [at EXCEPT ![f] = "stmt"] /\ aborted' = TRUE
                  /\ UNCHANGED <<slotVars, serialQ, txQ, work, acked, broken>>
       \/ /\ ~closed /\ here /\ InSlot(f)
          /\ at[f] = "stmt"
          /\ Complete(f)
          /\ Close(f)
    /\ UNCHANGED <<enterVars, durable>>

(* The outer future is dropped before completion. *)
Drop(f) ==
    /\ at[f] \in {"serial", "lock", "stmt"}
    /\ End(f)
    /\ UNCHANGED <<enterVars, durable>>

-----------------------------------------------------------------------------
(* Scope::operate.                                                          *)

(* First poll of an operation inside the scope. *)
StartOp(o) ==
    /\ phase = "body" /\ at[o] = "new"
    /\ \/ /\ ~Available
          /\ Close(o)
          /\ UNCHANGED <<aborted, txQ>>
       \/ /\ Available /\ ~Free(serialQ)
          /\ at' = [at EXCEPT ![o] = "serial"]
          /\ serialQ' = Append(serialQ, o)
          /\ UNCHANGED <<aborted, txQ, slotVars>>
       \/ /\ Available /\ Free(serialQ)
          /\ Install(o)
    /\ UNCHANGED <<enterVars, work, acked, broken, durable>>

(* Mutant of GrantOp: no second look at the slots after the wait. *)
GrantOpUnchecked(o, here) ==
    /\ at[o] = "serial" /\ Holds(serialQ, o) /\ Here(here)
    /\ \/ /\ closed \/ ~here
          /\ Close(o)
          /\ UNCHANGED <<aborted, txQ>>
       \/ /\ ~closed /\ here
          /\ Install(o)
    /\ UNCHANGED <<enterVars, work, acked, broken, durable>>

(* The serial lock is granted to a waiting operation, wherever it is        *)
(* polled. It looks again before it registers; polled elsewhere it          *)
(* registers and at once gives up.                                          *)
GrantOp(o, here) ==
    /\ at[o] = "serial" /\ Holds(serialQ, o) /\ Here(here)
    /\ \/ /\ ~Available \/ ~here
          /\ Close(o)
          /\ UNCHANGED <<aborted, txQ>>
       \/ /\ Available /\ here
          /\ Install(o)
    /\ UNCHANGED <<enterVars, work, acked, broken, durable>>

-----------------------------------------------------------------------------
(* ScopedRows.                                                              *)

(* First poll inside the scope. *)
StartStream(s) ==
    /\ phase = "body" /\ at[s] = "new"
    /\ \/ /\ ~Available
          /\ Close(s)
          /\ UNCHANGED <<aborted, txQ>>
       \/ /\ Available
          /\ Install(s)
    /\ UNCHANGED <<enterVars, work, acked, broken, durable>>

(* First poll outside any scope: NoActiveWriteScope, or a read on the pool, *)
(* which for a stream lasts until its last row, an error or a poll inside a *)
(* scope.                                                                   *)
StartOutside(f) ==
    /\ at[f] = "new"
    /\ \/ at' = [at EXCEPT ![f] = "done"]
       \/ f \in Stream /\ at' = [at EXCEPT ![f] = "pooled"]
    /\ UNCHANGED <<enterVars, aborted, txQ, serialQ, slotVars, work, acked, broken, durable>>

EndPooled(s) ==
    /\ at[s] = "pooled"
    /\ Close(s)
    /\ UNCHANGED <<enterVars, aborted, txQ, work, acked, broken, durable>>

-----------------------------------------------------------------------------
(* ScopedDatabase::enter.                                                   *)

futureVars == <<aborted, txQ, serialQ, slotVars, at, work, acked, broken>>

Answer(result) == phase' = "done" /\ outcome' = result

Enter ==
    /\ phase = "idle"
    /\ phase' = "begin"
    /\ UNCHANGED <<closed, verdict, outcome, tx, futureVars, durable>>

(* begin_write returns: an error, or a transaction for write_locking or     *)
(* write.                                                                   *)
Begun ==
    /\ phase = "begin"
    /\ \/ Answer("error") /\ UNCHANGED tx
       \/ phase' = "lock" /\ UNCHANGED <<outcome, tx>>
       \/ phase' = "body" /\ tx' = "held" /\ UNCHANGED outcome
    /\ UNCHANGED <<closed, verdict, futureVars, durable>>

(* require_lock returns. If it failed, roll back. *)
Locked ==
    /\ phase = "lock"
    /\ \/ phase' = "body" /\ tx' = "held" /\ UNCHANGED verdict
       \/ phase' = "rollback" /\ verdict' = "err" /\ UNCHANGED tx
    /\ UNCHANGED <<closed, outcome, futureVars, durable>>

(* Mutant of Empty: the running operation is left in its slot. *)
EmptyCursorOnly ==
    /\ Discard({cursor} \ {None})
    /\ cursor' = None
    /\ UNCHANGED <<operation, aborted, serialQ, at, acked>>

(* The slots are emptied.                                                   *)
Empty ==
    /\ Discard({operation, cursor} \ {None})
    /\ operation' = None /\ cursor' = None
    /\ UNCHANGED <<aborted, serialQ, at, acked>>

(* The body returned: close the scope and invalidate what it left running.  *)
BodyReturn(result) ==
    /\ phase = "body"
    /\ closed' = TRUE
    /\ verdict' = IF result = "ok" /\ cursor # None THEN "stream" ELSE result
    /\ phase' = "closing"
    /\ Empty
    /\ UNCHANGED <<outcome, tx, durable>>

(* The transaction's mutex is granted to enter. *)
TakeTransaction ==
    /\ phase = "closing" /\ Free(txQ)
    /\ IF tx # "held"
       THEN Answer("error") /\ UNCHANGED tx
       ELSE tx' = "taken" /\ phase' = (IF verdict = "ok" THEN "commit" ELSE "rollback")
            /\ UNCHANGED outcome
    /\ UNCHANGED <<closed, verdict, futureVars, durable>>

(* Transaction::commit returns. *)
Committed ==
    /\ phase = "commit"
    /\ \/ aborted /\ Answer("error") /\ UNCHANGED durable
       \/ ~aborted /\ Answer("ok") /\ durable' = work
       \/ ~aborted /\ Answer("error") /\ UNCHANGED durable
       \/ ~aborted /\ Answer("unknown") /\ durable' \in {durable, work}
    /\ UNCHANGED <<closed, verdict, tx, futureVars>>

(* Transaction::rollback returns; its error is ignored. *)
RolledBack ==
    /\ phase = "rollback"
    /\ Answer("error")
    /\ UNCHANGED <<closed, verdict, tx, futureVars, durable>>

(* The future of write is dropped, or the body panics. A transaction that   *)
(* enter itself holds goes with it; before that ScopeOwner::drop takes it   *)
(* from the scope, provided nobody has its mutex.                           *)
Cancel ==
    /\ phase \in {"begin", "lock", "body", "closing", "commit", "rollback"}
    /\ IF phase = "commit" /\ ~aborted
       THEN Answer("unknown") /\ durable' \in {durable, work}
       ELSE Answer("dropped") /\ UNCHANGED durable
    /\ closed' = (closed \/ phase \notin {"begin", "lock"})
    /\ Empty
    /\ tx' = IF tx = "held" /\ Free(txQ') THEN "taken" ELSE tx
    /\ UNCHANGED verdict

-----------------------------------------------------------------------------
EnterStep == Begun \/ Locked \/ TakeTransaction \/ Committed \/ RolledBack

Next ==
    \/ Enter \/ EnterStep \/ Cancel
    \/ \E result \in {"ok", "err"} : BodyReturn(result)
    \/ \E o \in Op : StartOp(o) \/ \E here \in BOOLEAN : GrantOp(o, here)
    \/ \E s \in Stream : StartStream(s) \/ EndPooled(s)
    \/ \E f \in Future : StartOutside(f) \/ Drop(f) \/ \E here \in BOOLEAN : Poll(f, here)

Spec == Init /\ [][Next]_vars

(* The executor polls write; the body, while it runs, polls the futures it  *)
(* has started. Nothing is assumed of futures that outlive the body.        *)
Fairness ==
    /\ WF_vars(EnterStep)
    /\ \A o \in Op : WF_vars(GrantOp(o, TRUE))
    /\ \A f \in Future : WF_vars(Poll(f, TRUE))

FairSpec == Spec /\ Fairness

-----------------------------------------------------------------------------
(* Properties.                                                              *)

(* What write reports is true of everything the body did: after Ok exactly  *)
(* the acknowledged effects are durable, and after an error or a drop       *)
(* before COMMIT none is ("committing on success and rolling back on error, *)
(* panic, or cancellation", scoped.rs:163).                                 *)
HonestWrite ==
    /\ outcome = "ok" => durable = acked
    /\ outcome \in {"error", "dropped"} => durable = {}
    /\ durable = {} \/ durable = acked

(* Nothing is committed past a failed or abandoned statement, an            *)
(* application error or a stream still active on return ("successful return *)
(* with an active stream invalidates it and rolls back", scoped.rs:170).    *)
CommitOnlyClean ==
    durable # {} => broken = {} /\ verdict = "ok"

(* The slots own the locks.  Only the futures in them hold or await the     *)
(* transaction's mutex: a future kept beyond the scope, or in another task, *)
(* cannot make the teardown of enter wait or ScopeOwner::drop leave the     *)
(* transaction behind.  And the registered operation is the one with the    *)
(* serial lock: no operation overwrites the future of another in the slot,  *)
(* whatever the order in which they are polled, dropped and moved.          *)
SlotsOwnTheLocks ==
    /\ ToSet(txQ) \subseteq {operation, cursor}
    /\ operation # None => Holds(serialQ, operation) /\ at[operation] \in {"lock", "stmt"}

(* Once write has ended no statement runs and no clone of the scope still   *)
(* owns the transaction (ScopeOwner::drop's try_lock has succeeded).        *)
NothingLeftBehind ==
    phase = "done" => tx # "held" /\ Free(txQ) /\ ~(\E f \in Future : InSlot(f))

(* No operation waits for the transaction behind an active stream: a body   *)
(* that awaits the operation before it polls the stream would wait for ever *)
(* ("An active stream rejects competitors", scoped.rs:169).                 *)
NoWaitBehindStream ==
    \A i, j \in 1..Len(txQ) : i < j => txQ[i] \in Op

(* Operations and streams that the body polls come to an end, in order of   *)
(* the locks and without a deadlock between the two mutexes.                *)
FuturesEnd ==
    \A f \in Future :
        at[f] \in {"serial", "lock", "stmt"} ~> at[f] = "done" \/ phase # "body"

(* Teardown ends without any help from the futures the body left.           *)
TeardownEnds == phase = "closing" ~> phase = "done"

(***************************************************************************)
(* The inductive invariant that the proofs of the safety properties use.    *)
(***************************************************************************)

(* The statement of a future in a slot is running. *)
Running == \E f \in Future : InSlot(f) /\ at[f] = "stmt"

(* The futures in the slots, in the order in which they asked for the       *)
(* transaction's mutex.                                                     *)
Line == IF operation = None
        THEN IF cursor = None THEN <<>> ELSE <<cursor>>
        ELSE IF cursor = None THEN <<operation>> ELSE <<operation, cursor>>

(* The transaction's mutex is exactly what the slots queue for, the         *)
(* operation before the stream, and only its holder has sent a statement.   *)
QueueInv ==
    /\ txQ = Line
    /\ \A f \in Future : InSlot(f) => at[f] \in {"lock", "stmt"}
    /\ operation # None => Holds(serialQ, operation)
    /\ operation # None /\ cursor # None => at[cursor] = "lock"

(* The slots are in use during the body only, which owns the transaction.   *)
PhaseInv ==
    /\ phase # "body" => operation = None /\ cursor = None
    /\ phase \in {"idle", "begin", "lock", "body"} => ~closed
    /\ phase = "body" => tx = "held"
    /\ tx = "held" => phase \in {"body", "closing"}
    /\ phase = "commit" => verdict = "ok"

(* A transaction that is not rollback-only, or whose rollback-only flag     *)
(* stands for a statement under way, holds the acknowledged effects only.   *)
CleanInv ==
    /\ Running => aborted
    /\ ~aborted \/ Running => broken = {} /\ work = acked

(* What became durable, once write has ended. *)
DurableInv ==
    /\ phase # "done" => durable = {}
    /\ durable # {} => durable = acked /\ broken = {} /\ verdict = "ok"
    /\ outcome = "ok" => durable = acked
    /\ outcome \in {"error", "dropped"} => durable = {}

IInv == TypeOK /\ QueueInv /\ PhaseInv /\ CleanInv /\ DurableInv

=============================================================================
