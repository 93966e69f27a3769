---------------------------- MODULE Transaction ----------------------------
(***************************************************************************)
(* Explicit write transactions (src/transaction.rs) and pooled leases       *)
(* (Lease and its users in src/driver.rs) over the connections of one pool. *)
(*                                                                          *)
(* A caller is a member of Tx (it owns a Transaction) or of Pooled (it runs *)
(* one query or row stream directly on the Database).  Every await of the   *)
(* code is a state of its own, so a caller's future can be dropped there.   *)
(* The statement that the dropped future had sent is still executed by the  *)
(* other end: PostgreSQL, or the worker thread of a SQLite connection.  The *)
(* other end, and the pool of SQLx, are external and modelled from the way  *)
(* the code uses them.                                                      *)
(*                                                                          *)
(* A statement is reduced to the write it makes, <<caller, number>>.        *)
(***************************************************************************)
EXTENDS Naturals

CONSTANTS Tx,         \* callers of Database::begin_write
          Pooled,     \* callers of a query on the Database itself
          Conn,       \* the connections the pool may hold (max_connections)
          NoCaller,   \* owner of a connection nobody holds
          Backend,    \* "sqlite" or "postgres"
          MaxWrites   \* bound: writes issued in one transaction

Caller == Tx \cup Pooled

ASSUME CallerAssumption == Tx \cap Pooled = {} /\ NoCaller \notin Caller
ASSUME BackendAssumption == Backend \in {"sqlite", "postgres"}
ASSUME BoundAssumption == MaxWrites \in Nat \ {0}

Write == Caller \X (1..MaxWrites)

(* The writes of the set S made by caller t. *)
By(S, t) == {w \in S : w[1] = t}

(* Operations that await the connection. Statements of a transaction are    *)
(* run_statement ("stmt"), rows ("stream") and batch ("batch"); "abort" is  *)
(* the ROLLBACK of a commit on a rollback-only transaction; "query" and     *)
(* "rows" are a pooled lease's.                                             *)
Statement == {"stmt", "stream", "batch"}
LeaseOp   == {"query", "rows"}
EndOp     == {"commit", "rollback", "abort"}
Op        == Statement \cup LeaseOp \cup EndOp \cup {"begin"}
(* Operations that run under an interruption callback of their own: what    *)
(* sqlite_execute and sqlite_rows install before the statement.             *)
Armed     == {"stmt", "stream"} \cup LeaseOp

VARIABLES
    at,       \* where the caller's future is suspended
    op,       \* the operation it is suspended in, "none" between operations
    aborted,  \* Transaction.aborted
    result,   \* what the caller has been told
    issued,   \* number of writes the caller has issued
    acked,    \* writes whose statement returned Ok to the caller
    owner,    \* the caller whose PoolConnection this is, until it is returned
    slot,     \* the pool's view: "free", "leased", or "closing" after close_on_drop
    session,  \* the other end: "gone", "auto", "open", or "failed"
    request,  \* the command the other end has to execute
    payload,  \* the writes of that command
    reply,    \* its answer, until the next command is sent
    work,     \* uncommitted writes of the session
    handler,  \* SQLite progress handler: "off", "armed", "tripped"
    durable,  \* committed writes
    lost      \* Keeper.lost: the in-memory database lost its keeper

callerVars == <<at, op, aborted, result, issued, acked>>
poolVars   == <<owner, slot>>
serverVars == <<session, request, payload, reply, work>>
vars == <<callerVars, poolVars, serverVars, handler, durable, lost>>

Suspended == {"check", "handle", "wait"}

NotCommitted == {"aborted", "refused", "rolledBack", "dropped"}

TypeOK ==
    /\ at \in [Caller -> {"idle", "ready", "done"} \cup Suspended]
    /\ op \in [Caller -> Op \cup {"none"}]
    /\ aborted \in [Caller -> BOOLEAN]
    /\ result \in [Caller -> {"none", "committed", "unknown"} \cup NotCommitted]
    /\ issued \in [Caller -> 0..MaxWrites]
    /\ acked \in SUBSET Write
    /\ owner \in [Conn -> Caller \cup {NoCaller}]
    /\ slot \in [Conn -> {"free", "leased", "closing"}]
    /\ session \in [Conn -> {"gone", "auto", "open", "failed"}]
    /\ request \in [Conn -> Op \cup {"none"}]
    /\ payload \in [Conn -> SUBSET Write]
    /\ reply \in [Conn -> {"none", "ok", "bindCount", "dbError", "definite", "io"}]
    /\ work \in [Conn -> SUBSET Write]
    /\ handler \in [Conn -> {"off", "armed", "tripped"}]
    /\ durable \in SUBSET Write
    /\ lost \in BOOLEAN

Init ==
    /\ at = [t \in Caller |-> "idle"]
    /\ op = [t \in Caller |-> "none"]
    /\ aborted = [t \in Caller |-> FALSE]
    /\ result = [t \in Caller |-> "none"]
    /\ issued = [t \in Caller |-> 0]
    /\ acked = {}
    /\ owner = [c \in Conn |-> NoCaller]
    /\ slot = [c \in Conn |-> "free"]
    /\ session = [c \in Conn |-> "gone"]
    /\ request = [c \in Conn |-> "none"]
    /\ payload = [c \in Conn |-> {}]
    /\ reply = [c \in Conn |-> "none"]
    /\ work = [c \in Conn |-> {}]
    /\ handler = [c \in Conn |-> "off"]
    /\ durable = {}
    /\ lost = FALSE

-----------------------------------------------------------------------------
(* Leases.                                                                  *)

(* Caller t leases connection c, opening it if there is none (external:     *)
(* PoolInner::acquire tests an idle connection and replaces a dead one).    *)
Lease(t, c) ==
    /\ slot[c] = "free"
    /\ slot' = [slot EXCEPT ![c] = "leased"]
    /\ owner' = [owner EXCEPT ![c] = t]
    /\ session' = [session EXCEPT ![c] = IF @ = "gone" THEN "auto" ELSE @]
    /\ handler' = [handler EXCEPT ![c] = IF session[c] = "gone" THEN "off" ELSE @]
    /\ UNCHANGED <<request, payload, reply, work, durable, lost>>

(* Mutants of Drop: close_on_drop forgotten, and a connection that is       *)
(* neither closed nor returned.                                             *)
DropReusing(t, c, finished, outcome) ==
    /\ at' = [at EXCEPT ![t] = "done"]
    /\ op' = [op EXCEPT ![t] = "none"]
    /\ result' = [result EXCEPT ![t] = outcome]
    /\ slot' = [slot EXCEPT ![c] = "free"]
    /\ owner' = [owner EXCEPT ![c] = NoCaller]

DropLeaking(t, c, finished, outcome) ==
    /\ at' = [at EXCEPT ![t] = "done"]
    /\ op' = [op EXCEPT ![t] = "none"]
    /\ result' = [result EXCEPT ![t] = outcome]
    /\ slot' = [slot EXCEPT ![c] = IF finished THEN "free" ELSE @]
    /\ owner' = [owner EXCEPT ![c] = IF finished THEN NoCaller ELSE @]

(* Dropping the Transaction or the Lease. A finished (reusable) connection  *)
(* goes back to the pool; any other is closed, by a task of its own.        *)
Drop(t, c, finished, outcome) ==
    /\ at' = [at EXCEPT ![t] = "done"]
    /\ op' = [op EXCEPT ![t] = "none"]
    /\ result' = [result EXCEPT ![t] = outcome]
    /\ slot' = [slot EXCEPT ![c] = IF finished THEN "free" ELSE "closing"]
    /\ owner' = [owner EXCEPT ![c] = IF finished THEN NoCaller ELSE @]

(* The SqliteCancellation guard goes out of scope before completion: the    *)
(* callback it shares with the connection now interrupts whatever runs.     *)
Trip(t, c) ==
    handler' = [handler EXCEPT ![c] =
        IF Backend = "sqlite" /\ at[t] = "wait" /\ op[t] \in Armed THEN "tripped" ELSE @]

(* Transaction::begin, up to its BEGIN. Its check of the keeper comes before *)
(* the await of the pool (module Database), so it says nothing of lost now. *)
BeginWrite(t, c) ==
    /\ t \in Tx
    /\ at[t] = "idle"
    /\ at' = [at EXCEPT ![t] = "handle"]
    /\ op' = [op EXCEPT ![t] = "begin"]
    /\ Lease(t, c)
    /\ UNCHANGED <<aborted, result, issued, acked>>

(* driver::sqlite, driver::postgres (k = "query") and driver::rows ("rows").*)
PooledQuery(t, c, k) ==
    /\ t \in Pooled
    /\ at[t] = "idle"
    /\ at' = [at EXCEPT ![t] = "handle"]
    /\ op' = [op EXCEPT ![t] = k]
    /\ issued' = [issued EXCEPT ![t] = 1]
    /\ Lease(t, c)
    /\ UNCHANGED <<aborted, result, acked>>

-----------------------------------------------------------------------------
(* Operations of a caller that holds connection c.                          *)

(* The writes of the operation that t is in: a batch is two statements.     *)
Size(k) == IF k = "batch" THEN 2 ELSE IF k \in Statement \cup LeaseOp THEN 1 ELSE 0
Writes(t) == {w \in Write : w[1] = t /\ issued[t] < w[2] + Size(op[t]) /\ w[2] <= issued[t]}

(* Mutants of RunStatement: the flag set only by a failure, and the check   *)
(* of the flag forgotten.                                                   *)
RunStatementOptimistic(t, c, k) ==
    /\ owner[c] = t /\ at[t] = "ready"
    /\ ~aborted[t]
    /\ issued[t] + Size(k) <= MaxWrites
    /\ issued' = [issued EXCEPT ![t] = @ + Size(k)]
    /\ at' = [at EXCEPT ![t] = "check"]
    /\ op' = [op EXCEPT ![t] = k]
    /\ UNCHANGED <<aborted, result, acked, poolVars, serverVars, handler, durable, lost>>

RunStatementUnchecked(t, c, k) ==
    /\ owner[c] = t /\ at[t] = "ready"
    /\ issued[t] + Size(k) <= MaxWrites
    /\ aborted' = [aborted EXCEPT ![t] = TRUE]
    /\ issued' = [issued EXCEPT ![t] = @ + Size(k)]
    /\ at' = [at EXCEPT ![t] = "check"]
    /\ op' = [op EXCEPT ![t] = k]
    /\ UNCHANGED <<result, acked, poolVars, serverVars, handler, durable, lost>>

(* run_statement, rows and batch up to their first await: a rollback-only   *)
(* transaction is refused, any other becomes rollback-only for now.         *)
RunStatement(t, c, k) ==
    /\ owner[c] = t /\ at[t] = "ready"
    /\ ~aborted[t]
    /\ issued[t] + Size(k) <= MaxWrites
    /\ aborted' = [aborted EXCEPT ![t] = TRUE]
    /\ issued' = [issued EXCEPT ![t] = @ + Size(k)]
    /\ at' = [at EXCEPT ![t] = "check"]
    /\ op' = [op EXCEPT ![t] = k]
    /\ UNCHANGED <<result, acked, poolVars, serverVars, handler, durable, lost>>

(* Mutant of Commit: a rollback-only transaction is committed. *)
CommitAnyway(t, c) ==
    /\ owner[c] = t /\ at[t] = "ready"
    /\ at' = [at EXCEPT ![t] = "check"]
    /\ op' = [op EXCEPT ![t] = "commit"]
    /\ UNCHANGED <<aborted, result, issued, acked, poolVars, serverVars, handler, durable, lost>>

(* Transaction::commit up to its first await. *)
Commit(t, c) ==
    /\ owner[c] = t /\ at[t] = "ready"
    /\ at' = [at EXCEPT ![t] = IF aborted[t] THEN "handle" ELSE "check"]
    /\ op' = [op EXCEPT ![t] = IF aborted[t] THEN "abort" ELSE "commit"]
    /\ UNCHANGED <<aborted, result, issued, acked, poolVars, serverVars, handler, durable, lost>>

(* Transaction::rollback up to its first await. *)
Rollback(t, c) ==
    /\ owner[c] = t /\ at[t] = "ready"
    /\ at' = [at EXCEPT ![t] = "handle"]
    /\ op' = [op EXCEPT ![t] = "rollback"]
    /\ UNCHANGED <<aborted, result, issued, acked, poolVars, serverVars, handler, durable, lost>>

(* The caller drops the transaction between operations. *)
DropReady(t, c) ==
    /\ owner[c] = t /\ at[t] = "ready"
    /\ Drop(t, c, FALSE, "dropped")
    /\ UNCHANGED <<aborted, issued, acked, serverVars, handler, durable, lost>>

(* check_lease: DatabaseLost leaves a statement's transaction rollback-only *)
(* and a commit's transaction dropped.                                      *)
CheckLease(t, c) ==
    /\ owner[c] = t /\ at[t] = "check"
    /\ \/ /\ ~lost
          /\ at' = [at EXCEPT ![t] = "handle"]
          /\ UNCHANGED <<op, result, poolVars>>
       \/ /\ lost /\ op[t] \in Statement
          /\ at' = [at EXCEPT ![t] = "ready"]
          /\ op' = [op EXCEPT ![t] = "none"]
          /\ UNCHANGED <<result, poolVars>>
       \/ /\ lost /\ op[t] = "commit"
          /\ Drop(t, c, FALSE, "refused")
    /\ UNCHANGED <<aborted, issued, acked, serverVars, handler, durable, lost>>

(* sqlite_arguments, postgres_arguments refuse a value before any I/O. A    *)
(* pooled query encodes before it acquires, a pooled stream after.          *)
EncodeError(t, c) ==
    /\ owner[c] = t /\ at[t] = "handle"
    /\ \/ /\ op[t] \in {"stmt", "stream"}
          /\ aborted' = [aborted EXCEPT ![t] = FALSE]
          /\ at' = [at EXCEPT ![t] = "ready"]
          /\ op' = [op EXCEPT ![t] = "none"]
          /\ UNCHANGED <<result, poolVars>>
       \/ /\ op[t] = "rows"
          /\ Drop(t, c, FALSE, "dropped")
          /\ UNCHANGED aborted
    /\ UNCHANGED <<issued, acked, serverVars, handler, durable, lost>>

(* Mutants of Send: control keeps the callback of the statement before it,  *)
(* and a broken connection is awaited for ever.                             *)
SendKeepingHandler(t, c) ==
    /\ owner[c] = t /\ at[t] = "handle"
    /\ request[c] = "none"
    /\ at' = [at EXCEPT ![t] = "wait"]
    /\ handler' = [handler EXCEPT ![c] =
           IF Backend = "sqlite" /\ op[t] \in Armed THEN "armed" ELSE @]
    /\ IF session[c] = "gone"
       THEN /\ reply' = [reply EXCEPT ![c] = "io"]
            /\ UNCHANGED <<request, payload>>
       ELSE /\ request' = [request EXCEPT ![c] = op[t]]
            /\ payload' = [payload EXCEPT ![c] = Writes(t)]
            /\ reply' = [reply EXCEPT ![c] = "none"]
    /\ UNCHANGED <<op, aborted, result, issued, acked, poolVars, session, work, durable, lost>>

SendToLiveOnly(t, c) ==
    /\ owner[c] = t /\ at[t] = "handle"
    /\ request[c] = "none" /\ session[c] # "gone"
    /\ at' = [at EXCEPT ![t] = "wait"]
    /\ handler' = [handler EXCEPT ![c] =
           IF Backend = "sqlite" /\ op[t] \in Armed THEN "armed" ELSE "off"]
    /\ request' = [request EXCEPT ![c] = op[t]]
    /\ payload' = [payload EXCEPT ![c] = Writes(t)]
    /\ reply' = [reply EXCEPT ![c] = "none"]
    /\ UNCHANGED <<op, aborted, result, issued, acked, poolVars, session, work, durable, lost>>

(* The connection is free of an earlier, possibly abandoned, command: put   *)
(* the progress handler in place and send. control removes the handler,     *)
(* sqlite_execute and sqlite_rows install their own. A dead connection      *)
(* answers with the transport error at once.                                *)
Send(t, c) ==
    /\ owner[c] = t /\ at[t] = "handle"
    /\ request[c] = "none"
    /\ at' = [at EXCEPT ![t] = "wait"]
    /\ handler' = [handler EXCEPT ![c] =
           IF Backend = "sqlite" /\ op[t] \in Armed THEN "armed" ELSE "off"]
    /\ IF session[c] = "gone"
       THEN /\ reply' = [reply EXCEPT ![c] = "io"]
            /\ UNCHANGED <<request, payload>>
       ELSE /\ request' = [request EXCEPT ![c] = op[t]]
            /\ payload' = [payload EXCEPT ![c] = Writes(t)]
            /\ reply' = [reply EXCEPT ![c] = "none"]
    /\ UNCHANGED <<op, aborted, result, issued, acked, poolVars, session, work, durable, lost>>

(* The answer of BEGIN. *)
Begun(t, c) ==
    /\ owner[c] = t /\ at[t] = "wait" /\ op[t] = "begin"
    /\ \/ /\ reply[c] = "ok"
          /\ at' = [at EXCEPT ![t] = "ready"]
          /\ op' = [op EXCEPT ![t] = "none"]
          /\ UNCHANGED <<result, poolVars>>
       \/ /\ reply[c] \notin {"none", "ok"}
          /\ Drop(t, c, FALSE, "dropped")
    /\ UNCHANGED <<aborted, issued, acked, serverVars, handler, durable, lost>>

(* Mutant of Answered: every completion, an error too, clears the flag. *)
AnsweredClearing(t, c) ==
    /\ owner[c] = t /\ at[t] = "wait" /\ op[t] \in Statement
    /\ reply[c] # "none"
    /\ at' = [at EXCEPT ![t] = "ready"]
    /\ op' = [op EXCEPT ![t] = "none"]
    /\ aborted' = [aborted EXCEPT ![t] = FALSE]
    /\ acked' = IF reply[c] = "ok" THEN acked \cup Writes(t) ELSE acked
    /\ IF reply[c] = "ok" THEN UNCHANGED handler ELSE Trip(t, c)
    /\ UNCHANGED <<result, issued, poolVars, serverVars, durable, lost>>

(* The answer of a statement: only Ok and, outside batch, a wrong parameter *)
(* count leave the transaction usable.                                      *)
Answered(t, c) ==
    /\ owner[c] = t /\ at[t] = "wait" /\ op[t] \in Statement
    /\ reply[c] # "none"
    /\ at' = [at EXCEPT ![t] = "ready"]
    /\ op' = [op EXCEPT ![t] = "none"]
    /\ aborted' = [aborted EXCEPT ![t] =
           ~(reply[c] = "ok" \/ (reply[c] = "bindCount" /\ op[t] # "batch"))]
    /\ acked' = IF reply[c] = "ok" THEN acked \cup Writes(t) ELSE acked
    /\ IF reply[c] = "ok" THEN UNCHANGED handler ELSE Trip(t, c)
    /\ UNCHANGED <<result, issued, poolVars, serverVars, durable, lost>>

(* Mutant of Definite: every database error is taken for a refusal. *)
DefiniteAny(r) == r \in {"definite", "dbError"}

(* commit_error: an error code that says the commit was refused. *)
Definite(r) == r = "definite"

(* The answers of COMMIT and of ROLLBACK. The ROLLBACK of a rollback-only   *)
(* commit is ignored and its connection is not reused.                      *)
Ended(t, c) ==
    /\ owner[c] = t /\ at[t] = "wait" /\ op[t] \in EndOp
    /\ reply[c] # "none"
    /\ Drop(t, c, reply[c] = "ok" /\ op[t] # "abort",
            CASE op[t] = "abort" -> "aborted"
              [] op[t] = "rollback" -> IF reply[c] = "ok" THEN "rolledBack" ELSE "dropped"
              [] op[t] = "commit" -> IF reply[c] = "ok" THEN "committed"
                                     ELSE IF Definite(reply[c]) THEN "refused" ELSE "unknown")
    /\ UNCHANGED <<aborted, issued, acked, serverVars, handler, durable, lost>>

(* The answer of a pooled query, or the last item of a pooled stream: only  *)
(* success, and a buffered query's wrong parameter count, permit reuse.     *)
LeaseEnded(t, c) ==
    /\ owner[c] = t /\ at[t] = "wait" /\ op[t] \in LeaseOp
    /\ reply[c] # "none"
    /\ Drop(t, c, reply[c] = "ok" \/ (reply[c] = "bindCount" /\ op[t] = "query"),
            IF reply[c] = "ok" THEN "committed" ELSE "unknown")
    /\ acked' = IF reply[c] = "ok" THEN acked \cup Writes(t) ELSE acked
    /\ IF reply[c] = "ok" THEN UNCHANGED handler ELSE Trip(t, c)
    /\ UNCHANGED <<aborted, issued, serverVars, durable, lost>>

(* The future of a statement, or a stream with rows left, is dropped while  *)
(* its transaction is kept.                                                 *)
CancelStatement(t, c) ==
    /\ owner[c] = t /\ at[t] \in Suspended /\ op[t] \in Statement
    /\ at' = [at EXCEPT ![t] = "ready"]
    /\ op' = [op EXCEPT ![t] = "none"]
    /\ Trip(t, c)
    /\ UNCHANGED <<aborted, result, issued, acked, poolVars, serverVars, durable, lost>>

(* Any other future owns its connection and drops it.                       *)
CancelOwner(t, c) ==
    /\ owner[c] = t /\ at[t] \in Suspended /\ op[t] \notin Statement
    /\ Drop(t, c, FALSE,
            IF at[t] = "wait" /\ op[t] \in LeaseOp \cup {"commit"} THEN "unknown" ELSE "dropped")
    /\ Trip(t, c)
    /\ UNCHANGED <<aborted, issued, acked, serverVars, durable, lost>>

-----------------------------------------------------------------------------
(* The other end of connection c (external).                                *)

(* SQLite has one writer. *)
WriterFree(c) == Backend = "sqlite" => \A d \in Conn \ {c} : session[d] # "open"

(* The command is done: the session is now s with uncommitted writes w.     *)
Answer(c, r, s, w) ==
    /\ reply' = [reply EXCEPT ![c] = r]
    /\ request' = [request EXCEPT ![c] = "none"]
    /\ payload' = [payload EXCEPT ![c] = {}]
    /\ session' = [session EXCEPT ![c] = s]
    /\ work' = [work EXCEPT ![c] = w]

(* BEGIN: inside a transaction PostgreSQL only warns and SQLite refuses;    *)
(* SQLite refuses too when the writer stays busy.                           *)
ServeBegin(c) ==
    /\ request[c] = "begin"
    /\ \/ /\ (session[c] = "auto" /\ WriterFree(c)) \/ (session[c] = "open" /\ Backend = "postgres")
          /\ Answer(c, "ok", "open", work[c])
       \/ Answer(c, "dbError", session[c], work[c])
    /\ UNCHANGED <<callerVars, poolVars, handler, durable, lost>>

(* The statement takes effect: at once in autocommit. *)
ServeOk(c) ==
    /\ request[c] \in Statement \cup LeaseOp
    /\ \/ /\ session[c] = "open"
          /\ Answer(c, "ok", "open", work[c] \cup payload[c])
          /\ UNCHANGED durable
       \/ /\ session[c] = "auto" /\ WriterFree(c)
          /\ Answer(c, "ok", "auto", {})
          /\ durable' = durable \cup payload[c]
    /\ UNCHANGED <<callerVars, poolVars, handler, lost>>

(* The parameter count differs: the statement is not run. *)
ServeBindCount(c) ==
    /\ request[c] \in Armed
    /\ session[c] # "failed"
    /\ Answer(c, "bindCount", session[c], work[c])
    /\ UNCHANGED <<callerVars, poolVars, handler, durable, lost>>

(* The statement fails, interrupted or not. PostgreSQL fails the whole      *)
(* transaction. SQLite undoes the statement, keeps what a batch did before  *)
(* it, and for some errors rolls the transaction back by itself.            *)
ServeError(c) ==
    /\ request[c] \in Statement \cup LeaseOp
    /\ \/ /\ session[c] = "auto"
          /\ Answer(c, "dbError", "auto", {})
       \/ /\ session[c] \in {"open", "failed"} /\ Backend = "postgres"
          /\ Answer(c, "dbError", "failed", {})
       \/ /\ session[c] = "open" /\ Backend = "sqlite"
          /\ \E done \in SUBSET payload[c] :
                /\ request[c] # "batch" => done = {}
                /\ Answer(c, "dbError", "open", work[c] \cup done)
       \/ /\ session[c] = "open" /\ Backend = "sqlite"
          /\ Answer(c, "dbError", "auto", {})
    /\ UNCHANGED <<callerVars, poolVars, handler, durable, lost>>

(* COMMIT. A definite refusal rolls PostgreSQL back and leaves SQLite's     *)
(* transaction open; any other error may hide either outcome. Where there   *)
(* is nothing left to commit PostgreSQL rolls back and reports success.     *)
Refusals(c) == IF session[c] = "open" THEN {"definite", "dbError"}
               ELSE IF Backend = "postgres" THEN {"ok"} ELSE {"dbError"}

ServeCommit(c) ==
    /\ request[c] = "commit"
    /\ \/ /\ session[c] = "open"
          /\ \E r \in {"ok", "dbError"} : Answer(c, r, "auto", {})
          /\ durable' = durable \cup work[c]
       \/ /\ \E r \in Refusals(c) :
                IF session[c] = "open" /\ Backend = "sqlite"
                THEN Answer(c, r, "open", work[c]) ELSE Answer(c, r, "auto", {})
          /\ UNCHANGED durable
    /\ UNCHANGED <<callerVars, poolVars, handler, lost>>

(* ROLLBACK: SQLite refuses it outside a transaction. *)
ServeRollback(c) ==
    /\ request[c] \in {"rollback", "abort"}
    /\ Answer(c, IF session[c] = "auto" /\ Backend = "sqlite" THEN "dbError" ELSE "ok",
              "auto", {})
    /\ UNCHANGED <<callerVars, poolVars, handler, durable, lost>>

Serve(c) == \/ ServeBegin(c) \/ ServeOk(c) \/ ServeBindCount(c)
            \/ ServeError(c) \/ ServeCommit(c) \/ ServeRollback(c)

(* The connection breaks; the other end drops what was not committed.       *)
Lose(c) ==
    /\ session[c] # "gone"
    /\ Answer(c, "io", "gone", {})
    /\ UNCHANGED <<callerVars, poolVars, handler, durable, lost>>

(* The task that close_on_drop started says goodbye, after the command in   *)
(* flight; the session rolls back.                                          *)
CloseConn(c) ==
    /\ slot[c] = "closing" /\ request[c] = "none"
    /\ Answer(c, "none", "gone", {})
    /\ slot' = [slot EXCEPT ![c] = "free"]
    /\ owner' = [owner EXCEPT ![c] = NoCaller]
    /\ UNCHANGED <<callerVars, handler, durable, lost>>

(* Some check of the in-memory keeper failed and latched Keeper.lost.       *)
LoseKeeper ==
    /\ Backend = "sqlite" /\ ~lost
    /\ lost' = TRUE
    /\ UNCHANGED <<callerVars, poolVars, serverVars, handler, durable>>

-----------------------------------------------------------------------------
(* What the executor and the connection do by themselves once started.      *)
Progress(t, c) == \/ CheckLease(t, c) \/ Send(t, c) \/ Begun(t, c)
                  \/ Answered(t, c) \/ Ended(t, c) \/ LeaseEnded(t, c)

Step(t, c) ==
    \/ BeginWrite(t, c)
    \/ \E k \in LeaseOp : PooledQuery(t, c, k)
    \/ \E k \in Statement : RunStatement(t, c, k)
    \/ Commit(t, c)
    \/ Rollback(t, c)
    \/ DropReady(t, c)
    \/ CheckLease(t, c)
    \/ EncodeError(t, c)
    \/ Send(t, c)
    \/ Begun(t, c)
    \/ Answered(t, c)
    \/ Ended(t, c)
    \/ LeaseEnded(t, c)
    \/ CancelStatement(t, c)
    \/ CancelOwner(t, c)

Next ==
    \/ \E t \in Caller, c \in Conn : Step(t, c)
    \/ \E c \in Conn : Serve(c) \/ Lose(c) \/ CloseConn(c)
    \/ LoseKeeper

Spec == Init /\ [][Next]_vars

(* The executor polls a future that is ready, the other end answers, and    *)
(* the closing task runs.                                                   *)
Fairness == /\ \A t \in Caller : WF_vars(\E c \in Conn : Progress(t, c))
            /\ \A c \in Conn : WF_vars(Serve(c)) /\ WF_vars(CloseConn(c))

FairSpec == Spec /\ Fairness

-----------------------------------------------------------------------------
(* Properties.                                                              *)

(* A transaction's durable writes are all the writes acknowledged to its    *)
(* caller or none: whatever was cancelled, lost, interrupted or half done   *)
(* by a batch is not among them (run_statement's and batch's aborted flag,  *)
(* Drop).                                                                   *)
AllOrNothing ==
    \A t \in Tx : By(durable, t) = {} \/ By(durable, t) = By(acked, t)

(* commit returns Ok only for a durable transaction, and after              *)
(* TransactionAborted, DatabaseLost, a definite commit error, a rollback or *)
(* a drop nothing of it is or becomes durable (commit, commit_error, Drop). *)
HonestOutcome ==
    \A t \in Tx :
        /\ result[t] = "committed" => By(durable, t) = By(acked, t)
        /\ result[t] \in NotCommitted => By(durable, t) = {}

(* "Database errors and cancelled operations make the transaction           *)
(* rollback-only" (transaction.rs:21): a transaction with a failed or       *)
(* abandoned statement never becomes durable, even in part.                 *)
RollbackOnly ==
    \A t \in Tx : aborted[t] => By(durable, t) = {}

(* A connection in the pool has no transaction, no uncommitted write and no *)
(* command still running: the next lease never joins the work of an earlier *)
(* one (Lease.reusable, Transaction.finished).                              *)
CleanPool ==
    \A c \in Conn : slot[c] = "free" =>
        /\ session[c] \in {"auto", "gone"}
        /\ request[c] = "none"
        /\ work[c] = {}
        /\ owner[c] = NoCaller

(* A statement of a transaction runs inside that transaction, never in      *)
(* autocommit and never in a transaction that has already failed: after     *)
(* SQLite rolled back by itself the next statement must not be sent.        *)
StatementInTransaction ==
    \A c \in Conn : request[c] \in Statement => session[c] = "open"

(* Nothing a caller waits for is interrupted by the callback of an earlier, *)
(* abandoned or refused statement on the same connection                    *)
(* ("Clear it before rollback so cleanup can complete", transaction.rs:251).*)
NoStaleInterrupt ==
    \A t \in Caller, c \in Conn :
        owner[c] = t /\ at[t] = "wait" /\ request[c] # "none" => handler[c] # "tripped"

(* Transaction implements the promise made to callers. *)
Promise == INSTANCE AtomicTx WITH told <- result
ImplementsAtomicTx == Promise!Spec

(* An operation never hangs: also the ROLLBACK behind a cancelled statement *)
(* and any command on a broken connection returns.                          *)
OperationsEnd ==
    \A t \in Caller : at[t] \in Suspended ~> at[t] \in {"ready", "done"}

(* A connection whose caller is gone comes back to the pool: neither a      *)
(* dropped transaction nor a cancelled begin or query leaks its lease.      *)
LeasesComeBack ==
    \A t \in Caller, c \in Conn :
        (owner[c] = t /\ at[t] = "done") ~> slot[c] = "free"

-----------------------------------------------------------------------------
(* The inductive invariant behind AllOrNothing, HonestOutcome, RollbackOnly,*)
(* CleanPool, StatementInTransaction and NoStaleInterrupt.                  *)

(* What the flags of a caller say about the operation it is in. *)
CallerInv(t) ==
    /\ at[t] \in {"idle", "ready", "done"} <=> op[t] = "none"
    /\ at[t] = "check" => op[t] \in Statement \cup {"commit"}
    /\ at[t] = "ready" => t \in Tx
    /\ op[t] \in LeaseOp => t \in Pooled
    /\ op[t] \in Op \ LeaseOp => t \in Tx
    /\ op[t] \in Statement \cup {"abort"} => aborted[t]
    /\ op[t] \in {"begin", "commit"} => ~aborted[t]
    /\ at[t] = "idle" => ~aborted[t]
    /\ at[t] = "idle" \/ op[t] = "begin" => By(acked, t) = {}
    /\ result[t] = "none" <=> at[t] # "done"

(* Nothing runs on c, and its transaction holds exactly what its caller     *)
(* knows it holds.                                                          *)
Healthy(t, c) ==
    /\ request[c] = "none"
    /\ session[c] = "gone" \/ (session[c] = "open" /\ work[c] = By(acked, t))

(* Caller t and the command in flight on its connection c. *)
CommandInv(t, c) ==
    /\ request[c] # "none" => session[c] # "gone"
    /\ request[c] \in LeaseOp \cup {"none"} \/ t \in Tx
    /\ t \in Tx => request[c] \notin LeaseOp
    /\ request[c] \in Statement => session[c] = "open" /\ aborted[t]
    /\ request[c] = "begin" => session[c] = "auto"
    /\ request[c] = "commit" =>
           /\ session[c] = "open" /\ work[c] = By(acked, t) /\ By(durable, t) = {}
           /\ ~aborted[t]
           /\ at[t] = "done" => result[t] = "unknown"
    /\ at[t] \in {"check", "handle", "ready"} => request[c] \in Statement \cup {"none"}
    /\ at[t] = "wait" /\ request[c] # "none" =>
           /\ request[c] = op[t] /\ payload[c] = Writes(t)
           /\ reply[c] = "none" /\ handler[c] # "tripped"
    /\ at[t] = "wait" /\ request[c] = "none" => reply[c] # "none"

(* Caller t and the session of its connection c. *)
SessionInv(t, c) ==
    /\ IF at[t] = "done" THEN slot[c] = "closing" ELSE slot[c] = "leased" /\ at[t] # "idle"
    /\ work[c] \subseteq By(Write, t) /\ payload[c] \subseteq By(Write, t)
    /\ t \in Pooled => session[c] \in {"auto", "gone"}
    /\ op[t] \in Statement \cup {"commit"} /\ at[t] \in {"check", "handle"} => Healthy(t, c)
    /\ at[t] = "ready" /\ ~aborted[t] => Healthy(t, c)
    /\ op[t] = "begin" /\ at[t] = "handle" =>
           request[c] = "none" /\ session[c] \in {"auto", "gone"}
    /\ op[t] = "begin" /\ at[t] = "wait" /\ reply[c] = "ok" => session[c] = "open" /\ work[c] = {}
    /\ op[t] \in Statement /\ at[t] = "wait" =>
           /\ request[c] # "none" => work[c] = By(acked, t)
           /\ reply[c] = "bindCount" => session[c] = "open" /\ work[c] = By(acked, t)
           /\ reply[c] = "ok" => session[c] = "open" /\ work[c] = By(acked, t) \cup Writes(t)
    /\ op[t] = "commit" /\ at[t] = "wait" =>
           /\ reply[c] = "ok" => session[c] = "auto" /\ By(durable, t) = By(acked, t)
           /\ reply[c] = "definite" => By(durable, t) = {}
    /\ op[t] = "rollback" /\ at[t] = "wait" /\ reply[c] = "ok" => session[c] = "auto"

(* The commit point of t is the service of its COMMIT, and nothing else. *)
DurableInv(t) ==
    /\ By(durable, t) # {} =>
           /\ By(durable, t) = By(acked, t) /\ ~aborted[t]
           /\ \/ result[t] \in {"committed", "unknown"}
              \/ /\ at[t] = "wait" /\ op[t] = "commit"
                 /\ \A c \in Conn : owner[c] = t => request[c] = "none"
    /\ result[t] = "committed" => By(durable, t) = By(acked, t)

PoolInv ==
    /\ CleanPool
    /\ \A c \in Conn : session[c] \in {"auto", "gone"} => work[c] = {}
    /\ \A c \in Conn : request[c] = "none" => payload[c] = {}
    /\ \A c \in Conn : owner[c] = NoCaller => slot[c] = "free"
    /\ \A c, d \in Conn : owner[c] = owner[d] /\ owner[c] # NoCaller => c = d

(* What every step of every caller, connection and server preserves, and    *)
(* what makes the commit and cleanup paths of transaction.rs safe: the      *)
(* aborted flag, the session and the command in flight always agree.        *)
IInv ==
    /\ TypeOK
    /\ PoolInv
    /\ \A t \in Caller : CallerInv(t)
    /\ \A t \in Caller, c \in Conn : owner[c] = t => CommandInv(t, c) /\ SessionInv(t, c)
    /\ \A t \in Tx : DurableInv(t)

=============================================================================
