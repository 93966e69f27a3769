----------------------------- MODULE Warehouse -----------------------------
(***************************************************************************)
(* The warehouse consumer (consumers/warehouse/src/lib.rs): concurrent      *)
(* calls of Warehouse::reserve, each a ScopedDatabase::write_locking whose  *)
(* closure reads the stock, checks it, takes from it and inserts the        *)
(* reservation.  The row lock is lock.rs through Transaction::lock.         *)
(*                                                                          *)
(* A call is one invocation with its own connection; a retry is another     *)
(* call with the same id.  A statement and its answer are one step, and may *)
(* fail; the future may be dropped at every await; the answer to COMMIT may *)
(* be lost.  What Transaction and Scope show of a transaction and a scope   *)
(* (an error or a drop ends in a rollback, or in a connection that is       *)
(* closed) is taken here as their behaviour.  SQLite has one writer from    *)
(* BEGIN IMMEDIATE on; PostgreSQL runs READ COMMITTED with row locks.       *)
(***************************************************************************)
EXTENDS Integers

CONSTANTS Call,     \* invocations of reserve
          Workload, \* by call, the [id, sku, quantity] it asks for: the mixes considered
          Supply    \* units initially available, by SKU that has a stock row

ASSUME SupplyAssumption == Supply \in [DOMAIN Supply -> Nat]
ASSUME WorkloadAssumption ==
    \A w \in Workload : DOMAIN w = Call /\ \A c \in Call : w[c].quantity \in Int

VARIABLES
    postgres,      \* the backend; SQLite otherwise
    request,       \* the arguments of each call
    at,            \* the await each call is at
    session,       \* its transaction: "none", "open", or abandoned: "doomed", "committing"
    rowLock,       \* its session holds the lock of its stock row
    available,     \* stock.available as the closure read it
    sold,          \* units its uncommitted UPDATE takes
    inserted,      \* its uncommitted reservation
    outcome,       \* the error the rollback will be followed by
    result,        \* what reserve returned
    stock,         \* committed warehouse_stock
    reservations   \* committed warehouse_reservations, by the call that made them

local == <<at, session, rowLock, available, sold, inserted, outcome, result>>
vars == <<postgres, request, local, stock, reservations>>

Sku(c) == request[c].sku
Others(c) == Call \ {c}

Step == {"start", "begin", "lock", "read", "update", "insert", "commit", "rollback", "done"}
Refusal == {"insufficient", "duplicate", "check", "not_found", "failed"}
Result == Refusal \cup {"none", "ok", "dropped", "unknown"}

Init ==
    /\ postgres \in BOOLEAN
    /\ request \in Workload
    /\ at = [c \in Call |-> "start"]
    /\ session = [c \in Call |-> "none"]
    /\ rowLock = [c \in Call |-> FALSE]
    /\ available = [c \in Call |-> 0]
    /\ sold = [c \in Call |-> 0]
    /\ inserted = [c \in Call |-> FALSE]
    /\ outcome = [c \in Call |-> "none"]
    /\ result = [c \in Call |-> "none"]
    /\ stock = Supply
    /\ reservations = {}

Goto(c, step) == at' = [at EXCEPT ![c] = step]
Return(c, r) == Goto(c, "done") /\ result' = [result EXCEPT ![c] = r]

\* The closure or require_lock returns Err: enter rolls back before it answers.
Fail(c, error) ==
    /\ Goto(c, "rollback") /\ outcome' = [outcome EXCEPT ![c] = error]
    /\ UNCHANGED <<session, rowLock, available, sold, inserted, result>>

\* The session is over at the other end: its locks and its work are gone.
Over(c) ==
    /\ session' = [session EXCEPT ![c] = "none"]
    /\ rowLock' = [rowLock EXCEPT ![c] = FALSE]
    /\ sold' = [sold EXCEPT ![c] = 0]
    /\ inserted' = [inserted EXCEPT ![c] = FALSE]

\* COMMIT at the other end: the UPDATE and the INSERT, together.
MakeDurable(c) ==
    /\ stock' = [stock EXCEPT ![Sku(c)] = @ - sold[c]]
    /\ reservations' = reservations \cup (IF inserted[c] THEN {c} ELSE {})

Database == <<postgres, request, stock, reservations>>

(***************************************************************************)
(* reserve, up to the BEGIN of write_locking.                               *)
(***************************************************************************)
Reserve(c) ==
    /\ at[c] = "start"
    /\ IF request[c].quantity <= 0
       THEN Return(c, "insufficient")
       ELSE Goto(c, "begin") /\ UNCHANGED result
    /\ UNCHANGED <<Database, session, rowLock, available, sold, inserted, outcome>>

\* begin_write: a lease and BEGIN IMMEDIATE (one writer) or BEGIN READ COMMITTED.
BeginWrite(c) ==
    /\ at[c] = "begin"
    /\ postgres \/ \A d \in Others(c) : session[d] = "none"
    /\ session' = [session EXCEPT ![c] = "open"]
    /\ Goto(c, "lock")
    /\ UNCHANGED <<Database, rowLock, available, sold, inserted, outcome, result>>

\* NestedWriteScope, no lease within the acquisition timeout, a failed BEGIN.
BeginFails(c) ==
    /\ at[c] = "begin"
    /\ Return(c, "failed")
    /\ UNCHANGED <<Database, session, rowLock, available, sold, inserted, outcome>>

(***************************************************************************)
(* Lock::row("warehouse_stock").key("sku", sku): at most one row, the SKU   *)
(* is the primary key.                                                      *)
(***************************************************************************)
RowFree(c) ==
    ~postgres \/ \A d \in Others(c) : Sku(d) = Sku(c) => ~rowLock[d]

\* A lock statement without FOR UPDATE.
SelectRow(c) ==
    /\ at[c] = "lock" /\ session[c] = "open"
    /\ \/ /\ Sku(c) \in DOMAIN stock
          /\ Goto(c, "read")
          /\ UNCHANGED <<session, rowLock, available, sold, inserted, outcome, result>>
       \/ Sku(c) \notin DOMAIN stock /\ Fail(c, "not_found")
    /\ UNCHANGED Database

\* SELECT ... FOR UPDATE on PostgreSQL; a missing row is LockNotFound, the closure is not called.
LockRow(c) ==
    /\ at[c] = "lock" /\ session[c] = "open"
    /\ \/ /\ Sku(c) \in DOMAIN stock /\ RowFree(c)
          /\ rowLock' = [rowLock EXCEPT ![c] = postgres]
          /\ Goto(c, "read")
          /\ UNCHANGED <<session, available, sold, inserted, outcome, result>>
       \/ Sku(c) \notin DOMAIN stock /\ Fail(c, "not_found")
    /\ UNCHANGED Database

(***************************************************************************)
(* The closure.                                                             *)
(***************************************************************************)
ReadStock(c) ==
    /\ at[c] = "read" /\ session[c] = "open"
    /\ IF stock[Sku(c)] < request[c].quantity
       THEN Fail(c, "insufficient")
       ELSE /\ available' = [available EXCEPT ![c] = stock[Sku(c)]]
            /\ Goto(c, "update")
            /\ UNCHANGED <<session, rowLock, sold, inserted, outcome, result>>
    /\ UNCHANGED Database

\* available - $1 on the row's current version, and CHECK (available >= 0).
UpdateStock(c) ==
    /\ at[c] = "update" /\ session[c] = "open" /\ RowFree(c)
    /\ IF stock[Sku(c)] - request[c].quantity < 0
       THEN Fail(c, "check")
       ELSE /\ sold' = [sold EXCEPT ![c] = request[c].quantity]
            /\ rowLock' = [rowLock EXCEPT ![c] = postgres]
            /\ Goto(c, "insert")
            /\ UNCHANGED <<session, available, inserted, outcome, result>>
    /\ UNCHANGED Database

Reserved(c) == \E d \in reservations : request[d].id = request[c].id

\* Reservations::insert; PRIMARY KEY (id) waits for another session's INSERT of the same id.
InsertReservation(c) ==
    /\ at[c] = "insert" /\ session[c] = "open"
    /\ \A d \in Others(c) : request[d].id = request[c].id => ~inserted[d]
    /\ IF Reserved(c)
       THEN Fail(c, "duplicate")
       ELSE /\ inserted' = [inserted EXCEPT ![c] = TRUE]
            /\ Goto(c, "commit")
            /\ UNCHANGED <<session, rowLock, available, sold, outcome, result>>
    /\ UNCHANGED Database

\* A statement fails: contention, a connection that is lost, a row that cannot
\* be decoded.
StatementFails(c) ==
    /\ at[c] \in {"lock", "read", "update", "insert"}
    /\ Fail(c, "failed")
    /\ UNCHANGED Database

(***************************************************************************)
(* The end of ScopedDatabase::enter.                                        *)
(***************************************************************************)
\* The connection is closed, and what its session still does is nobody's business.
Abandon(c, how) ==
    /\ session' = [session EXCEPT ![c] = IF @ = "none" THEN "none" ELSE how]
    /\ UNCHANGED <<rowLock, sold, inserted>>

CommitOk(c) ==
    /\ session[c] = "open"
    /\ MakeDurable(c) /\ Over(c)
    /\ Return(c, "ok")

\* check_lease fails, or the other end refuses and says so.
CommitRefused(c) ==
    /\ Abandon(c, "doomed") /\ Return(c, "failed")
    /\ UNCHANGED <<stock, reservations>>

\* A lost answer to COMMIT taken for a refusal.
LostIsRefused(c) ==
    /\ Abandon(c, "committing") /\ Return(c, "failed")
    /\ UNCHANGED <<stock, reservations>>

\* CommitUnknown: COMMIT is with the other end, its answer is lost.
CommitLost(c) ==
    /\ Abandon(c, "committing") /\ Return(c, "unknown")
    /\ UNCHANGED <<stock, reservations>>

Commit(c) ==
    /\ at[c] = "commit"
    /\ CommitOk(c) \/ CommitRefused(c) \/ CommitLost(c)
    /\ UNCHANGED <<postgres, request, available, outcome>>

\* An error returned without the rollback, the connection kept.
AnswerOnly(c) ==
    /\ at[c] = "rollback"
    /\ Return(c, outcome[c])
    /\ UNCHANGED <<Database, session, rowLock, available, sold, inserted, outcome>>

\* let _ = tx.rollback(): the closure's error is returned either way, and a
\* connection whose ROLLBACK failed is closed.
Rollback(c) ==
    /\ at[c] = "rollback"
    /\ Over(c) \/ Abandon(c, "doomed")
    /\ Return(c, outcome[c])
    /\ UNCHANGED <<Database, available, outcome>>

\* The future of reserve is dropped: ScopeOwner and Transaction::drop close the
\* connection.  Before COMMIT is sent nothing can come of it.
Drop(c) ==
    /\ at[c] \notin {"start", "done"}
    /\ IF at[c] = "commit"
       THEN Abandon(c, "committing") /\ Return(c, "unknown")
       ELSE Abandon(c, "doomed") /\ Return(c, "dropped")
    /\ UNCHANGED <<Database, available, outcome>>

(***************************************************************************)
(* The other end: a session that dies under its call, and what becomes of a *)
(* connection that nobody waits for.                                        *)
(***************************************************************************)
LoseSession(c) ==
    /\ session[c] = "open"
    /\ Over(c)
    /\ UNCHANGED <<Database, at, available, outcome, result>>

LateCommit(c) ==
    /\ session[c] = "committing"
    /\ MakeDurable(c) /\ Over(c)
    /\ UNCHANGED <<postgres, request, at, available, outcome, result>>

EndSession(c) ==
    /\ session[c] \in {"doomed", "committing"}
    /\ Over(c)
    /\ UNCHANGED <<Database, at, available, outcome, result>>

Advance(c) ==
    \/ Reserve(c) \/ BeginWrite(c) \/ LockRow(c) \/ ReadStock(c) \/ UpdateStock(c)
    \/ InsertReservation(c) \/ Commit(c) \/ Rollback(c) \/ EndSession(c)
    \/ session[c] = "none" /\ StatementFails(c)

Ended == \A c \in Call : at[c] = "done" /\ session[c] = "none"

Next == \/ \E c \in Call :
             \/ Advance(c) \/ BeginFails(c) \/ StatementFails(c) \/ Drop(c)
             \/ LoseSession(c) \/ LateCommit(c)
        \/ Ended /\ UNCHANGED vars

Spec == Init /\ [][Next]_vars
FairSpec == Spec /\ \A c \in Call : WF_vars(Advance(c))

(***************************************************************************)
(* Properties                                                               *)
(***************************************************************************)
TypeOK ==
    /\ postgres \in BOOLEAN
    /\ request \in Workload
    /\ at \in [Call -> Step]
    /\ session \in [Call -> {"none", "open", "doomed", "committing"}]
    /\ rowLock \in [Call -> BOOLEAN]
    /\ available \in [Call -> Int]
    /\ sold \in [Call -> Nat]
    /\ inserted \in [Call -> BOOLEAN]
    /\ outcome \in [Call -> Refusal \cup {"none"}]
    /\ result \in [Call -> Result]
    /\ stock \in [DOMAIN Supply -> Nat]
    /\ reservations \subseteq Call

\* The stock that reserve checked is still the stock when it takes from it and
\* when it commits, statements later: the lock is taken before the read, so the
\* CHECK constraint of warehouse_stock is never what prevents an oversale.
CheckedStockIsCurrent ==
    \A c \in Call :
        /\ at[c] \in {"update", "insert", "commit"} /\ session[c] = "open" =>
              available[c] = stock[Sku(c)]
        /\ outcome[c] # "check"

\* Every call of reserve is one atomic step of an inventory or a truthful
\* refusal: "ok" is durable, a refusal is justified when it is given, and a
\* call that was refused, failed or was dropped before COMMIT never takes
\* effect.  Units are neither lost nor invented: "The failed second store call
\* must undo the first store's stock update" (consumers/warehouse/src/lib.rs:158).
Store == INSTANCE Inventory WITH told <- result
ImplementsInventory == Store!Spec

\* Every reserve that is still polled returns, though calls wait for each
\* other's row locks, ids or writer reservation and may be dropped while they
\* hold them.
ReservesEnd == \A c \in Call : <>(at[c] = "done")

(***************************************************************************)
(* The inductive invariant behind CheckedStockIsCurrent and                 *)
(* ImplementsInventory.                                                     *)
(***************************************************************************)
Locked == {"read", "update", "insert", "commit"}

\* The await a call is at, its session and what it returned.
ProgressInv(c) ==
    /\ at[c] \in {"start", "begin"} => session[c] = "none"
    /\ session[c] = "open" => at[c] \notin {"start", "begin", "done"}
    /\ session[c] = "committing" => result[c] = "unknown"
    /\ session[c] \in {"doomed", "committing"} => at[c] = "done"
    /\ result[c] = "none" <=> at[c] # "done"
    /\ at[c] \notin {"start", "done"} => request[c].quantity > 0

\* What a session holds, as long as it lives.
LockInv(c) ==
    /\ session[c] = "none" => ~rowLock[c] /\ sold[c] = 0 /\ ~inserted[c]
    /\ at[c] \in Locked => Sku(c) \in DOMAIN stock
    /\ at[c] \in Locked /\ session[c] = "open" => rowLock[c] = postgres
    /\ sold[c] # 0 => rowLock[c] = postgres

\* The work of a session fits the stock it was checked against.
WorkInv(c) ==
    /\ at[c] \in {"update", "insert", "commit"} /\ session[c] = "open" =>
          available[c] = stock[Sku(c)] /\ request[c].quantity <= available[c]
    /\ at[c] \in {"insert", "commit"} /\ session[c] = "open" => sold[c] # 0
    /\ at[c] = "commit" /\ session[c] = "open" => inserted[c]
    /\ session[c] = "committing" => inserted[c]
    /\ inserted[c] => sold[c] # 0 /\ ~Reserved(c)
    /\ sold[c] # 0 =>
          /\ Sku(c) \in DOMAIN stock
          /\ sold[c] = request[c].quantity /\ sold[c] <= stock[Sku(c)]

\* What a call is or will be told is true, and stays true.
AnswerInv(c) ==
    /\ outcome[c] # "check"
    /\ at[c] = "rollback" => outcome[c] # "none"
    /\ outcome[c] = "insufficient" =>
          Sku(c) \in DOMAIN stock /\ stock[Sku(c)] < request[c].quantity
    /\ outcome[c] = "duplicate" => Reserved(c)
    /\ outcome[c] = "not_found" => Sku(c) \notin DOMAIN stock
    /\ c \in reservations => at[c] = "done" /\ result[c] \in {"ok", "unknown"}

\* One writer on SQLite; one holder of a row and one INSERT of an id on PostgreSQL.
PairInv(c, d) ==
    /\ postgres \/ session[c] = "none" \/ session[d] = "none"
    /\ Sku(c) = Sku(d) => ~rowLock[c] \/ ~rowLock[d]
    /\ request[c].id = request[d].id => ~inserted[c] \/ ~inserted[d]

IInv ==
    /\ TypeOK
    /\ \A c \in Call : ProgressInv(c) /\ LockInv(c) /\ WorkInv(c) /\ AnswerInv(c)
    /\ \A c, d \in Call : c # d => PairInv(c, d)

=============================================================================
