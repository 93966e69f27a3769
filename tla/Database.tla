------------------------------ MODULE Database ------------------------------
(***************************************************************************)
(* The lifetime of one in-memory SQLite Database (src/database.rs):         *)
(* DatabaseBuilder::connect, the pool of one query connection, the keeper   *)
(* connection that preserves the data while no query connection is open,    *)
(* Database::close and the drop of the last handle.  A request for another  *)
(* backend is followed to the settings it is opened with.                   *)
(*                                                                          *)
(* Tx and Pooled callers run check before they acquire; a Tx caller runs    *)
(* check_lease before every statement of the lease it holds.  Reading an    *)
(* atomic flag, awaiting the keeper's mutex and awaiting its ping are       *)
(* separate steps, and a future can be dropped between them.  The pool, the *)
(* connections and the loss of the keeper's connection are external.        *)
(***************************************************************************)
EXTENDS Options

CONSTANTS Request,  \* what a program may ask connect for
          Tx,       \* callers that hold the connection over several statements
          Pooled,   \* callers that run one query per lease
          Closer,   \* callers of Database::close
          Nobody    \* holder of a free mutex

Caller == Tx \cup Pooled

ASSUME ActorAssumption ==
    /\ Tx \cap Pooled = {} /\ Caller \cap Closer = {}
    /\ Nobody \notin Caller \cup Closer

(* The tokens for what a caller does not write, the private name and an     *)
(* inherited text, are in no request.                                       *)
ASSUME RequestAssumption ==
    \A r \in Request :
        /\ r.url \in BOOLEAN
        /\ LET o == r.options
           IN  IF r.url
               THEN /\ \A i \in DOMAIN o.query : o.query[i][2] # "inherited"
                    /\ o.scheme = "sqlite" => o.path # "private"
                    /\ o.scheme = "postgres" =>
                         "inherited" \notin {o.host, o.port, o.database, o.username}
               ELSE /\ o.backend = "sqlite" => o.filename # "private"
                    /\ o.backend = "postgres" =>
                         "inherited" \notin {o.host, o.port, o.database, o.username, o.password,
                                            o.application, o.tls, o.rootCert}

VARIABLES
    phase,      \* of connect: "new", "keeper", "pool"; then "open", "elsewhere" or "failed"
    request,    \* the request connect holds, as a set
    settings,   \* the driver settings it computed, as a set
    app,        \* the application still owns a Database
    pc,         \* where each caller's or closer's future is
    told,       \* the last answer to a caller: "none", "ok", "lost", "closed", "dropped"
    lost,       \* Keeper.lost
    keeper,     \* Keeper.connection: "open", "dead", or "none" once taken
    mutex,      \* who holds the keeper's mutex
    poolClosed, \* Pool::is_closed
    conn,       \* the query connection: "none", "idle", "leased"; or a task of the
                \* pool has it: "releasing" returns it, "closing" closes it
    holder,     \* who leases it
    data,       \* "kept", or "gone": a new connection finds an empty database
    died        \* the keeper's connection was lost unexpectedly (history)

opening == <<phase, request, settings, app>>
vars == <<opening, pc, told, lost, keeper, mutex, poolClosed, conn, holder, data, died>>

Checking == {"isClosed", "keeperLost", "lock", "ping"}

TypeOK ==
    /\ phase \in {"new", "keeper", "pool", "open", "elsewhere", "failed"}
    /\ request \subseteq Request
    /\ app \in BOOLEAN /\ (app => phase = "open")
    /\ pc \in [Caller \cup Closer ->
                 Checking \cup {"idle", "acquire", "held", "run", "drain", "take", "bye"}]
    /\ told \in [Caller -> {"none", "ok", "lost", "closed", "dropped"}]
    /\ lost \in BOOLEAN
    /\ keeper \in {"open", "dead", "none"}
    /\ mutex \in Caller \cup Closer \cup {Nobody}
    /\ poolClosed \in BOOLEAN
    /\ conn \in {"none", "idle", "leased", "releasing", "closing"}
    /\ holder \in Caller \cup {Nobody} /\ (holder # Nobody <=> conn = "leased")
    /\ data \in {"kept", "gone"}
    /\ died \in BOOLEAN

Init ==
    /\ phase = "new"
    /\ request \in {{r} : r \in Request}
    /\ settings = {}
    /\ app = FALSE
    /\ pc = [p \in Caller \cup Closer |-> "idle"]
    /\ told = [t \in Caller |-> "none"]
    /\ lost = FALSE
    /\ keeper = "none"
    /\ mutex = Nobody
    /\ poolClosed = FALSE
    /\ conn = "none"
    /\ holder = Nobody
    /\ data = "gone"
    /\ died = FALSE

Go(p, there) == pc' = [pc EXCEPT ![p] = there]
Return(t, answer) == Go(t, "idle") /\ told' = [told EXCEPT ![t] = answer]

(* Data of a shared in-memory database live while a connection does.        *)
Survives(k, c) == data' = IF k = "open" \/ c # "none" THEN data ELSE "gone"

(* Mutants of Retained: the pool does not hold the keeper at all, or holds  *)
(* the Database it belongs to.                                              *)
RetainedByHandles(c) == app' \/ holder' # Nobody
RetainedInCycle(c) == TRUE

(* The keeper is owned by every Database, one of which each transaction     *)
(* has, and by the pool's after_release hook: by the leases and by the      *)
(* tasks that return or close a connection.                                 *)
Retained(c) == app' \/ holder' # Nobody \/ c \in {"releasing", "closing"}

(* The query connection becomes c. With the last reference the pool goes,   *)
(* and the keeper with it.                                                  *)
Settle(c) ==
    IF Retained(c)
    THEN /\ conn' = c
         /\ Survives(keeper, c)
         /\ UNCHANGED <<keeper, poolClosed>>
    ELSE /\ conn' = IF c \in {"releasing", "closing"} THEN c ELSE "none"
         /\ keeper' = "none"
         /\ Survives("none", conn')
         /\ poolClosed' = TRUE

-----------------------------------------------------------------------------
(* DatabaseBuilder::connect.                                                *)

(* Everything before the first await. *)
Connect ==
    /\ phase = "new"
    /\ settings' = UNION {Settings(r) : r \in request}
    /\ phase' = IF settings' = {} THEN "failed"
                ELSE IF \E s \in settings' : s.backend = "sqlite" /\ s.memory THEN "keeper"
                ELSE "elsewhere"
    /\ UNCHANGED <<request, app, pc, told, lost, keeper, mutex, poolClosed, conn, holder, data, died>>

(* The keeper opens a new database under a name of its own, or fails. *)
OpenKeeper ==
    /\ phase = "keeper"
    /\ request' = {} /\ settings' = {}
    /\ \/ phase' = "pool" /\ keeper' = "open" /\ data' = "kept"
       \/ phase' = "failed" /\ UNCHANGED <<keeper, data>>
    /\ UNCHANGED <<app, pc, told, lost, mutex, poolClosed, conn, holder, died>>

(* The pool opens its connection, or fails and the keeper is dropped. *)
OpenPool ==
    /\ phase = "pool"
    /\ \/ /\ phase' = "open" /\ app' = TRUE /\ conn' = "idle"
          /\ UNCHANGED <<keeper, data>>
       \/ /\ phase' = "failed" /\ keeper' = "none" /\ data' = "gone"
          /\ UNCHANGED <<app, conn>>
    /\ UNCHANGED <<request, settings, pc, told, lost, mutex, poolClosed, holder, died>>

(* The connect future is dropped at one of its awaits. *)
CancelConnect ==
    /\ phase \in {"keeper", "pool"}
    /\ phase' = "failed" /\ keeper' = "none" /\ data' = "gone"
    /\ request' = {} /\ settings' = {}
    /\ UNCHANGED <<app, pc, told, lost, mutex, poolClosed, conn, holder, died>>

(* The application drops its last Database: no future borrows it any more,  *)
(* and a transaction has one of its own.                                    *)
DropDatabase ==
    /\ app
    /\ \A p \in Caller \cup Closer : pc[p] # "idle" => p \in Tx /\ holder = p
    /\ app' = FALSE
    /\ UNCHANGED <<phase, request, settings, pc, told, lost, mutex, holder, died>>
    /\ Settle(conn)

-----------------------------------------------------------------------------
(* Database::check and Keeper::check.                                       *)

Holds(t) == holder = t
(* A failed check ends the call; a lease that was held stays held.          *)
Refuse(t, answer) ==
    /\ pc' = [pc EXCEPT ![t] = IF Holds(t) THEN "held" ELSE "idle"]
    /\ told' = [told EXCEPT ![t] = answer]

(* check reads Keeper.lost. *)
Check(t) ==
    /\ app /\ pc[t] = "idle"
    /\ IF lost THEN Return(t, "lost") ELSE Go(t, "isClosed") /\ UNCHANGED told
    /\ UNCHANGED <<opening, lost, keeper, mutex, poolClosed, conn, holder, data, died>>

(* check reads Pool::is_closed. *)
IsClosed(t) ==
    /\ pc[t] = "isClosed"
    /\ IF poolClosed THEN Return(t, "closed") ELSE Go(t, "keeperLost") /\ UNCHANGED told
    /\ UNCHANGED <<opening, lost, keeper, mutex, poolClosed, conn, holder, data, died>>

(* Keeper::check reads lost once more, then awaits the mutex. *)
KeeperLost(t) ==
    /\ pc[t] = "keeperLost"
    /\ IF lost THEN Refuse(t, "lost") ELSE Go(t, "lock") /\ UNCHANGED told
    /\ UNCHANGED <<opening, lost, keeper, mutex, poolClosed, conn, holder, data, died>>

(* The mutex is granted: no connection behind it means DatabaseLost, for    *)
(* good.                                                                    *)
LockKeeper(t) ==
    /\ pc[t] = "lock" /\ mutex = Nobody
    /\ IF keeper = "none"
       THEN lost' = TRUE /\ Refuse(t, "lost") /\ UNCHANGED mutex
       ELSE mutex' = t /\ Go(t, "ping") /\ UNCHANGED <<told, lost>>
    /\ UNCHANGED <<opening, keeper, poolClosed, conn, holder, data, died>>

(* The ping returns and the mutex is released. *)
Ping(t) ==
    /\ pc[t] = "ping"
    /\ mutex' = Nobody
    /\ IF keeper = "dead"
       THEN lost' = TRUE /\ Refuse(t, "lost")
       ELSE Go(t, IF Holds(t) THEN "run" ELSE "acquire") /\ UNCHANGED <<told, lost>>
    /\ UNCHANGED <<opening, keeper, poolClosed, conn, holder, data, died>>

-----------------------------------------------------------------------------
(* Leases.                                                                  *)

(* pool.acquire: a closed pool refuses; an empty one opens a connection.    *)
(* The wait for a busy connection ends with PoolTimedOut at the latest.     *)
Acquire(t) ==
    /\ pc[t] = "acquire"
    /\ \/ /\ poolClosed
          /\ Return(t, "closed")
          /\ UNCHANGED <<conn, holder>>
       \/ /\ ~poolClosed /\ conn \in {"none", "idle"}
          /\ conn' = "leased" /\ holder' = t
          /\ Go(t, IF t \in Tx THEN "held" ELSE "run")
          /\ UNCHANGED told
       \/ /\ ~poolClosed /\ conn \in {"leased", "releasing", "closing"}
          /\ Return(t, "dropped")
          /\ UNCHANGED <<conn, holder>>
    /\ UNCHANGED <<opening, lost, keeper, mutex, poolClosed, data, died>>

(* Mutant of Statement: no check_lease. *)
StatementUnchecked(t) ==
    /\ pc[t] = "held"
    /\ Go(t, "run")
    /\ UNCHANGED <<opening, told, lost, keeper, mutex, poolClosed, conn, holder, data, died>>

(* A statement of a transaction: check_lease comes first. *)
Statement(t) ==
    /\ pc[t] = "held"
    /\ Go(t, "keeperLost")
    /\ UNCHANGED <<opening, told, lost, keeper, mutex, poolClosed, conn, holder, data, died>>

(* The statement has run. A pooled query's lease ends with it: a failed one *)
(* is discarded.                                                            *)
Run(t) ==
    /\ pc[t] = "run"
    /\ IF t \in Tx
       THEN Go(t, "held") /\ UNCHANGED <<told, conn, holder>>
       ELSE /\ Return(t, "ok")
            /\ conn' \in {"releasing", "closing"} /\ holder' = Nobody
    /\ UNCHANGED <<opening, lost, keeper, mutex, poolClosed, data, died>>

(* The transaction commits or rolls back, or is dropped unfinished. *)
Finish(t) ==
    /\ pc[t] = "held"
    /\ Return(t, "ok")
    /\ conn' \in {"releasing", "closing"} /\ holder' = Nobody
    /\ UNCHANGED <<opening, lost, keeper, mutex, poolClosed, data, died>>

(* Mutant of Cancel: the keeper's mutex is not given back. *)
CancelKeepingMutex(t) ==
    /\ pc[t] \in Checking \cup {"acquire", "run"}
    /\ Return(t, "dropped")
    /\ conn' = IF Holds(t) THEN "closing" ELSE conn
    /\ holder' = IF Holds(t) THEN Nobody ELSE holder
    /\ UNCHANGED <<opening, lost, keeper, mutex, poolClosed, data, died>>

(* The caller's future, and the lease it owns, is dropped anywhere.         *)
Cancel(t) ==
    /\ pc[t] \in Checking \cup {"acquire", "run"}
    /\ Return(t, "dropped")
    /\ mutex' = IF mutex = t THEN Nobody ELSE mutex
    /\ conn' = IF Holds(t) THEN "closing" ELSE conn
    /\ holder' = IF Holds(t) THEN Nobody ELSE holder
    /\ UNCHANGED <<opening, lost, keeper, poolClosed, data, died>>

(* A discarded connection closes.                                           *)
ConnClosed ==
    /\ conn = "closing"
    /\ UNCHANGED <<opening, pc, told, lost, mutex, holder, died>>
    /\ Settle("none")

(* A returned connection is idle again; a closed pool closes it.            *)
Released ==
    /\ conn = "releasing"
    /\ UNCHANGED <<opening, pc, told, lost, mutex, holder, died>>
    /\ Settle(IF poolClosed THEN "none" ELSE "idle")

(* The keeper's connection dies; nobody notices before the next ping.       *)
LoseKeeper ==
    /\ keeper = "open"
    /\ keeper' = "dead" /\ died' = TRUE
    /\ Survives("dead", conn)
    /\ UNCHANGED <<opening, pc, told, lost, mutex, poolClosed, conn, holder>>

-----------------------------------------------------------------------------
(* Database::close.                                                         *)

(* pool.close() marks the pool closed before it drains. *)
Close(x) ==
    /\ app /\ pc[x] = "idle"
    /\ Go(x, "drain")
    /\ poolClosed' = TRUE
    /\ UNCHANGED <<opening, told, lost, keeper, mutex, conn, holder, data, died>>

(* Mutant of Drained: the keeper is closed without waiting for leases. *)
DrainedEarly(x) ==
    /\ pc[x] = "drain"
    /\ Go(x, "take")
    /\ conn' = IF conn = "idle" THEN "none" ELSE conn
    /\ Survives(keeper, conn')
    /\ UNCHANGED <<opening, told, lost, keeper, mutex, poolClosed, holder, died>>

(* All leases and cleanups have returned; idle connections are closed. *)
Drained(x) ==
    /\ pc[x] = "drain" /\ conn \in {"none", "idle"}
    /\ Go(x, "take")
    /\ conn' = "none"
    /\ Survives(keeper, "none")
    /\ UNCHANGED <<opening, told, lost, keeper, mutex, poolClosed, holder, died>>

(* The mutex is granted and the keeper taken out of it, to be closed. *)
TakeKeeper(x) ==
    /\ pc[x] = "take" /\ mutex = Nobody
    /\ mutex' = x
    /\ keeper' = "none"
    /\ Survives("none", conn)
    /\ Go(x, "bye")
    /\ UNCHANGED <<opening, told, lost, poolClosed, conn, holder, died>>

(* The keeper is closed; the guard is released. *)
Closed(x) ==
    /\ pc[x] = "bye"
    /\ mutex' = Nobody
    /\ Go(x, "idle")
    /\ UNCHANGED <<opening, told, lost, keeper, poolClosed, conn, holder, data, died>>

(* The close future is dropped; what it had done stays done. *)
CancelClose(x) ==
    /\ pc[x] \in {"drain", "take", "bye"}
    /\ mutex' = IF mutex = x THEN Nobody ELSE mutex
    /\ Go(x, "idle")
    /\ UNCHANGED <<opening, told, lost, keeper, poolClosed, conn, holder, data, died>>

-----------------------------------------------------------------------------
CheckStep(t) == IsClosed(t) \/ KeeperLost(t) \/ LockKeeper(t) \/ Ping(t)
CloseStep(x) == Drained(x) \/ TakeKeeper(x) \/ Closed(x)

(* Nobody is left to call, or the Database is none of the kind modelled.    *)
Over ==
    /\ \/ phase \in {"failed", "elsewhere"}
       \/ phase = "open" /\ ~app /\ \A p \in Caller \cup Closer : pc[p] = "idle"
    /\ UNCHANGED vars

Next ==
    \/ \E t \in Caller : \/ Check(t) \/ CheckStep(t) \/ Acquire(t)
                         \/ Statement(t) \/ Run(t) \/ Finish(t) \/ Cancel(t)
    \/ Connect \/ OpenKeeper \/ OpenPool \/ CancelConnect \/ DropDatabase
    \/ ConnClosed \/ Released
    \/ LoseKeeper
    \/ \E x \in Closer : Close(x) \/ CloseStep(x) \/ CancelClose(x)
    \/ Over

Spec == Init /\ [][Next]_vars

(* Futures that can run are polled, cleanup tasks run, statements return;   *)
(* the keeper's mutex (tokio::sync::Mutex) serves its waiters in order; and *)
(* a transaction's owner, once it may, ends the transaction rather than run *)
(* statements for ever.                                                     *)
Fairness ==
    /\ \A t \in Caller : /\ SF_vars(CheckStep(t)) /\ WF_vars(Acquire(t)) /\ WF_vars(Run(t))
                         /\ SF_vars(Finish(t))
    /\ \A x \in Closer : SF_vars(CloseStep(x))
    /\ WF_vars(ConnClosed) /\ WF_vars(Released)

FairSpec == Spec /\ Fairness

-----------------------------------------------------------------------------
(* Properties.                                                              *)

(* "Close all clones and drain checked-out connections before closing the   *)
(* keeper" (database.rs:263), and "the pool retains the keeper through its  *)
(* outstanding leases and return/cleanup tasks, even after the last         *)
(* Database is dropped" (database.rs:149): once the keeper is gone no       *)
(* connection is open, leased or in a task, and none is opened again, also  *)
(* when an earlier close was cancelled or two run at once.                  *)
KeeperOutlivesPool ==
    phase = "open" /\ keeper = "none" => poolClosed /\ holder = Nobody /\ conn = "none"

(* A caller that holds a lease is refused with DatabaseLost only if the     *)
(* keeper really died: a concurrent or cancelled close never breaks the     *)
(* statements of a transaction that it waits for.                           *)
LeaseSeesNoFalseLoss ==
    lost /\ holder # Nobody => died

(* "never silently create a fresh empty database as recovery"               *)
(* (.ai/plans/public-api.md:131), for the statements of a transaction:      *)
(* check_lease keeps them off a connection opened after the data went.      *)
NoFreshDatabase ==
    \A t \in Tx : pc[t] = "run" => data = "kept"

(* The same for a query on the Database, which checks before it acquires    *)
(* and not after. *)
NoFreshDatabaseForQueries ==
    \A t \in Pooled : pc[t] = "run" => data = "kept"

(* "DatabaseLost identifies unexpected loss of the in-memory keeper"        *)
(* (.ai/plans/public-api.md:411): the latch is set only when it died.       *)
LossIsUnexpected == lost => died

(* "Connection configuration without implicit environment or               *)
(* credential-file input" (options.rs:12), "File creation and WAL are       *)
(* opt-in" (options.rs:23), "Server identity verification is the default"   *)
(* (options.rs:110), "Unknown and duplicate query options fail"             *)
(* (options.rs:221): what a connection is opened with was asked for, in the *)
(* request and not in the environment; and an in-memory database has one    *)
(* query connection under a name nobody can ask for.                        *)
NothingImplicit ==
    \A r \in request, s \in settings :
        LET query == IF r.url THEN r.options.query ELSE <<>>
            Asked(key, field) == IF r.url THEN Given(query, key) ELSE {r.options[field]}
        IN  /\ Unique(query)
            /\ IF s.backend = "sqlite"
               THEN /\ s.create => IF r.url THEN Given(query, "mode") = {"rwc"} ELSE r.options.create
                    /\ s.wal => ~r.url /\ r.options.wal
                    /\ s.memory <=> s.name = "private"
                    /\ s.memory => s.connections = 1 /\ ~s.create /\ ~s.wal /\ ~s.readOnly
               ELSE /\ \A f \in DOMAIN PgField : s[f] # "inherited"
                    /\ s.tls # "verify-full" => Asked("sslmode", "tls") = {s.tls}
                    /\ s.rootCert # "none" => Asked("sslrootcert", "rootCert") = {s.rootCert}

(* What connect opened is closed when it fails or is dropped, and what a    *)
(* Database holds is closed once the last handle and the last transaction   *)
(* are gone, whether or not anyone calls close: the retained keeper is not  *)
(* kept for ever.                                                           *)
NothingLeaks ==
    (phase = "failed" \/ (phase = "open" /\ ~app)) ~> (keeper = "none" /\ conn = "none")

(* close finishes, or is itself dropped, whatever checks, statements and    *)
(* other closes it meets.                                                   *)
CloseEnds ==
    \A x \in Closer : pc[x] = "drain" ~> pc[x] = "idle"

(* A check never hangs on the keeper's mutex. *)
ChecksEnd ==
    \A t \in Caller : pc[t] \in Checking ~> pc[t] \notin Checking

-----------------------------------------------------------------------------
(* The inductive invariant behind KeeperOutlivesPool, LeaseSeesNoFalseLoss  *)
(* and NoFreshDatabase.                                                     *)

(* Before there is a Database nobody uses it. *)
OpeningInv ==
    phase # "open" =>
        /\ conn = "none" /\ ~poolClosed /\ ~lost
        /\ keeper = "none" <=> phase # "pool"
        /\ \A p \in Caller \cup Closer : pc[p] = "idle"

(* The lease and the place of its caller agree. *)
LeaseInv(t) ==
    /\ pc[t] \in Checking \cup {"idle", "acquire", "held", "run"}
    /\ pc[t] \in {"held", "run"} => holder = t
    /\ holder = t => pc[t] \in {"held", "run", "keeperLost", "lock", "ping"}

(* A closer past the drain finds the pool empty. *)
CloserInv(x) ==
    /\ pc[x] \in {"idle", "drain", "take", "bye"}
    /\ pc[x] # "idle" => poolClosed
    /\ pc[x] \in {"take", "bye"} => conn = "none"

(* The mutex is held across the ping and across closing the keeper. *)
MutexInv ==
    /\ mutex # Nobody => pc[mutex] \in {"ping", "bye"}
    /\ \A p \in Caller \cup Closer : pc[p] \in {"ping", "bye"} => mutex = p
    /\ \A t \in Caller : pc[t] = "ping" => keeper # "none"

(* Who is left when the application has dropped its last Database. *)
OwnerInv ==
    phase = "open" /\ ~app =>
        /\ \A p \in Caller \cup Closer : pc[p] # "idle" => p \in Tx /\ holder = p
        /\ conn # "idle"
        /\ conn = "none" => keeper = "none"

(* What the keeper's state says about the data and about the latch. *)
KeeperInv ==
    /\ keeper = "open" => data = "kept"
    /\ keeper = "dead" => died
    /\ lost => died \/ keeper = "none"

IInv ==
    /\ TypeOK /\ OpeningInv /\ MutexInv /\ OwnerInv /\ KeeperInv
    /\ \A t \in Caller : LeaseInv(t)
    /\ \A x \in Closer : CloserInv(x)
    /\ KeeperOutlivesPool /\ NoFreshDatabase

(* What connect computed, it computed of the request it holds. *)
SettingsInv ==
    /\ \A q, r \in request : q = r
    /\ \A r \in request : settings \subseteq Settings(r)

=============================================================================
