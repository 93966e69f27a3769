--------------------------- MODULE DatabaseProofs ---------------------------
(* Proofs about Database for any callers and closers. *)
EXTENDS Database, TLAPS

USE ActorAssumption DEF IInv, TypeOK, OpeningInv, LeaseInv, CloserInv, MutexInv, OwnerInv, KeeperInv,
    KeeperOutlivesPool, NoFreshDatabase, Checking, Caller, opening

(* connect starts with nothing open. *)
LEMMA ConnectKeeps ==
    ASSUME IInv, Connect
    PROVE IInv'
BY DEF Connect

(* The keeper is opened while nobody has the Database yet. *)
LEMMA OpenKeeperKeeps ==
    ASSUME IInv, OpenKeeper
    PROVE IInv'
BY DEF OpenKeeper

(* With the pool the Database is complete; without it the keeper goes. *)
LEMMA OpenPoolKeeps ==
    ASSUME IInv, OpenPool
    PROVE IInv'
<1>1. CASE phase' = "open"
    BY <1>1 DEF OpenPool
<1>2. CASE phase' = "failed"
    BY <1>2 DEF OpenPool
<1> QED BY <1>1, <1>2 DEF OpenPool

(* A dropped connect leaves nothing. *)
LEMMA CancelConnectKeeps ==
    ASSUME IInv, CancelConnect
    PROVE IInv'
BY DEF CancelConnect

(* Without handles the keeper lives as long as a lease or a task of the pool. *)
LEMMA DropDatabaseKeeps ==
    ASSUME IInv, DropDatabase
    PROVE IInv'
<1>1. CASE Retained(conn)
    BY <1>1 DEF DropDatabase, Settle, Retained, Survives
<1>2. CASE ~Retained(conn)
    BY <1>2 DEF DropDatabase, Settle, Retained, Survives
<1> QED BY <1>1, <1>2

(* The task that closes a connection may be the last owner. *)
LEMMA ConnClosedKeeps ==
    ASSUME IInv, ConnClosed
    PROVE IInv'
<1>1. CASE Retained("none")
    BY <1>1 DEF ConnClosed, Settle, Retained, Survives
<1>2. CASE ~Retained("none")
    BY <1>2 DEF ConnClosed, Settle, Retained, Survives
<1> QED BY <1>1, <1>2

(* So may the task that returns one. *)
LEMMA ReleasedKeeps ==
    ASSUME IInv, Released
    PROVE IInv'
<1>1. CASE Retained("idle")
    BY <1>1 DEF Released, Settle, Retained, Survives
<1>2. CASE ~Retained("idle")
    BY <1>2 DEF Released, Settle, Retained, Survives
<1> QED BY <1>1, <1>2

(* A keeper that dies is remembered. *)
LEMMA LoseKeeperKeeps ==
    ASSUME IInv, LoseKeeper
    PROVE IInv'
BY DEF LoseKeeper, Survives

(* check starts with an open Database. *)
LEMMA CheckKeeps ==
    ASSUME IInv, NEW t \in Caller, Check(t)
    PROVE IInv'
BY DEF Check, Return, Go

(* A closed pool ends a check without a lease. *)
LEMMA IsClosedKeeps ==
    ASSUME IInv, NEW t \in Caller, IsClosed(t)
    PROVE IInv'
BY DEF IsClosed, Return, Go

(* The latch is read again. *)
LEMMA KeeperLostKeeps ==
    ASSUME IInv, NEW t \in Caller, KeeperLost(t)
    PROVE IInv'
BY DEF KeeperLost, Refuse, Holds, Go

(* A keeper that was taken is latched as lost; no lease is left to see it. *)
LEMMA LockKeeperKeeps ==
    ASSUME IInv, NEW t \in Caller, LockKeeper(t)
    PROVE IInv'
<1>1. CASE keeper = "none"
    BY <1>1 DEF LockKeeper, Refuse, Holds, Go
<1>2. CASE keeper # "none"
    BY <1>2 DEF LockKeeper, Refuse, Holds, Go
<1> QED BY <1>1, <1>2

(* A ping that succeeds shows that the data are there. *)
LEMMA PingKeeps ==
    ASSUME IInv, NEW t \in Caller, Ping(t)
    PROVE IInv'
<1>1. CASE keeper = "dead"
    BY <1>1 DEF Ping, Refuse, Holds, Go
<1>2. CASE keeper # "dead"
    BY <1>2 DEF Ping, Refuse, Holds, Go
<1> QED BY <1>1, <1>2

(* A closed pool leases nothing. *)
LEMMA AcquireKeeps ==
    ASSUME IInv, NEW t \in Caller, Acquire(t)
    PROVE IInv'
BY DEF Acquire, Return, Go

(* A statement goes back to check_lease. *)
LEMMA StatementKeeps ==
    ASSUME IInv, NEW t \in Caller, Statement(t)
    PROVE IInv'
BY DEF Statement, Go

(* A query gives its lease to a task of the pool. *)
LEMMA RunKeeps ==
    ASSUME IInv, NEW t \in Caller, Run(t)
    PROVE IInv'
BY DEF Run, Return, Go

(* So does the end of a transaction. *)
LEMMA FinishKeeps ==
    ASSUME IInv, NEW t \in Caller, Finish(t)
    PROVE IInv'
BY DEF Finish, Return, Go

(* A dropped future gives up the mutex and the lease. *)
LEMMA CancelKeeps ==
    ASSUME IInv, NEW t \in Caller, Cancel(t)
    PROVE IInv'
BY DEF Cancel, Return, Go, Holds

(* close marks the pool closed. *)
LEMMA CloseKeeps ==
    ASSUME IInv, NEW x \in Closer, Close(x)
    PROVE IInv'
BY DEF Close, Go

(* The drain waits for leases and tasks. *)
LEMMA DrainedKeeps ==
    ASSUME IInv, NEW x \in Closer, Drained(x)
    PROVE IInv'
BY DEF Drained, Go, Survives

(* The keeper is taken from an empty, closed pool. *)
LEMMA TakeKeeperKeeps ==
    ASSUME IInv, NEW x \in Closer, TakeKeeper(x)
    PROVE IInv'
BY DEF TakeKeeper, Go, Survives

(* The mutex is given back. *)
LEMMA ClosedKeeps ==
    ASSUME IInv, NEW x \in Closer, Closed(x)
    PROVE IInv'
BY DEF Closed, Go

(* A dropped close gives back the mutex; the pool stays closed. *)
LEMMA CancelCloseKeeps ==
    ASSUME IInv, NEW x \in Closer, CancelClose(x)
    PROVE IInv'
BY DEF CancelClose, Go

HIDE DEF IInv

(* Every step of connect, of a caller, a closer or a task of the pool       *)
(* preserves the invariant.                                                 *)
LEMMA IInvStep == IInv /\ [Next]_vars => IInv'
<1> SUFFICES ASSUME IInv, [Next]_vars PROVE IInv'
    OBVIOUS
<1>1. ASSUME NEW t \in Caller,
             \/ Check(t) \/ CheckStep(t) \/ Acquire(t)
             \/ Statement(t) \/ Run(t) \/ Finish(t) \/ Cancel(t)
      PROVE IInv'
    BY <1>1, CheckKeeps, IsClosedKeeps, KeeperLostKeeps, LockKeeperKeeps, PingKeeps, AcquireKeeps,
       StatementKeeps, RunKeeps, FinishKeeps, CancelKeeps DEF CheckStep
<1>2. ASSUME NEW x \in Closer, Close(x) \/ CloseStep(x) \/ CancelClose(x) PROVE IInv'
    BY <1>2, CloseKeeps, DrainedKeeps, TakeKeeperKeeps, ClosedKeeps, CancelCloseKeeps DEF CloseStep
<1>3. CASE UNCHANGED vars
    BY <1>3 DEF vars, IInv
<1> QED BY <1>1, <1>2, <1>3, ConnectKeeps, OpenKeeperKeeps, OpenPoolKeeps, CancelConnectKeeps,
     DropDatabaseKeeps, ConnClosedKeeps, ReleasedKeeps, LoseKeeperKeeps DEF Next, Over

(* Nothing is open before connect. *)
LEMMA IInvInit == Init => IInv
BY DEF Init, IInv

(* The invariant of database.rs, whatever the requests and however many     *)
(* callers and closers there are.                                           *)
THEOREM DatabaseInvariant == Spec => []IInv
BY IInvInit, IInvStep, PTL DEF Spec

(* The keeper is closed last: after it no connection is open, leased or in  *)
(* a task of the pool, however many closes race, are cancelled or never     *)
(* happen.                                                                  *)
THEOREM KeeperIsLast == Spec => []KeeperOutlivesPool
<1>1. IInv => KeeperOutlivesPool
    BY DEF IInv
<1> QED BY <1>1, DatabaseInvariant, PTL

(* A caller with a lease is told DatabaseLost only if the keeper died. *)
THEOREM NoFalseLoss == Spec => []LeaseSeesNoFalseLoss
<1>1. IInv => LeaseSeesNoFalseLoss
    BY DEF IInv, LeaseSeesNoFalseLoss
<1> QED BY <1>1, DatabaseInvariant, PTL

(* No statement of a transaction runs on a database that was created anew. *)
THEOREM SameDatabase == Spec => []NoFreshDatabase
<1>1. IInv => NoFreshDatabase
    BY DEF IInv
<1> QED BY <1>1, DatabaseInvariant, PTL

-----------------------------------------------------------------------------
(* Connection options.                                                      *)

(* The settings are computed once, of the one request. *)
LEMMA SettingsStep == SettingsInv /\ [Next]_vars => SettingsInv'
<1> SUFFICES ASSUME SettingsInv, [Next]_vars PROVE SettingsInv'
    OBVIOUS
<1>1. CASE Connect
    BY <1>1 DEF SettingsInv, Connect
<1>2. CASE OpenKeeper \/ CancelConnect
    BY <1>2 DEF SettingsInv, OpenKeeper, CancelConnect
<1>3. ASSUME NEW t \in Caller,
             \/ Check(t) \/ CheckStep(t) \/ Acquire(t)
             \/ Statement(t) \/ Run(t) \/ Finish(t) \/ Cancel(t)
      PROVE UNCHANGED <<request, settings>>
    BY <1>3 DEF CheckStep, Check, IsClosed, KeeperLost, LockKeeper, Ping, Acquire, Statement, Run, Finish, Cancel
<1>4. ASSUME NEW x \in Closer, Close(x) \/ CloseStep(x) \/ CancelClose(x) PROVE UNCHANGED <<request, settings>>
    BY <1>4 DEF Close, CloseStep, CancelClose, Drained, TakeKeeper, Closed
<1>5. CASE OpenPool \/ DropDatabase \/ ConnClosed \/ Released \/ LoseKeeper \/ Over \/ UNCHANGED vars
    <2>1. UNCHANGED <<request, settings>>
        BY <1>5 DEF OpenPool, DropDatabase, ConnClosed, Released, LoseKeeper, Over, vars
    <2> QED BY <2>1 DEF SettingsInv
<1>6. CASE UNCHANGED <<request, settings>>
    BY <1>6 DEF SettingsInv
<1> QED BY <1>1, <1>2, <1>3, <1>4, <1>5, <1>6 DEF Next

(* A key of a query without duplicates has one value. *)
LEMMA GivenOnce ==
    ASSUME NEW query, NEW key, NEW default, Unique(query)
    PROVE  \/ Given(query, key) = {} /\ ValueOr(query, key, default) = default
           \/ /\ Given(query, key) = {ValueOr(query, key, default)}
              /\ \E i \in DOMAIN query : query[i][2] = ValueOr(query, key, default)
<1>1. CASE Given(query, key) = {}
    BY <1>1 DEF ValueOr
<1>2. CASE Given(query, key) # {}
    <2>1. \A v, w \in Given(query, key) : v = w
        BY DEF Given, Unique
    <2>2. ValueOr(query, key, default) \in Given(query, key)
        BY <1>2 DEF ValueOr
    <2>3. \E i \in DOMAIN query : query[i][2] = ValueOr(query, key, default)
        BY <2>2 DEF Given
    <2> QED BY <2>1, <2>2, <2>3
<1> QED BY <1>1, <1>2

LEMMA EmptyText == Empty # "inherited"
BY Zenon DEF Empty

LEMMA DecodedText ==
    ASSUME NEW text
    PROVE  /\ text # "private" => Decoded(text) # "private"
           /\ text # "inherited" => Decoded(text) # "inherited"
BY DEF Decoded

(* What a SQLite URL asks for. *)
LEMMA SqliteUrlAsks ==
    ASSUME NEW url, url.path # "private", NEW o \in SqliteUrl(url)
    PROVE  /\ o.backend = "sqlite" /\ Unique(url.query)
           /\ o.create => Given(url.query, "mode") = {"rwc"}
           /\ ~o.wal /\ o.filename # "private"
<1> DEFINE path == Decoded(url.path)
           mode == ValueOr(url.query, "mode", "rw")
           base == IF path = ":memory:" THEN InMemory ELSE NewSqlite(path)
           p == [base EXCEPT !.readOnly = (mode = "ro"), !.create = (mode = "rwc"),
                             !.memory = @ \/ mode = "memory"]
<1>1. o = p /\ Unique(url.query)
    BY DEF SqliteUrl
<1>2. path # "private"
    BY DecodedText
<1>3. mode = "rwc" => Given(url.query, "mode") = {"rwc"}
    BY <1>1, GivenOnce
<1> HIDE DEF path, mode
<1>4. base \in [backend : {"sqlite"}, filename : {path}, memory : BOOLEAN, create : BOOLEAN,
                readOnly : BOOLEAN, wal : {FALSE}, busyTimeout : Nat]
    <2> DEFINE Shape(name) ==
            [backend : {"sqlite"}, filename : {name}, memory : BOOLEAN, create : BOOLEAN,
             readOnly : BOOLEAN, wal : {FALSE}, busyTimeout : Nat]
    <2>1. \A name : NewSqlite(name) \in Shape(name)
        BY DEF NewSqlite
    <2>2. InMemory \in Shape(":memory:")
        <3> HIDE DEF Shape
        <3>1. NewSqlite(":memory:") \in Shape(":memory:")
            BY <2>1
        <3> QED BY <3>1 DEF InMemory, Shape
    <2>3. CASE path = ":memory:"
        BY <2>2, <2>3
    <2>4. CASE path # ":memory:"
        BY <2>1, <2>4
    <2> QED BY <2>3, <2>4
<1> HIDE DEF base
<1>5. p.backend = "sqlite" /\ p.filename = path /\ p.wal = FALSE /\ p.create = (mode = "rwc")
    BY <1>4
<1> QED BY <1>1, <1>2, <1>3, <1>5

Written == {"host", "port", "database", "username", "password", "application", "tls"}

(* What a PostgreSQL URL asks for. *)
LEMMA PostgresUrlAsks ==
    ASSUME NEW url, NEW o \in PostgresUrl(url), \A i \in DOMAIN url.query : url.query[i][2] # "inherited",
           "inherited" \notin {url.host, url.port, url.database, url.username}
    PROVE  /\ o.backend = "postgres" /\ Unique(url.query)
           /\ \A f \in Written : o[f] # "inherited"
           /\ o.rootCert # "inherited"
           /\ o.tls # "verify-full" => Given(url.query, "sslmode") = {o.tls}
           /\ o.rootCert # "none" => Given(url.query, "sslrootcert") = {o.rootCert}
<1> DEFINE tls == ValueOr(url.query, "sslmode", "verify-full")
           cert == ValueOr(url.query, "sslrootcert", "none")
           name == ValueOr(url.query, "application_name", "sqly")
           host == Decoded(url.host)
<1>1. Unique(url.query)
    BY DEF PostgresUrl
<1>2. o = [backend |-> "postgres", host |-> host, port |-> url.port, database |-> url.database,
           username |-> url.username, password |-> Empty, tls |-> tls, rootCert |-> cert, application |-> name]
    BY DEF PostgresUrl, NewPostgres
<1>3. host # "inherited"
    BY DecodedText
<1>4. tls # "inherited" /\ (tls # "verify-full" => Given(url.query, "sslmode") = {tls})
    BY <1>1, GivenOnce
<1>5. cert # "inherited" /\ (cert # "none" => Given(url.query, "sslrootcert") = {cert})
    BY <1>1, GivenOnce
<1>6. name # "inherited"
    BY <1>1, GivenOnce
<1> HIDE DEF tls, cert, name, host
<1> QED BY <1>1, <1>2, <1>3, <1>4, <1>5, <1>6, EmptyText DEF Written

(* What the driver is given for a PostgreSQL connection. *)
LEMMA PostgresSettingsOf ==
    ASSUME NEW r, NEW o, r.env \cap Unclearable = {}, \A f \in Written : o[f] # "inherited", o.rootCert # "inherited"
    PROVE  LET s == PostgresSettings(r, o)
           IN  /\ s.backend = "postgres" /\ s.tls = o.tls /\ s.rootCert = o.rootCert
               /\ \A f \in DOMAIN PgField : s[f] # "inherited"
<1> DEFINE s == PostgresSettings(r, o)
<1>1. DOMAIN PgField = Written \cup {"rootCert", "clientCert", "clientKey", "options"}
    BY DEF PgField, Written
<1>2. \A f \in {"rootCert", "clientCert", "clientKey", "options"} : Inherited(r)[f] = "none"
    BY DEF Inherited, PgField, Unclearable
<1>3. s.backend = "postgres"
    BY DEF PostgresSettings
<1>4. s.rootCert = o.rootCert
    BY <1>1, <1>2 DEF PostgresSettings
<1>5. \A f \in {"clientCert", "clientKey", "options"} : s[f] = "none"
    BY <1>1, <1>2 DEF PostgresSettings
<1>6. \A f \in Written : s[f] = o[f]
    BY <1>1 DEF PostgresSettings, Written
<1> HIDE DEF s
<1>7. \A f \in DOMAIN PgField : s[f] # "inherited"
    BY <1>1, <1>4, <1>5, <1>6
<1>8. s.tls = o.tls
    BY <1>6 DEF Written
<1> QED BY <1>3, <1>4, <1>7, <1>8 DEF s

(* A connection is opened with what was asked for, whatever the URL, the    *)
(* options, the builder and the environment (options.rs,                    *)
(* DatabaseBuilder::connect).                                               *)
THEOREM AskedFor == Spec => []NothingImplicit
<1>1. Init => SettingsInv
    BY DEF Init, SettingsInv
<1>2. IInv /\ SettingsInv => NothingImplicit
    <2> SUFFICES ASSUME IInv, SettingsInv, NEW r \in request, NEW s \in settings
                 PROVE  LET query == IF r.url THEN r.options.query ELSE <<>>
                            Asked(key, field) == IF r.url THEN Given(query, key) ELSE {r.options[field]}
                        IN  /\ Unique(query)
                            /\ IF s.backend = "sqlite"
                               THEN /\ s.create => IF r.url THEN Given(query, "mode") = {"rwc"} ELSE r.options.create
                                    /\ s.wal => ~r.url /\ r.options.wal
                                    /\ s.memory <=> s.name = "private"
                                    /\ s.memory => s.connections = 1 /\ ~s.create /\ ~s.wal /\ ~s.readOnly
                               ELSE /\ \A f \in DOMAIN PgField : s[f] # "inherited"
                                    /\ s.tls # "verify-full" => Asked("sslmode", "tls") = {s.tls}
                                    /\ s.rootCert # "none" => Asked("sslrootcert", "rootCert") = {s.rootCert}
        BY DEF NothingImplicit
    <2> DEFINE query == IF r.url THEN r.options.query ELSE <<>>
    <2>1. r \in Request /\ s \in Settings(r) /\ r.url \in BOOLEAN
        BY RequestAssumption DEF SettingsInv, IInv
    <2>2. CASE \E o \in TryInto(r) : /\ o.backend = "sqlite" /\ ValidSqlite(o) /\ s = SqliteSettings(r, o)
        <3>1. PICK o \in TryInto(r) : o.backend = "sqlite" /\ ValidSqlite(o) /\ s = SqliteSettings(r, o)
            BY <2>2
        <3>2. /\ s.backend = "sqlite" /\ s.name = (IF o.memory THEN "private" ELSE o.filename)
              /\ s.memory = o.memory /\ s.create = o.create /\ s.wal = o.wal /\ s.readOnly = o.readOnly
              /\ s.connections = (IF o.memory THEN 1 ELSE Size(r, 5))
            BY <3>1 DEF SqliteSettings
        <3>3. o.memory => ~o.create /\ ~o.wal /\ ~o.readOnly
            BY <3>1 DEF ValidSqlite
        <3>4. CASE r.url
            <4>1. o \in FromStr(r.options)
                BY <3>4 DEF TryInto
            <4>2. r.options.scheme = "sqlite" /\ r.options.path # "private" /\ o \in SqliteUrl(r.options)
                <5>1. r.options.scheme # "postgres"
                    <6> SUFFICES ASSUME r.options.scheme = "postgres"
                                 PROVE  FALSE
                        OBVIOUS
                    <6>1. o \in PostgresUrl(r.options)
                        BY <4>1 DEF FromStr
                    <6>2. o.backend = "postgres"
                        BY <2>1, <3>4, <6>1, PostgresUrlAsks, RequestAssumption
                    <6> QED BY <3>1, <6>2
                <5> QED BY <2>1, <3>4, <4>1, <5>1, RequestAssumption DEF FromStr
            <4>3. /\ Unique(r.options.query) /\ ~o.wal /\ o.filename # "private"
                  /\ o.create => Given(r.options.query, "mode") = {"rwc"}
                BY <4>2, SqliteUrlAsks
            <4> QED BY <3>2, <3>3, <3>4, <4>3
        <3>5. CASE ~r.url
            <4>1. o = r.options /\ Unique(query) /\ o.filename # "private"
                BY <2>1, <3>1, <3>5, RequestAssumption DEF TryInto, Unique
            <4> QED BY <3>2, <3>3, <3>5, <4>1
        <3> QED BY <2>1, <3>4, <3>5
    <2>3. CASE \E o \in TryInto(r) : /\ o.backend = "postgres" /\ r.env \cap Unclearable = {}
                                     /\ s = PostgresSettings(r, o)
        <3>1. PICK o \in TryInto(r) : /\ o.backend = "postgres" /\ r.env \cap Unclearable = {}
                                      /\ s = PostgresSettings(r, o)
            BY <2>3
        <3>2. CASE r.url
            <4>1. o \in FromStr(r.options)
                BY <3>2 DEF TryInto
            <4>2. o \in PostgresUrl(r.options) /\ r.options.scheme = "postgres"
                <5>1. r.options.scheme # "sqlite"
                    <6> SUFFICES ASSUME r.options.scheme = "sqlite"
                                 PROVE  FALSE
                        OBVIOUS
                    <6>1. o \in SqliteUrl(r.options) /\ r.options.path # "private"
                        BY <2>1, <3>2, <4>1, RequestAssumption DEF FromStr
                    <6> QED BY <3>1, <6>1, SqliteUrlAsks
                <5> QED BY <4>1, <5>1 DEF FromStr
            <4>3. /\ Unique(r.options.query) /\ (\A f \in Written : o[f] # "inherited") /\ o.rootCert # "inherited"
                  /\ o.tls # "verify-full" => Given(r.options.query, "sslmode") = {o.tls}
                  /\ o.rootCert # "none" => Given(r.options.query, "sslrootcert") = {o.rootCert}
                BY <2>1, <3>2, <4>2, PostgresUrlAsks, RequestAssumption
            <4>4. /\ s.backend = "postgres" /\ s.tls = o.tls /\ s.rootCert = o.rootCert
                  /\ \A f \in DOMAIN PgField : s[f] # "inherited"
                BY <3>1, <4>3, PostgresSettingsOf
            <4> QED BY <3>2, <4>3, <4>4
        <3>3. CASE ~r.url
            <4>1. o = r.options /\ Unique(query)
                BY <3>3 DEF TryInto, Unique
            <4>2. (\A f \in Written : o[f] # "inherited") /\ o.rootCert # "inherited"
                BY <2>1, <3>1, <3>3, <4>1, RequestAssumption DEF Written
            <4>3. /\ s.backend = "postgres" /\ s.tls = o.tls /\ s.rootCert = o.rootCert
                  /\ \A f \in DOMAIN PgField : s[f] # "inherited"
                BY <3>1, <4>2, PostgresSettingsOf
            <4> QED BY <3>3, <4>1, <4>3
        <3> QED BY <2>1, <3>2, <3>3
    <2> QED BY <2>1, <2>2, <2>3 DEF Settings
<1> QED BY <1>1, <1>2, SettingsStep, DatabaseInvariant, PTL DEF Spec

=============================================================================
