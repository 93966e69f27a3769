------------------------------ MODULE Options ------------------------------
(***************************************************************************)
(* Connection options (src/options.rs) and the driver settings that        *)
(* DatabaseBuilder::connect makes of them (src/database.rs): URL parsing,   *)
(* validation, defaults and the environment that SQLx reads by itself.      *)
(* Every refusal is the one Error::Config, so the order of the checks is    *)
(* not distinguished.  The build has both backends.                         *)
(***************************************************************************)
EXTENDS Naturals, Sequences

CONSTANT MaxBusy    \* i32::MAX, in milliseconds

ASSUME MaxBusyAssumption == MaxBusy \in Nat /\ MaxBusy >= 5000

-----------------------------------------------------------------------------
(* SqliteOptions and PostgresOptions.                                       *)

Empty == ""

NewSqlite(path) ==
    [backend |-> "sqlite", filename |-> path, memory |-> FALSE, create |-> FALSE,
     readOnly |-> FALSE, wal |-> FALSE, busyTimeout |-> 5000]

InMemory == [NewSqlite(":memory:") EXCEPT !.memory = TRUE]

Reserved(name) == name \in {":memory:", "file:db"}

ValidSqlite(o) ==
    /\ o.filename # Empty
    /\ o.memory \/ ~Reserved(o.filename)
    /\ ~(o.memory /\ (o.readOnly \/ o.wal \/ o.create))
    /\ ~(o.readOnly /\ (o.create \/ o.wal))
    /\ o.busyTimeout <= MaxBusy

NewPostgres(host, database, username) ==
    [backend |-> "postgres", host |-> host, port |-> "5432", database |-> database,
     username |-> username, password |-> Empty, tls |-> "verify-full",
     rootCert |-> "none", application |-> "sqly"]

ValidPostgres(o) ==
    o.host # Empty /\ o.database # Empty /\ o.username # Empty /\ o.port # "0"

-----------------------------------------------------------------------------
(* ConnectOptions::from_str.  A URL is split into its parts; a query is a   *)
(* sequence of <<key, value>>.  What is refused is {}, what is accepted the *)
(* set of its options.                                                      *)

(* percent_decode_str and decode_utf8; "%FF" is no UTF-8. *)
Decodable(text) == text # "%FF"
Decoded(text) == CASE text = "%3Amemory%3A" -> ":memory:"
                   [] text = "%2Fsock" -> "/sock"
                   [] OTHER -> text

Keys(query) == {query[i][1] : i \in DOMAIN query}
Given(query, key) == {query[i][2] : i \in {j \in DOMAIN query : query[j][1] = key}}
Unique(query) == \A i, j \in DOMAIN query : query[i][1] = query[j][1] => i = j
(* The value of a key that may be absent. *)
ValueOr(query, key, default) ==
    IF Given(query, key) = {} THEN default ELSE CHOOSE v \in Given(query, key) : TRUE

(* Mutant of SqliteUrl: the rw mode creates the file as well. *)
SqliteUrlCreating(url) ==
    LET path == Decoded(url.path)
        mode == ValueOr(url.query, "mode", "rw")
        base == IF path = ":memory:" THEN InMemory ELSE NewSqlite(path)
        o == [base EXCEPT !.readOnly = (mode = "ro"), !.create = (mode \in {"rw", "rwc"}),
                          !.memory = @ \/ mode = "memory"]
    IN  IF /\ ~url.fragment /\ Decodable(url.path)
           /\ Unique(url.query) /\ Keys(url.query) \subseteq {"mode"}
           /\ mode \in {"ro", "rw", "rwc", "memory"}
           /\ ValidSqlite(o)
        THEN {o} ELSE {}

SqliteUrl(url) ==
    LET path == Decoded(url.path)
        mode == ValueOr(url.query, "mode", "rw")
        base == IF path = ":memory:" THEN InMemory ELSE NewSqlite(path)
        o == [base EXCEPT !.readOnly = (mode = "ro"), !.create = (mode = "rwc"),
                          !.memory = @ \/ mode = "memory"]
    IN  IF /\ ~url.fragment /\ Decodable(url.path)
           /\ Unique(url.query) /\ Keys(url.query) \subseteq {"mode"}
           /\ mode \in {"ro", "rw", "rwc", "memory"}
           /\ ValidSqlite(o)
        THEN {o} ELSE {}

TlsMode == {"verify-full", "verify-ca", "require", "prefer", "allow", "disable"}

PostgresUrl(url) ==
    LET o == [NewPostgres(Decoded(url.host), url.database, url.username)
                EXCEPT !.port = url.port,
                       !.tls = ValueOr(url.query, "sslmode", @),
                       !.rootCert = ValueOr(url.query, "sslrootcert", @),
                       !.application = ValueOr(url.query, "application_name", @)]
    IN  IF /\ ~url.fragment /\ url.host # "none" /\ Decodable(url.username)
           /\ Unique(url.query)
           /\ Keys(url.query) \subseteq {"sslmode", "sslrootcert", "application_name"}
           /\ o.tls \in TlsMode
           /\ ValidPostgres(o)
        THEN {o} ELSE {}

FromStr(url) ==
    CASE url.scheme = "sqlite" -> SqliteUrl(url)
      [] url.scheme = "postgres" -> PostgresUrl(url)
      [] OTHER -> {}

-----------------------------------------------------------------------------
(* DatabaseBuilder::connect up to its first await.  A request is the        *)
(* caller's options (a record, or a URL), the builder and the environment.  *)

TryInto(r) == IF r.url THEN FromStr(r.options) ELSE {r.options}

(* max holds the argument of max_connections, if it was called. *)
BuilderOk(r) == r.max # {0} /\ r.timeout = "ok"
Size(r, default) == IF r.max = {} THEN default ELSE CHOOSE n \in r.max : TRUE

SqliteSettings(r, o) ==
    [backend |-> "sqlite",
     name |-> IF o.memory THEN "private" ELSE o.filename,
     memory |-> o.memory, create |-> o.create, readOnly |-> o.readOnly, wal |-> o.wal,
     foreignKeys |-> TRUE, busyTimeout |-> o.busyTimeout,
     connections |-> IF o.memory THEN 1 ELSE Size(r, 5)]

(* What PgConnectOptions::new_without_pgpass takes from the environment.    *)
PgField == [host |-> "PGHOST", port |-> "PGPORT", database |-> "PGDATABASE",
            username |-> "PGUSER", password |-> "PGPASSWORD", application |-> "PGAPPNAME",
            tls |-> "PGSSLMODE", rootCert |-> "PGSSLROOTCERT", clientCert |-> "PGSSLCERT",
            clientKey |-> "PGSSLKEY", options |-> "PGOPTIONS"]
Inherited(r) ==
    [f \in DOMAIN PgField |-> IF PgField[f] \in r.env THEN "inherited" ELSE "none"]

(* "SQLx has no setters that clear these inherited fields". *)
Unclearable == {"PGOPTIONS", "PGSSLROOTCERT", "PGSSLCERT", "PGSSLKEY"}

PostgresSettings(r, o) ==
    [f \in DOMAIN PgField \cup {"backend", "connections", "socket"} |->
        CASE f = "backend" -> "postgres"
          [] f = "connections" -> Size(r, 5)
          [] f = "socket" -> IF o.host = "/sock" THEN o.host ELSE "none"
          [] f = "rootCert" -> IF o.rootCert = "none" THEN Inherited(r)[f] ELSE o.rootCert
          [] f \in {"clientCert", "clientKey", "options"} -> Inherited(r)[f]
          [] OTHER -> o[f]]

(* The settings of an accepted request, {} when it is refused.              *)
Settings(r) ==
    IF ~BuilderOk(r) THEN {}
    ELSE {SqliteSettings(r, o) : o \in {p \in TryInto(r) :
              /\ p.backend = "sqlite" /\ ValidSqlite(p)
              /\ p.memory => r.max \subseteq {1}}}
         \cup
         {PostgresSettings(r, o) : o \in {p \in TryInto(r) :
              /\ p.backend = "postgres" /\ ValidPostgres(p)
              /\ r.env \cap Unclearable = {}}}

=============================================================================
