---------------------------- MODULE MCDatabase ----------------------------
(* Database for TLC: the requests a program may make of connect. *)
EXTENDS Database, TLC

Flag == [create : BOOLEAN, readOnly : BOOLEAN, wal : BOOLEAN,
         busyTimeout : {MaxBusy, MaxBusy + 1}]
SqliteOption ==
    {[o EXCEPT !.create = f.create, !.readOnly = f.readOnly, !.wal = f.wal,
               !.busyTimeout = f.busyTimeout] :
        o \in {InMemory} \cup {NewSqlite(path) : path \in {"", "db", ":memory:", "file:db"}},
        f \in Flag}
PostgresOption ==
    {[NewPostgres(host, database, "me") EXCEPT !.tls = tls, !.rootCert = cert] :
        host \in {"", "host", "/sock"}, database \in {"", "db"},
        tls \in {"verify-full", "prefer"}, cert \in {"none", "ca.pem"}}

Pairs(keys, values) == {<< >>} \cup {<<p>> : p \in keys \X values}
                       \cup {<<p, q>> : p, q \in keys \X values}
SqliteUrls ==
    [scheme : {"sqlite"}, fragment : BOOLEAN,
     path : {"", "db", ":memory:", "%3Amemory%3A", "file:db", "%FF"},
     query : Pairs({"mode"}, {"ro", "rw", "rwc", "memory", "yes"})
             \cup {<< <<"cache", "shared">> >>, << <<"mode", "rw">>, <<"cache", "shared">> >>}]
PostgresUrls ==
    [scheme : {"postgres", "mysql"}, fragment : {FALSE}, host : {"none", "host", "%2Fsock"},
     port : {"0", "5432"}, database : {"", "db"}, username : {"me", "%FF"},
     query : {<< <<"sslmode", "verify">> >>, << <<"user", "me">> >>} \cup
             Pairs({"sslmode"}, {"disable", "verify-full"}) \cup Pairs({"sslrootcert"}, {"ca.pem"})
             \cup {<< <<"sslmode", "prefer">>, <<"sslrootcert", "ca.pem">> >>,
                   << <<"application_name", "x">>, <<"sslmode", "require">> >>}]

Make(options, url, max, timeout, env) ==
    [options |-> options, url |-> url, max |-> max, timeout |-> timeout, env |-> env]
Environments == {{}} \cup {{PgField[f]} : f \in DOMAIN PgField}
(* Every way to write the options, with the default builder; a few of them  *)
(* with every builder and environment.                                      *)
MCRequest ==
    {Make(o, FALSE, {}, "ok", {}) : o \in SqliteOption \cup PostgresOption}
    \cup {Make(u, TRUE, {}, "ok", {}) : u \in SqliteUrls \cup PostgresUrls}
    \cup {Make(o, FALSE, max, timeout, env) :
             o \in {InMemory, NewSqlite("db"), NewPostgres("host", "db", "me")},
             max \in {{}, {0}, {1}, {2}}, timeout \in {"ok", "zero", "overflow"},
             env \in Environments}
OneRequest == {Make(InMemory, FALSE, {}, "ok", {})}

Symmetry == Permutations(Pooled) \cup Permutations(Tx) \cup Permutations(Closer)

=============================================================================
