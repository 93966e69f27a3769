------------------------------ MODULE Migrate ------------------------------
(***************************************************************************)
(* Concurrent calls of Migrator::run (src/migrate.rs) over one database:    *)
(* the ledger _sqly_migrations, the locks that serialise the runners, the   *)
(* adoption of a legacy ledger and the pending batch.                       *)
(*                                                                          *)
(* A run is one call of Migrator::run with its own connection; a retry is   *)
(* another run.  A migration's description and checksum are one value, its  *)
(* definition.  What module Transaction shows of a transaction (a rollback, *)
(* a drop or a lost connection leaves nothing behind, a lost answer to      *)
(* COMMIT leaves the outcome open) is taken here as the transaction's       *)
(* behaviour.                                                               *)
(***************************************************************************)
EXTENDS Integers, FiniteSets, Sequences, SequencesExt, FiniteSetsExt

CONSTANTS Run,        \* calls of Migrator::run
          Namespace,
          Migrators,  \* the Migrator values the application builds
          Tables      \* by namespace, the rows that its ledgers may hold at the start

\* An applied_at: empty, the CURRENT_TIMESTAMP of a run, or an older one.
Stamp == {"", "now", "old"}
Migration == [version : Int, definition : STRING]
LedgerRow == [version : Int, definition : STRING, at : Stamp]

\* Rows in the order of their versions, each of which occurs once.
Ascending(list) == \A i, j \in DOMAIN list : i < j => list[i].version < list[j].version

\* A Migrator: namespace, migrations, target, minimum and whether it adopts.
ASSUME MigratorAssumption ==
    \A m \in Migrators :
        /\ m.namespace \in Namespace /\ m.list \in Seq(Migration)
        /\ m.target \in Int /\ m.minimum \in Int /\ m.adopts \in BOOLEAN

\* A ledger's primary key is the version.
ASSUME TableAssumption ==
    \A n \in Namespace : \A t \in Tables[n] : t \in Seq(LedgerRow) /\ Ascending(t)

Row(m, at) == [version |-> m.version, definition |-> m.definition, at |-> at]
Script(row) == [version |-> row.version, definition |-> row.definition]
Scripts(rows) == [i \in DOMAIN rows |-> Script(rows[i])]

(***************************************************************************)
(* Migrator::try_new and Migrator::with_compatibility: the definitions that *)
(* are refused before any I/O.                                              *)
(***************************************************************************)
Ordered(list) ==
    /\ list # <<>> => list[1].version > 0
    /\ \A i \in 1..(Len(list) - 1) : list[i].version < list[i + 1].version

Compatible(m) ==
    /\ 0 <= m.minimum /\ m.minimum <= m.target
    /\ m.target # 0 => \E i \in DOMAIN m.list : m.list[i].version = m.target

\* A validation that leaves the definitions uncompared.
RowFaultVersionOnly(m, rows, i) ==
    IF i > Len(m.list) THEN "unknown_version"
    ELSE IF rows[i].version # m.list[i].version THEN "version_mismatch" ELSE "none"

(***************************************************************************)
(* Migrator::validate: the first fault of a ledger, or "none".              *)
(***************************************************************************)
Applied(rows) == IF rows = <<>> THEN 0 ELSE Last(rows).version

RowFault(m, rows, i) ==
    CASE i > Len(m.list) -> "unknown_version"
      [] i <= Len(m.list) /\ rows[i].version # m.list[i].version -> "version_mismatch"
      [] i <= Len(m.list) /\ rows[i].version = m.list[i].version
           /\ rows[i].definition # m.list[i].definition -> "definition_mismatch"
      [] i <= Len(m.list) /\ Script(rows[i]) = m.list[i] /\ rows[i].at = "" -> "applied_at"
      [] OTHER -> "none"

Fault(m, rows) ==
    LET faulty == {i \in DOMAIN rows : RowFault(m, rows, i) # "none"}
    IN  IF Applied(rows) > m.target THEN "newer"
        ELSE IF faulty = {} THEN "none" ELSE RowFault(m, rows, Min(faulty))

Refusal == {"newer", "unknown_version", "version_mismatch", "definition_mismatch",
            "applied_at", "conflict", "too_old"}

(***************************************************************************)
(* advisory_key: SHA-256 of a prefix and the namespace.  Two namespaces     *)
(* with the same key would only wait for each other more often.  SQLite has *)
(* one writer.                                                              *)
(***************************************************************************)
AdvisoryKey(prefix, ns) == <<prefix, ns>>
LedgerKey == AdvisoryKey("ledger", "")
WriterKey == <<"writer", "">>
Key == {LedgerKey, WriterKey} \cup {AdvisoryKey("namespace", n) : n \in Namespace}

VARIABLES
    postgres,  \* Transaction::is_postgres; otherwise the database is SQLite
    migrator,  \* the Migrator of each run
    at,        \* where each run is
    rows,      \* apply's local rows: the ledger as read, and what adoption added
    holds,     \* the locks of each run's database session
    created,   \* the session's uncommitted CREATE TABLE
    inserted,  \* its uncommitted ledger rows, in order
    executed,  \* its uncommitted scripts, in order
    result,    \* what the caller of run is told
    table,     \* _sqly_migrations exists
    ledger,    \* its committed rows, by namespace
    legacy,    \* the legacy table of each namespace; <<>> when it is missing or empty
    history,   \* ghost: the scripts that took effect, by namespace
    authors    \* ghost: the runs whose rows or scripts are durable

config  == <<postgres, migrator>>
session == <<holds, created, inserted, executed>>
store   == <<table, ledger, legacy, history, authors>>
vars == <<config, at, rows, session, result, store>>

Place == {"new", "begun", "keyed", "locked", "read", "adopt", "copy", "script", "record",
          "commit", "abort", "answer", "orphan", "adrift", "end"}

Result == {"none", "ok", "database", "unknown", "dropped", "collision"} \cup Refusal

TypeOK ==
    /\ postgres \in BOOLEAN /\ table \in BOOLEAN
    /\ migrator \in [Run -> Migrators]
    /\ at \in [Run -> Place] /\ result \in [Run -> Result]
    /\ \A r \in Run : result[r] # "none" <=> at[r] \in {"abort", "orphan", "adrift", "end"}
    /\ holds \in [Run -> SUBSET Key] /\ created \in [Run -> BOOLEAN]
    /\ rows \in [Run -> Seq(LedgerRow)] /\ inserted \in [Run -> Seq(LedgerRow)]
    /\ executed \in [Run -> Seq(Migration)]
    /\ ledger \in [Namespace -> SUBSET LedgerRow] /\ legacy \in [Namespace -> Seq(LedgerRow)]
    /\ history \in [Namespace -> Seq(Migration)] /\ authors \subseteq Run

\* The scripts that the ledger and the legacy ledger tell of, in order.
ByVersion(set) == CHOOSE list \in [1..Cardinality(set) -> set] : Ascending(list)
Now(n) == Scripts(ByVersion(ledger[n]))
Old(n) == Scripts(legacy[n])
Longer(s, t) == IF Len(t) > Len(s) THEN t ELSE s

Init ==
    /\ postgres \in BOOLEAN
    /\ migrator \in [Run -> {m \in Migrators : Ordered(m.list) /\ Compatible(m)}]
    /\ ledger \in [Namespace -> UNION {{ToSet(t) : t \in Tables[n]} : n \in Namespace}]
    /\ legacy \in [Namespace -> UNION {Tables[n] : n \in Namespace}]
    /\ \A n \in Namespace : legacy[n] \in Tables[n] /\ \E t \in Tables[n] : ledger[n] = ToSet(t)
    /\ table \in BOOLEAN /\ ((\E n \in Namespace : ledger[n] # {}) => table)
    /\ at = [r \in Run |-> "new"] /\ rows = [r \in Run |-> <<>>]
    /\ holds = [r \in Run |-> {}] /\ created = [r \in Run |-> FALSE]
    /\ inserted = [r \in Run |-> <<>>] /\ executed = [r \in Run |-> <<>>]
    /\ result = [r \in Run |-> "none"]
    \* Both ledgers tell of the same past, one perhaps less of it, and a past
    \* that the ledger does not tell is adopted by every run of its namespace.
    /\ history = [n \in Namespace |-> Longer(Now(n), Old(n))] /\ authors = {}
    /\ \A n \in Namespace :
         /\ IsPrefix(Now(n), Longer(Now(n), Old(n))) /\ IsPrefix(Old(n), Longer(Now(n), Old(n)))
         /\ Len(Old(n)) > Len(Now(n)) =>
              \A r \in Run : migrator[r].namespace = n => migrator[r].adopts

Goto(r, place) == at' = [at EXCEPT ![r] = place]
Tell(r, what) == result' = [result EXCEPT ![r] = what]
Free(key) == \A q \in Run : key \notin holds[q]
\* A lock that its holders share.
AcquireShared(r, key) == holds' = [holds EXCEPT ![r] = @ \cup {key}]

Acquire(r, key) == Free(key) /\ holds' = [holds EXCEPT ![r] = @ \cup {key}]

\* What the session loses when its transaction ends.
EndSession(r) ==
    /\ holds' = [holds EXCEPT ![r] = {}]
    /\ created' = [created EXCEPT ![r] = FALSE]
    /\ inserted' = [inserted EXCEPT ![r] = <<>>]
    /\ executed' = [executed EXCEPT ![r] = <<>>]

\* The run is refused: run rolls back before it returns the error.
Refuse(r, what) == Goto(r, "abort") /\ Tell(r, what)

(***************************************************************************)
(* begin_write: SQLite reserves its writer with BEGIN IMMEDIATE, PostgreSQL *)
(* begins at READ COMMITTED, so that every statement sees what was          *)
(* committed before it.                                                     *)
(***************************************************************************)
BeginImmediate(r) ==
    /\ at[r] = "new" /\ ~postgres
    /\ Acquire(r, WriterKey) /\ Goto(r, "locked")
    /\ UNCHANGED <<config, rows, created, inserted, executed, result, store>>

BeginReadCommitted(r) ==
    /\ at[r] = "new" /\ postgres
    /\ Goto(r, "begun")
    /\ UNCHANGED <<config, rows, session, result, store>>

\* The pool or BEGIN fails (no connection, busy timeout): nothing has happened.
BeginFails(r) ==
    /\ at[r] = "new"
    /\ Goto(r, "end") /\ Tell(r, "database")
    /\ UNCHANGED <<config, rows, session, store>>

\* A runner that takes the namespace's key only.
LockLedgerSkipped(r) ==
    /\ at[r] = "begun" /\ Goto(r, "keyed")
    /\ UNCHANGED <<config, rows, session, result, store>>

\* pg_advisory_xact_lock on the common key, then on the namespace's.
LockLedger(r) ==
    /\ at[r] = "begun"
    /\ Acquire(r, LedgerKey) /\ Goto(r, "keyed")
    /\ UNCHANGED <<config, rows, created, inserted, executed, result, store>>

LockNamespace(r) ==
    /\ at[r] = "keyed"
    /\ Acquire(r, AdvisoryKey("namespace", migrator[r].namespace)) /\ Goto(r, "locked")
    /\ UNCHANGED <<config, rows, created, inserted, executed, result, store>>

(***************************************************************************)
(* CREATE TABLE IF NOT EXISTS.  IF NOT EXISTS does not see another          *)
(* session's uncommitted table, and PostgreSQL's catalog then refuses the   *)
(* second one.                                                              *)
(***************************************************************************)
CreateLedger(r) ==
    /\ at[r] = "locked"
    /\ IF ~table /\ \E q \in Run \ {r} : created[q]
       THEN Refuse(r, "collision") /\ UNCHANGED created
       ELSE created' = [created EXCEPT ![r] = ~table] /\ Goto(r, "read") /\ UNCHANGED result
    /\ UNCHANGED <<config, rows, holds, inserted, executed, store>>

\* SELECT ... ORDER BY version, and validate.
ReadLedger(r) ==
    /\ at[r] = "read"
    /\ LET read  == ByVersion(ledger[migrator[r].namespace])
           fault == Fault(migrator[r], read)
       IN  /\ rows' = [rows EXCEPT ![r] = read]
           /\ IF fault = "none" THEN Goto(r, "adopt") /\ UNCHANGED result ELSE Refuse(r, fault)
    /\ UNCHANGED <<config, session, store>>

\* The rows of the legacy table, which nobody writes any more.  A missing
\* table and an empty one both have none.
Source(r) == IF migrator[r].adopts THEN legacy[migrator[r].namespace] ELSE <<>>

\* The legacy table is read and validated, and where both ledgers have a row
\* they have the same.
Adopt(r) ==
    /\ at[r] = "adopt"
    /\ LET fault   == Fault(migrator[r], Source(r))
           shared  == DOMAIN Source(r) \cap DOMAIN rows[r]
           refusal == IF fault # "none" THEN fault
                      ELSE IF \E i \in shared : Source(r)[i] # rows[r][i] THEN "conflict" ELSE "none"
       IN  IF refusal = "none" THEN Goto(r, "copy") /\ UNCHANGED result ELSE Refuse(r, refusal)
    /\ UNCHANGED <<config, rows, session, store>>

\* PRIMARY KEY (namespace, version): an INSERT of a key that the table, or an
\* open transaction that commits, already holds is refused.
Collides(r, row) ==
    LET n     == migrator[r].namespace
        taken == ledger[n] \cup UNION {ToSet(inserted[q]) : q \in {p \in Run : migrator[p].namespace = n}}
    IN  \E other \in taken : other.version = row.version

\* The INSERT of the next row that only the legacy table has.
CopyRow(r) ==
    /\ at[r] = "copy" /\ Len(rows[r]) < Len(Source(r))
    /\ LET row == Source(r)[Len(rows[r]) + 1]
       IN  IF Collides(r, row)
           THEN Refuse(r, "collision") /\ UNCHANGED <<rows, inserted>>
           ELSE /\ rows' = [rows EXCEPT ![r] = Append(@, row)]
                /\ inserted' = [inserted EXCEPT ![r] = Append(@, row)]
                /\ UNCHANGED <<at, result>>
    /\ UNCHANGED <<config, holds, created, executed, store>>

\* The check of the minimum, after the adopted rows are in.
CheckMinimum(r) ==
    /\ at[r] = "copy" /\ Len(rows[r]) >= Len(Source(r))
    /\ IF Applied(rows[r]) > 0 /\ Applied(rows[r]) < migrator[r].minimum
       THEN Refuse(r, "too_old")
       ELSE Goto(r, "script") /\ UNCHANGED result
    /\ UNCHANGED <<config, rows, session, store>>

\* The same with an exclusive target.
PendingBelow(m, count) ==
    LET beyond == {i \in (count + 1)..Len(m.list) : m.list[i].version >= m.target}
    IN  SubSeq(m.list, count + 1, Min(beyond \cup {Len(m.list) + 1}) - 1)

\* .iter().skip(rows.len()).take_while(|m| m.version <= self.target)
Pending(m, count) ==
    LET beyond == {i \in (count + 1)..Len(m.list) : m.list[i].version > m.target}
    IN  SubSeq(m.list, count + 1, Min(beyond \cup {Len(m.list) + 1}) - 1)

\* tx.batch(migration.sql) of the next pending migration, if there is one.
RunScript(r) ==
    /\ at[r] = "script"
    /\ LET pending == Pending(migrator[r], Len(rows[r]))
           done    == Len(executed[r])
       IN  IF done < Len(pending)
           THEN executed' = [executed EXCEPT ![r] = Append(@, pending[done + 1])] /\ Goto(r, "record")
           ELSE Goto(r, "commit") /\ UNCHANGED executed
    /\ UNCHANGED <<config, rows, holds, created, inserted, result, store>>

\* The INSERT of its ledger row.
Record(r) ==
    /\ at[r] = "record"
    /\ LET row == Row(Last(executed[r]), "now")
       IN  IF Collides(r, row)
           THEN Refuse(r, "collision") /\ UNCHANGED inserted
           ELSE inserted' = [inserted EXCEPT ![r] = Append(@, row)] /\ Goto(r, "script") /\ UNCHANGED result
    /\ UNCHANGED <<config, rows, holds, created, executed, store>>

\* Any statement of apply fails (a bad script, a lock timeout, a lost
\* connection): the error travels to run, which rolls back.
StatementFails(r) ==
    /\ at[r] \in {"begun", "keyed", "locked", "read", "adopt", "copy", "script", "record"}
    /\ Refuse(r, "database")
    /\ UNCHANGED <<config, rows, session, store>>

(***************************************************************************)
(* The end of the transaction.                                              *)
(***************************************************************************)
\* What the server makes durable when a COMMIT reaches it.
MakeDurable(r) ==
    LET n == migrator[r].namespace
    IN  /\ table' = (table \/ created[r])
        /\ ledger' = [ledger EXCEPT ![n] = @ \cup ToSet(inserted[r])]
        /\ history' = [history EXCEPT ![n] = @ \o executed[r]]
        /\ authors' = IF inserted[r] = <<>> /\ executed[r] = <<>> THEN authors ELSE authors \cup {r}
        /\ EndSession(r)
        /\ UNCHANGED legacy

\* A run that commits although apply failed.
RollbackCommitting(r) ==
    /\ at[r] = "abort" /\ Goto(r, "end") /\ MakeDurable(r)
    /\ UNCHANGED <<config, rows, result>>

\* A run that leaves the failed transaction open.
RollbackForgotten(r) ==
    /\ at[r] = "abort" /\ Goto(r, "end")
    /\ UNCHANGED <<config, rows, session, result, store>>

\* run's match on Err: tx.rollback().await, whose own failure is ignored
\* (the session then ends when the server notices the lost connection).
Rollback(r) ==
    /\ at[r] = "abort"
    /\ \/ EndSession(r) /\ Goto(r, "end")
       \/ Goto(r, "orphan") /\ UNCHANGED session
    /\ UNCHANGED <<config, rows, result, store>>

Commit(r) ==
    /\ at[r] \in {"commit", "adrift"}
    /\ MakeDurable(r)
    /\ Goto(r, IF at[r] = "commit" THEN "answer" ELSE "end")
    /\ UNCHANGED <<config, rows, result>>

\* COMMIT is refused and the server rolls back.
CommitFails(r) ==
    /\ at[r] = "commit"
    /\ EndSession(r) /\ Goto(r, "end") /\ Tell(r, "database")
    /\ UNCHANGED <<config, rows, store>>

\* The answer to COMMIT arrives.
Answered(r) ==
    /\ at[r] = "answer"
    /\ Goto(r, "end") /\ Tell(r, "ok")
    /\ UNCHANGED <<config, rows, session, store>>

\* The connection breaks while the run waits for that answer.
AnswerLost(r) ==
    /\ at[r] \in {"commit", "answer"}
    /\ Goto(r, IF at[r] = "commit" THEN "adrift" ELSE "end") /\ Tell(r, "unknown")
    /\ UNCHANGED <<config, rows, session, store>>

(***************************************************************************)
(* The future of run is dropped, or the process dies, at an await.  The     *)
(* server ends the session some time later; a COMMIT already on its way may *)
(* still be executed ("adrift").                                            *)
(***************************************************************************)
Dropped(r) ==
    /\ at[r] \notin {"new", "orphan", "adrift", "end"}
    /\ Goto(r, CASE at[r] = "commit" -> "adrift" [] at[r] = "answer" -> "end" [] OTHER -> "orphan")
    /\ result' = [result EXCEPT ![r] = "dropped"]
    /\ UNCHANGED <<config, rows, session, store>>

Reap(r) ==
    /\ at[r] \in {"orphan", "adrift"}
    /\ EndSession(r) /\ Goto(r, "end")
    /\ UNCHANGED <<config, rows, result, store>>

Advance(r) ==
    \/ BeginImmediate(r) \/ BeginReadCommitted(r)
    \/ LockLedger(r) \/ LockNamespace(r)
    \/ CreateLedger(r) \/ ReadLedger(r) \/ Adopt(r) \/ CopyRow(r) \/ CheckMinimum(r)
    \/ RunScript(r) \/ Record(r)
    \/ Rollback(r) \/ Commit(r) \/ Answered(r) \/ Reap(r)

Fails(r) ==
    \/ BeginFails(r) \/ StatementFails(r) \/ CommitFails(r) \/ AnswerLost(r) \/ Dropped(r)

Ended == \A r \in Run : at[r] = "end"

Next == \/ \E r \in Run : Advance(r) \/ Fails(r)
        \/ Ended /\ UNCHANGED vars

Spec == Init /\ [][Next]_vars
FairSpec == Spec /\ \A r \in Run : WF_vars(Advance(r))

(***************************************************************************)
(* Properties                                                               *)
(***************************************************************************)

\* The scripts that took effect in a namespace are the ones the ledger tells
\* (or the legacy ledger, while it tells more), in the same order and each
\* once: across every interleaving of runs, failures, drops and lost answers
\* no script is committed without its row, no row without its script, and no
\* script runs a second time (apply: the batch and its INSERT; run).
LedgerTellsHistory ==
    \A n \in Namespace :
        /\ history[n] = Longer(Now(n), Old(n))
        /\ IsPrefix(Now(n), history[n]) /\ IsPrefix(Old(n), history[n])

\* The ledger begins with what a Migrator asks for.
Migrated(m) ==
    \A i \in DOMAIN m.list :
        m.list[i].version <= m.target =>
            i <= Len(Now(m.namespace)) /\ Now(m.namespace)[i] = m.list[i]

\* A run that reports success leaves a ledger that begins with exactly its own
\* migrations up to its target, definitions included, for good: no other
\* binary's divergent list, target or adoption can undo that (validate, and
\* the skip and take_while of apply's loop).
OkMeansMigrated ==
    \A r \in Run : result[r] = "ok" => Migrated(migrator[r])

\* A run of which anything is durable, one adopted row or one script, did all
\* that it had to, and was not told of a refusal or of a definite failure: the
\* rows it copied before TooOld and the scripts before a bad one are gone (run:
\* "A pending batch and its ledger entries commit together").
WholeBatchOrNothing ==
    \A r \in authors :
        result[r] \in {"none", "ok", "unknown", "dropped"} /\ Migrated(migrator[r])

\* What apply read of the ledger is still what the ledger holds when apply
\* acts on it, statements later: between the SELECT and the COMMIT nobody
\* else's rows appear (the locks are taken before the read and last as long as
\* the transaction).
ReadStaysCurrent ==
    \A r \in Run :
        at[r] \in {"adopt", "copy", "script", "record", "commit"} =>
            ledger[migrator[r].namespace] = ToSet(rows[r]) \ ToSet(inserted[r])

\* No run fails because another one is at work: neither CREATE TABLE nor an
\* INSERT meets another session's (the common key is taken before CREATE TABLE,
\* so that first startups of two namespaces do not collide either).
NoCollision == \A r \in Run : result[r] # "collision"

\* Every run ends, though runs wait for each other's locks and may be dropped
\* while they hold them: a server that ends abandoned sessions is enough.
RunsEnd == \A r \in Run : <>(at[r] = "end")

(***************************************************************************)
(* The inductive invariant that the proofs of the safety properties use.    *)
(***************************************************************************)

\* The lock that a run needs for everything it does to the ledger.
Turn == IF postgres THEN LedgerKey ELSE WriterKey

\* One run at a time has it, from before CREATE TABLE until its session ends,
\* and a run has written nothing before the adoption.
Placed(r) ==
    /\ \/ at[r] \in {"keyed", "locked", "read", "adopt", "copy", "script", "record", "commit", "adrift"}
       \/ created[r] \/ inserted[r] # <<>> \/ executed[r] # <<>>
       => Turn \in holds[r]
    /\ at[r] = "begun" => postgres
    /\ at[r] \in {"new", "begun", "keyed", "locked", "read", "adopt"} => inserted[r] = <<>>
    /\ at[r] \in {"new", "begun", "keyed", "locked", "read", "adopt", "copy"} => executed[r] = <<>>

LockInv ==
    /\ \A q, r \in Run : q # r => holds[q] \cap holds[r] = {}
    /\ \A r \in Run : Placed(r)

\* Every ledger has a listing, and what it does not tell of is adopted.
LedgerInv ==
    \A n \in Namespace :
        LET list == ByVersion(ledger[n])
        IN  /\ list \in Seq(LedgerRow) /\ Ascending(list) /\ ToSet(list) = ledger[n]
            /\ Len(Old(n)) > Len(Now(n)) =>
                 \A r \in Run : migrator[r].namespace = n => migrator[r].adopts

\* Rows that agree with the Migrator's list.
Follows(m, list) ==
    Len(list) <= Len(m.list) /\ \A i \in 1..Len(list) : Script(list[i]) = m.list[i]

\* The rows that a run writes for the scripts it executed.
Recorded(scripts) == [i \in DOMAIN scripts |-> Row(scripts[i], "now")]

\* What a run with the lock knows of the ledger and of the effects, and what
\* its transaction adds to both: the rest of its rows, which it adopted, and
\* the following migrations of its list.
Works(r) ==
    LET m     == migrator[r]
        list  == ByVersion(ledger[m.namespace])
        count == Len(rows[r]) + Len(executed[r])
        wrote == rows[r] \o Recorded(executed[r])
    IN  /\ at[r] = "adopt" => rows[r] = list /\ Follows(m, rows[r])
        /\ at[r] = "copy" =>
             /\ list \o inserted[r] = rows[r] /\ Follows(m, rows[r]) /\ Follows(m, Source(r))
             /\ \A i \in 1..Len(rows[r]) : i <= Len(Source(r)) => rows[r][i] = Source(r)[i]
             /\ Len(list) = Len(rows[r]) \/ Len(rows[r]) <= Len(Source(r))
        /\ at[r] \in {"script", "record", "commit", "adrift"} =>
             /\ IsPrefix(list, rows[r]) /\ Scripts(rows[r]) = history[m.namespace]
             /\ count <= Len(m.list) /\ Follows(m, wrote)
             /\ list \o inserted[r] = IF at[r] = "record" THEN Front(wrote) ELSE wrote
        /\ at[r] = "record" => executed[r] # <<>>
        /\ at[r] \in {"commit", "adrift"} =>
             \A i \in DOMAIN m.list : m.list[i].version <= m.target => i <= count

WorkInv == \A r \in Run : Ordered(migrator[r].list) /\ Works(r)

\* What is true once a run has committed.
DoneInv ==
    \A r \in Run :
        /\ at[r] = "answer" \/ result[r] = "ok" => Migrated(migrator[r])
        /\ r \in authors =>
             /\ at[r] \in {"answer", "end"} /\ Migrated(migrator[r])
             /\ result[r] \in {"none", "ok", "unknown", "dropped"}
        /\ at[r] = "adrift" => result[r] \in {"unknown", "dropped"}

IInv == TypeOK /\ LockInv /\ LedgerInv /\ LedgerTellsHistory /\ WorkInv /\ DoneInv /\ NoCollision

=============================================================================
