# A TLA+ model of sqly

sqly is an async SQL layer over sqlx for SQLite and PostgreSQL: a pool with checked
leases, explicit write transactions, ambient (task-local) write scopes, row streams,
row locks and migrations. Its hard part is not the SQL. Every await of the library is
a place where the caller may drop the future, while the other end (a PostgreSQL
backend, or the worker thread of a SQLite connection) goes on executing. The modules
here model that and check what callers are promised.

Line references are to files under `src/` of the repository.

## Inventory

| component | state | operations | interacts with | what makes it correct |
|---|---|---|---|---|
| `transaction.rs` | connection, `aborted`, `finished` | begin, run_statement, rows, batch, lock, commit, rollback, drop | a pool connection, `Database::check_lease` | all or nothing, honest outcomes, rollback-only after failure or cancellation, nothing unclean returned to the pool |
| `driver.rs` | `Lease.reusable`, SQLite progress handler, savepoint | sqlite/postgres execute and rows, prepare, argument encoding | pool, server | reuse only after success; an abandoned statement's interruption never hits another; what is bound is what arrives |
| `database.rs` | pool, `Keeper{connection, lost}` | connect, check, check_lease, begin_write, close, drop of the last handle | every caller | the keeper is closed last and not kept for ever; loss is reported and never papered over |
| `options.rs` | none | validation, URL parsing | connect, the environment | nothing is opened, created or weakened that nobody asked for |
| `query.rs`, `mapped.rs` | bound values, first error | bind, run, fetch_*, execute | database, transaction or scope | check before acquire; the first bad value is reported before any I/O |
| `stream.rs` | current cursor | poll, drop | as above | early drop abandons the statement |
| `scoped.rs` | `closed`, transaction mutex, serial mutex, cursor and operation slots | write, write_locking, run, lock, rows, teardown | transaction | no commit past an abandoned future; teardown never waits for application futures |
| `migrate.rs` | ledger table, advisory locks | run, apply, validate, adopt_legacy | transaction | a ledger row exactly when its script is committed |
| `value.rs`, `row.rs` | none | encode, decode, validate | driver, query | a value comes back as it was bound, or as an error |
| `lock.rs` | table, keys, first error | row, key, statement | transaction | one row, by a complete key |
| `error.rs`, `sql.rs` | none | classification, static SQL | all | a commit error is definite only if the commit was refused |
| `consumers/warehouse` | two tables | reserve, report | scope, row lock | stock is never oversold, a reservation and its stock are one step |

Hard behaviours: cancellation at every await; statements that outlive their caller;
lost COMMIT acknowledgements; SQLite's automatic rollback and PostgreSQL's failed
sessions; one SQLite writer; connections that break; two mutexes, two slots and
futures that outlive an ambient scope; close racing with checks; a keeper that must
outlive tasks nobody awaits; stock read before it is taken; values at the edges of what
a backend stores. `PROJECT.json` lists
them as hazards, at the line where each bites.

## Modules

* `Transaction` - explicit transactions and pooled leases over the connections of one
  pool. A caller is in `Tx` or in `Pooled`. `at` says where its future is suspended
  (`check`: in `check_lease`; `handle`: waiting for the connection, that is for
  `lock_handle` or for an earlier command; `wait`: for the answer), `op` in which
  operation. `RunStatement`, `Commit`, `Rollback` run up to the first await,
  `CheckLease`, `Send`, `Begun`, `Answered`, `Ended`, `LeaseEnded` from one await to
  the next, `CancelStatement` and `CancelOwner` drop the future at any of them. The
  other end of a connection (`session`, `request`, `payload`, `reply`, `work`) is
  external; `Serve*` executes one command, also when nobody waits for it any more.
  A statement is reduced to the write it makes. SQLite's progress handler is
  `handler`. A PostgreSQL statement with its SAVEPOINT and probe is one command whose
  outcome may be "no effect, session intact" (`ServeBindCount`); see `Prepare`.
* `AtomicTx` - the promise to callers without connections or futures: acknowledged
  writes become durable in one step or never, at most once, never after a negative
  answer. `Transaction` implements it (`ImplementsAtomicTx`).
* `TransactionProofs`, `PromiseProofs` - the TLAPS proofs about `Transaction`: its
  invariant, and that it implements `AtomicTx`.
* `Options` - what a program may ask `connect` for and the driver settings that come of
  it: both option types with their validation, `ConnectOptions::from_str` over URLs that
  are split into parts, the builder's checks, and the PostgreSQL fields that SQLx takes
  from the environment. A path, host or value is a token, and every refusal is the one
  `Error::Config`.
* `Database` - extends `Options`: the lifetime of an in-memory SQLite database. `phase`
  follows `connect` (`Connect`, `OpenKeeper`, `OpenPool`, `CancelConnect`); then `check`
  and `Keeper::check` are split at each atomic read, mutex wait and ping, `close` at its
  three awaits; leases of a pool of one connection are given back through tasks of the
  pool (`Released`, `ConnClosed`); every future can be dropped, and so can the last handle
  (`DropDatabase`). `Retained` says who owns the keeper: the handles, the transactions, and
  through the `after_release` hook the leases and tasks of the pool. The survival of the
  shared in-memory data (`Survives`) is external. A request for another backend is
  followed to its settings.
* `DatabaseProofs` - the TLAPS proofs about `Database` and `Options`.
* `Scope` - one ambient write scope. `phase` follows `enter`; `txQ` and `serialQ` are
  the two tokio mutexes (holder first, then waiters in FIFO order); `operation` and
  `cursor` are the slots that own the inner futures; `at` is the outer future. Every
  poll is a step, inside this scope or elsewhere. The transaction inside is reduced to
  its flag `aborted` and the effects of its statements (`work`, `acked`, `broken`,
  `durable`), which is what `Transaction` proves about it.
* `ScopeProofs` - the TLAPS proofs about `Scope`.
* `Migrate` - concurrent calls of `Migrator::run` over one database. A run is one call
  with its own session; a retry is another run. `at` follows `run` and `apply` from
  await to await; `holds`, `created`, `inserted`, `executed` are what the session holds
  uncommitted; `ledger` is the set of committed rows. `Adopt` reads and compares the legacy
  ledger, `CopyRow` is the INSERT of one of its rows, and `CheckMinimum` comes after them,
  so that a run may find itself `TooOld`, fail or be dropped with adopted rows in its
  session. `history` is a ghost of the scripts that took effect, `authors` one of the runs
  that made anything durable. A migration's description and checksum are one value. Failures,
  drops and lost answers may come at every await; that an ended or lost transaction
  leaves nothing is what `Transaction` shows. Initially the two ledgers tell of the same
  past, and a past only the legacy ledger knows is adopted by every run of the namespace
  (README.md:111: old runners are stopped first).
* `MigrateProofs` - the TLAPS proofs about `Migrate`.
* `Prepare` - what `postgres_execute` sends for one statement: SAVEPOINT, preparation
  with all type hints, probes with fewer, ROLLBACK TO, RELEASE, execution. `Transaction`
  takes the sequence as one command; `SessionIntact` is why it may. A statement is the
  number of its parameters and the hint counts with which the server can resolve it.
* `PrepareProofs` - the TLAPS proofs about `Prepare`.
* `Warehouse` - concurrent calls of `Warehouse::reserve`: BEGIN, the row lock of
  `write_locking`, the read and the check, the UPDATE, the INSERT of the other store,
  COMMIT or ROLLBACK, on SQLite (one writer) or PostgreSQL (READ COMMITTED, row locks, a
  unique id that waits for another session's uncommitted one). Every statement may fail,
  the future may be dropped at every await, the session may die, the answer to COMMIT may
  be lost while the COMMIT is still under way (`LateCommit`), and a retry is another call
  with the same id. That an error or a drop ends in a rollback or a closed connection is
  what `Transaction` and `Scope` show.
* `Inventory` - the promise of `reserve` without transactions: `Take` and `Refuse`.
  `Warehouse` implements it (`ImplementsInventory`).
* `WarehouseProofs` - the TLAPS proofs about `Warehouse`.
* `Values` - the way of a value: `Query::bind`, `Lock::row` and `Lock::key` with their first
  error, `into_value`, the driver's arguments, the cell a column of any type makes of it
  (external), `Row::value`, `from_value` and `try_get`, on both backends. A `builder` is a
  query, a lock in an open transaction, or the lock of `write_locking`, which begins its
  transaction (`Begin`, `BeginFails`) before it looks at the lock and rolls back when it
  refuses it (`Refuse`). `io` is a ghost of the statements that the call has had run.
* `ValuesProofs` - the TLAPS proofs about `Values`.
* `MCTransaction`, `MCDatabase`, `MCScope`, `MCMigrate`, `MCPrepare`, `MCWarehouse`,
  `MCValues` - instances for TLC.

Operators named as mutants (`DropReusing`, `CommitAnyway`, ...) are wrong variants of
the definition that follows them. Nothing uses them; each shows that one property
notices one plausible mistake.

## Runs

| run | instance | checks |
|---|---|---|
| `transaction_sqlite` | 2 transactions, 2 SQLite connections, 2 writes each; 348 thousand states | AllOrNothing, HonestOutcome, RollbackOnly, StatementInTransaction, NoStaleInterrupt, ImplementsAtomicTx, under writer contention |
| `transaction_postgres` | 2 transactions, 1 pooled query or stream, 1 PostgreSQL connection; 318 thousand states | CleanPool, ImplementsAtomicTx (which includes atomicity and honest outcomes), OperationsEnd, LeasesComeBack |
| `database` | every request, 1 transaction, 1 query, 2 closers; 45 thousand states | NothingImplicit, KeeperOutlivesPool, LeaseSeesNoFalseLoss, NoFreshDatabase, CloseEnds, ChecksEnd, NothingLeaks |
| `database_false_loss` | 2 queries, 1 closer | LossIsUnexpected is violated: finding 1 |
| `database_fresh` | 2 queries, 1 closer | NoFreshDatabaseForQueries is violated: finding 2 |
| `scope` | 3 operations, 2 streams; 97 thousand states | HonestWrite, CommitOnlyClean, SlotsOwnTheLocks, NothingLeftBehind, NoWaitBehindStream, FuturesEnd, TeardownEnds |
| `migrate` | 2 runs, 5 binaries, 2 namespaces, both backends; 521 thousand states | LedgerTellsHistory, OkMeansMigrated, WholeBatchOrNothing, ReadStaysCurrent, NoCollision, RunsEnd |
| `prepare_safe` | up to 3 parameters, 2 effective statements; 4 thousand states | CountIsExact, SessionIntact, ProbesAreInvisible |
| `prepare_missing` | up to 2 parameters | MissingValueIsBindCount is violated: finding 3 |
| `warehouse` | 3 calls, 4 workloads, both backends; 277 thousand states | CheckedStockIsCurrent, ImplementsInventory, ReservesEnd |
| `values` | 20 values, 10 column types, up to 2 binds, both backends, three builders, good and bad tables; 230 thousand states | RoundTrip, SameOrError, ReadCanBeBoundAgain, FirstErrorIsReported |
| `values_lock_io` | the same | LockFailsBeforeIO is violated: finding 4 |

Bounds. `MaxWrites = 2` is the least that lets a batch be half done and lets one
acknowledged write precede a failed one. One connection with three callers makes every
lease meet what the previous one left on the connection, and every lease that does not
come back stop the others, so that instance also carries liveness and the pool; two
connections add writer contention. No run checks liveness on
SQLite; OperationsEnd and LeasesComeBack also hold there with one transaction, one pooled
query and two connections (95 thousand states). The theorems remove both bounds for safety. In `Database` the pool has one
connection because the code sets `max_connections(1)` for in-memory databases; two
closers are needed for a cancelled close followed by another; the theorems remove the
number of callers. `MaxBusy = 6000` stands for `i32::MAX`: all that matters is a timeout
at it and one beyond it, and that the default of 5000 is below. `MCRequest` has every
combination of SQLite flags, paths that are empty, plain or reserved (also percent-encoded),
queries with none, one or two pairs (so that keys repeat and contradict), and every
variable of the environment by itself. In `Scope` three
operations are one running and two queued; two streams are one active and one
competing. In `Migrate` the binaries are an old and a new one (with a minimum), two
branches that diverge from them, an invalid one and another application's; initial
ledgers are empty, partial, complete or damaged, so that every error of `validate` that
can occur does, and a legacy ledger that ends below a minimum makes a run `TooOld` after it
has copied rows; the theorems remove the number of runs. In
`Prepare` three parameters are the least that leave a probe before, at and after the
last referenced parameter. In `Warehouse` three calls are two that compete and a third
that repeats an id across SKUs; three bolts are enough for one call of two and not for a
second. In `Values` the widths are two, three and four bits and the years 1 to 9999 are
six microseconds: boundaries and the values next to them are all there, and the code only
compares with them. Two binds are the least for a second failure, a repeated column and a
duplicate name. Deadlock checking is off where callers finish and nothing need happen.

Fairness. `Transaction`: the executor polls a future that can proceed, the other end
answers the command it has (SQLite's busy timeout, a server that is up), and the task
started by `close_on_drop` runs. Nothing is assumed of callers: they may stop between
operations, and cancellation is never assumed to happen. `Database`: the same, with
strong fairness for steps that wait for the keeper's mutex because
`tokio::sync::Mutex` queues its waiters in order, and the assumption that the owner of
a transaction eventually ends it, without which `close` rightly waits; the tasks of the
pool that return and close connections run, and nobody is assumed to call `close` or to
drop a handle. `Scope`: the
executor polls `write`, and the body polls the futures it has started; futures that
outlive the body get no fairness, which is what makes `TeardownEnds` worth checking.
`Migrate` and `Warehouse`: a run or call goes on when it can, a statement on a dead
session returns its error, and the server ends the session of a run or call that was
dropped or lost; other failures are never assumed.

## Findings

1. `database_false_loss`: `check` reads `is_closed` (database.rs:294) and only then
   awaits the keeper's mutex. A `close` in between takes the keeper, and the check
   latches `lost` and returns `DatabaseLost` (59-61) after a graceful close; later
   calls see `DatabaseLost` rather than `PoolClosed`.
   `LeaseSeesNoFalseLoss` shows that callers that hold a lease are not affected.
2. `database_fresh`: a pooled query checks before it acquires (query.rs:117) and not
   after. If the keeper's connection dies in between, and the query connection was
   being replaced, the query runs on a fresh empty database. Statements of a
   transaction are protected by `check_lease` (`NoFreshDatabase`).
3. `prepare_missing`: the first preparation takes only SQLSTATE 42P18 for a missing
   value (driver.rs:248). A missing value that PostgreSQL reports with one of the other
   codes the probes know (driver.rs:495), as in an operator it cannot choose, comes back
   as a driver error, where README.md:43 promises a `BindCount`. That is what the trace
   shows, outside a transaction; in one the same error also makes it rollback-only
   (transaction.rs:173), which README.md:69 rules out for bind-count errors. A statement with no missing value is not
   affected (`ProbesAreInvisible`).
4. `values_lock_io`: `write_locking` awaits `begin_write` (scoped.rs:202) before it looks
   at the lock (scoped.rs:204), so an empty selector, a repeated column or a NULL key costs
   a lease, a BEGIN and a ROLLBACK, and is hidden by a BEGIN that fails, where README.md:67
   says that they "fail before I/O". Inside a transaction they do, and the bad lock
   itself is never sent (`FirstErrorIsReported`).

While modelling: the `active_stream` test of `enter` (scoped.rs:240) only chooses the
error. Whenever a stream is active on return some statement is abandoned by the
teardown, so the transaction is rollback-only anyway (`CommitOnlyClean`). `UnknownVersion`
(migrate.rs:260) cannot be returned for a ledger read in version order: rows beyond the
list are newer than the target, which is tested first.

## Proofs

The theorems about `Transaction` hold for every set of callers and connections, every
`MaxWrites` and both backends, from the three named assumptions on the constants. The
argument is one inductive invariant, `IInv`:

* `PoolInv`: what lies in the pool is clean, sessions outside a transaction hold
  nothing, and a caller owns one connection;
* `CallerInv`: the operation a caller is in determines its flags: in a statement
  `aborted` is set, in COMMIT it is not;
* `CommandInv`: the command in flight on a connection is its caller's, or one its
  caller abandoned; an abandoned statement implies `aborted`, an abandoned COMMIT an
  unknown result;
* `SessionInv`: if the flag is clear the session holds exactly the acknowledged
  writes (`Healthy`), or is gone;
* `DurableInv`: durable writes are exactly the acknowledged ones, and the caller was
  told nothing to the contrary.

`AllOrNothing` alone is not inductive: that a COMMIT makes the acknowledged writes
durable needs `SessionInv`, which needs `CommandInv` for the statement a dropped
future left running, which needs `CleanPool` for the connection it started on.
`CallerStep` and `ServerStep` reduce the invariant to the shares of the caller and the
connection that a step touches; then there is one lemma per action. `TypeCorrect`,
`Invariant`, `Atomicity`, `Honesty`, `RollbackOnlyHolds`, `PoolHygiene`,
`InTransaction` and `NoInterrupt` follow.

`TransactionImplementsAtomicTx` needs one fact more, about queries outside a transaction
(`PooledInv`): one whose command is still with the other end has had no effect and was not
told otherwise, and one that is about to return Ok has had all of it. Then a COMMIT that
takes effect is a `CommitPoint`, an autocommitted statement an `Autocommit`, an answer a
`Tell`, `TellPooled` or `Acknowledge`, and everything else is a stutter.

The theorems about `Database` hold for any callers, closers and requests. The invariant
ties the keeper to those who own it: `OpeningInv` (before `open` nobody uses it),
`LeaseInv` (a lease and the place of its caller), `CloserInv` (past the drain the pool is
closed and empty), `MutexInv` (held across the ping and across closing the keeper, so a
pinged keeper is there), `OwnerInv` (without handles only a transaction or a task of the
pool is left), and `KeeperInv` (an open keeper means the data are there, a dead one that it
died, a latch that it died or was closed). `KeeperOutlivesPool` alone is not inductive: that a close
takes the keeper from an empty pool needs `CloserInv`, that the last drop does needs
`OwnerInv`. `KeeperIsLast`, `NoFalseLoss` and `SameDatabase` follow. `AskedFor`, about the
options, needs only that the settings were computed of the one request (`SettingsInv`); the
rest are lemmas about `Options`, for any URL, query, builder and environment: a query
without duplicates gives a key one value (`GivenOnce`), what each kind of URL can ask for
(`SqliteUrlAsks`, `PostgresUrlAsks`), and that refusing the variables SQLx cannot clear
leaves nothing inherited (`PostgresSettingsOf`). `RequestAssumption` says that the tokens
for a private name and for an inherited text are in no request.

The theorems about `Scope` hold for any number of operations and streams
(`FutureAssumption`: the two are disjoint). The invariant says that the waiters of the
transaction's mutex are exactly the futures in the slots, the operation before the stream
(`QueueInv`), that the slots are in use during the body only (`PhaseInv`), and that a
transaction that is not rollback-only, or is so only for the statement under way, holds
the acknowledged effects and nothing broken (`CleanInv`). `CommitOnlyClean` alone is not
inductive: that the flag is set when a future is dropped or the slots are closed needs
`CleanInv`, and that only one statement can be under way, so that the flag it clears is its
own, needs `QueueInv`. With `DurableInv` for the time after COMMIT, `WriteIsHonest`,
`CommitIsClean`, `SlotsAreOwners`, `WriteLeavesNothing` and `StreamsComeLast` follow.

The theorems about `Migrate` hold for any runs, migrators, namespaces and initial ledgers
on both backends. `MigratorAssumption` gives a migrator its types and nothing else (its
list may be empty, unordered or repeat versions: `Ordered` refuses those) and
`TableAssumption` is the ledger's primary key. The invariant has at its centre what a run in its transaction knows
(`Works`): its rows begin with the committed ledger, agree with its list, and are what has
taken effect; the rows it inserted are what is missing of its rows, then those of the
scripts it executed, one behind between a script and its INSERT. That stays true only
because no other run commits meanwhile (`LockInv`: `Turn`, the ledger's advisory lock or
SQLite's writer lock, is held from before CREATE TABLE until the session ends, also by a
run whose future is gone). `LedgerTellsHistory` is part of the invariant and needs all of
it: a COMMIT appends `inserted` to the ledger and `executed` to `history`, and `Works`
says that both give the same list. `LedgerIsHistory`, `OkIsMigrated`, `BatchIsWhole`,
`ReadIsCurrent` and `NeverCollides` follow, the second and third with `DoneInv`: what was
migrated stays so, because committed ledgers only grow.

The theorems about `Values` hold for any integer widths, time resolution, years, values
and number of binds. `SampleAssumption` gives a value the content of its Rust type,
`NullAssumption` says that None is no content. `FirstErrorWins` is an invariant of the
builder (`BuilderInv`: it holds the arguments before the first bad one, none of which is
faulty, and that one's error; or none, and the table's error), with what the call has sent
by then (`SentInv`: a refused lock of `write_locking` has begun and rolled back, and
nothing else was refused after any I/O). `NeverAnother` and `BoundComesBack` add that a row holds
what the columns kept (`SentInv`), and lemmas about each kind on each backend: the forms
in which a column may keep an argument (`SqliteForms`, `PostgresForms`) and that reading
each gives the value or a refusal; a time survives because bind refuses one that is finer
than a microsecond (`TimeKept`). `ReadIsBindable` holds of any row at all.

The theorems about `Warehouse` hold for any calls, workload and supply on both backends,
from `SupplyAssumption` and `WorkloadAssumption`. The invariant has a share for each call
(`ProgressInv`, `LockInv`, `WorkInv`, `AnswerInv`) and one for each two calls (`PairInv`:
one writer on SQLite; one holder of a row and one INSERT of an id on PostgreSQL). A step
that commits nothing disturbs only the acting call (`LocalStep`); a COMMIT changes the
stock under all others (`DurableStep`), and `PairInv` says that no other call can have
checked that stock or inserted that id. `StockStaysCurrent` and
`WarehouseImplementsInventory` follow: a COMMIT that takes effect is a `Take`, an answer a
`Refuse` that `AnswerInv` justifies.

The theorems about `Prepare` hold for any number of parameters and statements, in and
outside a transaction. The count of the probes is exact because they never pass the
referenced parameters unnoticed (`ProbeInv`: during the probes `params <= hints`, and an
unresolved probe has `params = hints + 1`); the session is intact because at every await
the one savepoint holds exactly the work of the statements that succeeded
(`SavepointInv`). `ExactCount`, `IntactSession` and `InvisibleProbes` follow from
`Invariant`.

Only model-checked: liveness (`OperationsEnd`, `LeasesComeBack`, `CloseEnds`, `ChecksEnd`,
`NothingLeaks`, `FuturesEnd`, `TeardownEnds`, `RunsEnd`, `ReservesEnd`), which rests on
fairness and is out of reach of the prover. Every safety property of a passing run is the
statement of a theorem; the inductive invariants were checked with TLC on the same
instances first.

## Not modelled

Dialect SQL (`sql.rs`, static strings), the public facade and feature gates (a build with
both backends is assumed), scripts and the validation harness. Of `error.rs`, the classes
that `Error::driver` gives to database errors, which callers only match on, and all texts.
Of the consumer, `report`, which only reads, and `Sku::parse`, which refuses before any
state changes. SQL text, identifier syntax and percent-encoding are tokens. Timeouts
appear as outcomes (busy, pool timeout), not as time. Tokio's cooperative budget, which
can make a free mutex report pending once, is not modelled. Poisoned standard mutexes are
treated as the code treats them: ignored. The other end is assumed to do what SQLite and
PostgreSQL document; isolation between concurrent transactions is theirs, and modelled
where `Warehouse` and `Migrate` depend on it.

## Plan

Done: all components that keep state, with the pure conversions they depend on; a theorem
for every safety property and for both refinements. Next:

1. An abstract specification of the ledger (one history per namespace that grows by
   whole batches) and `Migrate` shown to implement it; the invariant above has what the
   step proof needs.
2. `Scope` shown to implement the part of `AtomicTx` that its caller sees.
