------------------------------ MODULE Values ------------------------------
(***************************************************************************)
(* The way of a value through sqly: Query::bind and Encode (src/query.rs,   *)
(* src/value.rs) or Lock::row and Lock::key (src/lock.rs), the driver's     *)
(* arguments (src/driver.rs), the cell that the database keeps, and         *)
(* Row::try_get (src/row.rs), on both backends.                             *)
(*                                                                          *)
(* A value is its kind and its content: an integer, a truth value, an       *)
(* instant with its UTC offset, or an opaque constant; Null stands for      *)
(* None.  Texts that render other values carry what they render.            *)
(***************************************************************************)
EXTENDS Integers, Sequences, Functions

CONSTANTS Null,
          I16, I32, I64,  \* the greatest integers of each width
          Micro,          \* units of time in a microsecond
          Year1, Year10000,  \* the instants those years begin at, UTC
          Sample,         \* values that applications bind, as a sequence
          Foreign,        \* by backend, cells that other programs have written, as a sequence
          MaxBinds

ASSUME WidthAssumption == I16 \in Nat /\ I32 \in Nat /\ I64 \in Nat /\ I16 < I32 /\ I32 < I64
ASSUME TimeAssumption == Micro \in Nat \ {0} /\ Year1 \in Nat /\ Year10000 \in Nat

Backend == {"sqlite", "postgres"}
Kind == {"Text", "I32", "I64", "Bool", "Bytes", "Float", "Uuid", "Time", "Json"}
Fits(n, max) == -max - 1 <= n /\ n <= max

V(kind, v) == [kind |-> kind, v |-> v]

\* OffsetDateTime: an instant and its UTC offset.
Moment == [instant : Int, offset : Int]

\* The contents that the Rust type of a kind can have.
Content(kind, v) ==
    /\ kind \in {"I32", "I64"} => v \in Int /\ Fits(v, IF kind = "I32" THEN I32 ELSE I64)
    /\ kind = "Bool" => v \in BOOLEAN
    /\ kind = "Time" => v \in Moment
    /\ kind \in {"Text", "Bytes", "Float", "Uuid", "Json"} => v \in STRING

ASSUME SampleAssumption ==
    \A n \in DOMAIN Sample :
        /\ Sample[n] = V(Sample[n].kind, Sample[n].v) /\ Sample[n].kind \in Kind
        /\ Sample[n].v # Null => Content(Sample[n].kind, Sample[n].v)

\* None is none of the contents that a cell can have.
ASSUME NullAssumption ==
    /\ Null \notin Int /\ Null \notin Moment /\ Null \notin {"whole", "rendered"}
    /\ Null \notin [of : Kind \cup {"number"}, v : Int \cup Moment \cup STRING]

(***************************************************************************)
(* Representation::into_value and from_value validate alike.                *)
(***************************************************************************)
NotFinite == {"nan", "inf"}
Precise(t) == t.instant % Micro = 0
InRange(t) == Year1 <= t.instant /\ t.instant < Year10000

Fault(kind, v) ==
    CASE kind = "Float" /\ v \in NotFinite -> "InvalidValue"
      [] kind = "Time" /\ ~InRange(v) -> "OutOfRange"
      [] kind = "Time" /\ InRange(v) /\ ~Precise(v) -> "InvalidValue"
      [] OTHER -> "none"

Valid(x) == x.v = Null \/ Fault(x.kind, x.v) = "none"

(***************************************************************************)
(* The driver's arguments: sqlite_arguments and postgres_arguments.         *)
(***************************************************************************)
Cell(type, v) == [type |-> type, v |-> v]
Text(of, v) == Cell("TEXT", [of |-> of, v |-> v])

Utc(instant) == [instant |-> instant, offset |-> 0]

\* A rendering of the local clock with a Z.
TimestampLocal(t) == Utc(((t.instant + t.offset) \div Micro) * Micro)

\* value::timestamp: UTC text with six fractional digits.
Timestamp(t) == Utc((t.instant \div Micro) * Micro)

SqliteArgument(x) ==
    CASE x.v = Null -> Cell("NULL", Null)
      [] x.v # Null /\ x.kind \in {"I32", "I64"} -> Cell("INTEGER", x.v)
      [] x.v # Null /\ x.kind = "Bool" -> Cell("INTEGER", IF x.v THEN 1 ELSE 0)
      [] x.v # Null /\ x.kind = "Float" -> Cell("REAL", x.v)
      [] x.v # Null /\ x.kind = "Bytes" -> Cell("BLOB", x.v)
      [] x.v # Null /\ x.kind = "Time" -> Text("Time", Timestamp(x.v))
      [] x.v # Null /\ x.kind \in {"Text", "Uuid", "Json"} -> Text(x.kind, x.v)

ParameterType ==
    [Text |-> "TEXT", I32 |-> "INT4", I64 |-> "INT8", Bool |-> "BOOL", Bytes |-> "BYTEA",
     Float |-> "FLOAT8", Uuid |-> "UUID", Time |-> "TIMESTAMPTZ", Json |-> "JSONB"]

\* TIMESTAMPTZ counts microseconds of UTC.
PostgresArgument(x) ==
    Cell(ParameterType[x.kind],
         IF x.kind = "Time" /\ x.v # Null THEN Timestamp(x.v) ELSE x.v)

(***************************************************************************)
(* The column: what the database makes of an argument.  SQLite applies the  *)
(* column's affinity, PostgreSQL an assignment cast (a float is rounded), or *)
(* it refuses.                                                              *)
(***************************************************************************)
Column == {"smallint", "integer", "bigint", "boolean", "text", "bytes", "double", "uuid",
           "timestamp", "json"}
IntegerColumn == {"smallint", "integer", "bigint"}

Affinity(column) ==
    CASE column \in IntegerColumn -> "INTEGER"
      [] column = "boolean" -> "NUMERIC"
      [] column = "double" -> "REAL"
      [] column = "bytes" -> "BLOB"
      [] OTHER -> "TEXT"

\* Numbers are kept in one form: a text that looks like one, a whole REAL.
LooksNumeric(cell) ==
    cell.type = "TEXT" /\ cell.v.of \in {"Text", "Json"} /\ cell.v.v = "1"

SqliteKeeps(column, cell) ==
    LET affinity == Affinity(column)
        numeric == (cell.type = "REAL" /\ cell.v = "whole") \/ LooksNumeric(cell)
    IN  CASE affinity \in {"INTEGER", "NUMERIC"} /\ numeric -> Cell("INTEGER", 1)
          [] affinity = "REAL" /\ (cell.type = "INTEGER" \/ numeric) -> Cell("REAL", "whole")
          [] affinity = "TEXT" /\ cell.type \in {"INTEGER", "REAL"} -> Text("number", cell.v)
          [] OTHER -> cell

PgType ==
    [smallint |-> "INT2", integer |-> "INT4", bigint |-> "INT8", boolean |-> "BOOL",
     text |-> "TEXT", bytes |-> "BYTEA", double |-> "FLOAT8", uuid |-> "UUID",
     timestamp |-> "TIMESTAMPTZ", json |-> "JSONB"]
Width == [INT2 |-> I16, INT4 |-> I32, INT8 |-> I64]
Castable(from, to) ==
    from = to \/ to = "TEXT" \/ {from, to} \subseteq DOMAIN Width \cup {"FLOAT8"}

Refused == Cell("refused", Null)

PostgresKeeps(column, cell) ==
    LET to == PgType[column]
    IN  CASE ~Castable(cell.type, to) -> Refused
          [] Castable(cell.type, to) /\ (cell.v = Null \/ cell.type = to) -> Cell(to, cell.v)
          [] cell.v # Null /\ cell.type # to /\ {cell.type, to} \subseteq DOMAIN Width ->
               IF Fits(cell.v, Width[to]) THEN Cell(to, cell.v) ELSE Refused
          [] cell.v # Null /\ cell.type = "FLOAT8" /\ to \in DOMAIN Width -> Cell(to, 1)
          [] cell.v # Null /\ cell.type \in DOMAIN Width /\ to = "FLOAT8" -> Cell(to, "whole")
          [] cell.v # Null /\ cell.type # to /\ to = "TEXT" -> Cell(to, "rendered")

Kept(b, column, x) ==
    IF b = "sqlite"
    THEN SqliteKeeps(column, SqliteArgument(x))
    ELSE PostgresKeeps(column, PostgresArgument(x))

(***************************************************************************)
(* Row::value.  sqlx hands out a cell only as a type that is compatible     *)
(* with what the cell holds (SQLite) or what the column is (PostgreSQL).    *)
(***************************************************************************)
Ok(v) == [tag |-> "ok", v |-> v]
Error(kind) == [tag |-> kind, v |-> Null]

\* i32::try_from replaced by an `as` cast.
NarrowWraps(kind, n) ==
    Ok(IF kind = "I32" THEN ((n + I32 + 1) % (2 * I32 + 2)) - I32 - 1 ELSE n)

Narrow(kind, n) ==
    IF kind = "I32" /\ ~Fits(n, I32) THEN Error("OutOfRange") ELSE Ok(n)

Parsed(kind, text) == IF text.of = kind THEN Ok(text.v) ELSE Error("InvalidValue")

SqliteValue(kind, cell) ==
    CASE kind \in {"I32", "I64"} /\ cell.type = "INTEGER" -> Narrow(kind, cell.v)
      [] kind = "Bool" /\ cell.type = "INTEGER" ->
           IF cell.v \in {0, 1} THEN Ok(cell.v = 1) ELSE Error("InvalidValue")
      [] kind = "Float" /\ cell.type = "REAL" -> Ok(cell.v)
      [] kind = "Text" /\ cell.type = "TEXT" -> Ok(cell.v.v)
      [] kind = "Bytes" /\ cell.type = "BLOB" -> Ok(cell.v)
      [] kind = "Bytes" /\ cell.type = "TEXT" -> Ok(cell.v.v)
      [] kind \in {"Uuid", "Time", "Json"} /\ cell.type = "TEXT" -> Parsed(kind, cell.v)
      [] OTHER -> Error("TypeMismatch")

PostgresValue(kind, cell) ==
    CASE kind \in {"I32", "I64"} /\ cell.type \in DOMAIN Width -> Narrow(kind, cell.v)
      [] kind \notin {"I32", "I64"} /\ cell.type = ParameterType[kind] -> Ok(cell.v)
      [] OTHER -> Error("TypeMismatch")

\* unique_column, and Row::value on the one column of the name.
Matches(r, name) == {i \in DOMAIN r : r[i].name = name}

RowValue(b, r, name, kind) ==
    LET found == Matches(r, name)
        cell == r[CHOOSE i \in found : TRUE].cell
    IN  IF found = {} THEN Error("MissingColumn")
        ELSE IF \E i, j \in found : i # j THEN Error("DuplicateColumn")
        ELSE IF cell.v = Null THEN Ok(Null)
        ELSE IF b = "sqlite" THEN SqliteValue(kind, cell) ELSE PostgresValue(kind, cell)

\* A decoder that trusts what is stored.
FromValueTrusting(kind, optional, v) ==
    IF v = Null /\ ~optional THEN Error("UnexpectedNull") ELSE Ok(v)

\* Representation::from_value, for a type or (optional) the Option of it.
FromValue(kind, optional, v) ==
    IF v = Null THEN IF optional THEN Ok(Null) ELSE Error("UnexpectedNull")
    ELSE IF Fault(kind, v) # "none" THEN Error(Fault(kind, v)) ELSE Ok(v)

\* Row::try_get.
TryGet(b, r, name, kind, optional) ==
    LET got == RowValue(b, r, name, kind)
    IN  IF got.tag = "ok" THEN FromValue(kind, optional, got.v) ELSE got

VARIABLES
    backend,
    builder,  \* "query", a "lock" in an open transaction, or the lock of "write_locking"
    table,    \* the table that a lock names: a "simple" identifier or not
    inputs,   \* ghost: the column and the value of every bind or key so far
    values,   \* Query.values, or the values of Lock.keys
    error,    \* the builder's error
    answer,   \* "pending", "begun", or the end: "sent", "refused", "failed" to begin
    io,       \* ghost: the statements that this call has had the database run
    row       \* the row that came back: name, column and cell of each value

vars == <<backend, builder, table, inputs, values, error, answer, io, row>>

Fine == [what |-> "none", parameter |-> 0]
EncodeError(i) == [what |-> "Encode", parameter |-> i]
InvalidLock == [what |-> "InvalidLock", parameter |-> 0]

Locking == {"lock", "write_locking"}

\* Lock::row judges the table before any key.
Init ==
    /\ backend \in Backend /\ builder \in {"query"} \cup Locking
    /\ table \in IF builder \in Locking THEN {"simple", "invalid"} ELSE {"simple"}
    /\ inputs = <<>> /\ values = <<>>
    /\ error = IF table = "invalid" THEN InvalidLock ELSE Fine
    /\ answer = "pending" /\ io = <<>> /\ row = <<>>

\* One call of a builder method with an argument that has the given fault.
Push(column, x, fault) ==
    /\ answer = "pending" /\ Len(inputs) < MaxBinds
    /\ inputs' = Append(inputs, [column |-> column, x |-> x])
    /\ error' = fault
    /\ values' = IF fault = Fine THEN Append(values, x) ELSE values
    /\ UNCHANGED <<backend, builder, table, answer, io, row>>

BindFault(x) == IF Valid(x) THEN Fine ELSE EncodeError(Len(values) + 1)

\* Query::bind: the first failure is kept, with its position.
Bind ==
    /\ builder = "query"
    /\ \E n \in DOMAIN Sample :
         Push("positional", Sample[n], IF error = Fine THEN BindFault(Sample[n]) ELSE error)

\* A key that may repeat a column.
KeyFaultRepeats(column, x) ==
    IF column = "invalid" THEN InvalidLock
    ELSE IF ~Valid(x) THEN EncodeError(Len(values) + 1)
    ELSE IF x.v = Null THEN InvalidLock ELSE Fine

\* Lock::key: the identifier, then the column's novelty, then the value, then NULL.
KeyFault(column, x) ==
    IF column = "invalid" \/ \E i \in DOMAIN values : inputs[i].column = column THEN InvalidLock
    ELSE IF ~Valid(x) THEN EncodeError(Len(values) + 1)
    ELSE IF x.v = Null THEN InvalidLock ELSE Fine

Key ==
    /\ builder \in Locking
    /\ \E column \in {"a", "b", "invalid"}, n \in DOMAIN Sample :
         Push(column, Sample[n], IF error = Fine THEN KeyFault(column, Sample[n]) ELSE error)

\* ScopedDatabase::enter begins before it looks at the lock.
Begin ==
    /\ builder = "write_locking" /\ answer = "pending"
    /\ answer' = "begun" /\ io' = Append(io, "BEGIN")
    /\ UNCHANGED <<backend, builder, table, inputs, values, error, row>>

\* No lease, or no transaction on it.
BeginFails ==
    /\ builder = "write_locking" /\ answer = "pending"
    /\ answer' = "failed" /\ io' \in {io, Append(io, "BEGIN")}
    /\ UNCHANGED <<backend, builder, table, inputs, values, error, row>>

\* Where the builder is looked at: Query::run, Lock::statement.
Ready == answer = IF builder = "write_locking" THEN "begun" ELSE "pending"

\* The builder's error; write_locking rolls back what it has begun.
Refuse ==
    /\ Ready
    /\ error # Fine \/ (builder \in Locking /\ values = <<>>)
    /\ answer' = "refused"
    /\ io' = IF builder = "write_locking" THEN Append(io, "ROLLBACK") ELSE io
    /\ UNCHANGED <<backend, builder, table, inputs, values, error, row>>

SendLock ==
    /\ builder \in Locking /\ Ready /\ error = Fine /\ values # <<>>
    /\ answer' = "sent" /\ io' = Append(io, "LOCK")
    /\ UNCHANGED <<backend, builder, table, inputs, values, error, row>>

\* The bound values go to columns of any type and come back in a row.
SendQuery ==
    /\ builder = "query" /\ Ready /\ error = Fine
    /\ \E column \in [DOMAIN values -> Column], name \in [DOMAIN values -> {"a", "b"}] :
         /\ \A i \in DOMAIN values : Kept(backend, column[i], values[i]) # Refused
         /\ row' = [i \in DOMAIN values |->
                       [name |-> name[i], column |-> column[i],
                        cell |-> Kept(backend, column[i], values[i])]]
    /\ answer' = "sent" /\ io' = Append(io, "QUERY")
    /\ UNCHANGED <<backend, builder, table, inputs, values, error>>

\* A row whose cell another program has written.
ReadForeign ==
    /\ builder = "query" /\ Ready /\ inputs = <<>>
    /\ \E n \in DOMAIN Foreign[backend] :
         row' = <<[name |-> "a", column |-> "text", cell |-> Foreign[backend][n]]>>
    /\ answer' = "sent" /\ io' = Append(io, "QUERY")
    /\ UNCHANGED <<backend, builder, table, inputs, values, error>>

Next == Bind \/ Key \/ Begin \/ BeginFails \/ Refuse \/ SendLock \/ SendQuery \/ ReadForeign

Spec == Init /\ [][Next]_vars

(***************************************************************************)
(* Properties                                                               *)
(***************************************************************************)

\* The columns a schema declares for a representation (README.md:45).
Suited ==
    [Text |-> {"text"}, I32 |-> {"integer", "bigint"}, I64 |-> {"bigint"}, Bool |-> {"boolean"},
     Bytes |-> {"bytes"}, Float |-> {"double"}, Uuid |-> {"uuid"}, Time |-> {"timestamp"},
     Json |-> {"json"}]
Family(kind) == IF kind \in {"I32", "I64"} THEN {"I32", "I64"} ELSE {kind}

Named(i) == \A j \in DOMAIN row : j # i => row[j].name # row[i].name
Same(kind, v, w) ==
    IF kind = "Time" /\ v # Null /\ w # Null THEN v.instant = w.instant ELSE v = w

\* What is bound comes back: every value that bind accepts, None included, is
\* what try_get of its own type returns from a column made for that type, on
\* both backends, whatever the value's UTC offset; an i32 also from a 64-bit
\* column (arguments of the driver, Row::value, from_value).
RoundTrip ==
    \A i \in DOMAIN values : answer = "sent" /\ row # <<>> /\ Named(i) =>
        LET x == values[i]
            got == TryGet(backend, row, row[i].name, x.kind, x.v = Null)
        IN  row[i].column \in Suited[x.kind] =>
              got.tag = "ok" /\ Same(x.kind, got.v, x.v)

\* Never another value: whatever the column makes of a bound value, reading it
\* back as its own type, or as an integer of the other width, gives that value
\* or an error (the storage-class and width checks of Row::value).
SameOrError ==
    \A i \in DOMAIN values : answer = "sent" /\ row # <<>> =>
        \A kind \in Family(values[i].kind), optional \in BOOLEAN :
            LET got == TryGet(backend, row, row[i].name, kind, optional)
            IN  got.tag = "ok" => Same(kind, got.v, values[i].v)

\* What try_get returns can be bound again, also when another program wrote the
\* cell: non-finite floats, instants beyond the years 1 to 9999 or finer than
\* a microsecond and too wide integers do not get in (from_value).
ReadCanBeBoundAgain ==
    \A i \in DOMAIN row, kind \in Kind :
        LET got == TryGet(backend, row, row[i].name, kind, TRUE)
        IN  got.tag = "ok" /\ got.v # Null =>
              /\ Valid(V(kind, got.v))
              /\ kind = "I32" => Fits(got.v, I32)

\* The inputs a builder should complain of.
Faulty(i) ==
    \/ ~Valid(inputs[i].x)
    \/ builder \in Locking /\ ( \/ inputs[i].x.v = Null \/ inputs[i].column = "invalid"
                               \/ \E j \in 1..(i - 1) : inputs[j].column = inputs[i].column )

\* A query or a lock with a bad argument, a bad table or no key at all never
\* reaches the database; a transaction that write_locking has begun for it is
\* rolled back; and the error is that of the first bad thing, whatever follows
\* it: the table's, else that of the first bad argument (Query::bind: "surface
\* the first failure before I/O"; Lock::row, Lock::key, Lock::statement and the
\* rollback of ScopedDatabase::enter).
FirstErrorIsReported ==
    /\ answer = "sent" => /\ table = "simple" /\ \A i \in DOMAIN inputs : ~Faulty(i)
                          /\ builder \in Locking => inputs # <<>>
    /\ answer = "refused" =>
         /\ error # Fine \/ (builder \in Locking /\ inputs = <<>>)
         /\ io = IF builder = "write_locking" THEN <<"BEGIN", "ROLLBACK">> ELSE <<>>
    /\ table = "invalid" => error = InvalidLock /\ values = <<>>
    /\ error.what = "Encode" =>
         /\ error.parameter \in DOMAIN inputs
         /\ ~Valid(inputs[error.parameter].x)
         /\ \A i \in 1..(error.parameter - 1) : ~Faulty(i)

\* What README.md:67 says of locks: "Empty selectors, duplicate columns, and
\* NULL keys fail before I/O".  ScopedDatabase::enter has begun a transaction
\* by the time require_lock reports them (scoped.rs:202).
LockFailsBeforeIO ==
    answer = "refused" /\ builder \in Locking /\ table = "simple" /\ error.what # "Encode" => io = <<>>

(***************************************************************************)
(* The inductive invariant that the proofs of these properties use.         *)
(***************************************************************************)

\* A value of the application.
Bound(x) == x.kind \in Kind /\ (x.v # Null => Content(x.kind, x.v))

\* The builder has kept the inputs up to the first bad one, and the error is
\* that one's; with a bad table it keeps none, and the error is the table's.
BuilderInv ==
    /\ Len(values) <= Len(inputs)
    /\ \A i \in 1..Len(values) : values[i] = inputs[i].x /\ Bound(values[i]) /\ ~Faulty(i)
    /\ error = Fine => Len(values) = Len(inputs)
    /\ table = "invalid" => error = InvalidLock /\ values = <<>> /\ builder \in Locking
    /\ error # Fine /\ table = "simple" =>
         /\ Len(values) < Len(inputs)
         /\ \/ error = InvalidLock
            \/ error = EncodeError(Len(values) + 1) /\ ~Valid(inputs[Len(values) + 1].x)

\* What is sent has no error, what is refused ran nothing that lasts, and a row
\* holds what the columns kept.
SentInv ==
    /\ answer # "sent" => row = <<>>
    /\ answer = "pending" => io = <<>>
    /\ answer = "begun" => builder = "write_locking" /\ io = <<"BEGIN">>
    /\ answer = "sent" => error = Fine /\ (builder \in Locking => values # <<>>)
    /\ answer = "refused" =>
         /\ error # Fine \/ (builder \in Locking /\ values = <<>>)
         /\ io = IF builder = "write_locking" THEN <<"BEGIN", "ROLLBACK">> ELSE <<>>
    /\ row # <<>> /\ values # <<>> =>
         /\ DOMAIN row = DOMAIN values
         /\ \A i \in DOMAIN values :
              /\ row[i].column \in Column /\ row[i].cell # Refused
              /\ row[i].cell = Kept(backend, row[i].column, values[i])

IInv ==
    /\ backend \in Backend /\ builder \in {"query"} \cup Locking /\ table \in {"simple", "invalid"}
    /\ answer \in {"pending", "begun", "sent", "refused", "failed"}
    /\ inputs \in Seq([column : {"positional", "a", "b", "invalid"}, x : Range(Sample)])
    /\ values \in Seq(Range(Sample))
    /\ BuilderInv /\ SentInv

=============================================================================
