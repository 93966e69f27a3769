---------------------------- MODULE ValuesProofs ----------------------------
(* Proofs about Values for any widths, years, samples and number of binds. *)
EXTENDS Values, SequenceTheorems, TLAPS

-----------------------------------------------------------------------------
(* The builders.                                                            *)

LEMMA SampleBound ==
    ASSUME NEW x \in Range(Sample)
    PROVE  x = V(x.kind, x.v) /\ Bound(x)
BY SampleAssumption DEF Range, Bound

LEMMA Errors ==
    /\ InvalidLock # Fine /\ InvalidLock.what # "Encode" /\ Fine.what # "Encode"
    /\ \A i \in Int : EncodeError(i) # Fine /\ EncodeError(i).parameter = i
BY DEF InvalidLock, Fine, EncodeError

Input == [column : {"positional", "a", "b", "invalid"}, x : Range(Sample)]

(* What is appended leaves what was there, and its faults. *)
LEMMA AppendInput ==
    ASSUME inputs \in Seq(Input), NEW y \in Input, inputs' = Append(inputs, y), UNCHANGED builder
    PROVE  /\ inputs' \in Seq(Input) /\ Len(inputs) \in Nat /\ Len(inputs') = Len(inputs) + 1
           /\ inputs'[Len(inputs) + 1] = y
           /\ \A i \in 1..Len(inputs) : inputs'[i] = inputs[i] /\ (Faulty(i)' <=> Faulty(i))
<1>1. /\ inputs' \in Seq(Input) /\ Len(inputs) \in Nat /\ Len(inputs') = Len(inputs) + 1
      /\ inputs'[Len(inputs) + 1] = y /\ \A i \in 1..Len(inputs) : inputs'[i] = inputs[i]
    BY AppendProperties, LenProperties
<1>2. ASSUME NEW i \in 1..Len(inputs)
      PROVE  Faulty(i)' <=> Faulty(i)
    <2>1. \A j \in 1..(i - 1) : j \in 1..Len(inputs)
        BY <1>1
    <2>2. inputs'[i] = inputs[i] /\ \A j \in 1..(i - 1) : inputs'[j] = inputs[j]
        BY <1>1, <2>1
    <2> QED BY <2>2 DEF Faulty
<1> QED BY <1>1, <1>2

(* The outcome of one call of a builder's method. *)
Judged(column, x, fault) ==
    /\ error # Fine => fault = error
    /\ error = Fine =>
         \/ /\ fault = Fine /\ Valid(x)
            /\ builder \in Locking => /\ x.v # Null /\ column # "invalid"
                                      /\ \A i \in 1..Len(values) : inputs[i].column # column
         \/ fault = InvalidLock
         \/ fault = EncodeError(Len(values) + 1) /\ ~Valid(x)

(* A call that judges its argument keeps the invariant. *)
LEMMA PushKeeps ==
    ASSUME IInv, NEW column \in {"positional", "a", "b", "invalid"}, NEW x \in Range(Sample), NEW fault,
           Push(column, x, fault), Judged(column, x, fault)
    PROVE  IInv'
<1> DEFINE y == [column |-> column, x |-> x]
           n == Len(inputs)
<1>1. y \in Input /\ inputs \in Seq(Input) /\ values \in Seq(Range(Sample))
    BY DEF Input, IInv
<1>2. /\ answer = "pending" /\ inputs' = Append(inputs, y) /\ error' = fault
      /\ values' = (IF fault = Fine THEN Append(values, x) ELSE values)
      /\ UNCHANGED <<backend, builder, table, answer, io, row>>
    BY DEF Push
<1>3. /\ inputs' \in Seq(Input) /\ n \in Nat /\ Len(inputs') = n + 1 /\ inputs'[n + 1] = y
      /\ \A i \in 1..n : inputs'[i] = inputs[i] /\ (Faulty(i)' <=> Faulty(i))
    BY <1>1, <1>2, AppendInput
<1>4. /\ Len(values) \in Nat /\ Append(values, x) \in Seq(Range(Sample))
      /\ Len(Append(values, x)) = Len(values) + 1 /\ Append(values, x)[Len(values) + 1] = x
      /\ \A i \in 1..Len(values) : Append(values, x)[i] = values[i]
    BY <1>1, AppendProperties, LenProperties
<1>5. /\ Len(values) <= n
      /\ error = Fine => Len(values) = n
      /\ table = "invalid" => error = InvalidLock /\ values = <<>> /\ builder \in Locking
      /\ error # Fine /\ table = "simple" =>
           /\ Len(values) < n
           /\ \/ error = InvalidLock
              \/ error = EncodeError(Len(values) + 1) /\ ~Valid(inputs[Len(values) + 1].x)
      /\ \A i \in 1..Len(values) : values[i] = inputs[i].x /\ Bound(values[i]) /\ ~Faulty(i)
    BY DEF IInv, BuilderInv
<1> HIDE DEF y, n
<1>6. \A i \in 1..Len(values) : i \in 1..n /\ inputs'[i] = inputs[i] /\ ~Faulty(i)'
    BY <1>3, <1>4, <1>5
<1>7. BuilderInv'
    <2>1. CASE error # Fine
        <3>1. values' = values /\ error' = error
            BY <1>2, <2>1 DEF Judged
        <3>2. /\ Len(values) <= n + 1
              /\ table = "simple" => /\ Len(values) + 1 \in 1..n /\ Len(values) < n + 1
                                     /\ inputs'[Len(values) + 1] = inputs[Len(values) + 1]
            BY <1>3, <1>4, <1>5, <2>1
        <3> QED BY <1>2, <1>3, <1>4, <1>5, <1>6, <2>1, <3>1, <3>2 DEF BuilderInv
    <2>2. CASE error = Fine /\ fault = Fine
        <3>1. values' = Append(values, x) /\ error' = Fine /\ Len(values) = n /\ table' # "invalid"
            BY <1>2, <1>5, <2>2, Errors
        <3>2. inputs'[n + 1].x = x /\ inputs'[n + 1].column = column
            BY <1>3 DEF y
        <3>3. Valid(x) /\ (builder \in Locking => /\ x.v # Null /\ column # "invalid"
                                                 /\ \A i \in 1..n : inputs[i].column # column)
            BY <2>2, <3>1, Errors DEF Judged
        <3>4. ASSUME NEW k \in Nat, k = n + 1
              PROVE  ~Faulty(k)'
            <4>1. \A j \in 1..(k - 1) : j \in 1..n /\ inputs'[j] = inputs[j]
                BY <1>3, <3>4
            <4>2. builder' \in Locking => \A j \in 1..(k - 1) : inputs'[j].column # column
                BY <1>2, <3>3, <4>1
            <4>3. inputs'[k].x = x /\ inputs'[k].column = column
                BY <3>2, <3>4
            <4>4. Valid(inputs'[k].x) /\ (builder' \in Locking => inputs'[k].x.v # Null /\ column # "invalid")
                BY <1>2, <4>3, <3>3
            <4> QED BY <4>2, <4>3, <4>4 DEF Faulty
        <3>5. \A i \in 1..(n + 1) : i \in 1..n \/ i = n + 1
            BY <1>3
        <3>6. ASSUME NEW i \in 1..(n + 1)
              PROVE  values'[i] = inputs'[i].x /\ Bound(values'[i]) /\ ~Faulty(i)'
            <4>1. CASE i \in 1..n
                BY <1>4, <1>5, <1>6, <3>1, <4>1
            <4>2. CASE i = n + 1
                <5>1. values'[i] = x
                    BY <1>4, <3>1, <4>2
                <5>2. i \in Nat /\ ~Faulty(i)'
                    BY <1>3, <3>4, <4>2
                <5> QED BY <3>2, <4>2, <5>1, <5>2, SampleBound
            <4> QED BY <3>5, <4>1, <4>2
        <3>7. Len(values') = n + 1 /\ Len(inputs') = n + 1 /\ n + 1 <= n + 1
            BY <1>3, <1>4, <3>1
        <3> QED BY <3>1, <3>6, <3>7 DEF BuilderInv
    <2>3. CASE error = Fine /\ fault # Fine
        <3>1. values' = values /\ error' = fault /\ Len(values) = n /\ table' # "invalid"
            BY <1>2, <1>5, <2>3, Errors
        <3>2. inputs'[n + 1].x = x
            BY <1>3 DEF y
        <3>3. fault = InvalidLock \/ (fault = EncodeError(n + 1) /\ ~Valid(x))
            BY <2>3, <3>1 DEF Judged
        <3>4. n <= n + 1 /\ n < n + 1
            BY <1>3
        <3> QED BY <1>3, <1>5, <1>6, <2>3, <3>1, <3>2, <3>3, <3>4 DEF BuilderInv
    <2> QED BY <2>1, <2>2, <2>3
<1>8. SentInv'
    BY <1>2 DEF IInv, SentInv
<1>9. values' \in Seq(Range(Sample))
    BY <1>1, <1>2, <1>4
<1> QED BY <1>2, <1>3, <1>7, <1>8, <1>9 DEF IInv, Input

LEMMA BindKeeps ==
    ASSUME IInv, Bind
    PROVE  IInv'
<1>1. PICK n \in DOMAIN Sample :
        Push("positional", Sample[n], IF error = Fine THEN BindFault(Sample[n]) ELSE error)
    BY DEF Bind
<1>2. Sample[n] \in Range(Sample) /\ builder = "query"
    BY DEF Range, Bind
<1> DEFINE fault == IF error = Fine THEN BindFault(Sample[n]) ELSE error
<1>3. Judged("positional", Sample[n], fault)
    BY <1>2 DEF Judged, BindFault, Locking
<1> HIDE DEF fault
<1> QED BY <1>1, <1>2, <1>3, PushKeeps DEF fault

LEMMA KeyKeeps ==
    ASSUME IInv, Key
    PROVE  IInv'
<1>1. PICK column \in {"a", "b", "invalid"}, n \in DOMAIN Sample :
        Push(column, Sample[n], IF error = Fine THEN KeyFault(column, Sample[n]) ELSE error)
    BY DEF Key
<1>2. Sample[n] \in Range(Sample) /\ DOMAIN values = 1..Len(values)
    BY LenProperties DEF Range, IInv
<1> DEFINE fault == IF error = Fine THEN KeyFault(column, Sample[n]) ELSE error
<1>3. Judged(column, Sample[n], fault)
    BY <1>2 DEF Judged, KeyFault
<1> HIDE DEF fault
<1>4. Push(column, Sample[n], fault)
    BY <1>1 DEF fault
<1> QED BY <1>2, <1>3, <1>4, PushKeeps

-----------------------------------------------------------------------------
(* Sending.                                                                 *)

(* The builder is as it was. *)
LEMMA BuilderStays ==
    ASSUME BuilderInv, UNCHANGED <<builder, table, inputs, values, error>>
    PROVE  BuilderInv'
BY DEF BuilderInv, Faulty

LEMMA Appended ==
    /\ Append(<<>>, "BEGIN") = <<"BEGIN">>
    /\ Append(<<"BEGIN">>, "ROLLBACK") = <<"BEGIN", "ROLLBACK">>
<1>1. ASSUME NEW a, NEW b
      PROVE  Append(<<>>, a) = <<a>> /\ Append(<<a>>, b) = <<a, b>>
    <2>1. Append(<<>>, a) = <<a>>
        OBVIOUS
    <2>2. /\ Append(<<a>>, b) \in Seq({a, b}) /\ <<a, b>> \in Seq({a, b})
          /\ Len(Append(<<a>>, b)) = 2 /\ Len(<<a, b>>) = 2
          /\ Append(<<a>>, b)[1] = a /\ Append(<<a>>, b)[2] = b
        OBVIOUS
    <2>3. \A i \in 1..2 : Append(<<a>>, b)[i] = <<a, b>>[i]
        BY <2>2
    <2>4. Append(<<a>>, b) = <<a, b>>
        BY <2>2, <2>3, SeqEqual
    <2> QED BY <2>1, <2>4
<1> QED BY <1>1

LEMMA SendKeeps ==
    ASSUME IInv, Begin \/ BeginFails \/ Refuse \/ SendLock \/ SendQuery \/ ReadForeign
    PROVE  IInv'
<1>1. /\ UNCHANGED <<backend, builder, table, inputs, values, error>>
      /\ answer' \in {"begun", "sent", "refused", "failed"} /\ answer \in {"pending", "begun"}
    BY DEF Begin, BeginFails, Refuse, SendLock, SendQuery, ReadForeign, Ready
<1>2. BuilderInv'
    BY <1>1, BuilderStays DEF IInv
<1>3. DOMAIN values = 1..Len(values) /\ Len(values) \in Nat /\ Len(inputs) \in Nat
    BY LenProperties DEF IInv
<1>4. SentInv'
    <2>1. CASE Refuse
        <3>1. row' = <<>>
            BY <1>1, <2>1 DEF Refuse, IInv, SentInv
        <3>2. CASE builder = "write_locking"
            <4>1. io' = <<"BEGIN", "ROLLBACK">>
                <5>1. io = <<"BEGIN">> /\ io' = Append(io, "ROLLBACK")
                    BY <2>1, <3>2 DEF Refuse, Ready, IInv, SentInv
                <5> QED BY <5>1, Appended
            <4> QED BY <1>1, <2>1, <3>1, <3>2, <4>1 DEF Refuse, SentInv
        <3>3. CASE builder # "write_locking"
            <4>1. io' = <<>>
                BY <2>1, <3>3 DEF Refuse, Ready, IInv, SentInv
            <4> QED BY <1>1, <2>1, <3>1, <3>3, <4>1 DEF Refuse, SentInv
        <3> QED BY <3>2, <3>3
    <2>2. CASE SendLock
        BY <1>1, <2>2 DEF SendLock, IInv, SentInv
    <2>5. CASE Begin \/ BeginFails
        <3>1. /\ builder = "write_locking" /\ row' = <<>> /\ answer' \in {"begun", "failed"}
              /\ answer' = "begun" => io' = Append(<<>>, "BEGIN")
            BY <2>5 DEF Begin, BeginFails, IInv, SentInv
        <3> QED BY <1>1, <3>1, Appended DEF SentInv
    <2>3. CASE SendQuery
        <3>1. PICK column \in [DOMAIN values -> Column], name \in [DOMAIN values -> {"a", "b"}] :
                 /\ \A i \in DOMAIN values : Kept(backend, column[i], values[i]) # Refused
                 /\ row' = [i \in DOMAIN values |->
                       [name |-> name[i], column |-> column[i],
                        cell |-> Kept(backend, column[i], values[i])]]
            BY <2>3 DEF SendQuery
        <3>2. DOMAIN row' = DOMAIN values /\ \A i \in DOMAIN values :
                 /\ row'[i].column \in Column /\ row'[i].cell # Refused
                 /\ row'[i].cell = Kept(backend, row'[i].column, values[i])
            BY <3>1
        <3> QED BY <1>1, <2>3, <3>2 DEF SendQuery, SentInv, Locking
    <2>4. CASE ReadForeign
        <3>1. values = <<>> /\ error = Fine
            <4>1. Len(inputs) = 0 /\ Len(values) <= Len(inputs) /\ (error # Fine => Len(values) < Len(inputs))
                BY <2>4 DEF ReadForeign, IInv, BuilderInv, Locking
            <4>2. Len(values) = 0 /\ error = Fine
                BY <1>3, <4>1
            <4> QED BY <4>2, EmptySeq DEF IInv
        <3> QED BY <1>1, <2>4, <3>1 DEF ReadForeign, SentInv, Locking
    <2> QED BY <2>1, <2>2, <2>3, <2>4, <2>5
<1> QED BY <1>1, <1>2, <1>4 DEF IInv

LEMMA InitInv == Init => IInv
<1> SUFFICES ASSUME Init
             PROVE  IInv
    OBVIOUS
<1>1. inputs \in Seq(Input) /\ values \in Seq(Range(Sample)) /\ Len(inputs) = 0 /\ Len(values) = 0
    BY DEF Init
<1>2. BuilderInv
    BY <1>1, Errors DEF BuilderInv, Init
<1> QED BY <1>1, <1>2 DEF Init, IInv, SentInv, Input

LEMMA NextKeeps == IInv /\ [Next]_vars => IInv'
<1>1. ASSUME IInv, UNCHANGED vars
      PROVE  IInv'
    <2>1. UNCHANGED <<backend, builder, table, inputs, values, error, answer, io, row>>
        BY <1>1 DEF vars
    <2>2. BuilderInv'
        BY <1>1, <2>1, BuilderStays DEF IInv
    <2> QED BY <1>1, <2>1, <2>2 DEF IInv, SentInv
<1> QED BY <1>1, BindKeeps, KeyKeeps, SendKeeps DEF Next

(* The builder keeps the inputs up to the first bad one, none with a bad    *)
(* table; a refused lock or query has run nothing but a BEGIN that it rolled *)
(* back; and a row holds what its columns kept (Query::bind, Lock::row,      *)
(* Lock::key, Query::run, ScopedDatabase::enter).                            *)
THEOREM ValuesInv == Spec => []IInv
<1>1. Init => IInv
    BY InitInv
<1>2. IInv /\ [Next]_vars => IInv'
    BY NextKeeps
<1> QED BY <1>1, <1>2, PTL DEF Spec

(* Nothing bad is sent, what write_locking began for it is rolled back, and *)
(* the bad table, else the first bad argument, is what is reported          *)
(* (Query::bind, Lock::row, Lock::key, Lock::statement,                     *)
(* ScopedDatabase::enter), for any number of arguments.                     *)
THEOREM FirstErrorWins == Spec => []FirstErrorIsReported
<1>1. IInv => FirstErrorIsReported
    <2> SUFFICES ASSUME IInv
                 PROVE  FirstErrorIsReported
        OBVIOUS
    <2>1. /\ Len(values) \in Nat /\ Len(inputs) \in Nat /\ DOMAIN inputs = 1..Len(inputs)
          /\ values \in Seq(Range(Sample)) /\ inputs \in Seq(Input)
        BY LenProperties DEF IInv, Input
    <2>2. answer = "sent" => /\ table = "simple" /\ \A i \in DOMAIN inputs : ~Faulty(i)
                             /\ builder \in Locking => inputs # <<>>
        <3>1. ASSUME answer = "sent"
              PROVE  /\ error = Fine /\ (builder \in Locking => values # <<>>) /\ Len(values) = Len(inputs)
                     /\ table = "simple"
            BY <3>1, Errors DEF IInv, SentInv, BuilderInv
        <3>2. inputs = <<>> => Len(inputs) = 0
            BY <2>1, EmptySeq
        <3>3. Len(values) = 0 => values = <<>>
            BY <2>1, EmptySeq
        <3> QED BY <2>1, <3>1, <3>2, <3>3 DEF IInv, BuilderInv
    <2>3. answer = "refused" =>
             /\ error # Fine \/ (builder \in Locking /\ inputs = <<>>)
             /\ io = IF builder = "write_locking" THEN <<"BEGIN", "ROLLBACK">> ELSE <<>>
        <3>1. error = Fine /\ values = <<>> => Len(inputs) = 0
            BY DEF IInv, BuilderInv
        <3> QED BY <2>1, <3>1, EmptySeq DEF IInv, SentInv
    <2>4. ASSUME error.what = "Encode"
          PROVE  /\ error.parameter \in DOMAIN inputs /\ ~Valid(inputs[error.parameter].x)
                 /\ \A i \in 1..(error.parameter - 1) : ~Faulty(i)
        <3>1. error # Fine /\ error # InvalidLock /\ table = "simple"
            BY <2>4, Errors DEF IInv, BuilderInv
        <3>2. /\ error = EncodeError(Len(values) + 1) /\ ~Valid(inputs[Len(values) + 1].x)
              /\ Len(values) < Len(inputs) /\ \A i \in 1..Len(values) : ~Faulty(i)
            BY <3>1 DEF IInv, BuilderInv
        <3>3. error.parameter = Len(values) + 1
            BY <2>1, <3>2, Errors
        <3>4. Len(values) + 1 \in 1..Len(inputs) /\ (Len(values) + 1) - 1 = Len(values)
            BY <2>1, <3>2
        <3> QED BY <2>1, <3>2, <3>3, <3>4
    <2>5. table = "invalid" => error = InvalidLock /\ values = <<>>
        BY DEF IInv, BuilderInv
    <2> QED BY <2>2, <2>3, <2>4, <2>5 DEF FirstErrorIsReported
<1> QED BY <1>1, ValuesInv, PTL

-----------------------------------------------------------------------------
(* Reading.                                                                 *)

(* What from_value lets through is valid, and it is the value it was given. *)
LEMMA FromValueValid ==
    ASSUME NEW kind, NEW optional \in BOOLEAN, NEW v, FromValue(kind, optional, v).tag = "ok"
    PROVE  /\ FromValue(kind, optional, v).v = v
           /\ v # Null => Fault(kind, v) = "none"
<1>1. CASE v = Null
    BY <1>1 DEF FromValue, Ok, Error
<1>2. CASE v # Null /\ Fault(kind, v) = "none"
    BY <1>2 DEF FromValue, Ok
<1>3. CASE v # Null /\ Fault(kind, v) # "none"
    <2>1. Fault(kind, v) \in {"InvalidValue", "OutOfRange", "none"}
        BY DEF Fault
    <2> QED BY <1>3, <2>1 DEF FromValue, Error
<1> QED BY <1>1, <1>2, <1>3

(* Row::value of a column that is there once. *)
CellValue(b, kind, cell) ==
    IF cell.v = Null THEN Ok(Null)
    ELSE IF b = "sqlite" THEN SqliteValue(kind, cell) ELSE PostgresValue(kind, cell)

LEMMA NarrowFits ==
    ASSUME NEW kind, NEW n
    PROVE  Narrow(kind, n).tag = "ok" =>
             Narrow(kind, n).v = n /\ (kind = "I32" => Fits(n, I32))
BY DEF Narrow, Ok, Error

LEMMA CellValueFits ==
    ASSUME NEW b, NEW cell, CellValue(b, "I32", cell).tag = "ok", CellValue(b, "I32", cell).v # Null
    PROVE  Fits(CellValue(b, "I32", cell).v, I32)
<1>1. cell.v # Null
    BY DEF CellValue, Ok
<1>2. CASE b = "sqlite"
    <2>1. CASE cell.type = "INTEGER"
        <3>1. SqliteValue("I32", cell) = Narrow("I32", cell.v)
            BY <2>1 DEF SqliteValue
        <3> QED BY <1>1, <1>2, <3>1, NarrowFits DEF CellValue
    <2>2. CASE cell.type # "INTEGER"
        BY <1>1, <1>2, <2>2 DEF CellValue, SqliteValue, Error
    <2> QED BY <2>1, <2>2
<1>3. CASE b # "sqlite"
    <2>1. CASE cell.type \in DOMAIN Width
        <3>1. PostgresValue("I32", cell) = Narrow("I32", cell.v)
            BY <2>1 DEF PostgresValue
        <3> QED BY <1>1, <1>3, <3>1, NarrowFits DEF CellValue
    <2>2. CASE cell.type \notin DOMAIN Width
        BY <1>1, <1>3, <2>2 DEF CellValue, PostgresValue, Error
    <2> QED BY <2>1, <2>2
<1> QED BY <1>2, <1>3

(* A column that is read is there once, and its cell is what is read. *)
LEMMA ReadsOne ==
    ASSUME NEW b, NEW r, NEW i \in DOMAIN r, NEW kind, RowValue(b, r, r[i].name, kind).tag = "ok"
    PROVE  RowValue(b, r, r[i].name, kind) = CellValue(b, kind, r[i].cell)
<1> DEFINE found == Matches(r, r[i].name)
<1>1. i \in found
    BY DEF Matches
<1>2. \A j, k \in found : j = k
    BY <1>1 DEF RowValue, Error
<1>3. (CHOOSE j \in found : TRUE) = i
    BY <1>1, <1>2
<1> QED BY <1>1, <1>2, <1>3 DEF RowValue, CellValue

LEMMA ReadsNamed ==
    ASSUME NEW b, NEW r, NEW i \in DOMAIN r, NEW kind, \A j \in DOMAIN r : j # i => r[j].name # r[i].name
    PROVE  RowValue(b, r, r[i].name, kind) = CellValue(b, kind, r[i].cell)
<1> DEFINE found == Matches(r, r[i].name)
<1>1. found = {i}
    BY DEF Matches
<1>2. (CHOOSE j \in found : TRUE) = i
    BY <1>1
<1> QED BY <1>1, <1>2 DEF RowValue, CellValue

(* What try_get returns can be bound again, whatever any program stored     *)
(* (Representation::from_value, Row::value).                                *)
THEOREM ReadIsBindable == Spec => []ReadCanBeBoundAgain
<1>1. ReadCanBeBoundAgain
    <2> SUFFICES ASSUME NEW i \in DOMAIN row, NEW kind \in Kind,
                        TryGet(backend, row, row[i].name, kind, TRUE).tag = "ok",
                        TryGet(backend, row, row[i].name, kind, TRUE).v # Null
                 PROVE  LET got == TryGet(backend, row, row[i].name, kind, TRUE)
                        IN  Valid(V(kind, got.v)) /\ (kind = "I32" => Fits(got.v, I32))
        BY DEF ReadCanBeBoundAgain
    <2> DEFINE got == TryGet(backend, row, row[i].name, kind, TRUE)
               value == RowValue(backend, row, row[i].name, kind)
               read == CellValue(backend, kind, row[i].cell)
    <2>1. read.tag = "ok" /\ got.v = read.v /\ Fault(kind, got.v) = "none" /\ got.v # Null
        <3>1. /\ value.tag = "ok" /\ got.v # Null
              /\ got = IF value.v = Null THEN Ok(Null)
                       ELSE IF Fault(kind, value.v) # "none" THEN Error(Fault(kind, value.v)) ELSE Ok(value.v)
            BY DEF TryGet, FromValue
        <3>2. value = read
            BY <3>1, ReadsOne
        <3> HIDE DEF value, read, got
        <3> QED BY <3>1, <3>2 DEF Ok, Error
    <2> HIDE DEF got
    <2>2. Valid(V(kind, got.v))
        BY <2>1 DEF Valid, V
    <2>3. kind = "I32" => Fits(got.v, I32)
        BY <2>1, CellValueFits
    <2> QED BY <2>2, <2>3 DEF got
<1> QED BY <1>1, PTL

-----------------------------------------------------------------------------
(* What a column makes of a value, SQLite.                                  *)

(* A valid time is what its rendering renders. *)
LEMMA TimeKept ==
    ASSUME NEW t \in Moment, Precise(t)
    PROVE  Timestamp(t) \in Moment /\ Timestamp(t).instant = t.instant
<1>1. t.instant \in Int /\ Micro \in Nat \ {0} /\ t.instant % Micro = 0
    BY TimeAssumption DEF Moment, Precise
<1>2. (t.instant \div Micro) * Micro = t.instant
    BY <1>1
<1> QED BY <1>1, <1>2 DEF Timestamp, Utc, Moment

LEMMA ValidTime ==
    ASSUME NEW x, Bound(x), Valid(x), x.kind = "Time", x.v # Null
    PROVE  x.v \in Moment /\ InRange(x.v) /\ Precise(x.v)
<1>1. x.v \in Moment
    BY DEF Bound, Content
<1>2. Fault("Time", x.v) = "none"
    BY DEF Valid
<1> QED BY <1>1, <1>2 DEF Fault

(* A cell is kept as it is, or in another form. *)
LEMMA SqliteForms ==
    ASSUME NEW column, NEW cell
    PROVE  \/ SqliteKeeps(column, cell) = cell
           \/ /\ SqliteKeeps(column, cell) = Cell("INTEGER", 1)
              /\ cell.type = "REAL" \/ LooksNumeric(cell)
           \/ /\ SqliteKeeps(column, cell) = Cell("REAL", "whole")
              /\ cell.type = "INTEGER" \/ (cell.type = "REAL" /\ cell.v = "whole") \/ LooksNumeric(cell)
           \/ SqliteKeeps(column, cell) = Text("number", cell.v) /\ cell.type \in {"INTEGER", "REAL"}
BY DEF SqliteKeeps

(* The forms of each kind's argument, and that none is NULL. *)
LEMMA SqliteInteger ==
    ASSUME NEW x, Bound(x), x.v # Null, x.kind \in {"I32", "I64"}, NEW column, NEW kind \in {"I32", "I64"}
    PROVE  LET read == CellValue("sqlite", kind, SqliteKeeps(column, SqliteArgument(x)))
           IN  read.tag = "ok" => read.v = x.v
<1> DEFINE cell == SqliteKeeps(column, SqliteArgument(x))
<1>1. SqliteArgument(x) = Cell("INTEGER", x.v)
    BY DEF SqliteArgument
<1>2. x.v \in Int
    BY DEF Bound, Content
<1>3. ~LooksNumeric(Cell("INTEGER", x.v)) /\ Cell("INTEGER", x.v).type = "INTEGER" /\ Cell("INTEGER", x.v).v = x.v
    BY DEF LooksNumeric, Cell
<1>4. \/ cell = Cell("INTEGER", x.v)
      \/ cell = Cell("REAL", "whole")
      \/ cell = Text("number", x.v)
    BY <1>1, <1>3, SqliteForms
<1> HIDE DEF cell
<1>5. CASE cell = Cell("INTEGER", x.v)
    <2>1. SqliteValue(kind, cell) = Narrow(kind, x.v)
        BY <1>5 DEF SqliteValue, Cell
    <2> QED BY <1>5, <2>1, NarrowFits DEF CellValue, Cell, cell
<1>6. CASE cell = Cell("REAL", "whole")
    BY <1>6, NullAssumption DEF CellValue, SqliteValue, Cell, Error, cell
<1>7. CASE cell = Text("number", x.v)
    <2>1. cell.v # Null /\ cell.type = "TEXT"
        BY <1>2, <1>7, NullAssumption DEF Text, Cell
    <2> QED BY <2>1 DEF CellValue, SqliteValue, Error, cell
<1> QED BY <1>4, <1>5, <1>6, <1>7

LEMMA SqliteBool ==
    ASSUME NEW x, Bound(x), x.v # Null, x.kind = "Bool", NEW column
    PROVE  LET read == CellValue("sqlite", "Bool", SqliteKeeps(column, SqliteArgument(x)))
           IN  read.tag = "ok" => read.v = x.v
<1> DEFINE cell == SqliteKeeps(column, SqliteArgument(x))
           n == IF x.v THEN 1 ELSE 0
<1>1. SqliteArgument(x) = Cell("INTEGER", n)
    BY DEF SqliteArgument
<1>2. x.v \in BOOLEAN
    BY DEF Bound, Content
<1>3. n \in {0, 1} /\ (n = 1) = x.v
    BY <1>2
<1> HIDE DEF n
<1>4. ~LooksNumeric(Cell("INTEGER", n)) /\ Cell("INTEGER", n).type = "INTEGER" /\ Cell("INTEGER", n).v = n
    BY DEF LooksNumeric, Cell
<1>5. \/ cell = Cell("INTEGER", n)
      \/ cell = Cell("REAL", "whole")
      \/ cell = Text("number", n)
    BY <1>1, <1>4, SqliteForms
<1> HIDE DEF cell
<1>6. CASE cell = Cell("INTEGER", n)
    <2>1. cell.type = "INTEGER" /\ cell.v = n /\ n # Null
        BY <1>3, <1>6, NullAssumption DEF Cell
    <2>2. SqliteValue("Bool", cell) = Ok(n = 1)
        BY <1>3, <2>1 DEF SqliteValue
    <2>3. CellValue("sqlite", "Bool", cell) = Ok(x.v)
        BY <1>3, <2>1, <2>2 DEF CellValue
    <2> QED BY <2>3 DEF Ok, cell
<1>7. CASE cell = Cell("REAL", "whole")
    BY <1>7, NullAssumption DEF CellValue, SqliteValue, Cell, Error, cell
<1>8. CASE cell = Text("number", n)
    <2>1. cell.v # Null /\ cell.type = "TEXT"
        BY <1>3, <1>8, NullAssumption DEF Text, Cell
    <2> QED BY <2>1 DEF CellValue, SqliteValue, Error, cell
<1> QED BY <1>5, <1>6, <1>7, <1>8

LEMMA SqliteFloat ==
    ASSUME NEW x, Bound(x), x.v # Null, x.kind = "Float", NEW column
    PROVE  LET read == CellValue("sqlite", "Float", SqliteKeeps(column, SqliteArgument(x)))
           IN  read.tag = "ok" => read.v = x.v
<1> DEFINE cell == SqliteKeeps(column, SqliteArgument(x))
<1>1. SqliteArgument(x) = Cell("REAL", x.v)
    BY DEF SqliteArgument
<1>2. x.v \in STRING
    BY DEF Bound, Content
<1>3. ~LooksNumeric(Cell("REAL", x.v)) /\ Cell("REAL", x.v).type = "REAL" /\ Cell("REAL", x.v).v = x.v
    BY DEF LooksNumeric, Cell
<1>4. \/ cell = Cell("REAL", x.v)
      \/ cell = Cell("INTEGER", 1)
      \/ cell = Text("number", x.v)
    BY <1>1, <1>3, SqliteForms
<1> HIDE DEF cell
<1>5. CASE cell = Cell("REAL", x.v)
    <2>1. SqliteValue("Float", cell) = Ok(x.v)
        BY <1>5 DEF SqliteValue, Cell
    <2> QED BY <1>5, <2>1 DEF CellValue, Cell, Ok, cell
<1>6. CASE cell = Cell("INTEGER", 1)
    BY <1>6, NullAssumption DEF CellValue, SqliteValue, Cell, Error, cell
<1>7. CASE cell = Text("number", x.v)
    <2>1. cell.v # Null /\ cell.type = "TEXT"
        BY <1>2, <1>7, NullAssumption DEF Text, Cell
    <2> QED BY <2>1 DEF CellValue, SqliteValue, Error, cell
<1> QED BY <1>4, <1>5, <1>6, <1>7

LEMMA SqliteBytes ==
    ASSUME NEW x, x.v # Null, x.kind = "Bytes", NEW column
    PROVE  CellValue("sqlite", "Bytes", SqliteKeeps(column, SqliteArgument(x))) = Ok(x.v)
<1>1. SqliteArgument(x) = Cell("BLOB", x.v)
    BY DEF SqliteArgument
<1>2. ~LooksNumeric(Cell("BLOB", x.v)) /\ Cell("BLOB", x.v).type = "BLOB" /\ Cell("BLOB", x.v).v = x.v
    BY DEF LooksNumeric, Cell
<1>3. SqliteKeeps(column, SqliteArgument(x)) = Cell("BLOB", x.v)
    BY <1>1, <1>2, SqliteForms
<1> QED BY <1>2, <1>3 DEF CellValue, SqliteValue

(* What SQLite keeps as text: the text itself, or what it renders. *)
Rendered(x) == IF x.kind = "Time" THEN Timestamp(x.v) ELSE x.v

LEMMA SqliteText ==
    ASSUME NEW x, Bound(x), Valid(x), x.v # Null, x.kind \in {"Text", "Uuid", "Time", "Json"}, NEW column
    PROVE  LET read == CellValue("sqlite", x.kind, SqliteKeeps(column, SqliteArgument(x)))
           IN  read.tag = "ok" => read.v = Rendered(x)
<1> DEFINE cell == SqliteKeeps(column, SqliteArgument(x))
           w == Rendered(x)
           text == Text(x.kind, w)
<1>1. SqliteArgument(x) = text
    BY DEF SqliteArgument, Rendered
<1>2. w \in Moment \cup STRING
    BY ValidTime, TimeKept DEF Bound, Content, Rendered
<1> HIDE DEF w
<1>3. text.type = "TEXT" /\ text.v = [of |-> x.kind, v |-> w] /\ text.v # Null
    BY <1>2, NullAssumption DEF Text, Cell, Kind
<1> HIDE DEF text
<1>4. cell = text \/ cell = Cell("INTEGER", 1) \/ cell = Cell("REAL", "whole")
    BY <1>1, <1>3, SqliteForms
<1> HIDE DEF cell
<1>5. CASE cell = text
    <2>1. SqliteValue(x.kind, cell) = Ok(w)
        <3>1. Parsed(x.kind, cell.v) = Ok(w) /\ cell.v.v = w /\ cell.type = "TEXT"
            BY <1>3, <1>5 DEF Parsed
        <3> QED BY <3>1 DEF SqliteValue
    <2> QED BY <1>3, <1>5, <2>1 DEF CellValue, Ok, cell, w
<1>6. CASE cell = Cell("INTEGER", 1)
    BY <1>6, NullAssumption DEF CellValue, SqliteValue, Cell, Error, cell
<1>7. CASE cell = Cell("REAL", "whole")
    BY <1>7, NullAssumption DEF CellValue, SqliteValue, Cell, Error, cell
<1> QED BY <1>4, <1>5, <1>6, <1>7

LEMMA SqliteNull ==
    ASSUME NEW x, x.v = Null, NEW column, NEW kind
    PROVE  CellValue("sqlite", kind, SqliteKeeps(column, SqliteArgument(x))) = Ok(Null)
<1>1. SqliteArgument(x) = Cell("NULL", Null)
    BY DEF SqliteArgument
<1>2. ~LooksNumeric(Cell("NULL", Null)) /\ Cell("NULL", Null).type = "NULL" /\ Cell("NULL", Null).v = Null
    BY DEF LooksNumeric, Cell
<1>3. SqliteKeeps(column, SqliteArgument(x)) = Cell("NULL", Null)
    BY <1>1, <1>2, SqliteForms
<1> QED BY <1>2, <1>3 DEF CellValue

(* What a backend that keeps a value returns. *)
Returned(x) == IF x.v = Null THEN Null ELSE Rendered(x)

LEMMA SqliteSame ==
    ASSUME NEW x, Bound(x), Valid(x), NEW column, NEW kind \in Family(x.kind),
           CellValue("sqlite", kind, SqliteKeeps(column, SqliteArgument(x))).tag = "ok"
    PROVE  CellValue("sqlite", kind, SqliteKeeps(column, SqliteArgument(x))).v = Returned(x)
<1>1. CASE x.v = Null
    <2>1. CellValue("sqlite", kind, SqliteKeeps(column, SqliteArgument(x))) = Ok(Null)
        BY <1>1, SqliteNull
    <2> QED BY <1>1, <2>1 DEF Ok, Returned
<1>2. CASE x.v # Null /\ x.kind \in {"I32", "I64"}
    <2>1. kind \in {"I32", "I64"}
        BY <1>2 DEF Family
    <2> QED BY <1>2, <2>1, SqliteInteger DEF Returned, Rendered
<1>3. CASE x.v # Null /\ x.kind \notin {"I32", "I64"}
    <2>1. kind = x.kind
        BY <1>3 DEF Family
    <2>2. CASE x.kind = "Bool"
        BY <1>3, <2>1, <2>2, SqliteBool DEF Returned, Rendered
    <2>3. CASE x.kind = "Float"
        BY <1>3, <2>1, <2>3, SqliteFloat DEF Returned, Rendered
    <2>4. CASE x.kind = "Bytes"
        BY <1>3, <2>1, <2>4, SqliteBytes DEF Returned, Rendered, Ok
    <2>5. CASE x.kind \in {"Text", "Uuid", "Time", "Json"}
        BY <1>3, <2>1, <2>5, SqliteText DEF Returned
    <2> QED BY <1>3, <2>2, <2>3, <2>4, <2>5 DEF Bound, Kind
<1> QED BY <1>1, <1>2, <1>3

-----------------------------------------------------------------------------
(* What a column makes of a value, PostgreSQL.                              *)

LEMMA PgTypes ==
    /\ DOMAIN Width = {"INT2", "INT4", "INT8"}
    /\ \A kind \in Kind : ParameterType[kind] \in DOMAIN Width <=> kind \in {"I32", "I64"}
BY DEF Width, ParameterType, Kind

LEMMA PostgresForms ==
    ASSUME NEW column, NEW cell, PostgresKeeps(column, cell) # Refused
    PROVE  LET to == PgType[column]
               kept == PostgresKeeps(column, cell)
           IN  \/ /\ kept = Cell(to, cell.v)
                  /\ cell.v = Null \/ cell.type = to \/ {cell.type, to} \subseteq DOMAIN Width
               \/ kept = Cell(to, 1) /\ cell.type = "FLOAT8" /\ to \in DOMAIN Width
               \/ kept = Cell(to, "whole") /\ cell.type \in DOMAIN Width /\ to = "FLOAT8"
               \/ kept = Cell(to, "rendered") /\ cell.type # to /\ to = "TEXT"
<1> DEFINE to == PgType[column]
<1> HIDE DEF to
<1>1. Castable(cell.type, to)
    <2> SUFFICES ASSUME ~Castable(cell.type, to)
                 PROVE  PostgresKeeps(column, cell) = Refused
        OBVIOUS
    <2>1. /\ cell.type # to /\ to # "TEXT" /\ ~({cell.type, to} \subseteq DOMAIN Width)
          /\ ~(cell.type = "FLOAT8" /\ to \in DOMAIN Width) /\ ~(cell.type \in DOMAIN Width /\ to = "FLOAT8")
        BY DEF Castable
    <2> QED BY <2>1 DEF PostgresKeeps, to
<1>2. CASE cell.v = Null \/ cell.type = to
    BY <1>1, <1>2 DEF PostgresKeeps, to
<1>3. CASE cell.v # Null /\ cell.type # to
    <2>1. CASE {cell.type, to} \subseteq DOMAIN Width
        <3>1. cell.type # "FLOAT8" /\ to # "FLOAT8" /\ to # "TEXT"
            BY <2>1, PgTypes
        <3>2. PostgresKeeps(column, cell) = IF Fits(cell.v, Width[to]) THEN Cell(to, cell.v) ELSE Refused
            BY <1>1, <1>3, <2>1, <3>1 DEF PostgresKeeps, to
        <3> QED BY <2>1, <3>2 DEF to
    <2>2. CASE cell.type = "FLOAT8" /\ to \in DOMAIN Width
        <3>1. to # "TEXT" /\ to # "FLOAT8" /\ cell.type \notin DOMAIN Width
            BY <2>2, PgTypes
        <3> QED BY <1>1, <1>3, <2>2, <3>1 DEF PostgresKeeps, to
    <2>3. CASE cell.type \in DOMAIN Width /\ to = "FLOAT8"
        <3>1. to # "TEXT" /\ cell.type # "FLOAT8" /\ to \notin DOMAIN Width
            BY <2>3, PgTypes
        <3> QED BY <1>1, <1>3, <2>3, <3>1 DEF PostgresKeeps, to
    <2>4. CASE to = "TEXT"
        <3>1. to \notin DOMAIN Width /\ to # "FLOAT8"
            BY <2>4, PgTypes
        <3> QED BY <1>1, <1>3, <2>4, <3>1 DEF PostgresKeeps, to
    <2> QED BY <1>1, <1>3, <2>1, <2>2, <2>3, <2>4 DEF Castable
<1> QED BY <1>2, <1>3

LEMMA PostgresSame ==
    ASSUME NEW x, Bound(x), NEW column, NEW kind \in Family(x.kind),
           PostgresKeeps(column, PostgresArgument(x)) # Refused,
           CellValue("postgres", kind, PostgresKeeps(column, PostgresArgument(x))).tag = "ok"
    PROVE  CellValue("postgres", kind, PostgresKeeps(column, PostgresArgument(x))).v = Returned(x)
<1> DEFINE arg == PostgresArgument(x)
           cell == PostgresKeeps(column, arg)
           to == PgType[column]
           w == Returned(x)
<1>1. arg.type = ParameterType[x.kind] /\ arg.v = w
    BY DEF PostgresArgument, Cell, Returned, Rendered
<1>2. \/ cell = Cell(to, w) /\ (w = Null \/ arg.type = to \/ {arg.type, to} \subseteq DOMAIN Width)
      \/ cell = Cell(to, 1) /\ arg.type = "FLOAT8" /\ to \in DOMAIN Width
      \/ cell = Cell(to, "whole") /\ arg.type \in DOMAIN Width /\ to = "FLOAT8"
      \/ cell = Cell(to, "rendered") /\ arg.type # to /\ to = "TEXT"
    BY <1>1, PostgresForms
<1>3. CellValue("postgres", kind, cell).tag = "ok" /\ x.kind \in Kind
    BY DEF Bound
<1> SUFFICES CellValue("postgres", kind, cell).v = w
    OBVIOUS
<1> HIDE DEF arg, cell, to, w
<1>4. CASE cell.v = Null
    <2>1. w = Null
        BY <1>2, <1>4, NullAssumption DEF Cell
    <2> QED BY <1>4, <2>1 DEF CellValue, Ok
<1>5. CASE cell.v # Null /\ x.kind \in {"I32", "I64"}
    <2>1. kind \in {"I32", "I64"} /\ arg.type \in DOMAIN Width
        BY <1>1, <1>3, <1>5, PgTypes DEF Family
    <2>2. CASE cell.type \in DOMAIN Width
        <3>1. cell.v = w
            BY <1>2, <2>1, <2>2, PgTypes DEF Cell
        <3>2. CellValue("postgres", kind, cell) = Narrow(kind, w)
            BY <1>5, <2>1, <2>2, <3>1 DEF CellValue, PostgresValue
        <3> QED BY <1>3, <3>2, NarrowFits
    <2>3. CASE cell.type \notin DOMAIN Width
        BY <1>3, <1>5, <2>1, <2>3 DEF CellValue, PostgresValue, Error
    <2> QED BY <2>2, <2>3
<1>6. CASE cell.v # Null /\ x.kind \notin {"I32", "I64"}
    <2>1. kind = x.kind /\ arg.type \notin DOMAIN Width
        BY <1>1, <1>3, <1>6, PgTypes DEF Family
    <2>2. CASE cell.type = ParameterType[kind]
        <3>1. cell.v = w
            BY <1>1, <1>2, <2>1, <2>2, PgTypes DEF Cell
        <3>2. CellValue("postgres", kind, cell) = Ok(w)
            BY <1>6, <2>1, <2>2, <3>1 DEF CellValue, PostgresValue
        <3> QED BY <3>2 DEF Ok
    <2>3. CASE cell.type # ParameterType[kind]
        BY <1>3, <1>6, <2>1, <2>3 DEF CellValue, PostgresValue, Error
    <2> QED BY <2>2, <2>3
<1> QED BY <1>4, <1>5, <1>6

-----------------------------------------------------------------------------
(* What is bound and what is read.                                          *)

LEMMA ReturnedSame ==
    ASSUME NEW x, Bound(x), Valid(x), NEW kind \in Family(x.kind)
    PROVE  Same(kind, Returned(x), x.v)
<1>1. CASE x.kind = "Time" /\ x.v # Null
    <2>1. Returned(x) \in Moment /\ Returned(x).instant = x.v.instant /\ kind = "Time"
        BY <1>1, ValidTime, TimeKept DEF Returned, Rendered, Family
    <2> QED BY <1>1, <2>1, NullAssumption DEF Same
<1>2. CASE ~(x.kind = "Time" /\ x.v # Null)
    <2>1. Returned(x) = x.v
        BY <1>2 DEF Returned, Rendered
    <2>2. kind = "Time" => x.v = Null
        BY <1>2 DEF Family
    <2> QED BY <2>1, <2>2 DEF Same
<1> QED BY <1>1, <1>2

(* In a row of bound values each cell is what the column kept of a value. *)
LEMMA SentRow ==
    ASSUME IInv, NEW i \in DOMAIN values, answer = "sent", row # <<>>
    PROVE  /\ i \in DOMAIN row /\ Bound(values[i]) /\ Valid(values[i]) /\ backend \in Backend
           /\ row[i].cell # Refused /\ row[i].cell = Kept(backend, row[i].column, values[i])
<1>1. i \in 1..Len(values) /\ values # <<>>
    BY LenProperties DEF IInv
<1>2. values[i] = inputs[i].x /\ Bound(values[i]) /\ ~Faulty(i)
    BY <1>1 DEF IInv, BuilderInv
<1>3. Valid(values[i])
    BY <1>2 DEF Faulty
<1> QED BY <1>1, <1>2, <1>3 DEF IInv, SentInv

(* Reading a bound value back, as its own type or as an integer of the other *)
(* width, gives that value or an error, whatever the column made of it (the  *)
(* storage-class and width checks of Row::value).                           *)
THEOREM NeverAnother == Spec => []SameOrError
<1>1. IInv => SameOrError
    <2> SUFFICES ASSUME IInv, NEW i \in DOMAIN values, answer = "sent", row # <<>>,
                        NEW kind \in Family(values[i].kind), NEW optional \in BOOLEAN,
                        TryGet(backend, row, row[i].name, kind, optional).tag = "ok"
                 PROVE  Same(kind, TryGet(backend, row, row[i].name, kind, optional).v, values[i].v)
        BY DEF SameOrError
    <2> DEFINE read == CellValue(backend, kind, row[i].cell)
    <2>1. /\ i \in DOMAIN row /\ Bound(values[i]) /\ Valid(values[i]) /\ backend \in Backend
          /\ row[i].cell # Refused /\ row[i].cell = Kept(backend, row[i].column, values[i])
        BY SentRow
    <2>2. read.tag = "ok" /\ TryGet(backend, row, row[i].name, kind, optional).v = read.v
        <3> DEFINE value == RowValue(backend, row, row[i].name, kind)
                   got == TryGet(backend, row, row[i].name, kind, optional)
        <3>1. value.tag = "ok" /\ got = FromValue(kind, optional, value.v) /\ got.tag = "ok"
            BY DEF TryGet
        <3>2. value = read
            BY <2>1, <3>1, ReadsOne
        <3> HIDE DEF value, got, read
        <3>3. got.v = value.v
            BY <3>1, FromValueValid
        <3>4. read.tag = "ok" /\ got.v = read.v
            BY <3>1, <3>2, <3>3
        <3> QED BY <3>4 DEF got
    <2>3. read.v = Returned(values[i])
        <3>1. CASE backend = "sqlite"
            <4>1. row[i].cell = SqliteKeeps(row[i].column, SqliteArgument(values[i]))
                BY <2>1, <3>1 DEF Kept
            <4> QED BY <2>1, <2>2, <3>1, <4>1, SqliteSame
        <3>2. CASE backend = "postgres"
            <4>1. row[i].cell = PostgresKeeps(row[i].column, PostgresArgument(values[i]))
                BY <2>1, <3>2 DEF Kept
            <4> QED BY <2>1, <2>2, <3>2, <4>1, PostgresSame
        <3> QED BY <2>1, <3>1, <3>2 DEF Backend
    <2>4. Same(kind, Returned(values[i]), values[i].v)
        BY <2>1, ReturnedSame
    <2> QED BY <2>2, <2>3, <2>4
<1> QED BY <1>1, ValuesInv, PTL

-----------------------------------------------------------------------------
(* Columns made for a type.                                                 *)

LEMMA SuitedAffinity ==
    ASSUME NEW kind \in Kind, NEW column \in Suited[kind]
    PROVE  /\ kind \in {"I32", "I64"} => Affinity(column) = "INTEGER"
           /\ kind = "Bool" => Affinity(column) = "NUMERIC"
           /\ kind = "Float" => Affinity(column) = "REAL"
           /\ kind = "Bytes" => Affinity(column) = "BLOB"
           /\ kind \in {"Text", "Uuid", "Time", "Json"} => Affinity(column) = "TEXT"
BY DEF Suited, Affinity, Kind, IntegerColumn

LEMMA SqliteReads ==
    ASSUME NEW x, Bound(x), Valid(x), NEW column \in Suited[x.kind]
    PROVE  CellValue("sqlite", x.kind, SqliteKeeps(column, SqliteArgument(x))).tag = "ok"
<1> DEFINE arg == SqliteArgument(x)
<1>1. x.kind \in Kind
    BY DEF Bound
<1>2. CASE x.v = Null
    <2>1. CellValue("sqlite", x.kind, SqliteKeeps(column, arg)) = Ok(Null)
        BY <1>2, SqliteNull
    <2> QED BY <2>1 DEF Ok
<1>3. CASE x.v # Null /\ x.kind \in {"I32", "I64"}
    <2>1. arg = Cell("INTEGER", x.v)
        BY <1>3 DEF SqliteArgument
    <2>2. SqliteKeeps(column, Cell("INTEGER", x.v)) = Cell("INTEGER", x.v)
        BY <1>1, <1>3, SuitedAffinity DEF SqliteKeeps, LooksNumeric, Cell
    <2>3. x.kind = "I32" => Fits(x.v, I32)
        BY <1>3 DEF Bound, Content
    <2>4. SqliteValue(x.kind, Cell("INTEGER", x.v)) = Ok(x.v)
        BY <1>3, <2>3 DEF SqliteValue, Narrow, Cell
    <2> QED BY <1>3, <2>1, <2>2, <2>4 DEF CellValue, Cell, Ok
<1>4. CASE x.v # Null /\ x.kind = "Bool"
    <2> DEFINE n == IF x.v THEN 1 ELSE 0
    <2>1. arg = Cell("INTEGER", n) /\ n \in {0, 1}
        BY <1>4 DEF SqliteArgument
    <2> HIDE DEF n
    <2>2. SqliteKeeps(column, Cell("INTEGER", n)) = Cell("INTEGER", n)
        BY <1>1, <1>4, SuitedAffinity DEF SqliteKeeps, LooksNumeric, Cell
    <2>3. SqliteValue("Bool", Cell("INTEGER", n)) = Ok(n = 1)
        BY <2>1 DEF SqliteValue, Cell
    <2> QED BY <1>4, <2>1, <2>2, <2>3 DEF CellValue, Cell, Ok
<1>5. CASE x.v # Null /\ x.kind = "Float"
    <2>1. arg = Cell("REAL", x.v)
        BY <1>5 DEF SqliteArgument
    <2>2. SqliteKeeps(column, Cell("REAL", x.v)) = Cell("REAL", x.v)
        BY <1>1, <1>5, SuitedAffinity DEF SqliteKeeps, LooksNumeric, Cell
    <2> QED BY <1>5, <2>1, <2>2 DEF CellValue, SqliteValue, Cell, Ok
<1>6. CASE x.v # Null /\ x.kind = "Bytes"
    BY <1>6, SqliteBytes DEF Ok
<1>7. CASE x.v # Null /\ x.kind \in {"Text", "Uuid", "Time", "Json"}
    <2> DEFINE w == Rendered(x)
    <2>1. arg = Text(x.kind, w)
        BY <1>7 DEF SqliteArgument, Rendered
    <2> HIDE DEF w
    <2>2. SqliteKeeps(column, Text(x.kind, w)) = Text(x.kind, w)
        BY <1>1, <1>7, SuitedAffinity DEF SqliteKeeps, Text, Cell
    <2>3. SqliteValue(x.kind, Text(x.kind, w)) = Ok(w)
        BY <1>7 DEF SqliteValue, Parsed, Text, Cell
    <2> QED BY <1>7, <2>1, <2>2, <2>3 DEF CellValue, Ok
<1> QED BY <1>1, <1>2, <1>3, <1>4, <1>5, <1>6, <1>7 DEF Kind

LEMMA PostgresReads ==
    ASSUME NEW x, Bound(x), Valid(x), NEW column \in Suited[x.kind],
           PostgresKeeps(column, PostgresArgument(x)) # Refused
    PROVE  CellValue("postgres", x.kind, PostgresKeeps(column, PostgresArgument(x))).tag = "ok"
<1> DEFINE arg == PostgresArgument(x)
           cell == PostgresKeeps(column, arg)
           to == PgType[column]
<1>1. x.kind \in Kind
    BY DEF Bound
<1>2. arg.type = ParameterType[x.kind] /\ arg.v = Returned(x)
    BY DEF PostgresArgument, Cell, Returned, Rendered
<1>3. \/ x.kind \in {"I32", "I64"} /\ to \in DOMAIN Width
      \/ x.kind \notin {"I32", "I64"} /\ to = ParameterType[x.kind]
    BY <1>1, PgTypes DEF Suited, PgType, ParameterType, Kind
<1>4. cell = Cell(to, Returned(x))
    <2>1. to = "TEXT" => arg.type = to
        BY <1>2, <1>3, PgTypes
    <2>2. to = "FLOAT8" => arg.type \notin DOMAIN Width
        BY <1>1, <1>2, <1>3, PgTypes
    <2>3. to \in DOMAIN Width => arg.type # "FLOAT8"
        BY <1>1, <1>2, <1>3, PgTypes
    <2> QED BY <1>2, <2>1, <2>2, <2>3, PostgresForms
<1> HIDE DEF cell
<1>5. CASE x.v = Null
    BY <1>4, <1>5 DEF CellValue, Cell, Ok, Returned, cell
<1>6. CASE x.v # Null /\ x.kind \notin {"I32", "I64"}
    <2>1. cell.type = ParameterType[x.kind]
        BY <1>3, <1>4, <1>6 DEF Cell
    <2> QED BY <1>6, <2>1 DEF CellValue, PostgresValue, Ok, cell
<1>7. CASE x.v # Null /\ x.kind \in {"I32", "I64"}
    <2>1. cell.type \in DOMAIN Width /\ cell.v = x.v
        BY <1>3, <1>4, <1>7 DEF Cell, Returned, Rendered
    <2>2. x.kind = "I32" => Fits(x.v, I32)
        BY <1>7 DEF Bound, Content
    <2>3. PostgresValue(x.kind, cell) = Ok(x.v)
        BY <1>7, <2>1, <2>2 DEF PostgresValue, Narrow
    <2> QED BY <1>7, <2>1, <2>3 DEF CellValue, Ok, cell
<1> QED BY <1>5, <1>6, <1>7

(* What a backend returns of a valid value is valid. *)
LEMMA ReturnedValid ==
    ASSUME NEW x, Bound(x), Valid(x), x.v # Null
    PROVE  Returned(x) # Null /\ Fault(x.kind, Returned(x)) = "none"
<1>1. CASE x.kind = "Time"
    <2>1. Returned(x) \in Moment /\ Returned(x).instant = x.v.instant /\ InRange(x.v) /\ Precise(x.v)
        BY <1>1, ValidTime, TimeKept DEF Returned, Rendered
    <2>2. InRange(Returned(x)) /\ Precise(Returned(x))
        BY <2>1 DEF InRange, Precise
    <2> QED BY <1>1, <2>1, <2>2, NullAssumption DEF Fault
<1>2. CASE x.kind # "Time"
    BY <1>2 DEF Returned, Rendered, Valid
<1> QED BY <1>1, <1>2

(* Every value that bind accepts, None included, comes back from a column   *)
(* made for its type, on both backends (the driver's arguments, Row::value, *)
(* Representation::from_value).                                             *)
THEOREM BoundComesBack == Spec => []RoundTrip
<1>1. IInv => RoundTrip
    <2> SUFFICES ASSUME IInv, NEW i \in DOMAIN values, answer = "sent", row # <<>>, Named(i),
                        row[i].column \in Suited[values[i].kind]
                 PROVE  LET x == values[i]
                            got == TryGet(backend, row, row[i].name, x.kind, x.v = Null)
                        IN  got.tag = "ok" /\ Same(x.kind, got.v, x.v)
        BY DEF RoundTrip
    <2> DEFINE x == values[i]
               got == TryGet(backend, row, row[i].name, x.kind, x.v = Null)
               value == RowValue(backend, row, row[i].name, x.kind)
    <2>1. /\ i \in DOMAIN row /\ Bound(x) /\ Valid(x) /\ backend \in Backend
          /\ row[i].cell # Refused /\ row[i].cell = Kept(backend, row[i].column, x)
        BY SentRow
    <2>2. value = CellValue(backend, x.kind, row[i].cell)
        BY <2>1, ReadsNamed DEF Named
    <2>3. x.kind \in Family(x.kind)
        BY DEF Family
    <2>4. got = IF value.tag = "ok"
                THEN IF value.v = Null THEN IF x.v = Null THEN Ok(Null) ELSE Error("UnexpectedNull")
                     ELSE IF Fault(x.kind, value.v) # "none" THEN Error(Fault(x.kind, value.v)) ELSE Ok(value.v)
                ELSE value
        BY DEF TryGet, FromValue
    <2> HIDE DEF x, got, value
    <2>5. value.tag = "ok" /\ value.v = Returned(x)
        <3>1. CASE backend = "sqlite"
            <4>1. row[i].cell = SqliteKeeps(row[i].column, SqliteArgument(x))
                BY <2>1, <3>1 DEF Kept
            <4>2. value.tag = "ok"
                BY <2>1, <2>2, <3>1, <4>1, SqliteReads DEF x
            <4> QED BY <2>1, <2>2, <2>3, <3>1, <4>1, <4>2, SqliteSame
        <3>2. CASE backend = "postgres"
            <4>1. row[i].cell = PostgresKeeps(row[i].column, PostgresArgument(x))
                BY <2>1, <3>2 DEF Kept
            <4>2. value.tag = "ok"
                BY <2>1, <2>2, <3>2, <4>1, PostgresReads DEF x
            <4> QED BY <2>1, <2>2, <2>3, <3>2, <4>1, <4>2, PostgresSame
        <3> QED BY <2>1, <3>1, <3>2 DEF Backend
    <2>6. got = Ok(Returned(x))
        <3>1. CASE x.v = Null
            BY <2>4, <2>5, <3>1 DEF Returned
        <3>2. CASE x.v # Null
            BY <2>1, <2>4, <2>5, <3>2, ReturnedValid
        <3> QED BY <3>1, <3>2
    <2>7. got.tag = "ok" /\ got.v = Returned(x) /\ Same(x.kind, Returned(x), x.v)
        BY <2>1, <2>3, <2>6, ReturnedSame DEF Ok
    <2> QED BY <2>7 DEF got, x
<1> QED BY <1>1, ValuesInv, PTL

=============================================================================
