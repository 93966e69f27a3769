--------------------------- MODULE PrepareProofs ---------------------------
(* Proofs about Prepare for any number of parameters and of statements. *)
EXTENDS Prepare, TLAPS

(* The answers that postgres_prepare builds are answers. *)
LEMMA AnswerType ==
    /\ Nothing \in Answer /\ Ok \in Answer /\ Driver \in Answer /\ BindCountUnknown \in Answer
    /\ \A n \in 0..MaxParams : BindCount(n) \in Answer
BY BoundAssumption DEF Answer, Nothing, Ok, Driver, BindCountUnknown, BindCount

(* A fresh connection, in or outside a transaction, satisfies the invariant. *)
LEMMA InitInv == Init => IInv
<1> SUFFICES ASSUME Init PROVE IInv
    OBVIOUS
<1>1. NoStatement \in Statement
    BY BoundAssumption DEF NoStatement, Statement
<1>2. TypeOK
  <2>1. inTx \in BOOLEAN /\ spoiled \in BOOLEAN /\ fault \in BOOLEAN
      BY Zenon DEF Init
  <2>2. prepared \in Answer /\ result \in Answer /\ stmt \in Statement
      BY <1>1, AnswerType DEF Init
  <2>3. at \in Place /\ actual \in 0..MaxParams /\ hints \in 0..MaxParams
      BY BoundAssumption DEF Init, Place
  <2>4. tx \in {"none", "open", "failed"} /\ saves \in Seq(Nat) /\ work \in Nat /\ done \in Nat
      BY DEF Init
  <2> QED BY <2>1, <2>2, <2>3, <2>4 DEF TypeOK
<1> QED
    BY <1>2 DEF Init, IInv, ProbeInv, SavepointInv, CountIsExact, SessionIntact,
                ProbesAreInvisible, Exact, Nothing

(* What postgres_statement decides on an answer: a well-typed next place. *)
LEMMA PreparedStep ==
    ASSUME TypeOK, NEW a \in {Ok, Driver, BindCountUnknown} \cup {BindCount(n) : n \in 0..MaxParams},
           Prepared(a)
    PROVE  /\ prepared' \in Answer /\ prepared' = a
           /\ at' \in {"undo", "release", "execute", "return"}
           /\ at' = "undo" => inTx /\ IsBindCount(a)
           /\ at' = "release" => inTx /\ a = Ok
           /\ at' = "execute" => ~inTx /\ a = Ok
           /\ at' = "return" => a = Driver \/ (~inTx /\ IsBindCount(a))
<1>1. a = Ok \/ a = Driver \/ IsBindCount(a)
    BY DEF IsBindCount, BindCount, BindCountUnknown
<1>2. Ok # Driver /\ ~IsBindCount(Ok) /\ ~IsBindCount(Driver)
    BY DEF Ok, Driver, IsBindCount
<1>3. a \in Answer
    BY AnswerType
<1>4. CASE a = Driver
    BY <1>3, <1>4 DEF Prepared, Driver
<1>5. CASE a = Ok
  <2>1. a.kind # "driver"
      BY <1>5 DEF Ok
  <2> QED BY <1>2, <1>3, <1>5, <2>1 DEF Prepared
<1>6. CASE IsBindCount(a)
  <2>1. a.kind # "driver" /\ a # Ok
      BY <1>2, <1>6 DEF IsBindCount
  <2> QED BY <1>3, <1>6, <2>1 DEF Prepared
<1> QED BY <1>1, <1>4, <1>5, <1>6

(* postgres_prepare ends with an exact answer in a session at its savepoint. *)
LEMMA EndPrepare ==
    ASSUME IInv, NEW a \in {Ok, Driver, BindCountUnknown} \cup {BindCount(n) : n \in 0..MaxParams},
           Prepared(a), Exact(a), at # "idle",
           a = Driver => fault \/ stmt.params > actual,
           hints' \in 0..MaxParams,
           tx' \in {"none", "open", "failed"}, work' \in Nat,
           saves = IF inTx THEN <<done>> ELSE <<>>,
           a # Driver => tx' = (IF inTx THEN "open" ELSE "none") \/ (IsBindCount(a) /\ inTx),
           a = Ok \/ ~inTx => work' = done,
           UNCHANGED <<client, result, saves, done, fault>>
    PROVE  IInv'
<1>1. /\ prepared' \in Answer /\ prepared' = a
      /\ at' \in {"undo", "release", "execute", "return"}
      /\ at' = "undo" => inTx /\ IsBindCount(a)
      /\ at' = "release" => inTx /\ a = Ok
      /\ at' = "execute" => ~inTx /\ a = Ok
      /\ at' = "return" => a = Driver \/ (~inTx /\ IsBindCount(a))
    BY PreparedStep DEF IInv
<1>2. TypeOK'
    BY <1>1 DEF IInv, TypeOK, Place, client
<1>3. Exact(prepared)'
    BY <1>1 DEF Exact, client
<1>4. ProbeInv'
    BY <1>1, <1>3 DEF ProbeInv, Driver, client, Ok, IsBindCount
<1>5. SavepointInv'
    BY <1>1 DEF SavepointInv, IInv, client, Ok, Driver, IsBindCount
<1>6. CountIsExact' /\ SessionIntact' /\ ProbesAreInvisible'
    BY <1>1 DEF IInv, CountIsExact, Exact, SessionIntact, ProbesAreInvisible, client
<1> QED BY <1>2, <1>4, <1>5, <1>6 DEF IInv

(* Start: from an intact session, nothing answered yet. *)
LEMMA StartInv ==
    ASSUME IInv, NEW s \in Statement, NEW n \in 0..MaxParams, Start(s, n) PROVE IInv'
<1>1. TypeOK'
    BY AnswerType DEF IInv, TypeOK, Start, server, Place
<1>2. SavepointInv'
    BY DEF IInv, Start, server, SavepointInv, SessionIntact, TypeOK
<1>3. ProbeInv' /\ CountIsExact' /\ SessionIntact' /\ ProbesAreInvisible'
    BY DEF Start, ProbeInv, CountIsExact, Exact, SessionIntact, ProbesAreInvisible, Nothing
<1> QED BY <1>1, <1>2, <1>3 DEF IInv

(* SAVEPOINT keeps the work of the statements that returned Ok. *)
LEMMA SavepointStep == ASSUME IInv, Savepoint PROVE IInv'
<1>1. saves' = <<done>> /\ inTx /\ tx = "open"
    BY DEF IInv, TypeOK, SavepointInv, Savepoint
<1>2. TypeOK'
    BY <1>1 DEF IInv, TypeOK, Savepoint, client, Place
<1>3. SavepointInv'
    BY <1>1 DEF IInv, SavepointInv, Savepoint, client
<1>4. ProbeInv' /\ CountIsExact' /\ SessionIntact' /\ ProbesAreInvisible'
    BY DEF IInv, Savepoint, client, ProbeInv, CountIsExact, Exact, SessionIntact, ProbesAreInvisible
<1> QED BY <1>2, <1>3, <1>4 DEF IInv

(* The counts that the server describes. *)
LEMMA DescribedType ==
    ASSUME NEW s \in Statement, NEW h \in 0..MaxParams
    PROVE  /\ Described(s, h) \in 0..MaxParams
           /\ Described(s, h) = h <=> s.params <= h
           /\ h < s.params => Described(s, h) = s.params
           /\ s.params \in 0..MaxParams
           /\ ~Resolved(s, h) => h < s.params
BY BoundAssumption DEF Described, Statement, Resolved

(* The step from the first preparation to the probes. *)
LEMMA ToProbes ==
    ASSUME IInv, at \in {"prepare", "probe"}, at' = "probe",
           hints' \in 0..MaxParams, stmt.params <= hints', 0 < hints', hints' <= actual,
           UNCHANGED <<client, prepared, result, tx, saves, work, done, fault>>
    PROVE  IInv'
<1>1. TypeOK'
    BY DEF IInv, TypeOK, client, Place
<1>2. SavepointInv'
    BY DEF IInv, SavepointInv, client
<1>3. ProbeInv' /\ CountIsExact' /\ SessionIntact' /\ ProbesAreInvisible'
    BY DEF IInv, client, ProbeInv, CountIsExact, Exact, SessionIntact, ProbesAreInvisible
<1> QED BY <1>1, <1>2, <1>3 DEF IInv

(* The first preparation. *)
LEMMA PrepareAllInv == ASSUME IInv, PrepareAll PROVE IInv'
<1>1. /\ saves = IF inTx THEN <<done>> ELSE <<>>
      /\ tx = IF inTx THEN "open" ELSE "none"
      /\ work = done /\ at = "prepare"
    BY DEF IInv, SavepointInv, PrepareAll
<1>2. /\ stmt \in Statement /\ actual \in 0..MaxParams /\ inTx \in BOOLEAN
      /\ hints' = actual /\ work' = work /\ work \in Nat
      /\ UNCHANGED <<client, result, saves, done, fault>>
    BY DEF IInv, TypeOK, PrepareAll
<1>3. CASE Resolved(stmt, actual)
  <2>1. UNCHANGED tx
      BY <1>3 DEF PrepareAll
  <2>2. CASE Described(stmt, actual) # actual
    <3>1. Prepared(BindCount(Described(stmt, actual)))
        BY <1>3, <2>2 DEF PrepareAll
    <3>2. stmt.params > actual /\ Described(stmt, actual) = stmt.params
        BY <1>2, <2>2, DescribedType
    <3>3. Exact(BindCount(Described(stmt, actual))) /\ BindCount(Described(stmt, actual)) # Ok
        BY <1>2, <3>2, DescribedType DEF Exact, BindCount, Ok
    <3>4. BindCount(Described(stmt, actual)) # Driver
        BY DEF BindCount, Driver
    <3> QED BY <1>1, <1>2, <2>1, <3>1, <3>3, <3>4, DescribedType, EndPrepare
  <2>3. CASE Described(stmt, actual) = actual /\ actual = 0
    <3>1. Prepared(Ok)
        BY <1>3, <2>3 DEF PrepareAll
    <3>2. Exact(Ok)
        BY <1>2, <2>3, DescribedType DEF Exact, Ok
    <3>3. Ok # Driver
        BY DEF Ok, Driver
    <3> QED BY <1>1, <1>2, <2>1, <3>1, <3>2, <3>3, EndPrepare
  <2>4. CASE Described(stmt, actual) = actual /\ actual # 0
    <3>1. at' = "probe" /\ UNCHANGED prepared
        BY <1>3, <2>4 DEF PrepareAll
    <3>2. stmt.params <= actual /\ 0 < actual
        BY <1>2, <2>4, DescribedType
    <3> QED BY <1>1, <1>2, <2>1, <3>1, <3>2, ToProbes
  <2> QED BY <2>2, <2>3, <2>4
<1>4. CASE ~Resolved(stmt, actual)
  <2>1. PICK a \in {BindCountUnknown, Driver} : Prepared(a)
      BY <1>4 DEF PrepareAll
  <2>2. stmt.params > actual
      BY <1>2, <1>4, DescribedType
  <2>3. Exact(a) /\ a # Ok
      BY <2>2 DEF Exact, BindCountUnknown, Driver, Ok
  <2>4. tx' = IF inTx THEN "failed" ELSE "none"
      BY <1>4 DEF PrepareAll, Failed
  <2>5. a # Driver => IsBindCount(a)
      BY DEF BindCountUnknown, IsBindCount
  <2> QED BY <1>1, <1>2, <2>1, <2>2, <2>3, <2>4, <2>5, EndPrepare
<1> QED BY <1>3, <1>4

(* The comparison at the end of the probes, once the count is right. *)
LEMMA CompareInv ==
    ASSUME IInv, Compare(stmt.params), at # "idle",
           hints' \in 0..MaxParams, work' = done,
           tx' = (IF inTx THEN "open" ELSE "none"),
           saves = IF inTx THEN <<done>> ELSE <<>>,
           UNCHANGED <<client, result, saves, done, fault>>
    PROVE  IInv'
<1> DEFINE a == IF stmt.params = actual THEN Ok ELSE BindCount(stmt.params)
<1>1. /\ stmt \in Statement /\ inTx \in BOOLEAN /\ done \in Nat /\ stmt.params \in 0..MaxParams
    BY DEF IInv, TypeOK, Statement
<1>2. Prepared(a) /\ a \in {Ok, Driver, BindCountUnknown} \cup {BindCount(n) : n \in 0..MaxParams}
    BY <1>1 DEF Compare
<1>3. Exact(a) /\ a # Driver
    BY <1>1 DEF Exact, Ok, BindCount, Driver
<1> HIDE DEF a
<1> QED BY <1>1, <1>2, <1>3, EndPrepare

(* One probe. *)
LEMMA ProbeStep == ASSUME IInv, Probe PROVE IInv'
<1>1. /\ saves = IF inTx THEN <<done>> ELSE <<>>
      /\ tx = IF inTx THEN "open" ELSE "none"
      /\ work = done /\ at = "probe" /\ spoiled
    BY DEF IInv, SavepointInv, Probe
<1>2. /\ stmt \in Statement /\ actual \in 0..MaxParams /\ inTx \in BOOLEAN
      /\ hints \in 0..MaxParams /\ hints' = hints - 1 /\ work' = work
      /\ UNCHANGED <<client, result, saves, done, fault>>
    BY DEF IInv, TypeOK, Probe
<1>3. /\ stmt.params <= hints /\ 0 < hints /\ hints <= actual /\ stmt.params \in 0..MaxParams
    BY <1>1, <1>2 DEF IInv, ProbeInv, Statement
<1>4. /\ hints' \in 0..MaxParams /\ hints' < actual /\ hints' < hints
    BY <1>2, <1>3, BoundAssumption
<1>5. CASE Resolved(stmt, hints')
  <2>1. UNCHANGED tx
      BY <1>5 DEF Probe
  <2>2. CASE Described(stmt, hints') > hints' \/ hints' = 0
    <3>1. Compare(Described(stmt, hints'))
        BY <1>5, <2>2 DEF Probe
    <3>2. Described(stmt, hints') = stmt.params
        BY <1>3, <1>4, <2>2, BoundAssumption DEF Described
    <3> QED BY <1>1, <1>2, <1>4, <2>1, <3>1, <3>2, CompareInv
  <2>3. CASE ~(Described(stmt, hints') > hints' \/ hints' = 0)
    <3>1. UNCHANGED <<at, prepared>>
        BY <1>5, <2>3 DEF Probe
    <3>2. stmt.params <= hints' /\ 0 < hints'
        BY <1>3, <1>4, <2>3, BoundAssumption DEF Described
    <3> QED BY <1>1, <1>2, <1>4, <2>1, <3>1, <3>2, ToProbes
  <2> QED BY <2>2, <2>3
<1>6. CASE ~Resolved(stmt, hints')
  <2>1. stmt.params = hints' + 1
      BY <1>2, <1>3, <1>4, <1>6, BoundAssumption DEF Resolved
  <2>2. tx' = IF inTx THEN "failed" ELSE "none"
      BY <1>6 DEF Probe, Failed
  <2>3. CASE inTx
    <3>1. at' = "undo_probe" /\ UNCHANGED prepared
        BY <1>6, <2>3 DEF Probe
    <3>2. TypeOK'
        BY <1>2, <1>4, <2>2, <3>1 DEF IInv, TypeOK, client, Place
    <3>3. SavepointInv'
        BY <1>1, <1>2, <2>3, <3>1 DEF SavepointInv, client
    <3>4. ProbeInv' /\ CountIsExact' /\ SessionIntact' /\ ProbesAreInvisible'
        BY <1>2, <1>4, <2>1, <2>3, <3>1 DEF IInv, client, ProbeInv, CountIsExact, Exact,
                                        SessionIntact, ProbesAreInvisible
    <3> QED BY <3>2, <3>3, <3>4 DEF IInv
  <2>4. CASE ~inTx
    <3>1. Compare(stmt.params)
        BY <1>6, <2>1, <2>4 DEF Probe
    <3> QED BY <1>1, <1>2, <1>4, <2>2, <2>4, <3>1, CompareInv
  <2> QED BY <2>3, <2>4
<1> QED BY <1>5, <1>6

(* ROLLBACK TO in postgres_prepare restores the session that the probe failed. *)
LEMMA UndoProbeInv == ASSUME IInv, UndoProbe PROVE IInv'
<1>1. /\ inTx /\ saves = <<done>> /\ stmt.params = hints + 1 /\ at = "undo_probe"
      /\ hints \in 0..MaxParams /\ done \in Nat
    BY DEF IInv, TypeOK, SavepointInv, ProbeInv, UndoProbe
<1>2. work' = done /\ tx' = "open" /\ UNCHANGED saves
    BY <1>1 DEF UndoProbe, RollbackTo
<1>3. Compare(stmt.params) /\ UNCHANGED <<client, hints, result, done, fault>>
    BY <1>1 DEF UndoProbe
<1> QED BY <1>1, <1>2, <1>3, CompareInv

(* ROLLBACK TO in postgres_statement restores it after a wrong count. *)
LEMMA UndoInv == ASSUME IInv, Undo PROVE IInv'
<1>1. inTx /\ saves = <<done>> /\ done \in Nat /\ IsBindCount(prepared) /\ at = "undo" /\ spoiled
    BY DEF IInv, TypeOK, SavepointInv, Undo
<1>2. work' = done /\ tx' = "open" /\ UNCHANGED saves /\ at' = "release"
    BY <1>1 DEF Undo, RollbackTo
<1>3. UNCHANGED <<client, hints, prepared, result, done, fault>>
    BY DEF Undo
<1>4. TypeOK'
    BY <1>1, <1>2, <1>3 DEF IInv, TypeOK, client, Place
<1>5. SavepointInv'
    BY <1>1, <1>2, <1>3 DEF SavepointInv, client, IsBindCount
<1>6. ProbeInv' /\ CountIsExact' /\ SessionIntact' /\ ProbesAreInvisible'
    BY <1>1, <1>2, <1>3 DEF IInv, client, ProbeInv, CountIsExact, Exact, SessionIntact,
                            ProbesAreInvisible
<1> QED BY <1>4, <1>5, <1>6 DEF IInv

(* RELEASE succeeds and leaves no savepoint. *)
LEMMA ReleaseInv == ASSUME IInv, Release PROVE IInv'
<1>1. /\ inTx /\ saves = <<done>> /\ done \in Nat /\ at = "release" /\ spoiled
      /\ work = done /\ tx = "open" /\ (prepared = Ok \/ IsBindCount(prepared))
    BY DEF IInv, TypeOK, SavepointInv, Release
<1>2. /\ saves' = SubSeq(<<done>>, 1, 0)
      /\ at' = IF prepared = Ok THEN "execute" ELSE "return"
      /\ UNCHANGED <<client, hints, prepared, result, tx, work, done, fault>>
    BY <1>1 DEF Release
<1>3. saves' = <<>>
    BY <1>1, <1>2
<1>4. TypeOK'
    BY <1>2, <1>3 DEF IInv, TypeOK, client, Place
<1>5. SavepointInv'
    BY <1>1, <1>2, <1>3 DEF SavepointInv, client, IsBindCount, Ok
<1>6. ProbeInv' /\ CountIsExact' /\ SessionIntact' /\ ProbesAreInvisible'
    BY <1>1, <1>2, <1>3 DEF IInv, client, ProbeInv, CountIsExact, Exact, SessionIntact,
                            ProbesAreInvisible, IsBindCount, Ok
<1> QED BY <1>4, <1>5, <1>6 DEF IInv

(* The execution, in an open transaction without savepoint. *)
LEMMA ExecuteInv == ASSUME IInv, Execute PROVE IInv'
<1>1. saves = <<>> /\ prepared = Ok /\ work = done /\ spoiled /\ at = "execute"
      /\ tx = IF inTx THEN "open" ELSE "none"
    BY DEF IInv, SavepointInv, Execute
<1>2. TypeOK'
    BY DEF IInv, TypeOK, Execute, client, Place
<1>3. SavepointInv'
    BY <1>1 DEF IInv, SavepointInv, Execute, client, Ok
<1>4. ProbeInv' /\ CountIsExact' /\ SessionIntact' /\ ProbesAreInvisible'
    BY <1>1 DEF IInv, Execute, client, ProbeInv, CountIsExact, Exact, SessionIntact,
                ProbesAreInvisible, Ok
<1> QED BY <1>2, <1>3, <1>4 DEF IInv

(* An error of the server's own. *)
LEMMA ServerFailsInv == ASSUME IInv, ServerFails PROVE IInv'
<1>1. TypeOK'
  <2>1. tx' \in {"none", "open", "failed"} /\ prepared' \in Answer
      BY AnswerType DEF ServerFails, Failed
  <2>2. fault' \in BOOLEAN
      BY Zenon DEF ServerFails
  <2> QED BY <2>1, <2>2 DEF IInv, TypeOK, ServerFails, client, Place
<1>2. SavepointInv'
    BY DEF IInv, SavepointInv, ServerFails, client, Driver
<1>3. ProbeInv' /\ CountIsExact' /\ SessionIntact' /\ ProbesAreInvisible'
    BY DEF IInv, ServerFails, client, ProbeInv, CountIsExact, Exact, SessionIntact,
           ProbesAreInvisible, Driver
<1> QED BY <1>1, <1>2, <1>3 DEF IInv

(* The answer reaches the caller. *)
LEMMA ReturnInv == ASSUME IInv, Return PROVE IInv'
<1>1. UNCHANGED <<inTx, stmt, actual, hints, prepared, tx, saves, work, fault>>
      /\ result' = prepared /\ at' = "idle"
    BY DEF Return, server
<1>2. TypeOK'
  <2>1. spoiled' \in BOOLEAN
      BY Zenon DEF Return
  <2>2. done' \in Nat
      BY DEF IInv, TypeOK, Return
  <2> QED BY <1>1, <2>1, <2>2 DEF IInv, TypeOK, Place
<1>3. SavepointInv' /\ ProbeInv'
    BY <1>1 DEF SavepointInv, ProbeInv
<1>4. CountIsExact' /\ ProbesAreInvisible'
    BY <1>1 DEF IInv, Return, ProbeInv, CountIsExact, Exact, ProbesAreInvisible
<1>5. SessionIntact'
  <2>1. ASSUME ~spoiled' PROVE prepared.kind # "driver" /\ (prepared = Ok \/ IsBindCount(prepared))
    <3>1. prepared = Ok \/ IsBindCount(prepared)
        BY <2>1, Zenon DEF Return
    <3> QED BY <3>1 DEF Ok, IsBindCount
  <2>2. ASSUME ~spoiled'
        PROVE  /\ saves = <<>> /\ tx = IF inTx THEN "open" ELSE "none"
               /\ work = IF prepared = Ok THEN done + 1 ELSE done
      BY <2>1, <2>2 DEF IInv, SavepointInv, Return
  <2> QED BY <1>1, <2>2 DEF SessionIntact, Return
<1> QED BY <1>2, <1>3, <1>4, <1>5 DEF IInv

(* A dropped statement leaves the mark set. *)
LEMMA CancelledInv == ASSUME IInv, Cancelled PROVE IInv'
<1>1. TypeOK'
    BY AnswerType DEF IInv, TypeOK, Cancelled, client, server, Place
<1>2. SavepointInv' /\ ProbeInv' /\ CountIsExact' /\ SessionIntact' /\ ProbesAreInvisible'
    BY DEF IInv, Cancelled, client, server, ProbeInv, SavepointInv, CountIsExact, Exact,
           SessionIntact, ProbesAreInvisible, Nothing
<1> QED BY <1>1, <1>2 DEF IInv

(* Every step of the driver keeps the invariant. *)
LEMMA StepInv == IInv /\ [Next]_vars => IInv'
<1> SUFFICES ASSUME IInv, [Next]_vars PROVE IInv'
    OBVIOUS
<1>1. CASE UNCHANGED vars
    BY <1>1 DEF vars, IInv, TypeOK, ProbeInv, SavepointInv, CountIsExact, Exact, SessionIntact,
                ProbesAreInvisible, IsBindCount
<1>2. CASE Next
    BY <1>2, StartInv, SavepointStep, PrepareAllInv, ProbeStep, UndoProbeInv, UndoInv, ReleaseInv,
       ExecuteInv, ServerFailsInv, ReturnInv, CancelledInv DEF Next, Advance
<1> QED BY <1>1, <1>2

(* The invariant of postgres_statement and postgres_prepare holds always. *)
THEOREM Invariant == Spec => []IInv
BY InitInv, StepInv, PTL DEF Spec

(* The probes count exactly the parameters a statement refers to, however    *)
(* many it has and whatever the server infers.                               *)
THEOREM ExactCount == Spec => []CountIsExact
<1>1. IInv => CountIsExact
    BY DEF IInv
<1> QED BY <1>1, Invariant, PTL

(* A statement that leaves its transaction usable leaves the session open,   *)
(* without savepoint and with the work of exactly the successful statements. *)
THEOREM IntactSession == Spec => []SessionIntact
<1>1. IInv => SessionIntact
    BY DEF IInv
<1> QED BY <1>1, Invariant, PTL

(* The errors that the probes provoke never reach a caller that bound as     *)
(* many values as there are parameters.                                      *)
THEOREM InvisibleProbes == Spec => []ProbesAreInvisible
<1>1. IInv => ProbesAreInvisible
    BY DEF IInv
<1> QED BY <1>1, Invariant, PTL
=============================================================================
