------------------------------ MODULE Prepare ------------------------------
(***************************************************************************)
(* A statement on PostgreSQL (src/driver.rs: postgres_execute,              *)
(* postgres_statement, postgres_prepare): a savepoint, the preparation with *)
(* every type hint, probes with fewer and fewer hints that find out how     *)
(* many parameters the statement really has, the undoing of the savepoint,  *)
(* and the execution.  One connection runs statement after statement, in a  *)
(* transaction (module Transaction takes each of them as one command) or as *)
(* a pooled lease.                                                          *)
(*                                                                          *)
(* The server is external: an error fails the transaction it happens in,    *)
(* and a failed transaction accepts only ROLLBACK and ROLLBACK TO.          *)
(***************************************************************************)
EXTENDS Naturals, Sequences

CONSTANTS MaxParams,     \* bound: parameters of a statement, and values bound to it
          MaxStatements  \* bound: statements that take effect on the connection

ASSUME BoundAssumption == MaxParams \in Nat /\ MaxStatements \in Nat

(***************************************************************************)
(* A statement refers to $1 .. $params, "with every number present".  The   *)
(* server resolves it when it has the first h hints and infers the rest: it *)
(* always can when the hints cover the parameters, and otherwise when h is  *)
(* in resolves.                                                             *)
(***************************************************************************)
Statement == {s \in [params : 0..MaxParams, resolves : SUBSET (0..MaxParams)] :
                \A h \in s.resolves : h < s.params}

Resolved(s, h) == h >= s.params \/ h \in s.resolves

\* ParameterDescription "includes unused trailing type hints".
Described(s, h) == IF h >= s.params THEN h ELSE s.params

NoStatement == [params |-> 0, resolves |-> {}]

VARIABLES
    inTx,       \* in_transaction
    at,         \* where the statement's future is
    stmt,       \* the SQL
    actual,     \* how many values are bound
    hints,      \* hint_count
    prepared,   \* what postgres_prepare returns, with the count it expects
    result,     \* what the last statement returned, with the count it expects
    spoiled,    \* Transaction.aborted, or Lease.reusable = FALSE
    tx,         \* server: the transaction is "open", "failed", or there is "none"
    saves,      \* server: the work kept by each SAVEPOINT sqly_prepare
    work,       \* server: statements in effect
    done,       \* ghost: statements that returned Ok
    fault       \* ghost: the server failed the statement for a reason of its own

vars == <<inTx, at, stmt, actual, hints, prepared, result, spoiled, tx, saves, work, done, fault>>
client == <<inTx, stmt, actual, spoiled>>
server == <<tx, saves, work>>

Place == {"idle", "savepoint", "prepare", "probe", "undo_probe", "undo", "release", "execute", "return"}
Answer == [kind : {"none", "ok", "bind_count", "bind_count_unknown", "driver"}, expected : 0..MaxParams]

TypeOK ==
    /\ inTx \in BOOLEAN /\ spoiled \in BOOLEAN /\ fault \in BOOLEAN
    /\ at \in Place /\ stmt \in Statement
    /\ actual \in 0..MaxParams /\ hints \in 0..MaxParams
    /\ prepared \in Answer /\ result \in Answer
    /\ tx \in {"none", "open", "failed"} /\ saves \in Seq(Nat) /\ work \in Nat /\ done \in Nat

Nothing == [kind |-> "none", expected |-> 0]
Ok == [kind |-> "ok", expected |-> 0]
BindCount(n) == [kind |-> "bind_count", expected |-> n]
BindCountUnknown == [kind |-> "bind_count_unknown", expected |-> 0]
Driver == [kind |-> "driver", expected |-> 0]
IsBindCount(answer) == answer.kind \in {"bind_count", "bind_count_unknown"}

Init ==
    /\ inTx \in BOOLEAN /\ tx = IF inTx THEN "open" ELSE "none"
    /\ at = "idle" /\ stmt = NoStatement /\ actual = 0 /\ hints = 0
    /\ prepared = Nothing /\ result = Nothing
    /\ spoiled = FALSE /\ saves = <<>> /\ work = 0 /\ done = 0 /\ fault = FALSE

\* An error of the server fails the transaction, if there is one.
Failed == IF inTx THEN "failed" ELSE "none"

\* Transaction::run_statement, driver::postgres: the transaction is
\* rollback-only, the lease not reusable, until the statement has ended well.
Start(s, n) ==
    /\ at = "idle" /\ ~spoiled /\ done < MaxStatements
    /\ stmt' = s /\ actual' = n /\ hints' = n
    /\ spoiled' = TRUE /\ prepared' = Nothing /\ result' = Nothing /\ fault' = FALSE
    /\ at' = IF inTx THEN "savepoint" ELSE "prepare"
    /\ UNCHANGED <<inTx, server, done>>

Savepoint ==
    /\ at = "savepoint" /\ tx = "open"
    /\ saves' = Append(saves, work) /\ at' = "prepare"
    /\ UNCHANGED <<client, hints, prepared, result, tx, work, done, fault>>

(***************************************************************************)
(* How postgres_statement goes on with what postgres_prepare returned.      *)
(***************************************************************************)
Prepared(answer) ==
    /\ prepared' = answer
    /\ at' = CASE answer.kind = "driver" -> "return"
               [] ~inTx -> IF answer = Ok THEN "execute" ELSE "return"
               [] inTx /\ IsBindCount(answer) -> "undo"
               [] OTHER -> "release"

\* if referenced != actual
Compare(referenced) ==
    Prepared(IF referenced = actual THEN Ok ELSE BindCount(referenced))

\* indeterminate_parameter, parameter_resolution_error: the SQLSTATEs of a
\* statement that the server cannot resolve with the hints it has.
Indeterminate == {"42P18"}
Unresolvable == Indeterminate \cup {"42P08", "42725", "42883", "42804", "42846"}

\* The first prepare_with, with all hints.  Only an indeterminate parameter is
\* taken for a missing value, any other failure is the driver's.
PrepareAll ==
    /\ at = "prepare" /\ tx # "failed"
    /\ \/ /\ Resolved(stmt, actual)
          /\ LET expected == Described(stmt, actual)
             IN  IF expected # actual THEN Prepared(BindCount(expected))
                 ELSE IF actual = 0 THEN Prepared(Ok)
                 ELSE at' = "probe" /\ UNCHANGED prepared
          /\ UNCHANGED tx
       \/ /\ ~Resolved(stmt, actual)
          /\ \E code \in Unresolvable :
               Prepared(IF code \in Indeterminate THEN BindCountUnknown ELSE Driver)
          /\ tx' = Failed
    /\ hints' = actual
    /\ UNCHANGED <<client, result, saves, work, done, fault>>

\* A probe that mistakes a described hint for a referenced parameter.
ProbeInclusive ==
    /\ at = "probe" /\ tx # "failed"
    /\ hints' = hints - 1
    /\ \/ /\ Resolved(stmt, hints') /\ Compare(Described(stmt, hints')) /\ UNCHANGED tx
       \/ /\ ~Resolved(stmt, hints')
          /\ tx' = Failed
          /\ IF inTx THEN at' = "undo_probe" /\ UNCHANGED prepared ELSE Compare(hints' + 1)
    /\ UNCHANGED <<client, result, saves, work, done, fault>>

\* A probe whose failure is left in the transaction.
ProbeNotUndone ==
    /\ at = "probe" /\ tx # "failed"
    /\ hints' = hints - 1
    /\ LET count == Described(stmt, hints')
       IN  \/ /\ Resolved(stmt, hints')
              /\ IF count > hints' \/ hints' = 0 THEN Compare(count)
                 ELSE UNCHANGED <<at, prepared>>
              /\ UNCHANGED tx
           \/ ~Resolved(stmt, hints') /\ tx' = Failed /\ Compare(hints' + 1)
    /\ UNCHANGED <<client, result, saves, work, done, fault>>

\* One round of for hint_count in (0..actual).rev().
Probe ==
    /\ at = "probe" /\ tx # "failed"
    /\ hints' = hints - 1
    /\ LET count == Described(stmt, hints')
       IN  \/ /\ Resolved(stmt, hints')
              /\ IF count > hints' \/ hints' = 0 THEN Compare(count)
                 ELSE UNCHANGED <<at, prepared>>
              /\ UNCHANGED tx
           \/ /\ ~Resolved(stmt, hints')
              /\ tx' = Failed
              /\ IF inTx THEN at' = "undo_probe" /\ UNCHANGED prepared ELSE Compare(hints' + 1)
    /\ UNCHANGED <<client, result, saves, work, done, fault>>

\* ROLLBACK TO SAVEPOINT sqly_prepare, at the server.
RollbackTo == saves # <<>> /\ tx' = "open" /\ work' = saves[Len(saves)] /\ UNCHANGED saves

\* The one in postgres_prepare, after a probe that did not resolve.
UndoProbe ==
    /\ at = "undo_probe"
    /\ RollbackTo /\ Compare(hints + 1)
    /\ UNCHANGED <<client, hints, result, done, fault>>

\* An undoing that leaves the savepoint behind.
UndoUnreleased ==
    /\ at = "undo"
    /\ RollbackTo /\ at' = "return"
    /\ UNCHANGED <<client, hints, prepared, result, done, fault>>

\* The one in postgres_statement, after a wrong count.
Undo ==
    /\ at = "undo"
    /\ RollbackTo /\ at' = "release"
    /\ UNCHANGED <<client, hints, prepared, result, done, fault>>

\* RELEASE SAVEPOINT sqly_prepare; the server refuses it in a failed transaction.
Release ==
    /\ at = "release"
    /\ IF tx = "open"
       THEN /\ saves' = SubSeq(saves, 1, Len(saves) - 1)
            /\ at' = IF prepared = Ok THEN "execute" ELSE "return"
            /\ UNCHANGED prepared
       ELSE prepared' = Driver /\ at' = "return" /\ UNCHANGED saves
    /\ UNCHANGED <<client, hints, result, tx, work, done, fault>>

Execute ==
    /\ at = "execute" /\ tx # "failed"
    /\ work' = work + 1 /\ at' = "return"
    /\ UNCHANGED <<client, hints, prepared, result, tx, saves, done, fault>>

\* A command fails for a reason of the server's own (a constraint, a deadlock,
\* a relation that is gone): the error is returned as it is.
ServerFails ==
    /\ at \in {"savepoint", "prepare", "probe", "undo_probe", "undo", "release", "execute"}
    /\ tx' = Failed /\ prepared' = Driver /\ at' = "return" /\ fault' = TRUE
    /\ UNCHANGED <<client, hints, result, saves, work, done>>

Return ==
    /\ at = "return"
    /\ result' = prepared /\ at' = "idle"
    /\ spoiled' = ~(prepared = Ok \/ IsBindCount(prepared))
    /\ done' = IF prepared = Ok THEN done + 1 ELSE done
    /\ UNCHANGED <<inTx, stmt, actual, hints, prepared, server, fault>>

\* The future is dropped at an await: the command in flight may still have its
\* effect, which module Transaction models; here the connection is given up.
Cancelled ==
    /\ at # "idle"
    /\ at' = "idle" /\ result' = Nothing
    /\ UNCHANGED <<client, hints, prepared, server, done, fault>>

Advance == \/ Savepoint \/ PrepareAll \/ Probe \/ UndoProbe \/ Undo \/ Release \/ Execute \/ Return

Next == \/ \E s \in Statement, n \in 0..MaxParams : Start(s, n)
        \/ Advance \/ ServerFails \/ Cancelled

Spec == Init /\ [][Next]_vars

(***************************************************************************)
(* Properties                                                               *)
(***************************************************************************)
\* What a statement may be answered, by the parameters it refers to.
Exact(answer) ==
    /\ answer.kind = "ok" => stmt.params = actual
    /\ answer.kind = "bind_count" => answer.expected = stmt.params /\ stmt.params # actual
    /\ answer.kind = "bind_count_unknown" => stmt.params > actual

\* What the probes find is the number of parameters the statement refers to:
\* it is executed only with that many values, a reported count is that number,
\* and an unknown count is reported only when a value is missing
\* (postgres_prepare, against the definition of the count).
CountIsExact == Exact(result)

\* After a statement that leaves the transaction usable, whatever its probes
\* did to the session: the transaction is open, no savepoint is left behind,
\* and exactly the statements that returned Ok are in effect
\* (postgres_statement, "must not leave the surrounding transaction aborted").
SessionIntact ==
    at = "idle" /\ ~spoiled => /\ tx = IF inTx THEN "open" ELSE "none"
                               /\ saves = <<>> /\ work = done

\* A statement with as many values as parameters fails only when the server
\* fails it: the probes' own errors never reach the caller.
ProbesAreInvisible ==
    result.kind = "driver" => fault \/ stmt.params > actual

\* A statement with a missing value is answered with a bind count, whichever
\* way the server puts it.  README.md:43: "BindCount reports an unknown expected count when the server
\* cannot infer a missing parameter's type", and by README.md:69 such an error
\* does not abort the transaction.
MissingValueIsBindCount == result.kind = "driver" => fault

(***************************************************************************)
(* The inductive invariant.                                                 *)
(***************************************************************************)
\* The probes have not yet gone below the parameters; an unresolved one stands
\* exactly below them.
ProbeInv ==
    /\ at = "probe" => stmt.params <= hints /\ 0 < hints /\ hints <= actual
    /\ at = "undo_probe" => inTx /\ stmt.params = hints + 1 /\ hints < actual
    /\ at \in {"undo", "release", "execute", "return"} => Exact(prepared)
    /\ at = "return" /\ prepared.kind = "driver" => fault \/ stmt.params > actual

\* Which savepoint and which work the session holds at each step of a
\* transaction's statement, and what postgres_statement does next.
SavepointInv ==
    /\ at # "idle" => spoiled
    /\ at \in {"savepoint", "undo_probe", "undo", "release"} => inTx
    /\ at \in {"savepoint", "execute"} => saves = <<>>
    /\ at \in {"prepare", "probe"} => saves = IF inTx THEN <<done>> ELSE <<>>
    /\ at \in {"undo_probe", "undo", "release"} => saves = <<done>>
    /\ at \in {"savepoint", "prepare", "probe", "release", "execute"} =>
         work = done /\ tx = IF inTx THEN "open" ELSE "none"
    /\ at = "undo" => IsBindCount(prepared)
    /\ at = "release" => prepared = Ok \/ IsBindCount(prepared)
    /\ at = "execute" => prepared = Ok
    /\ at = "return" /\ prepared.kind # "driver" =>
         /\ prepared = Ok \/ IsBindCount(prepared)
         /\ saves = <<>> /\ tx = IF inTx THEN "open" ELSE "none"
         /\ work = IF prepared = Ok THEN done + 1 ELSE done

\* The inductive invariant behind CountIsExact, SessionIntact and
\* ProbesAreInvisible (postgres_statement and postgres_prepare at every await).
IInv == TypeOK /\ ProbeInv /\ SavepointInv /\ CountIsExact /\ SessionIntact /\ ProbesAreInvisible

=============================================================================
