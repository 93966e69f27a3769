--------------------------- MODULE PromiseProofs ---------------------------
(* Transaction implements AtomicTx, for any callers, connections and        *)
(* backend.                                                                 *)
EXTENDS TransactionProofs

(* A pooled query that can still take effect has had none and was not told  *)
(* otherwise, and "ok" means that its writes are durable.                   *)
PooledShare(t) ==
    /\ at[t] \in {"idle", "handle"} => By(durable, t) = {}
    /\ \A c \in Conn : owner[c] = t =>
         /\ request[c] # "none" =>
               By(durable, t) = {} /\ (at[t] = "wait" \/ result[t] = "unknown")
         /\ at[t] = "wait" /\ reply[c] = "ok" => By(durable, t) = Writes(t)

PooledInv == \A t \in Pooled : PooledShare(t)

(* A pooled caller keeps its share when nothing is done to it, and when its *)
(* command is answered with anything but "ok".                              *)
LEMMA PooledFrame ==
    ASSUME NEW u, PooledShare(u),
           at'[u] = at[u], op'[u] = op[u], issued'[u] = issued[u], result'[u] = result[u],
           By(durable', u) = By(durable, u),
           \A d \in Conn : owner'[d] = u =>
               /\ owner[d] = u /\ request'[d] \in {request[d], "none"}
               /\ reply'[d] = "ok" => reply[d] = "ok"
    PROVE PooledShare(u)'
<1>1. Writes(u)' = Writes(u)
    BY DEF Writes
<1> QED BY <1>1 DEF PooledShare

(* A step of caller t on connection c is no business of caller u. *)
Elsewhere(t, c, u) ==
    /\ at'[u] = at[u] /\ op'[u] = op[u] /\ issued'[u] = issued[u] /\ result'[u] = result[u]
    /\ durable' = durable
    /\ \A d \in Conn : owner'[d] = u =>
          owner[d] = u /\ request'[d] = request[d] /\ reply'[d] = reply[d]

(* Callers do not touch each other, nor each other's connections. *)
LEMMA StepElsewhere ==
    ASSUME TypeOK, NEW t \in Caller, NEW c \in Conn, Step(t, c), NEW u \in Caller, u # t
    PROVE Elsewhere(t, c, u)
<1> USE CallerAssumption DEF TypeOK, Elsewhere, poolVars, serverVars
<1>1. CASE BeginWrite(t, c) \/ \E k \in LeaseOp : PooledQuery(t, c, k)
    BY <1>1 DEF BeginWrite, PooledQuery, Lease
<1>2. CASE \/ \E k \in Statement : RunStatement(t, c, k)
           \/ Commit(t, c) \/ Rollback(t, c)
    BY <1>2 DEF RunStatement, Commit, Rollback
<1>3. CASE DropReady(t, c) \/ CheckLease(t, c) \/ EncodeError(t, c)
    BY <1>3 DEF DropReady, CheckLease, EncodeError, Drop
<1>4. CASE Send(t, c)
    BY <1>4 DEF Send
<1>5. CASE Begun(t, c) \/ Answered(t, c)
    BY <1>5 DEF Begun, Answered, Drop
<1>6. CASE Ended(t, c)
    BY <1>6 DEF Ended, Drop
<1>7. CASE LeaseEnded(t, c) \/ CancelStatement(t, c) \/ CancelOwner(t, c)
    BY <1>7 DEF LeaseEnded, CancelStatement, CancelOwner, Drop
<1> QED BY <1>1, <1>2, <1>3, <1>4, <1>5, <1>6, <1>7 DEF Step

(* The steps a pooled caller can take. *)
LEMMA PooledSteps ==
    ASSUME IInv, NEW t \in Pooled, NEW c \in Conn, Step(t, c)
    PROVE \/ \E k \in LeaseOp : PooledQuery(t, c, k)
          \/ EncodeError(t, c) /\ op[t] = "rows"
          \/ Send(t, c) \/ LeaseEnded(t, c) \/ CancelOwner(t, c)
<1>1. t \notin Tx /\ CallerInv(t) /\ op[t] \in Op \cup {"none"}
    BY CallerAssumption DEF IInv, Caller, TypeOK
<1>2. op[t] \in LeaseOp \cup {"none"} /\ at[t] \notin {"ready", "check"}
    BY <1>1 DEF CallerInv, Op, Statement, LeaseOp, EndOp
<1> QED BY <1>1, <1>2 DEF Step, BeginWrite, RunStatement, Commit, Rollback, DropReady, CheckLease,
     EncodeError, Begun, Answered, Ended, CancelStatement, CallerInv, Op, Statement, LeaseOp, EndOp,
     Suspended

(* A pooled caller's own steps keep its share. *)
LEMMA PooledOwnStep ==
    ASSUME IInv, NEW t \in Pooled, NEW c \in Conn, Step(t, c), PooledShare(t)
    PROVE PooledShare(t)'
<1>1. TypeOK /\ PoolInv /\ t \in Caller /\ CallerInv(t)
    BY DEF IInv, Caller
<1>2. ASSUME NEW k \in LeaseOp, PooledQuery(t, c, k) PROVE PooledShare(t)'
  <2>1. \A d \in Conn : owner[d] # t
      BY <1>1, <1>2 DEF PooledQuery, IInv, SessionInv
  <2>2. request[c] = "none" /\ UNCHANGED <<request, durable>>
      BY <1>1, <1>2 DEF PooledQuery, Lease, PoolInv, CleanPool
  <2>3. at'[t] = "handle" /\ at[t] = "idle"
      BY <1>1, <1>2 DEF PooledQuery, TypeOK
  <2>4. \A d \in Conn : owner'[d] = t => d = c
      BY <1>1, <1>2, <2>1 DEF PooledQuery, Lease, TypeOK
  <2> QED BY <2>2, <2>3, <2>4 DEF PooledShare
<1>3. ASSUME EncodeError(t, c), op[t] = "rows" PROVE PooledShare(t)'
  <2>1. CommandInv(t, c) /\ request[c] = "none"
      BY <1>1, <1>3, CallerAssumption DEF EncodeError, IInv, CommandInv, LeaseOp, Statement, Caller
  <2>2. at'[t] = "done" /\ UNCHANGED request /\ \A d \in Conn : owner'[d] = t => owner[d] = t
      BY <1>1, <1>3 DEF EncodeError, Drop, serverVars, TypeOK
  <2>3. \A d \in Conn : owner[d] = t => d = c
      BY <1>1, <1>3, CallerAssumption DEF EncodeError, PoolInv
  <2> QED BY <2>1, <2>2, <2>3 DEF PooledShare
<1>4. ASSUME Send(t, c) PROVE PooledShare(t)'
  <2>1. at[t] = "handle" /\ at'[t] = "wait" /\ UNCHANGED <<owner, durable>> /\ reply'[c] # "ok"
      BY <1>1, <1>4 DEF Send, poolVars, TypeOK
  <2>2. \A d \in Conn : owner[d] = t => d = c
      BY <1>1, <1>4, CallerAssumption DEF Send, PoolInv
  <2> QED BY <2>1, <2>2 DEF PooledShare
<1>5. ASSUME LeaseEnded(t, c) PROVE PooledShare(t)'
  <2>1. request[c] = "none"
      BY <1>1, <1>5 DEF LeaseEnded, IInv, CommandInv
  <2>2. at'[t] = "done" /\ UNCHANGED request /\ \A d \in Conn : owner'[d] = t => owner[d] = t
      BY <1>1, <1>5, CallerAssumption DEF LeaseEnded, Drop, serverVars, TypeOK
  <2>3. \A d \in Conn : owner[d] = t => d = c
      BY <1>1, <1>5, CallerAssumption DEF LeaseEnded, PoolInv
  <2> QED BY <2>1, <2>2, <2>3 DEF PooledShare
<1>6. ASSUME CancelOwner(t, c) PROVE PooledShare(t)'
  <2>1. op[t] \in LeaseOp
      BY <1>1, <1>6, CallerAssumption DEF CancelOwner, CallerInv, Suspended, TypeOK, Caller
  <2>2. /\ at'[t] = "done" /\ UNCHANGED <<request, durable>>
        /\ \A d \in Conn : owner'[d] = t => owner[d] = t
        /\ at[t] = "wait" => result'[t] = "unknown"
      BY <1>1, <1>6, <2>1 DEF CancelOwner, Drop, serverVars, TypeOK
  <2>3. \A d \in Conn : owner[d] = t => d = c
      BY <1>1, <1>6, CallerAssumption DEF CancelOwner, PoolInv
  <2>4. request[c] # "none" => at[t] = "wait"
      BY <1>1, <1>6 DEF CancelOwner, PooledShare, CallerInv, Suspended
  <2> QED BY <2>2, <2>3, <2>4 DEF PooledShare
<1> QED BY <1>2, <1>3, <1>4, <1>5, <1>6, PooledSteps

(* Only an autocommitted statement makes a pooled caller's writes durable:  *)
(* those of the command its connection was sent, once.                      *)
LEMMA PooledServerStep ==
    ASSUME IInv, PooledInv, NEW c \in Conn, Serve(c) \/ Lose(c) \/ CloseConn(c), NEW u \in Pooled
    PROVE PooledShare(u)'
<1>1. TypeOK /\ PoolInv /\ u \in Caller /\ u \notin Tx /\ PooledShare(u) /\ CallerInv(u)
    BY CallerAssumption DEF IInv, Caller, PooledInv
<1>2. ASSUME owner[c] = u
      PROVE CommandInv(u, c) /\ SessionInv(u, c) /\ request[c] \in LeaseOp \cup {"none"}
    BY <1>1, <1>2 DEF IInv, CommandInv
<1>3. CASE Lose(c) \/ CloseConn(c) \/ ServeBindCount(c) \/ ServeError(c)
  <2>1. UNCHANGED <<at, op, issued, result, durable>>
      BY <1>3 DEF Lose, CloseConn, ServeBindCount, ServeError, callerVars
  <2>2. \A d \in Conn : owner'[d] = u =>
          /\ owner[d] = u /\ request'[d] \in {request[d], "none"}
          /\ reply'[d] = "ok" => reply[d] = "ok"
      BY <1>1, <1>3, CallerAssumption
         DEF Lose, CloseConn, ServeBindCount, ServeError, Answer, poolVars, TypeOK
  <2> QED BY <1>1, <2>1, <2>2, PooledFrame
<1>4. CASE ServeBegin(c) \/ ServeRollback(c) \/ ServeCommit(c)
  <2>1. owner[c] # u
      BY <1>2, <1>4 DEF ServeBegin, ServeRollback, ServeCommit, LeaseOp
  <2>2. UNCHANGED <<at, op, issued, result, owner>>
      BY <1>4 DEF ServeBegin, ServeRollback, ServeCommit, callerVars, poolVars
  <2>3. By(durable', u) = By(durable, u)
    <3>1. CASE ServeCommit(c)
      <4>1. owner[c] \in Caller
          BY <1>1, <3>1 DEF ServeCommit, PoolInv, CleanPool, TypeOK
      <4>2. work[c] \subseteq By(Write, owner[c])
          BY <4>1 DEF IInv, SessionInv
      <4>3. By(durable \cup work[c], u) = By(durable, u)
          BY <2>1, <4>2 DEF By
      <4> QED BY <3>1, <4>3 DEF ServeCommit
    <3> QED BY <1>4, <3>1 DEF ServeBegin, ServeRollback
  <2>4. \A d \in Conn : d # c => request'[d] = request[d] /\ reply'[d] = reply[d]
      BY <1>1, <1>4 DEF ServeBegin, ServeRollback, ServeCommit, Answer, TypeOK
  <2> QED BY <1>1, <2>1, <2>2, <2>3, <2>4, PooledFrame
<1>5. CASE ServeOk(c)
  <2>1. UNCHANGED <<at, op, issued, result, owner>>
      BY <1>5 DEF ServeOk, callerVars, poolVars
  <2>2. \A d \in Conn : d # c => request'[d] = request[d] /\ reply'[d] = reply[d]
      BY <1>1, <1>5 DEF ServeOk, Answer, TypeOK
  <2>3. owner[c] \in Caller /\ payload[c] \subseteq By(Write, owner[c])
      BY <1>1, <1>5 DEF ServeOk, PoolInv, CleanPool, TypeOK, IInv, SessionInv, Statement, LeaseOp
  <2>4. CASE owner[c] # u
    <3>1. By(durable \cup payload[c], u) = By(durable, u)
        BY <2>3, <2>4 DEF By
    <3>2. By(durable', u) = By(durable, u)
        BY <1>5, <3>1 DEF ServeOk
    <3> QED BY <1>1, <2>1, <2>2, <2>4, <3>2, PooledFrame
  <2>5. CASE owner[c] = u
    <3>1. session[c] = "auto" /\ request[c] \in LeaseOp /\ CommandInv(u, c)
        BY <1>1, <1>2, <1>5, <2>5 DEF ServeOk, SessionInv, Statement, LeaseOp
    <3>2. By(durable, u) = {} /\ (at[u] = "wait" \/ result[u] = "unknown")
        BY <1>1, <2>5, <3>1 DEF PooledShare, LeaseOp
    <3>3. durable' = durable \cup payload[c] /\ request'[c] = "none"
        BY <1>1, <1>5, <3>1 DEF ServeOk, Answer, TypeOK
    <3>4. By(durable', u) = payload[c]
      <4>1. By(durable \cup payload[c], u) = By(durable, u) \cup payload[c]
          BY <2>3, <2>5 DEF By
      <4> QED BY <3>2, <3>3, <4>1
    <3>5. at[u] = "wait" => payload[c] = Writes(u)
        BY <3>1 DEF CommandInv, LeaseOp
    <3>6. Writes(u)' = Writes(u)
        BY <2>1 DEF Writes
    <3>7. \A d \in Conn : owner[d] = u => d = c
        BY <1>1, <2>5, CallerAssumption DEF PoolInv
    <3>8. at[u] \notin {"idle", "handle"}
        BY <1>1, <3>2 DEF CallerInv
    <3> QED BY <2>1, <3>3, <3>4, <3>5, <3>6, <3>7, <3>8 DEF PooledShare
  <2> QED BY <2>4, <2>5
<1> QED BY <1>3, <1>4, <1>5 DEF Serve

(* The share of every pooled caller is preserved. *)
LEMMA PooledNext ==
    ASSUME IInv, PooledInv, [Next]_vars
    PROVE PooledInv'
<1> SUFFICES ASSUME NEW u \in Pooled PROVE PooledShare(u)'
    BY DEF PooledInv
<1>1. PooledShare(u) /\ u \in Caller
    BY DEF PooledInv, Caller
<1>2. ASSUME NEW t \in Caller, NEW c \in Conn, Step(t, c) PROVE PooledShare(u)'
  <2>1. CASE u = t
      BY <1>1, <1>2, <2>1, PooledOwnStep
  <2>2. CASE u # t
    <3>1. Elsewhere(t, c, u)
        BY <1>1, <1>2, <2>2, StepElsewhere DEF IInv
    <3> QED BY <1>1, <3>1, PooledFrame DEF Elsewhere
  <2> QED BY <2>1, <2>2
<1>3. CASE LoseKeeper \/ UNCHANGED vars
  <2>1. UNCHANGED <<at, op, issued, result, durable, owner, request, reply>>
      BY <1>3 DEF LoseKeeper, vars, callerVars, poolVars, serverVars
  <2> QED BY <1>1, <2>1, PooledFrame
<1> QED BY <1>2, <1>3, PooledServerStep DEF Next

-----------------------------------------------------------------------------
(* Steps of Transaction as steps of AtomicTx.                               *)

(* The final answer to a transaction is a Tell. *)
LEMMA Told ==
    ASSUME IInv, NEW t \in Tx, at[t] # "done", NEW a, UNCHANGED <<acked, durable>>,
           result' = [result EXCEPT ![t] = a],
           \/ a = "committed" /\ By(durable, t) = By(acked, t)
           \/ a \in NotCommitted /\ By(durable, t) = {}
           \/ a = "unknown"
    PROVE Promise!Next
<1>1. result[t] = "none"
    BY DEF IInv, CallerInv, Caller
<1>2. Promise!Tell(t)
    BY <1>1 DEF Promise!Tell, Promise!By, By, Promise!NotCommitted, NotCommitted
<1> QED BY <1>2 DEF Promise!Next

(* The answer to a pooled query is a TellPooled. *)
LEMMA ToldPooled ==
    ASSUME IInv, NEW t \in Pooled, at[t] # "done", NEW a, UNCHANGED durable,
           result' = [result EXCEPT ![t] = a],
           \/ a = "committed" /\ acked' = acked \cup By(durable, t)
           \/ a \in {"unknown", "dropped"} /\ UNCHANGED acked
    PROVE Promise!Next
<1>1. result[t] = "none"
    BY DEF IInv, CallerInv, Caller
<1>2. Promise!TellPooled(t)
    BY <1>1 DEF Promise!TellPooled, Promise!By, By
<1> QED BY <1>2 DEF Promise!Next

(* Before its COMMIT is answered nothing of a transaction is durable. *)
LEMMA NotYetDurable ==
    ASSUME IInv, NEW t \in Tx, at[t] # "done", ~(at[t] = "wait" /\ op[t] = "commit")
    PROVE By(durable, t) = {}
<1>1. result[t] = "none"
    BY DEF IInv, CallerInv, Caller
<1> QED BY <1>1 DEF IInv, DurableInv

(* A step of the owner of a transaction. *)
LEMMA TxRefines ==
    ASSUME IInv, NEW t \in Tx, NEW c \in Conn, Step(t, c)
    PROVE [Promise!Next]_(Promise!vars)
<1>1. TypeOK /\ t \in Caller /\ t \notin Pooled /\ CallerInv(t)
    BY CallerAssumption DEF IInv, Caller
<1>2. CASE \/ BeginWrite(t, c) \/ Commit(t, c) \/ Rollback(t, c) \/ Send(t, c)
           \/ CancelStatement(t, c) \/ \E k \in Statement : RunStatement(t, c, k)
    BY <1>2 DEF BeginWrite, Lease, Commit, Rollback, Send, CancelStatement, RunStatement, Promise!vars
<1>3. CASE DropReady(t, c)
    BY <1>3, NotYetDurable, Told DEF DropReady, Drop, NotCommitted
<1>4. CASE CheckLease(t, c)
    BY <1>4, NotYetDurable, Told DEF CheckLease, Drop, NotCommitted, Promise!vars
<1>5. CASE EncodeError(t, c)
  <2>1. op[t] # "rows"
      BY <1>1 DEF CallerInv, LeaseOp
  <2> QED BY <1>5, <2>1 DEF EncodeError, Promise!vars
<1>6. CASE Begun(t, c)
    BY <1>6, NotYetDurable, Told DEF Begun, Drop, NotCommitted, Promise!vars
<1>7. CASE Answered(t, c)
  <2>1. By(durable, t) = {} /\ result[t] = "none"
      BY <1>1, <1>7, NotYetDurable DEF Answered, CallerInv, Statement
  <2>2. CASE reply[c] = "ok"
    <3>1. Writes(t) \in SUBSET By(Write, t) /\ acked' = acked \cup Writes(t)
        BY <1>7, <2>2, WritesOwn DEF Answered
    <3>2. Promise!Acknowledge(t)
        BY <1>7, <2>1, <3>1 DEF Answered, Promise!Acknowledge, Promise!By, By, Promise!Write, Write,
            Promise!Caller, Caller
    <3> QED BY <3>2 DEF Promise!Next
  <2>3. CASE reply[c] # "ok"
      BY <1>7, <2>3 DEF Answered, Promise!vars
  <2> QED BY <2>2, <2>3
<1>8. CASE Ended(t, c)
  <2>1. at[t] = "wait" /\ UNCHANGED <<acked, durable>>
      BY <1>8 DEF Ended
  <2>2. CASE op[t] # "commit"
    <3>1. By(durable, t) = {}
        BY <2>1, <2>2, NotYetDurable
    <3>2. \E a \in NotCommitted : result' = [result EXCEPT ![t] = a]
        BY <1>8, <2>2 DEF Ended, Drop, EndOp, NotCommitted
    <3> QED BY <2>1, <3>1, <3>2, Told
  <2>3. CASE op[t] = "commit"
    <3>1. SessionInv(t, c)
        BY <1>1, <1>8 DEF Ended, IInv
    <3>2. /\ reply[c] = "ok" => By(durable, t) = By(acked, t)
          /\ reply[c] = "definite" => By(durable, t) = {}
        BY <2>1, <2>3, <3>1 DEF SessionInv
    <3>3. result' = [result EXCEPT ![t] = IF reply[c] = "ok" THEN "committed"
                        ELSE IF reply[c] = "definite" THEN "refused" ELSE "unknown"]
        BY <1>8, <2>3 DEF Ended, Drop, Definite
    <3> QED BY <2>1, <3>2, <3>3, Told DEF NotCommitted
  <2> QED BY <2>2, <2>3
<1>9. CASE CancelOwner(t, c)
  <2>1. at[t] # "done" /\ UNCHANGED <<acked, durable>> /\ op[t] \notin LeaseOp
      BY <1>1, <1>9 DEF CancelOwner, Suspended, CallerInv
  <2>2. CASE at[t] = "wait" /\ op[t] = "commit"
      BY <1>9, <2>1, <2>2, Told DEF CancelOwner, Drop
  <2>3. CASE ~(at[t] = "wait" /\ op[t] = "commit")
    <3>1. By(durable, t) = {}
        BY <2>1, <2>3, NotYetDurable
    <3>2. result' = [result EXCEPT ![t] = "dropped"]
        BY <1>9, <2>1, <2>3 DEF CancelOwner, Drop
    <3> QED BY <2>1, <3>1, <3>2, Told DEF NotCommitted
  <2> QED BY <2>2, <2>3
<1>10. ~LeaseEnded(t, c) /\ \A k \in LeaseOp : ~PooledQuery(t, c, k)
    BY <1>1 DEF LeaseEnded, PooledQuery, CallerInv
<1> QED BY <1>2, <1>3, <1>4, <1>5, <1>6, <1>7, <1>8, <1>9, <1>10 DEF Step

(* A step of a pooled caller. *)
LEMMA PooledRefines ==
    ASSUME IInv, PooledInv, NEW t \in Pooled, NEW c \in Conn, Step(t, c)
    PROVE [Promise!Next]_(Promise!vars)
<1>1. CASE Send(t, c) \/ \E k \in LeaseOp : PooledQuery(t, c, k)
    BY <1>1 DEF Send, PooledQuery, Lease, Promise!vars
<1>2. CASE EncodeError(t, c) /\ op[t] = "rows"
    BY <1>2, ToldPooled DEF EncodeError, Drop
<1>3. CASE LeaseEnded(t, c)
  <2>1. at[t] = "wait" /\ UNCHANGED durable
      BY <1>3 DEF LeaseEnded
  <2>2. CASE reply[c] = "ok"
    <3>1. By(durable, t) = Writes(t)
        BY <1>3, <2>2 DEF LeaseEnded, PooledInv, PooledShare
    <3>2. result' = [result EXCEPT ![t] = "committed"] /\ acked' = acked \cup By(durable, t)
        BY <1>3, <2>2, <3>1 DEF LeaseEnded, Drop
    <3> QED BY <2>1, <3>2, ToldPooled
  <2>3. CASE reply[c] # "ok"
    <3>1. result' = [result EXCEPT ![t] = "unknown"] /\ UNCHANGED acked
        BY <1>3, <2>3 DEF LeaseEnded, Drop
    <3> QED BY <2>1, <3>1, ToldPooled
  <2> QED BY <2>2, <2>3
<1>4. CASE CancelOwner(t, c)
  <2>1. \E a \in {"unknown", "dropped"} : result' = [result EXCEPT ![t] = a]
      BY <1>4 DEF CancelOwner, Drop
  <2> QED BY <1>4, <2>1, ToldPooled DEF CancelOwner, Suspended
<1> QED BY <1>1, <1>2, <1>3, <1>4, PooledSteps

(* A step of the other end: the commit point, or nothing callers can see. *)
LEMMA ServerRefines ==
    ASSUME IInv, PooledInv, NEW c \in Conn, Serve(c) \/ Lose(c) \/ CloseConn(c)
    PROVE [Promise!Next]_(Promise!vars)
<1>1. TypeOK /\ PoolInv
    BY DEF IInv
<1>2. UNCHANGED <<acked, result>>
    BY DEF Serve, ServeBegin, ServeOk, ServeBindCount, ServeError, ServeCommit, ServeRollback, Lose,
       CloseConn, callerVars
<1>3. CASE durable' = durable
    BY <1>2, <1>3 DEF Promise!vars
<1>4. CASE ServeOk(c) /\ durable' # durable
  <2>1. owner[c] \in Caller /\ session[c] = "auto" /\ durable' = durable \cup payload[c]
      BY <1>1, <1>4 DEF ServeOk, PoolInv, CleanPool, TypeOK, Statement, LeaseOp
  <2>2. CommandInv(owner[c], c) /\ SessionInv(owner[c], c)
      BY <2>1 DEF IInv
  <2>3. owner[c] \in Pooled /\ payload[c] \in SUBSET By(Write, owner[c])
      BY <1>4, <2>1, <2>2 DEF ServeOk, CommandInv, SessionInv, Caller
  <2>4. result[owner[c]] \in {"none", "unknown"}
    <3>1. at[owner[c]] = "wait" \/ result[owner[c]] = "unknown"
        BY <1>4, <2>3 DEF ServeOk, PooledInv, PooledShare, Statement, LeaseOp
    <3> QED BY <2>1, <3>1 DEF IInv, CallerInv
  <2>5. Promise!Autocommit(owner[c])
      BY <1>2, <2>1, <2>3, <2>4 DEF Promise!Autocommit, Promise!By, By, Promise!Write, Write,
          Promise!Caller, Caller
  <2> QED BY <2>3, <2>5 DEF Promise!Next
<1>5. CASE ServeCommit(c) /\ durable' # durable
  <2>1. owner[c] \in Caller /\ durable' = durable \cup work[c]
      BY <1>1, <1>5 DEF ServeCommit, PoolInv, CleanPool, TypeOK
  <2>2. CommandInv(owner[c], c) /\ CallerInv(owner[c])
      BY <2>1 DEF IInv
  <2>3. /\ owner[c] \in Tx /\ work[c] = By(acked, owner[c]) /\ By(durable, owner[c]) = {}
        /\ at[owner[c]] = "done" => result[owner[c]] = "unknown"
      BY <1>5, <2>2 DEF ServeCommit, CommandInv, LeaseOp
  <2>4. result[owner[c]] \in {"none", "unknown"}
      BY <2>2, <2>3 DEF CallerInv
  <2>5. Promise!CommitPoint(owner[c])
      BY <1>2, <2>1, <2>3, <2>4 DEF Promise!CommitPoint, Promise!By, By
  <2> QED BY <2>3, <2>5 DEF Promise!Next
<1>6. durable' # durable => ServeOk(c) \/ ServeCommit(c)
    BY DEF Serve, ServeBegin, ServeBindCount, ServeError, ServeRollback, Lose, CloseConn
<1> QED BY <1>3, <1>4, <1>5, <1>6

(* Every step of Transaction is a step of AtomicTx or none. *)
LEMMA NextRefines ==
    ASSUME IInv, PooledInv, [Next]_vars
    PROVE [Promise!Next]_(Promise!vars)
<1>1. ASSUME NEW t \in Caller, NEW c \in Conn, Step(t, c) PROVE [Promise!Next]_(Promise!vars)
    BY <1>1, TxRefines, PooledRefines DEF Caller
<1>2. CASE LoseKeeper \/ UNCHANGED vars
    BY <1>2 DEF LoseKeeper, vars, callerVars, Promise!vars
<1> QED BY <1>1, <1>2, ServerRefines DEF Next

(* For any callers, connections, number of writes and backend, what callers *)
(* of transaction.rs and of pooled leases are told, and what is durable,    *)
(* form a behaviour of AtomicTx: one commit point with exactly the          *)
(* acknowledged writes, and no answer that a later step contradicts.        *)
THEOREM TransactionImplementsAtomicTx == Spec => ImplementsAtomicTx
<1>1. Init => Promise!Init /\ PooledInv
  <2> SUFFICES ASSUME Init PROVE Promise!Init /\ PooledInv
      OBVIOUS
  <2>1. Promise!Init
      BY DEF Init, Promise!Init, Promise!Caller, Caller
  <2>2. PooledInv
      BY CallerAssumption DEF Init, PooledInv, PooledShare, By, Caller
  <2> QED BY <2>1, <2>2
<1>2. IInv /\ PooledInv /\ [Next]_vars => PooledInv'
    BY PooledNext
<1>3. IInv /\ PooledInv /\ [Next]_vars => [Promise!Next]_(Promise!vars)
    BY NextRefines
<1> QED BY <1>1, <1>2, <1>3, Invariant, PTL DEF Spec, ImplementsAtomicTx, Promise!Spec

=============================================================================
