------------------------- MODULE TransactionProofs -------------------------
(* Proofs about Transaction for any callers, connections and backend. *)
EXTENDS Transaction, TLAPS

(* The writes of an operation are writes. *)
LEMMA WritesType == \A t : Writes(t) \in SUBSET Write
BY DEF Writes

(* A freshly connected pool is well typed. *)
LEMMA TypeInit == Init => TypeOK
<1> SUFFICES ASSUME Init PROVE TypeOK
    OBVIOUS
<1> USE DEF Init
<1>1. issued \in [Caller -> 0..MaxWrites]
    BY BoundAssumption
<1>2. /\ aborted \in [Caller -> BOOLEAN]
      /\ lost \in BOOLEAN
    BY Zenon
<1>3. /\ op \in [Caller -> Op \cup {"none"}]
      /\ request \in [Conn -> Op \cup {"none"}]
      /\ owner \in [Conn -> Caller \cup {NoCaller}]
    BY Zenon
<1> QED BY <1>1, <1>2, <1>3 DEF TypeOK

(* Every step keeps every variable in its type. *)
LEMMA TypeStep == TypeOK /\ [Next]_vars => TypeOK'
<1> SUFFICES ASSUME TypeOK, [Next]_vars PROVE TypeOK'
    OBVIOUS
<1> USE DEF TypeOK, Suspended, NotCommitted, Op, Statement, LeaseOp, EndOp
<1>1. ASSUME NEW t \in Caller, NEW c \in Conn, BeginWrite(t, c) PROVE TypeOK'
    BY <1>1 DEF BeginWrite, Lease
<1>2. ASSUME NEW t \in Caller, NEW c \in Conn, NEW k \in LeaseOp, PooledQuery(t, c, k)
      PROVE TypeOK'
    BY <1>2, BoundAssumption DEF PooledQuery, Lease
<1>3. ASSUME NEW t \in Caller, NEW c \in Conn, NEW k \in Statement, RunStatement(t, c, k)
      PROVE TypeOK'
    BY <1>3, BoundAssumption DEF RunStatement, Size, poolVars, serverVars
<1>4. ASSUME NEW t \in Caller, NEW c \in Conn, Commit(t, c) PROVE TypeOK'
    BY <1>4 DEF Commit, poolVars, serverVars
<1>5. ASSUME NEW t \in Caller, NEW c \in Conn, Rollback(t, c) PROVE TypeOK'
    BY <1>5 DEF Rollback, poolVars, serverVars
<1>6. ASSUME NEW t \in Caller, NEW c \in Conn, DropReady(t, c) PROVE TypeOK'
    BY <1>6 DEF DropReady, Drop, serverVars
<1>7. ASSUME NEW t \in Caller, NEW c \in Conn, CheckLease(t, c) PROVE TypeOK'
    BY <1>7 DEF CheckLease, Drop, poolVars, serverVars
<1>8. ASSUME NEW t \in Caller, NEW c \in Conn, EncodeError(t, c) PROVE TypeOK'
  <2>1. CASE op[t] \in {"stmt", "stream"}
    <3>1. /\ aborted' = [aborted EXCEPT ![t] = FALSE]
          /\ at' = [at EXCEPT ![t] = "ready"]
          /\ op' = [op EXCEPT ![t] = "none"]
          /\ UNCHANGED <<result, poolVars>>
        BY <1>8, <2>1 DEF EncodeError
    <3>2. UNCHANGED <<issued, acked, serverVars, handler, durable, lost>>
        BY <1>8 DEF EncodeError
    <3> QED BY <3>1, <3>2 DEF poolVars, serverVars
  <2>2. CASE op[t] = "rows"
      BY <1>8, <2>2 DEF EncodeError, Drop, serverVars
  <2> QED BY <1>8, <2>1, <2>2 DEF EncodeError
<1>9. ASSUME NEW t \in Caller, NEW c \in Conn, Send(t, c) PROVE TypeOK'
    BY <1>9, WritesType DEF Send, poolVars
<1>10. ASSUME NEW t \in Caller, NEW c \in Conn, Begun(t, c) PROVE TypeOK'
    BY <1>10 DEF Begun, Drop, poolVars, serverVars
<1>11. ASSUME NEW t \in Caller, NEW c \in Conn, Answered(t, c) PROVE TypeOK'
    BY <1>11, WritesType DEF Answered, Trip, poolVars, serverVars
<1>12. ASSUME NEW t \in Caller, NEW c \in Conn, Ended(t, c) PROVE TypeOK'
    BY <1>12 DEF Ended, Drop, serverVars
<1>13. ASSUME NEW t \in Caller, NEW c \in Conn, LeaseEnded(t, c) PROVE TypeOK'
    BY <1>13, WritesType DEF LeaseEnded, Drop, Trip, serverVars
<1>14. ASSUME NEW t \in Caller, NEW c \in Conn, CancelStatement(t, c) PROVE TypeOK'
    BY <1>14 DEF CancelStatement, Trip, poolVars, serverVars
<1>15. ASSUME NEW t \in Caller, NEW c \in Conn, CancelOwner(t, c) PROVE TypeOK'
    BY <1>15 DEF CancelOwner, Drop, Trip, serverVars
<1>16. ASSUME NEW c \in Conn, Serve(c) PROVE TypeOK'
  <2> USE DEF Answer, callerVars, poolVars
  <2>1. CASE ServeBegin(c)      BY <2>1 DEF ServeBegin
  <2>2. CASE ServeOk(c)         BY <2>2 DEF ServeOk
  <2>3. CASE ServeBindCount(c)  BY <2>3 DEF ServeBindCount
  <2>4. CASE ServeError(c)      BY <2>4 DEF ServeError
  <2>5. CASE ServeCommit(c)     BY <2>5 DEF ServeCommit, Refusals
  <2>6. CASE ServeRollback(c)   BY <2>6 DEF ServeRollback
  <2> QED BY <1>16, <2>1, <2>2, <2>3, <2>4, <2>5, <2>6 DEF Serve
<1>17. ASSUME NEW c \in Conn, Lose(c) PROVE TypeOK'
    BY <1>17 DEF Lose, Answer, callerVars, poolVars
<1>18. ASSUME NEW c \in Conn, CloseConn(c) PROVE TypeOK'
    BY <1>18 DEF CloseConn, Answer, callerVars
<1>19. CASE LoseKeeper
    BY <1>19 DEF LoseKeeper, callerVars, poolVars, serverVars
<1>20. CASE UNCHANGED vars
    BY <1>20 DEF vars, callerVars, poolVars, serverVars
<1> HIDE DEF TypeOK, Suspended, NotCommitted, Op, Statement, LeaseOp, EndOp
<1> QED
    BY <1>1, <1>2, <1>3, <1>4, <1>5, <1>6, <1>7, <1>8, <1>9, <1>10, <1>11, <1>12, <1>13,
       <1>14, <1>15, <1>16, <1>17, <1>18, <1>19, <1>20 DEF Next, Step

(* Type correctness. *)
THEOREM TypeCorrect == Spec => []TypeOK
BY TypeInit, TypeStep, PTL DEF Spec

-----------------------------------------------------------------------------
(* Caller u and connection d take no part in a step. *)
SameCaller(u) ==
    /\ at'[u] = at[u] /\ op'[u] = op[u] /\ aborted'[u] = aborted[u]
    /\ result'[u] = result[u] /\ issued'[u] = issued[u]
    /\ By(acked', u) = By(acked, u) /\ By(durable', u) = By(durable, u)

SameConn(d) ==
    /\ owner'[d] = owner[d] /\ slot'[d] = slot[d] /\ session'[d] = session[d]
    /\ request'[d] = request[d] /\ payload'[d] = payload[d] /\ reply'[d] = reply[d]
    /\ work'[d] = work[d] /\ handler'[d] = handler[d]

(* What does not take part keeps its share of the invariant. *)
LEMMA CallerFrame ==
    ASSUME NEW u \in Caller, SameCaller(u), CallerInv(u)
    PROVE CallerInv(u)'
BY DEF SameCaller, CallerInv

(* A connection that takes no part, with its caller unchanged, keeps its share. *)
LEMMA ConnFrame ==
    ASSUME NEW u \in Caller, NEW d \in Conn, SameCaller(u), SameConn(d),
           CommandInv(u, d), SessionInv(u, d)
    PROVE CommandInv(u, d)' /\ SessionInv(u, d)'
<1>1. Writes(u)' = Writes(u)
    BY DEF SameCaller, Writes
<1>2. CommandInv(u, d)'
    BY <1>1 DEF SameCaller, SameConn, CommandInv
<1>3. SessionInv(u, d)'
    BY <1>1 DEF SameCaller, SameConn, SessionInv, Healthy
<1> QED BY <1>2, <1>3

(* So does a caller whose writes, flags and connections stay the same. *)
LEMMA DurableFrame ==
    ASSUME NEW u \in Tx, SameCaller(u), DurableInv(u),
           \A d \in Conn : owner'[d] = u => owner[d] = u /\ request'[d] \in {request[d], "none"}
    PROVE DurableInv(u)'
BY DEF SameCaller, DurableInv

(* The writes of an operation are its caller's. *)
LEMMA WritesOwn == \A t : Writes(t) \subseteq By(Write, t)
BY DEF Writes, By

(* Adding writes of t adds them to the writes of t and of nobody else. *)
LEMMA ByUnion ==
    ASSUME NEW S, NEW t, NEW W, W \subseteq By(Write, t)
    PROVE /\ By(S \cup W, t) = By(S, t) \cup W
          /\ \A u : u # t => By(S \cup W, u) = By(S, u)
BY DEF By

(* A step of caller t on connection c preserves the invariant if it         *)
(* preserves the shares of t and of c.                                      *)
LEMMA CallerStep ==
    ASSUME IInv, TypeOK', PoolInv', NEW t \in Caller, NEW c \in Conn,
           \A u \in Caller : u # t => SameCaller(u),
           \A d \in Conn : d # c => SameConn(d) /\ owner[d] # t,
           owner[c] \in {t, NoCaller}, owner'[c] \in {t, NoCaller},
           CallerInv(t)',
           owner'[c] = t => CommandInv(t, c)' /\ SessionInv(t, c)',
           t \in Tx => DurableInv(t)'
    PROVE IInv'
<1>1. ASSUME NEW u \in Caller PROVE CallerInv(u)'
    BY CallerFrame DEF IInv
<1>2. ASSUME NEW u \in Caller, NEW d \in Conn, owner'[d] = u
      PROVE CommandInv(u, d)' /\ SessionInv(u, d)'
  <2>1. CASE d = c
      BY <1>2, <2>1, CallerAssumption
  <2>2. CASE d # c
    <3>1. owner[d] = u /\ u # t
        BY <1>2, <2>2 DEF SameConn
    <3> QED BY <2>2, <3>1, ConnFrame DEF IInv
  <2> QED BY <2>1, <2>2
<1>3. ASSUME NEW u \in Tx PROVE DurableInv(u)'
  <2>1. CASE u # t
    <3>1. \A d \in Conn : owner'[d] = u => owner[d] = u /\ request'[d] \in {request[d], "none"}
        BY <2>1, CallerAssumption DEF SameConn, Caller
    <3> QED BY <2>1, <3>1, DurableFrame DEF IInv, Caller
  <2> QED BY <2>1
<1> QED BY <1>1, <1>2, <1>3 DEF IInv

(* The same for a step of the other end of connection c. *)
LEMMA ServerStep ==
    ASSUME IInv, TypeOK', PoolInv', NEW c \in Conn, UNCHANGED callerVars,
           \A u \in Caller : owner[c] # u => SameCaller(u),
           \A d \in Conn : d # c => SameConn(d),
           owner'[c] \in {owner[c], NoCaller}, request'[c] = "none",
           \A u \in Caller : owner'[c] = u => CommandInv(u, c)' /\ SessionInv(u, c)',
           \A u \in Tx : owner[c] = u => SameCaller(u) \/ DurableInv(u)'
    PROVE IInv'
<1>1. ASSUME NEW u \in Caller PROVE CallerInv(u)'
    BY DEF IInv, CallerInv, callerVars
<1>2. ASSUME NEW u \in Caller, NEW d \in Conn, owner'[d] = u
      PROVE CommandInv(u, d)' /\ SessionInv(u, d)'
  <2>1. CASE d # c
    <3>1. owner[d] = u /\ owner[c] # u
        BY <1>2, <2>1, CallerAssumption DEF SameConn, IInv, PoolInv
    <3> QED BY <2>1, <3>1, ConnFrame DEF IInv
  <2> QED BY <1>2, <2>1
<1>3. ASSUME NEW u \in Tx PROVE DurableInv(u)'
  <2>1. CASE SameCaller(u)
    <3>1. \A d \in Conn : owner'[d] = u => owner[d] = u /\ request'[d] \in {request[d], "none"}
        BY CallerAssumption DEF SameConn, Caller
    <3> QED BY <2>1, <3>1, DurableFrame DEF IInv
  <2> QED BY <2>1 DEF Caller
<1> QED BY <1>1, <1>2, <1>3 DEF IInv

(* begin leases a clean connection: by CleanPool there is nothing on it. *)
LEMMA BeginWriteStep ==
    ASSUME IInv, NEW t \in Caller, NEW c \in Conn, BeginWrite(t, c), TypeOK'
    PROVE IInv'
<1> USE DEF Statement, LeaseOp, EndOp, Op, Armed, Suspended
<1>1. /\ TypeOK /\ PoolInv /\ CallerInv(t)
      /\ t \in Tx => DurableInv(t)
      /\ \A d \in Conn : d # c => owner[d] # t
    BY CallerAssumption DEF IInv, PoolInv, SessionInv, Lease, BeginWrite
<1>2. /\ \A u \in Caller : u # t => SameCaller(u)
      /\ \A d \in Conn : d # c => SameConn(d)
    BY <1>1 DEF BeginWrite, Lease, SameCaller, SameConn, TypeOK
<1>3. PoolInv'
  <2>1. owner[c] = NoCaller /\ t # NoCaller
      BY <1>1, CallerAssumption DEF BeginWrite, Lease, PoolInv, CleanPool
  <2>2. /\ owner' = [owner EXCEPT ![c] = t] /\ slot' = [slot EXCEPT ![c] = "leased"]
        /\ session'[c] \in {"auto", session[c]}
        /\ UNCHANGED <<request, payload, work>>
      BY <1>1 DEF BeginWrite, Lease, TypeOK
  <2> QED BY <1>1, <1>2, <2>1, <2>2 DEF PoolInv, CleanPool, SameConn, BeginWrite, Lease, TypeOK
<1>4. CallerInv(t)'
    BY <1>1 DEF BeginWrite, Lease, CallerInv, TypeOK
<1>5. ASSUME owner'[c] = t PROVE CommandInv(t, c)' /\ SessionInv(t, c)'
  <2>1. CommandInv(t, c)'
      BY <1>1, <1>5 DEF BeginWrite, Lease, PoolInv, CleanPool, CommandInv, SessionInv,
          CallerInv, Healthy, TypeOK
  <2>2. SessionInv(t, c)'
      BY <1>1, <1>5 DEF BeginWrite, Lease, PoolInv, CleanPool, CommandInv, SessionInv,
          CallerInv, Healthy, TypeOK
  <2> QED BY <2>1, <2>2
<1>6. t \in Tx => DurableInv(t)'
    BY <1>1 DEF BeginWrite, Lease, DurableInv, CallerInv, SessionInv, CommandInv, TypeOK
<1>7. owner[c] \in {t, NoCaller} /\ owner'[c] \in {t, NoCaller}
    BY <1>1 DEF BeginWrite, Lease, PoolInv, CleanPool, TypeOK
<1> QED BY <1>1, <1>2, <1>3, <1>4, <1>5, <1>6, <1>7, CallerStep

(* A pooled lease starts on a clean connection as well. *)
LEMMA PooledQueryStep ==
    ASSUME IInv, NEW t \in Caller, NEW c \in Conn, NEW k \in LeaseOp, PooledQuery(t, c, k), TypeOK'
    PROVE IInv'
<1> USE DEF Statement, LeaseOp, EndOp, Op, Armed, Suspended
<1>1. /\ TypeOK /\ PoolInv /\ CallerInv(t)
      /\ t \in Tx => DurableInv(t)
      /\ \A d \in Conn : d # c => owner[d] # t
    BY CallerAssumption DEF IInv, PoolInv, SessionInv, Lease, PooledQuery
<1>2. /\ \A u \in Caller : u # t => SameCaller(u)
      /\ \A d \in Conn : d # c => SameConn(d)
    BY <1>1 DEF PooledQuery, Lease, SameCaller, SameConn, TypeOK
<1>3. PoolInv'
  <2>1. owner[c] = NoCaller /\ t # NoCaller
      BY <1>1, CallerAssumption DEF PooledQuery, Lease, PoolInv, CleanPool
  <2>2. /\ owner' = [owner EXCEPT ![c] = t] /\ slot' = [slot EXCEPT ![c] = "leased"]
        /\ session'[c] \in {"auto", session[c]}
        /\ UNCHANGED <<request, payload, work>>
      BY <1>1 DEF PooledQuery, Lease, TypeOK
  <2> QED BY <1>1, <1>2, <2>1, <2>2 DEF PoolInv, CleanPool, SameConn, PooledQuery, Lease, TypeOK
<1>4. CallerInv(t)'
    BY <1>1 DEF PooledQuery, Lease, CallerInv, TypeOK
<1>5. ASSUME owner'[c] = t PROVE CommandInv(t, c)' /\ SessionInv(t, c)'
  <2>1. CommandInv(t, c)'
      BY <1>1, <1>5 DEF PooledQuery, Lease, PoolInv, CleanPool, CommandInv, SessionInv,
          CallerInv, Healthy, TypeOK
  <2>2. SessionInv(t, c)'
      BY <1>1, <1>5 DEF PooledQuery, Lease, PoolInv, CleanPool, CommandInv, SessionInv,
          CallerInv, Healthy, TypeOK
  <2> QED BY <2>1, <2>2
<1>6. t \in Tx => DurableInv(t)'
    BY <1>1 DEF PooledQuery, Lease, DurableInv, CallerInv, SessionInv, CommandInv, TypeOK
<1>7. owner[c] \in {t, NoCaller} /\ owner'[c] \in {t, NoCaller}
    BY <1>1 DEF PooledQuery, Lease, PoolInv, CleanPool, TypeOK
<1> QED BY <1>1, <1>2, <1>3, <1>4, <1>5, <1>6, <1>7, CallerStep

(* The flag is set before the await, so the statement stays accounted for. *)
LEMMA RunStatementStep ==
    ASSUME IInv, NEW t \in Caller, NEW c \in Conn, NEW k \in Statement, RunStatement(t, c, k), TypeOK'
    PROVE IInv'
<1> USE DEF Statement, LeaseOp, EndOp, Op, Armed, Suspended
<1>1. /\ TypeOK /\ PoolInv /\ CallerInv(t) /\ CommandInv(t, c) /\ SessionInv(t, c)
      /\ t \in Tx => DurableInv(t)
      /\ \A d \in Conn : d # c => owner[d] # t
    BY CallerAssumption DEF IInv, PoolInv, RunStatement
<1>2. /\ \A u \in Caller : u # t => SameCaller(u)
      /\ \A d \in Conn : d # c => SameConn(d)
    BY <1>1 DEF RunStatement, poolVars, serverVars, SameCaller, SameConn, TypeOK
<1>3. PoolInv'
    BY <1>1 DEF RunStatement, poolVars, serverVars, PoolInv, CleanPool, SessionInv, CommandInv,
        TypeOK
<1>4. CallerInv(t)'
    BY <1>1 DEF RunStatement, poolVars, serverVars, CallerInv, TypeOK
<1>5. ASSUME owner'[c] = t PROVE CommandInv(t, c)' /\ SessionInv(t, c)'
  <2>1. CommandInv(t, c)'
      BY <1>1, <1>5 DEF RunStatement, poolVars, serverVars, CommandInv, SessionInv, CallerInv,
          Healthy, TypeOK
  <2>2. SessionInv(t, c)'
      BY <1>1, <1>5 DEF RunStatement, poolVars, serverVars, CommandInv, SessionInv, CallerInv,
          Healthy, TypeOK
  <2> QED BY <2>1, <2>2
<1>6. t \in Tx => DurableInv(t)'
    BY <1>1 DEF RunStatement, poolVars, serverVars, DurableInv, CallerInv, SessionInv,
        CommandInv, TypeOK
<1>7. owner[c] \in {t, NoCaller} /\ owner'[c] \in {t, NoCaller}
    BY <1>1 DEF RunStatement, poolVars, serverVars, TypeOK
<1> QED BY <1>1, <1>2, <1>3, <1>4, <1>5, <1>6, <1>7, CallerStep

(* commit takes the COMMIT path only with a healthy transaction. *)
LEMMA CommitStep ==
    ASSUME IInv, NEW t \in Caller, NEW c \in Conn, Commit(t, c), TypeOK'
    PROVE IInv'
<1> USE DEF Statement, LeaseOp, EndOp, Op, Armed, Suspended
<1>1. /\ TypeOK /\ PoolInv /\ CallerInv(t) /\ CommandInv(t, c) /\ SessionInv(t, c)
      /\ t \in Tx => DurableInv(t)
      /\ \A d \in Conn : d # c => owner[d] # t
    BY CallerAssumption DEF IInv, PoolInv, Commit
<1>2. /\ \A u \in Caller : u # t => SameCaller(u)
      /\ \A d \in Conn : d # c => SameConn(d)
    BY <1>1 DEF Commit, poolVars, serverVars, SameCaller, SameConn, TypeOK
<1>3. PoolInv'
    BY <1>1 DEF Commit, poolVars, serverVars, PoolInv, CleanPool, SessionInv, CommandInv, TypeOK
<1>4. CallerInv(t)'
    BY <1>1 DEF Commit, poolVars, serverVars, CallerInv, TypeOK
<1>5. ASSUME owner'[c] = t PROVE CommandInv(t, c)' /\ SessionInv(t, c)'
  <2>1. CommandInv(t, c)'
      BY <1>1, <1>5 DEF Commit, poolVars, serverVars, CommandInv, SessionInv, CallerInv,
          Healthy, TypeOK
  <2>2. SessionInv(t, c)'
      BY <1>1, <1>5 DEF Commit, poolVars, serverVars, CommandInv, SessionInv, CallerInv,
          Healthy, TypeOK
  <2> QED BY <2>1, <2>2
<1>6. t \in Tx => DurableInv(t)'
    BY <1>1 DEF Commit, poolVars, serverVars, DurableInv, CallerInv, SessionInv, CommandInv,
        TypeOK
<1>7. owner[c] \in {t, NoCaller} /\ owner'[c] \in {t, NoCaller}
    BY <1>1 DEF Commit, poolVars, serverVars, TypeOK
<1> QED BY <1>1, <1>2, <1>3, <1>4, <1>5, <1>6, <1>7, CallerStep

(* rollback may start behind an abandoned statement. *)
LEMMA RollbackStep ==
    ASSUME IInv, NEW t \in Caller, NEW c \in Conn, Rollback(t, c), TypeOK'
    PROVE IInv'
<1> USE DEF Statement, LeaseOp, EndOp, Op, Armed, Suspended
<1>1. /\ TypeOK /\ PoolInv /\ CallerInv(t) /\ CommandInv(t, c) /\ SessionInv(t, c)
      /\ t \in Tx => DurableInv(t)
      /\ \A d \in Conn : d # c => owner[d] # t
    BY CallerAssumption DEF IInv, PoolInv, Rollback
<1>2. /\ \A u \in Caller : u # t => SameCaller(u)
      /\ \A d \in Conn : d # c => SameConn(d)
    BY <1>1 DEF Rollback, poolVars, serverVars, SameCaller, SameConn, TypeOK
<1>3. PoolInv'
    BY <1>1 DEF Rollback, poolVars, serverVars, PoolInv, CleanPool, SessionInv, CommandInv,
        TypeOK
<1>4. CallerInv(t)'
    BY <1>1 DEF Rollback, poolVars, serverVars, CallerInv, TypeOK
<1>5. ASSUME owner'[c] = t PROVE CommandInv(t, c)' /\ SessionInv(t, c)'
  <2>1. CommandInv(t, c)'
      BY <1>1, <1>5 DEF Rollback, poolVars, serverVars, CommandInv, SessionInv, CallerInv,
          Healthy, TypeOK
  <2>2. SessionInv(t, c)'
      BY <1>1, <1>5 DEF Rollback, poolVars, serverVars, CommandInv, SessionInv, CallerInv,
          Healthy, TypeOK
  <2> QED BY <2>1, <2>2
<1>6. t \in Tx => DurableInv(t)'
    BY <1>1 DEF Rollback, poolVars, serverVars, DurableInv, CallerInv, SessionInv, CommandInv,
        TypeOK
<1>7. owner[c] \in {t, NoCaller} /\ owner'[c] \in {t, NoCaller}
    BY <1>1 DEF Rollback, poolVars, serverVars, TypeOK
<1> QED BY <1>1, <1>2, <1>3, <1>4, <1>5, <1>6, <1>7, CallerStep

(* An unfinished transaction that is dropped is closed, not pooled. *)
LEMMA DropReadyStep ==
    ASSUME IInv, NEW t \in Caller, NEW c \in Conn, DropReady(t, c), TypeOK'
    PROVE IInv'
<1> USE DEF Statement, LeaseOp, EndOp, Op, Armed, Suspended
<1>1. /\ TypeOK /\ PoolInv /\ CallerInv(t) /\ CommandInv(t, c) /\ SessionInv(t, c)
      /\ t \in Tx => DurableInv(t)
      /\ \A d \in Conn : d # c => owner[d] # t
    BY CallerAssumption DEF IInv, PoolInv, DropReady
<1>2. /\ \A u \in Caller : u # t => SameCaller(u)
      /\ \A d \in Conn : d # c => SameConn(d)
    BY <1>1 DEF DropReady, Drop, serverVars, SameCaller, SameConn, TypeOK
<1>3. PoolInv'
    BY <1>1 DEF DropReady, Drop, serverVars, PoolInv, CleanPool, SessionInv, CommandInv, TypeOK
<1>4. CallerInv(t)'
    BY <1>1 DEF DropReady, Drop, serverVars, CallerInv, TypeOK
<1>5. ASSUME owner'[c] = t PROVE CommandInv(t, c)' /\ SessionInv(t, c)'
  <2>1. CommandInv(t, c)'
      BY <1>1, <1>5 DEF DropReady, Drop, serverVars, CommandInv, SessionInv, CallerInv, Healthy,
          TypeOK
  <2>2. SessionInv(t, c)'
      BY <1>1, <1>5 DEF DropReady, Drop, serverVars, CommandInv, SessionInv, CallerInv, Healthy,
          TypeOK
  <2> QED BY <2>1, <2>2
<1>6. t \in Tx => DurableInv(t)'
    BY <1>1 DEF DropReady, Drop, serverVars, DurableInv, CallerInv, SessionInv, CommandInv,
        TypeOK
<1>7. owner[c] \in {t, NoCaller} /\ owner'[c] \in {t, NoCaller}
    BY <1>1 DEF DropReady, Drop, serverVars, TypeOK
<1> QED BY <1>1, <1>2, <1>3, <1>4, <1>5, <1>6, <1>7, CallerStep

(* check_lease runs nothing on the connection. *)
LEMMA CheckLeaseStep ==
    ASSUME IInv, NEW t \in Caller, NEW c \in Conn, CheckLease(t, c), TypeOK'
    PROVE IInv'
<1> USE DEF Statement, LeaseOp, EndOp, Op, Armed, Suspended
<1>1. /\ TypeOK /\ PoolInv /\ CallerInv(t) /\ CommandInv(t, c) /\ SessionInv(t, c)
      /\ t \in Tx => DurableInv(t)
      /\ \A d \in Conn : d # c => owner[d] # t
    BY CallerAssumption DEF IInv, PoolInv, CheckLease
<1>2. /\ \A u \in Caller : u # t => SameCaller(u)
      /\ \A d \in Conn : d # c => SameConn(d)
    BY <1>1 DEF CheckLease, Drop, poolVars, serverVars, SameCaller, SameConn, TypeOK
<1>3. PoolInv'
    BY <1>1 DEF CheckLease, Drop, poolVars, serverVars, PoolInv, CleanPool, SessionInv,
        CommandInv, TypeOK
<1>4. CallerInv(t)'
    BY <1>1 DEF CheckLease, Drop, poolVars, serverVars, CallerInv, TypeOK
<1>5. ASSUME owner'[c] = t PROVE CommandInv(t, c)' /\ SessionInv(t, c)'
  <2>1. CommandInv(t, c)'
      BY <1>1, <1>5 DEF CheckLease, Drop, poolVars, serverVars, CommandInv, SessionInv,
          CallerInv, Healthy, TypeOK
  <2>2. SessionInv(t, c)'
      BY <1>1, <1>5 DEF CheckLease, Drop, poolVars, serverVars, CommandInv, SessionInv,
          CallerInv, Healthy, TypeOK
  <2> QED BY <2>1, <2>2
<1>6. t \in Tx => DurableInv(t)'
    BY <1>1 DEF CheckLease, Drop, poolVars, serverVars, DurableInv, CallerInv, SessionInv,
        CommandInv, TypeOK
<1>7. owner[c] \in {t, NoCaller} /\ owner'[c] \in {t, NoCaller}
    BY <1>1 DEF CheckLease, Drop, poolVars, serverVars, TypeOK
<1> QED BY <1>1, <1>2, <1>3, <1>4, <1>5, <1>6, <1>7, CallerStep

(* Clearing the flag is sound: nothing was sent. A pooled stream is closed. *)
LEMMA EncodeErrorStep ==
    ASSUME IInv, NEW t \in Caller, NEW c \in Conn, EncodeError(t, c), TypeOK'
    PROVE IInv'
<1> USE DEF Statement, LeaseOp, EndOp, Op, Armed, Suspended
<1>1. /\ TypeOK /\ PoolInv /\ CallerInv(t) /\ CommandInv(t, c) /\ SessionInv(t, c)
      /\ t \in Tx => DurableInv(t)
      /\ \A d \in Conn : d # c => owner[d] # t
    BY CallerAssumption DEF IInv, PoolInv, EncodeError
<1>2. /\ \A u \in Caller : u # t => SameCaller(u)
      /\ \A d \in Conn : d # c => SameConn(d)
    BY <1>1 DEF EncodeError, Drop, poolVars, serverVars, SameCaller, SameConn, TypeOK
<1>3. PoolInv'
    BY <1>1 DEF EncodeError, Drop, poolVars, serverVars, PoolInv, CleanPool, SessionInv, CommandInv,
        TypeOK
<1>4. CallerInv(t)'
    BY <1>1 DEF EncodeError, Drop, poolVars, serverVars, CallerInv, TypeOK
<1>5. ASSUME owner'[c] = t PROVE CommandInv(t, c)' /\ SessionInv(t, c)'
  <2>1. CommandInv(t, c)'
      BY <1>1, <1>5 DEF EncodeError, Drop, poolVars, serverVars, CommandInv, SessionInv, CallerInv,
          Healthy, TypeOK
  <2>2. SessionInv(t, c)'
      BY <1>1, <1>5 DEF EncodeError, Drop, poolVars, serverVars, CommandInv, SessionInv, CallerInv,
          Healthy, TypeOK
  <2> QED BY <2>1, <2>2
<1>6. t \in Tx => DurableInv(t)'
    BY <1>1 DEF EncodeError, Drop, poolVars, serverVars, DurableInv, CallerInv, SessionInv,
        CommandInv, TypeOK
<1>7. owner[c] \in {t, NoCaller} /\ owner'[c] \in {t, NoCaller}
    BY <1>1 DEF EncodeError, Drop, poolVars, serverVars, TypeOK
<1> QED BY <1>1, <1>2, <1>3, <1>4, <1>5, <1>6, <1>7, CallerStep

(* The command carries the writes of its caller, under its own handler. *)
LEMMA SendStep ==
    ASSUME IInv, NEW t \in Caller, NEW c \in Conn, Send(t, c), TypeOK'
    PROVE IInv'
<1> USE DEF Statement, LeaseOp, EndOp, Op, Armed, Suspended
<1>1. /\ TypeOK /\ PoolInv /\ CallerInv(t) /\ CommandInv(t, c) /\ SessionInv(t, c)
      /\ t \in Tx => DurableInv(t)
      /\ \A d \in Conn : d # c => owner[d] # t
    BY CallerAssumption DEF IInv, PoolInv, Send
<1>2. /\ \A u \in Caller : u # t => SameCaller(u)
      /\ \A d \in Conn : d # c => SameConn(d)
    BY <1>1 DEF Send, poolVars, SameCaller, SameConn, TypeOK
<1>3. PoolInv'
  <2>1. slot[c] = "leased"
      BY <1>1 DEF Send, SessionInv, TypeOK
  <2>2. CASE session[c] = "gone"
      BY <2>1, <2>2, <1>1 DEF Send, poolVars, PoolInv, CleanPool, TypeOK
  <2>3. CASE session[c] # "gone"
      BY <2>1, <2>3, <1>1, CallerAssumption
         DEF Send, poolVars, PoolInv, CleanPool, CallerInv, TypeOK
  <2> QED BY <2>2, <2>3
<1>4. CallerInv(t)'
    BY <1>1 DEF Send, poolVars, CallerInv, TypeOK
<1>5. ASSUME owner'[c] = t PROVE CommandInv(t, c)' /\ SessionInv(t, c)'
  <2>1. Writes(t)' = Writes(t) /\ Writes(t) \subseteq By(Write, t)
      BY <1>1, WritesOwn DEF Send, Writes, TypeOK
  <2>2. CASE session[c] = "gone"
    <3>1. CommandInv(t, c)'
        BY <1>1, <2>2 DEF Send, poolVars, CommandInv, TypeOK
    <3>2. SessionInv(t, c)'
        BY <1>1, <2>1, <2>2 DEF Send, poolVars, SessionInv, CallerInv, Healthy, TypeOK
    <3> QED BY <3>1, <3>2
  <2>3. CASE session[c] # "gone"
    <3>1. op[t] = "commit" => By(durable, t) = {}
        BY <1>1 DEF Send, CallerInv, DurableInv, TypeOK
    <3>2. /\ request'[c] = op[t] /\ payload'[c] = Writes(t) /\ reply'[c] = "none"
          /\ handler'[c] # "tripped" /\ at'[t] = "wait"
        BY <1>1, <2>3 DEF Send, TypeOK
    <3>3. op[t] # "none" /\ (op[t] \in LeaseOp \/ t \in Tx) /\ (t \in Tx => op[t] \notin LeaseOp)
        BY <1>1, CallerAssumption DEF Send, CallerInv, TypeOK
    <3>4. /\ op[t] \in Statement => session[c] = "open" /\ aborted[t]
          /\ op[t] = "begin" => session[c] = "auto"
          /\ op[t] = "commit" => session[c] = "open" /\ work[c] = By(acked, t) /\ ~aborted[t]
        BY <1>1, <2>3 DEF Send, SessionInv, CallerInv, Healthy
    <3>5. CommandInv(t, c)'
        BY <2>1, <2>3, <3>1, <3>2, <3>3, <3>4 DEF Send, poolVars, CommandInv
    <3>6. SessionInv(t, c)'
        BY <1>1, <2>1, <2>3 DEF Send, poolVars, SessionInv, CallerInv, Healthy, TypeOK
    <3> QED BY <3>5, <3>6
  <2> QED BY <2>2, <2>3
<1>6. t \in Tx => DurableInv(t)'
    BY <1>1 DEF Send, poolVars, DurableInv, CallerInv, SessionInv, CommandInv, TypeOK
<1>7. owner[c] \in {t, NoCaller} /\ owner'[c] \in {t, NoCaller}
    BY <1>1 DEF Send, poolVars, TypeOK
<1> QED BY <1>1, <1>2, <1>3, <1>4, <1>5, <1>6, <1>7, CallerStep

(* BEGIN leaves an empty transaction, or the lease is discarded. *)
LEMMA BegunStep ==
    ASSUME IInv, NEW t \in Caller, NEW c \in Conn, Begun(t, c), TypeOK'
    PROVE IInv'
<1> USE DEF Statement, LeaseOp, EndOp, Op, Armed, Suspended
<1>1. /\ TypeOK /\ PoolInv /\ CallerInv(t) /\ CommandInv(t, c) /\ SessionInv(t, c)
      /\ t \in Tx => DurableInv(t)
      /\ \A d \in Conn : d # c => owner[d] # t
    BY CallerAssumption DEF IInv, PoolInv, Begun
<1>2. /\ \A u \in Caller : u # t => SameCaller(u)
      /\ \A d \in Conn : d # c => SameConn(d)
    BY <1>1 DEF Begun, Drop, poolVars, serverVars, SameCaller, SameConn, TypeOK
<1>3. PoolInv'
    BY <1>1 DEF Begun, Drop, poolVars, serverVars, PoolInv, CleanPool, SessionInv, CommandInv,
        TypeOK
<1>4. CallerInv(t)'
    BY <1>1 DEF Begun, Drop, poolVars, serverVars, CallerInv, TypeOK
<1>5. ASSUME owner'[c] = t PROVE CommandInv(t, c)' /\ SessionInv(t, c)'
  <2>1. CommandInv(t, c)'
      BY <1>1, <1>5 DEF Begun, Drop, poolVars, serverVars, CommandInv, SessionInv, CallerInv,
          Healthy, TypeOK
  <2>2. SessionInv(t, c)'
    <3>1. CASE reply[c] = "ok"
      <4>1. request[c] = "none" /\ session[c] = "open" /\ work[c] = {} /\ slot[c] = "leased"
          BY <1>1, <3>1 DEF Begun, CommandInv, SessionInv
      <4>2. By(acked, t) = {} /\ t \in Tx
          BY <1>1 DEF Begun, CallerInv
      <4>3. at'[t] = "ready" /\ op'[t] = "none"
          BY <1>1, <3>1 DEF Begun, TypeOK
      <4> QED BY <1>1, <3>1, <4>1, <4>2, <4>3, CallerAssumption
              DEF Begun, poolVars, serverVars, SessionInv, Healthy
    <3>2. CASE reply[c] # "ok"
        BY <1>1, <3>2 DEF Begun, Drop, poolVars, serverVars, SessionInv, CallerInv, TypeOK
    <3> QED BY <3>1, <3>2
  <2> QED BY <2>1, <2>2
<1>6. t \in Tx => DurableInv(t)'
    BY <1>1 DEF Begun, Drop, poolVars, serverVars, DurableInv, CallerInv, SessionInv,
        CommandInv, TypeOK
<1>7. owner[c] \in {t, NoCaller} /\ owner'[c] \in {t, NoCaller}
    BY <1>1 DEF Begun, Drop, poolVars, serverVars, TypeOK
<1> QED BY <1>1, <1>2, <1>3, <1>4, <1>5, <1>6, <1>7, CallerStep

(* The flag is cleared only if the session holds what is acknowledged. *)
LEMMA AnsweredStep ==
    ASSUME IInv, NEW t \in Caller, NEW c \in Conn, Answered(t, c), TypeOK'
    PROVE IInv'
<1> USE DEF Statement, LeaseOp, EndOp, Op, Armed, Suspended
<1>1. /\ TypeOK /\ PoolInv /\ CallerInv(t) /\ CommandInv(t, c) /\ SessionInv(t, c)
      /\ t \in Tx => DurableInv(t)
      /\ \A d \in Conn : d # c => owner[d] # t
    BY CallerAssumption DEF IInv, PoolInv, Answered
<1>0. /\ By(acked \cup Writes(t), t) = By(acked, t) \cup Writes(t)
      /\ \A u : u # t => By(acked \cup Writes(t), u) = By(acked, u)
    BY ByUnion, WritesOwn
<1>2. /\ \A u \in Caller : u # t => SameCaller(u)
      /\ \A d \in Conn : d # c => SameConn(d)
  <2>1. ASSUME NEW u \in Caller, u # t PROVE SameCaller(u)
    <3>1. By(acked', u) = By(acked, u)
        BY <1>0, <2>1 DEF Answered
    <3>2. /\ at'[u] = at[u] /\ op'[u] = op[u] /\ aborted'[u] = aborted[u]
          /\ result'[u] = result[u] /\ issued'[u] = issued[u] /\ durable' = durable
        BY <1>1, <2>1 DEF Answered, Trip, poolVars, serverVars, TypeOK
    <3> QED BY <3>1, <3>2 DEF SameCaller
  <2>2. ASSUME NEW d \in Conn, d # c PROVE SameConn(d)
      BY <1>1, <2>2 DEF Answered, Trip, poolVars, serverVars, SameConn, TypeOK
  <2> QED BY <2>1, <2>2
<1>3. PoolInv'
    BY <1>1 DEF Answered, Trip, poolVars, serverVars, PoolInv, CleanPool, SessionInv,
        CommandInv, TypeOK
<1>4. CallerInv(t)'
    BY <1>1 DEF Answered, Trip, poolVars, serverVars, CallerInv, TypeOK
<1>5. ASSUME owner'[c] = t PROVE CommandInv(t, c)' /\ SessionInv(t, c)'
  <2>1. CommandInv(t, c)'
      BY <1>0, <1>1, <1>5 DEF Answered, Trip, poolVars, serverVars, CommandInv, SessionInv,
          CallerInv, Healthy, TypeOK
  <2>2. SessionInv(t, c)'
      BY <1>0, <1>1, <1>5 DEF Answered, Trip, poolVars, serverVars, CommandInv, SessionInv,
          CallerInv, Healthy, TypeOK
  <2> QED BY <2>1, <2>2
<1>6. t \in Tx => DurableInv(t)'
    BY <1>1 DEF Answered, Trip, poolVars, serverVars, DurableInv, CallerInv, SessionInv,
        CommandInv, TypeOK
<1>7. owner[c] \in {t, NoCaller} /\ owner'[c] \in {t, NoCaller}
    BY <1>1 DEF Answered, Trip, poolVars, serverVars, TypeOK
<1> QED BY <1>1, <1>2, <1>3, <1>4, <1>5, <1>6, <1>7, CallerStep

(* COMMIT and ROLLBACK give the connection back only when they succeeded. *)
LEMMA EndedStep ==
    ASSUME IInv, NEW t \in Caller, NEW c \in Conn, Ended(t, c), TypeOK'
    PROVE IInv'
<1> USE DEF Statement, LeaseOp, EndOp, Op, Armed, Suspended
<1>1. /\ TypeOK /\ PoolInv /\ CallerInv(t) /\ CommandInv(t, c) /\ SessionInv(t, c)
      /\ t \in Tx => DurableInv(t)
      /\ \A d \in Conn : d # c => owner[d] # t
    BY CallerAssumption DEF IInv, PoolInv, Ended
<1>2. /\ \A u \in Caller : u # t => SameCaller(u)
      /\ \A d \in Conn : d # c => SameConn(d)
    BY <1>1 DEF Ended, Drop, Definite, serverVars, SameCaller, SameConn, TypeOK
<1>3. PoolInv'
    BY <1>1 DEF Ended, Drop, Definite, serverVars, PoolInv, CleanPool, SessionInv, CommandInv,
        TypeOK
<1>4. CallerInv(t)'
    BY <1>1 DEF Ended, Drop, Definite, serverVars, CallerInv, TypeOK
<1>5. ASSUME owner'[c] = t PROVE CommandInv(t, c)' /\ SessionInv(t, c)'
  <2>1. CommandInv(t, c)'
      BY <1>1, <1>5 DEF Ended, Drop, Definite, serverVars, CommandInv, SessionInv, CallerInv,
          Healthy, TypeOK
  <2>2. SessionInv(t, c)'
    <3>1. at'[t] = "done" /\ op'[t] = "none" /\ slot'[c] = "closing"
        BY <1>1, <1>5, CallerAssumption DEF Ended, Drop, TypeOK
    <3> QED BY <1>1, <3>1 DEF Ended, serverVars, SessionInv, CallerInv, TypeOK
  <2> QED BY <2>1, <2>2
<1>6. t \in Tx => DurableInv(t)'
    BY <1>1 DEF Ended, Drop, Definite, serverVars, DurableInv, CallerInv, SessionInv,
        CommandInv, TypeOK
<1>7. owner[c] \in {t, NoCaller} /\ owner'[c] \in {t, NoCaller}
    BY <1>1 DEF Ended, Drop, Definite, serverVars, TypeOK
<1> QED BY <1>1, <1>2, <1>3, <1>4, <1>5, <1>6, <1>7, CallerStep

(* A pooled query gives its connection back without a transaction on it. *)
LEMMA LeaseEndedStep ==
    ASSUME IInv, NEW t \in Caller, NEW c \in Conn, LeaseEnded(t, c), TypeOK'
    PROVE IInv'
<1> USE DEF Statement, LeaseOp, EndOp, Op, Armed, Suspended
<1>1. /\ TypeOK /\ PoolInv /\ CallerInv(t) /\ CommandInv(t, c) /\ SessionInv(t, c)
      /\ t \in Tx => DurableInv(t)
      /\ \A d \in Conn : d # c => owner[d] # t
    BY CallerAssumption DEF IInv, PoolInv, LeaseEnded
<1>0. /\ By(acked \cup Writes(t), t) = By(acked, t) \cup Writes(t)
      /\ \A u : u # t => By(acked \cup Writes(t), u) = By(acked, u)
    BY ByUnion, WritesOwn
<1>2. /\ \A u \in Caller : u # t => SameCaller(u)
      /\ \A d \in Conn : d # c => SameConn(d)
  <2>1. ASSUME NEW u \in Caller, u # t PROVE SameCaller(u)
    <3>1. By(acked', u) = By(acked, u)
        BY <1>0, <2>1 DEF LeaseEnded
    <3>2. /\ at'[u] = at[u] /\ op'[u] = op[u] /\ aborted'[u] = aborted[u]
          /\ result'[u] = result[u] /\ issued'[u] = issued[u] /\ durable' = durable
        BY <1>1, <2>1 DEF LeaseEnded, Drop, Trip, serverVars, TypeOK
    <3> QED BY <3>1, <3>2 DEF SameCaller
  <2>2. ASSUME NEW d \in Conn, d # c PROVE SameConn(d)
      BY <1>1, <2>2 DEF LeaseEnded, Drop, Trip, serverVars, SameConn, TypeOK
  <2> QED BY <2>1, <2>2
<1>3. PoolInv'
  <2>1. request[c] = "none" /\ session[c] \in {"auto", "gone"} /\ slot[c] = "leased"
      BY <1>1 DEF LeaseEnded, CommandInv, SessionInv, CallerInv, TypeOK
  <2> QED BY <1>1, <2>1 DEF LeaseEnded, Drop, serverVars, PoolInv, CleanPool, TypeOK
<1>4. CallerInv(t)'
    BY <1>0, <1>1 DEF LeaseEnded, Drop, CallerInv, TypeOK
<1>5. ASSUME owner'[c] = t PROVE CommandInv(t, c)' /\ SessionInv(t, c)'
  <2>1. at'[t] = "done" /\ op'[t] = "none" /\ slot'[c] = "closing"
      BY <1>1, <1>5, CallerAssumption DEF LeaseEnded, Drop, TypeOK
  <2>2. request[c] = "none"
      BY <1>1 DEF LeaseEnded, CommandInv, TypeOK
  <2>3. CommandInv(t, c)'
      BY <1>1, <2>1, <2>2 DEF LeaseEnded, serverVars, CommandInv, CallerInv, TypeOK
  <2>4. SessionInv(t, c)'
      BY <1>1, <2>1 DEF LeaseEnded, serverVars, SessionInv, CallerInv, TypeOK
  <2> QED BY <2>3, <2>4
<1>6. t \in Tx => DurableInv(t)'
    BY <1>1, CallerAssumption DEF LeaseEnded, CallerInv
<1>7. owner[c] \in {t, NoCaller} /\ owner'[c] \in {t, NoCaller}
    BY <1>1 DEF LeaseEnded, Drop, Trip, serverVars, TypeOK
<1> QED BY <1>1, <1>2, <1>3, <1>4, <1>5, <1>6, <1>7, CallerStep

(* A cancelled statement leaves the transaction rollback-only. *)
LEMMA CancelStatementStep ==
    ASSUME IInv, NEW t \in Caller, NEW c \in Conn, CancelStatement(t, c), TypeOK'
    PROVE IInv'
<1> USE DEF Statement, LeaseOp, EndOp, Op, Armed, Suspended
<1>1. /\ TypeOK /\ PoolInv /\ CallerInv(t) /\ CommandInv(t, c) /\ SessionInv(t, c)
      /\ t \in Tx => DurableInv(t)
      /\ \A d \in Conn : d # c => owner[d] # t
    BY CallerAssumption DEF IInv, PoolInv, CancelStatement
<1>2. /\ \A u \in Caller : u # t => SameCaller(u)
      /\ \A d \in Conn : d # c => SameConn(d)
    BY <1>1 DEF CancelStatement, Trip, poolVars, serverVars, SameCaller, SameConn, TypeOK
<1>3. PoolInv'
    BY <1>1 DEF CancelStatement, Trip, poolVars, serverVars, PoolInv, CleanPool, SessionInv,
        CommandInv, TypeOK
<1>4. CallerInv(t)'
    BY <1>1 DEF CancelStatement, Trip, poolVars, serverVars, CallerInv, TypeOK
<1>5. ASSUME owner'[c] = t PROVE CommandInv(t, c)' /\ SessionInv(t, c)'
  <2>1. CommandInv(t, c)'
      BY <1>1, <1>5 DEF CancelStatement, Trip, poolVars, serverVars, CommandInv, SessionInv,
          CallerInv, Healthy, TypeOK
  <2>2. SessionInv(t, c)'
      BY <1>1, <1>5 DEF CancelStatement, Trip, poolVars, serverVars, CommandInv, SessionInv,
          CallerInv, Healthy, TypeOK
  <2> QED BY <2>1, <2>2
<1>6. t \in Tx => DurableInv(t)'
    BY <1>1 DEF CancelStatement, Trip, poolVars, serverVars, DurableInv, CallerInv, SessionInv,
        CommandInv, TypeOK
<1>7. owner[c] \in {t, NoCaller} /\ owner'[c] \in {t, NoCaller}
    BY <1>1 DEF CancelStatement, Trip, poolVars, serverVars, TypeOK
<1> QED BY <1>1, <1>2, <1>3, <1>4, <1>5, <1>6, <1>7, CallerStep

(* A dropped owner takes its connection out of the pool. *)
LEMMA CancelOwnerStep ==
    ASSUME IInv, NEW t \in Caller, NEW c \in Conn, CancelOwner(t, c), TypeOK'
    PROVE IInv'
<1> USE DEF Statement, LeaseOp, EndOp, Op, Armed, Suspended
<1>1. /\ TypeOK /\ PoolInv /\ CallerInv(t) /\ CommandInv(t, c) /\ SessionInv(t, c)
      /\ t \in Tx => DurableInv(t)
      /\ \A d \in Conn : d # c => owner[d] # t
    BY CallerAssumption DEF IInv, PoolInv, CancelOwner
<1>2. /\ \A u \in Caller : u # t => SameCaller(u)
      /\ \A d \in Conn : d # c => SameConn(d)
    BY <1>1 DEF CancelOwner, Drop, Trip, serverVars, SameCaller, SameConn, TypeOK
<1>3. PoolInv'
    BY <1>1 DEF CancelOwner, Drop, Trip, serverVars, PoolInv, CleanPool, SessionInv, CommandInv,
        TypeOK
<1>4. CallerInv(t)'
    BY <1>1 DEF CancelOwner, Drop, Trip, serverVars, CallerInv, TypeOK
<1>5. ASSUME owner'[c] = t PROVE CommandInv(t, c)' /\ SessionInv(t, c)'
  <2>1. CommandInv(t, c)'
      BY <1>1, <1>5 DEF CancelOwner, Drop, Trip, serverVars, CommandInv, SessionInv, CallerInv,
          Healthy, TypeOK
  <2>2. SessionInv(t, c)'
      BY <1>1, <1>5 DEF CancelOwner, Drop, Trip, serverVars, CommandInv, SessionInv, CallerInv,
          Healthy, TypeOK
  <2> QED BY <2>1, <2>2
<1>6. t \in Tx => DurableInv(t)'
    BY <1>1 DEF CancelOwner, Drop, Trip, serverVars, DurableInv, CallerInv, SessionInv,
        CommandInv, TypeOK
<1>7. owner[c] \in {t, NoCaller} /\ owner'[c] \in {t, NoCaller}
    BY <1>1 DEF CancelOwner, Drop, Trip, serverVars, TypeOK
<1> QED BY <1>1, <1>2, <1>3, <1>4, <1>5, <1>6, <1>7, CallerStep

(* The other end opens a transaction for a BEGIN. *)
LEMMA ServeBeginStep ==
    ASSUME IInv, NEW c \in Conn, ServeBegin(c), TypeOK'
    PROVE IInv'
<1> USE DEF Statement, LeaseOp, EndOp, Op, Armed, Suspended
<1>1. TypeOK /\ PoolInv
    BY DEF IInv
<1>2. /\ \A u \in Caller : owner[c] # u => SameCaller(u)
      /\ \A d \in Conn : d # c => SameConn(d)
    BY <1>1 DEF ServeBegin, Answer, callerVars, poolVars, SameCaller, SameConn, TypeOK
<1>3. PoolInv'
    BY <1>1 DEF ServeBegin, Answer, callerVars, poolVars, PoolInv, CleanPool, TypeOK
<1>4. ASSUME NEW u \in Caller, owner'[c] = u PROVE CommandInv(u, c)' /\ SessionInv(u, c)'
  <2>1. CommandInv(u, c) /\ SessionInv(u, c) /\ CallerInv(u) /\ owner[c] = u
      BY <1>1, <1>4, CallerAssumption DEF IInv, ServeBegin, Answer, callerVars, poolVars, TypeOK
  <2>2. CommandInv(u, c)'
      BY <1>1, <2>1, CallerAssumption DEF ServeBegin, Answer, callerVars, poolVars, PoolInv,
          CommandInv, SessionInv, CallerInv, Healthy, TypeOK
  <2>3. SessionInv(u, c)'
      BY <1>1, <2>1, CallerAssumption DEF ServeBegin, Answer, callerVars, poolVars, PoolInv,
          CommandInv, SessionInv, CallerInv, Healthy, TypeOK
  <2> QED BY <2>2, <2>3
<1>5. ASSUME NEW u \in Tx, owner[c] = u PROVE SameCaller(u) \/ DurableInv(u)'
    BY DEF ServeBegin, Answer, callerVars, poolVars, SameCaller
<1>6. owner'[c] \in {owner[c], NoCaller} /\ request'[c] = "none" /\ UNCHANGED callerVars
    BY <1>1 DEF ServeBegin, Answer, callerVars, poolVars, TypeOK
<1> QED BY <1>1, <1>2, <1>3, <1>4, <1>5, <1>6, ServerStep

(* A statement takes effect inside its transaction, never beside it. *)
LEMMA ServeOkStep ==
    ASSUME IInv, NEW c \in Conn, ServeOk(c), TypeOK'
    PROVE IInv'
<1> USE DEF Statement, LeaseOp, EndOp, Op, Armed, Suspended
<1>1. TypeOK /\ PoolInv
    BY DEF IInv
<1>0. /\ owner[c] \in Caller /\ CallerInv(owner[c])
      /\ CommandInv(owner[c], c) /\ SessionInv(owner[c], c)
    BY <1>1 DEF ServeOk, IInv, PoolInv, CleanPool, TypeOK
<1>2. /\ \A u \in Caller : owner[c] # u => SameCaller(u)
      /\ \A d \in Conn : d # c => SameConn(d)
  <2>1. \A u : u # owner[c] => By(durable \cup payload[c], u) = By(durable, u)
    <3>1. payload[c] \subseteq By(Write, owner[c])
        BY <1>0 DEF SessionInv
    <3> QED BY <3>1 DEF By
  <2>2. ASSUME NEW u \in Caller, owner[c] # u PROVE By(durable', u) = By(durable, u)
      BY <2>1, <2>2 DEF ServeOk
  <2>3. ASSUME NEW u \in Caller, owner[c] # u PROVE SameCaller(u)
      BY <2>2, <2>3 DEF ServeOk, Answer, callerVars, poolVars, SameCaller
  <2>4. ASSUME NEW d \in Conn, d # c PROVE SameConn(d)
      BY <1>1, <2>4 DEF ServeOk, Answer, callerVars, poolVars, SameConn, TypeOK
  <2> QED BY <2>3, <2>4
<1>3. PoolInv'
    BY <1>1 DEF ServeOk, Answer, callerVars, poolVars, PoolInv, CleanPool, TypeOK
<1>4. ASSUME NEW u \in Caller, owner'[c] = u PROVE CommandInv(u, c)' /\ SessionInv(u, c)'
  <2>1. CommandInv(u, c) /\ SessionInv(u, c) /\ CallerInv(u) /\ owner[c] = u
      BY <1>1, <1>4, CallerAssumption DEF IInv, ServeOk, Answer, callerVars, poolVars, TypeOK
  <2>2. CommandInv(u, c)'
      BY <1>1, <2>1, CallerAssumption DEF ServeOk, Answer, callerVars, poolVars, PoolInv,
          CommandInv, SessionInv, CallerInv, Healthy, TypeOK
  <2>3. SessionInv(u, c)'
    <3>1. CASE session[c] = "open"
      <4>1. u \in Tx /\ u \notin Pooled /\ at[u] \in Suspended \cup {"ready", "done"} /\ aborted[u]
          BY <2>1, <3>1, <1>1, CallerAssumption
             DEF Caller, ServeOk, CommandInv, SessionInv, TypeOK
      <4>2. ~(op[u] \in Statement \cup {"commit"} /\ at[u] \in {"check", "handle"}) /\ op[u] # "begin"
          BY <2>1, <4>1 DEF ServeOk, CommandInv, SessionInv, CallerInv, Healthy
      <4>3. at[u] = "wait" => payload[c] = Writes(u) /\ op[u] \in Statement
          BY <2>1, <4>1 DEF ServeOk, CommandInv
      <4>4. op[u] \in Statement /\ at[u] = "wait" => work[c] = By(acked, u)
          BY <2>1 DEF ServeOk, SessionInv
      <4>5. /\ session'[c] = "open" /\ work'[c] = work[c] \cup payload[c]
            /\ reply'[c] = "ok" /\ payload'[c] = {} /\ request'[c] = "none"
          BY <1>1, <3>1 DEF ServeOk, Answer, TypeOK
      <4>6. UNCHANGED <<at, op, aborted, issued, acked, durable, owner, slot>>
          BY <3>1 DEF ServeOk, callerVars, poolVars
      <4>7. work'[c] \subseteq By(Write, u)
          BY <2>1, <4>5 DEF SessionInv
      <4>8. at[u] = "wait" => work'[c] = By(acked, u) \cup Writes(u)
          BY <4>3, <4>4, <4>5
      <4>9. Writes(u)' = Writes(u)
          BY <4>6 DEF Writes
      <4> QED BY <2>1, <4>1, <4>2, <4>3, <4>5, <4>6, <4>7, <4>8, <4>9 DEF SessionInv
    <3>2. CASE session[c] = "auto"
      <4>1. u \in Pooled /\ u \notin Tx
          BY <2>1, <3>2, CallerAssumption DEF Caller, ServeOk, CommandInv
      <4>2. op[u] \in LeaseOp \cup {"none"} /\ at[u] # "ready"
          BY <2>1, <4>1, <1>1 DEF CallerInv, TypeOK
      <4>3. session'[c] = "auto" /\ work'[c] = {} /\ payload'[c] = {}
          BY <1>1, <3>2 DEF ServeOk, Answer, TypeOK
      <4> QED BY <2>1, <4>2, <4>3 DEF ServeOk, callerVars, poolVars, SessionInv
    <3> QED BY <3>1, <3>2 DEF ServeOk
  <2> QED BY <2>2, <2>3
<1>5. ASSUME NEW u \in Tx, owner[c] = u PROVE SameCaller(u) \/ DurableInv(u)'
    BY <1>0, <1>5, CallerAssumption
       DEF ServeOk, CommandInv, SessionInv, callerVars, SameCaller
<1>6. owner'[c] \in {owner[c], NoCaller} /\ request'[c] = "none" /\ UNCHANGED callerVars
    BY <1>1 DEF ServeOk, Answer, callerVars, poolVars, TypeOK
<1> QED BY <1>1, <1>2, <1>3, <1>4, <1>5, <1>6, ServerStep

(* A refused parameter count changes nothing at the other end. *)
LEMMA ServeBindCountStep ==
    ASSUME IInv, NEW c \in Conn, ServeBindCount(c), TypeOK'
    PROVE IInv'
<1> USE DEF Statement, LeaseOp, EndOp, Op, Armed, Suspended
<1>1. TypeOK /\ PoolInv
    BY DEF IInv
<1>2. /\ \A u \in Caller : owner[c] # u => SameCaller(u)
      /\ \A d \in Conn : d # c => SameConn(d)
    BY <1>1 DEF ServeBindCount, Answer, callerVars, poolVars, SameCaller, SameConn, TypeOK
<1>3. PoolInv'
    BY <1>1 DEF ServeBindCount, Answer, callerVars, poolVars, PoolInv, CleanPool, TypeOK
<1>4. ASSUME NEW u \in Caller, owner'[c] = u PROVE CommandInv(u, c)' /\ SessionInv(u, c)'
  <2>1. CommandInv(u, c) /\ SessionInv(u, c) /\ CallerInv(u) /\ owner[c] = u
      BY <1>1, <1>4, CallerAssumption DEF IInv, ServeBindCount, Answer, callerVars, poolVars,
          TypeOK
  <2>2. CommandInv(u, c)'
      BY <1>1, <2>1, CallerAssumption DEF ServeBindCount, Answer, callerVars, poolVars, PoolInv,
          CommandInv, SessionInv, CallerInv, Healthy, TypeOK
  <2>3. SessionInv(u, c)'
      BY <1>1, <2>1, CallerAssumption DEF ServeBindCount, Answer, callerVars, poolVars, PoolInv,
          CommandInv, SessionInv, CallerInv, Healthy, TypeOK
  <2> QED BY <2>2, <2>3
<1>5. ASSUME NEW u \in Tx, owner[c] = u PROVE SameCaller(u) \/ DurableInv(u)'
    BY DEF ServeBindCount, Answer, callerVars, poolVars, SameCaller
<1>6. owner'[c] \in {owner[c], NoCaller} /\ request'[c] = "none" /\ UNCHANGED callerVars
    BY <1>1 DEF ServeBindCount, Answer, callerVars, poolVars, TypeOK
<1> QED BY <1>1, <1>2, <1>3, <1>4, <1>5, <1>6, ServerStep

(* An error leaves only a rollback-only transaction behind. *)
LEMMA ServeErrorStep ==
    ASSUME IInv, NEW c \in Conn, ServeError(c), TypeOK'
    PROVE IInv'
<1> USE DEF Statement, LeaseOp, EndOp, Op, Armed, Suspended
<1>1. TypeOK /\ PoolInv
    BY DEF IInv
<1>2. /\ \A u \in Caller : owner[c] # u => SameCaller(u)
      /\ \A d \in Conn : d # c => SameConn(d)
    BY <1>1 DEF ServeError, Answer, callerVars, poolVars, SameCaller, SameConn, TypeOK
<1>3. PoolInv'
  <2>1. CASE session'[c] = "auto"
      BY <1>1, <2>1 DEF ServeError, Answer, callerVars, poolVars, PoolInv, CleanPool, TypeOK
  <2>2. CASE session'[c] # "auto"
    <3>1. slot[c] # "free" /\ session'[c] \in {"open", "failed"}
        BY <1>1, <2>2 DEF ServeError, Answer, PoolInv, CleanPool, TypeOK
    <3>2. payload'[c] = {}
        BY <1>1 DEF ServeError, Answer, TypeOK
    <3> QED BY <1>1, <1>2, <3>1, <3>2 DEF ServeError, poolVars, PoolInv, CleanPool, SameConn
  <2> QED BY <2>1, <2>2
<1>4. ASSUME NEW u \in Caller, owner'[c] = u PROVE CommandInv(u, c)' /\ SessionInv(u, c)'
  <2>1. CommandInv(u, c) /\ SessionInv(u, c) /\ CallerInv(u) /\ owner[c] = u
      BY <1>1, <1>4, CallerAssumption DEF IInv, ServeError, Answer, callerVars, poolVars, TypeOK
  <2>2. CommandInv(u, c)'
      BY <1>1, <2>1, CallerAssumption DEF ServeError, Answer, callerVars, poolVars, PoolInv,
          CommandInv, SessionInv, CallerInv, Healthy, TypeOK
  <2>3. SessionInv(u, c)'
      BY <1>1, <2>1, CallerAssumption DEF ServeError, Answer, callerVars, poolVars, PoolInv,
          CommandInv, SessionInv, CallerInv, Healthy, TypeOK
  <2> QED BY <2>2, <2>3
<1>5. ASSUME NEW u \in Tx, owner[c] = u PROVE SameCaller(u) \/ DurableInv(u)'
    BY DEF ServeError, Answer, callerVars, poolVars, SameCaller
<1>6. owner'[c] \in {owner[c], NoCaller} /\ request'[c] = "none" /\ UNCHANGED callerVars
    BY <1>1 DEF ServeError, Answer, callerVars, poolVars, TypeOK
<1> QED BY <1>1, <1>2, <1>3, <1>4, <1>5, <1>6, ServerStep

(* The service of COMMIT is the commit point of what is acknowledged. *)
LEMMA ServeCommitStep ==
    ASSUME IInv, NEW c \in Conn, ServeCommit(c), TypeOK'
    PROVE IInv'
<1> USE DEF Statement, LeaseOp, EndOp, Op, Armed, Suspended
<1>1. TypeOK /\ PoolInv
    BY DEF IInv
<1>0. /\ owner[c] \in Caller /\ CallerInv(owner[c])
      /\ CommandInv(owner[c], c) /\ SessionInv(owner[c], c)
    BY <1>1 DEF ServeCommit, IInv, PoolInv, CleanPool, TypeOK
<1>2. /\ \A u \in Caller : owner[c] # u => SameCaller(u)
      /\ \A d \in Conn : d # c => SameConn(d)
  <2>1. \A u : u # owner[c] => By(durable \cup work[c], u) = By(durable, u)
    <3>1. work[c] \subseteq By(Write, owner[c])
        BY <1>0 DEF SessionInv
    <3> QED BY <3>1 DEF By
  <2>2. ASSUME NEW u \in Caller, owner[c] # u PROVE By(durable', u) = By(durable, u)
      BY <2>1, <2>2 DEF ServeCommit
  <2>3. ASSUME NEW u \in Caller, owner[c] # u PROVE SameCaller(u)
      BY <2>2, <2>3 DEF ServeCommit, Refusals, Answer, callerVars, poolVars, SameCaller
  <2>4. ASSUME NEW d \in Conn, d # c PROVE SameConn(d)
      BY <1>1, <2>4 DEF ServeCommit, Refusals, Answer, callerVars, poolVars, SameConn, TypeOK
  <2> QED BY <2>3, <2>4
<1>3. PoolInv'
    BY <1>1 DEF ServeCommit, Refusals, Answer, callerVars, poolVars, PoolInv, CleanPool, TypeOK
<1>4. ASSUME NEW u \in Caller, owner'[c] = u PROVE CommandInv(u, c)' /\ SessionInv(u, c)'
  <2>1. CommandInv(u, c) /\ SessionInv(u, c) /\ CallerInv(u) /\ owner[c] = u
      BY <1>1, <1>4, CallerAssumption DEF IInv, ServeCommit, Refusals, Answer, callerVars,
          poolVars, TypeOK
  <2>2. CommandInv(u, c)'
      BY <1>1, <2>1, CallerAssumption DEF ServeCommit, Refusals, Answer, callerVars, poolVars,
          PoolInv, CommandInv, SessionInv, CallerInv, Healthy, TypeOK
  <2>3. SessionInv(u, c)'
    <3>1. session[c] = "open" /\ work[c] = By(acked, u) /\ By(durable, u) = {}
        BY <2>1 DEF ServeCommit, CommandInv
    <3>2. By(durable \cup work[c], u) = By(acked, u)
      <4>1. work[c] \subseteq By(Write, u)
          BY <2>1 DEF SessionInv
      <4> QED BY <3>1, <4>1 DEF By
    <3>3. /\ work'[c] \in {{}, work[c]} /\ payload'[c] = {}
          /\ reply'[c] = "ok" => session'[c] = "auto" /\ By(durable', u) = By(acked, u)
          /\ reply'[c] = "definite" => By(durable', u) = {}
      <4>1. CASE durable' = durable \cup work[c] /\ \E r \in {"ok", "dbError"} : Answer(c, r, "auto", {})
          BY <1>1, <3>2, <4>1 DEF Answer, TypeOK
      <4>2. CASE durable' = durable /\ \E r \in {"definite", "dbError"} :
                     Answer(c, r, "open", work[c]) \/ Answer(c, r, "auto", {})
          BY <1>1, <3>1, <4>2 DEF Answer, TypeOK
      <4> QED BY <3>1, <4>1, <4>2 DEF ServeCommit, Refusals
    <3>4. u \in Tx /\ u \notin Pooled /\ at[u] \in {"wait", "done"} /\ op[u] \in {"commit", "none"}
        BY <2>1, <1>1, CallerAssumption DEF ServeCommit, CommandInv, SessionInv, CallerInv, TypeOK
    <3> QED BY <2>1, <3>3, <3>4 DEF ServeCommit, callerVars, poolVars, SessionInv
  <2> QED BY <2>2, <2>3
<1>5. ASSUME NEW u \in Tx, owner[c] = u PROVE SameCaller(u) \/ DurableInv(u)'
  <2>1. /\ session[c] = "open" /\ work[c] = By(acked, u) /\ By(durable, u) = {} /\ ~aborted[u]
        /\ at[u] = "done" => result[u] = "unknown"
      BY <1>5, <1>0 DEF ServeCommit, CommandInv
  <2>2. By(durable \cup work[c], u) = By(acked, u)
    <3>1. work[c] \subseteq By(Write, u)
        BY <1>0, <1>5 DEF SessionInv
    <3> QED BY <2>1, <3>1 DEF By
  <2>3. By(durable', u) \in {{}, By(acked, u)}
      BY <2>1, <2>2 DEF ServeCommit
  <2>4. at[u] # "done" => at[u] = "wait" /\ op[u] = "commit"
      BY <1>5, <1>0, <1>1 DEF ServeCommit, CommandInv, SessionInv, TypeOK
  <2>5. \A d \in Conn : owner'[d] = u => request'[d] = "none"
      BY <1>1, <1>5, <1>0, CallerAssumption
         DEF ServeCommit, Answer, callerVars, poolVars, PoolInv, TypeOK
  <2>6. result[u] = "committed" => at[u] = "done"
      BY <1>5, <1>0, <1>1 DEF CallerInv, TypeOK
  <2> QED BY <2>1, <2>3, <2>4, <2>5, <2>6 DEF ServeCommit, callerVars, DurableInv
<1>6. owner'[c] \in {owner[c], NoCaller} /\ request'[c] = "none" /\ UNCHANGED callerVars
    BY <1>1 DEF ServeCommit, Refusals, Answer, callerVars, poolVars, TypeOK
<1> QED BY <1>1, <1>2, <1>3, <1>4, <1>5, <1>6, ServerStep

(* ROLLBACK leaves nothing uncommitted. *)
LEMMA ServeRollbackStep ==
    ASSUME IInv, NEW c \in Conn, ServeRollback(c), TypeOK'
    PROVE IInv'
<1> USE DEF Statement, LeaseOp, EndOp, Op, Armed, Suspended
<1>1. TypeOK /\ PoolInv
    BY DEF IInv
<1>2. /\ \A u \in Caller : owner[c] # u => SameCaller(u)
      /\ \A d \in Conn : d # c => SameConn(d)
    BY <1>1 DEF ServeRollback, Answer, callerVars, poolVars, SameCaller, SameConn, TypeOK
<1>3. PoolInv'
    BY <1>1 DEF ServeRollback, Answer, callerVars, poolVars, PoolInv, CleanPool, TypeOK
<1>4. ASSUME NEW u \in Caller, owner'[c] = u PROVE CommandInv(u, c)' /\ SessionInv(u, c)'
  <2>1. CommandInv(u, c) /\ SessionInv(u, c) /\ CallerInv(u) /\ owner[c] = u
      BY <1>1, <1>4, CallerAssumption DEF IInv, ServeRollback, Answer, callerVars, poolVars,
          TypeOK
  <2>2. CommandInv(u, c)'
      BY <1>1, <2>1, CallerAssumption DEF ServeRollback, Answer, callerVars, poolVars, PoolInv,
          CommandInv, SessionInv, CallerInv, Healthy, TypeOK
  <2>3. SessionInv(u, c)'
      BY <1>1, <2>1, CallerAssumption DEF ServeRollback, Answer, callerVars, poolVars, PoolInv,
          CommandInv, SessionInv, CallerInv, Healthy, TypeOK
  <2> QED BY <2>2, <2>3
<1>5. ASSUME NEW u \in Tx, owner[c] = u PROVE SameCaller(u) \/ DurableInv(u)'
    BY DEF ServeRollback, Answer, callerVars, poolVars, SameCaller
<1>6. owner'[c] \in {owner[c], NoCaller} /\ request'[c] = "none" /\ UNCHANGED callerVars
    BY <1>1 DEF ServeRollback, Answer, callerVars, poolVars, TypeOK
<1> QED BY <1>1, <1>2, <1>3, <1>4, <1>5, <1>6, ServerStep

(* A broken connection keeps nothing uncommitted. *)
LEMMA LoseStep ==
    ASSUME IInv, NEW c \in Conn, Lose(c), TypeOK'
    PROVE IInv'
<1> USE DEF Statement, LeaseOp, EndOp, Op, Armed, Suspended
<1>1. TypeOK /\ PoolInv
    BY DEF IInv
<1>2. /\ \A u \in Caller : owner[c] # u => SameCaller(u)
      /\ \A d \in Conn : d # c => SameConn(d)
    BY <1>1 DEF Lose, Answer, callerVars, poolVars, SameCaller, SameConn, TypeOK
<1>3. PoolInv'
    BY <1>1 DEF Lose, Answer, callerVars, poolVars, PoolInv, CleanPool, TypeOK
<1>4. ASSUME NEW u \in Caller, owner'[c] = u PROVE CommandInv(u, c)' /\ SessionInv(u, c)'
  <2>1. CommandInv(u, c) /\ SessionInv(u, c) /\ CallerInv(u) /\ owner[c] = u
      BY <1>1, <1>4, CallerAssumption DEF IInv, Lose, Answer, callerVars, poolVars, TypeOK
  <2>2. CommandInv(u, c)'
      BY <1>1, <2>1, CallerAssumption DEF Lose, Answer, callerVars, poolVars, PoolInv,
          CommandInv, SessionInv, CallerInv, Healthy, TypeOK
  <2>3. SessionInv(u, c)'
      BY <1>1, <2>1, CallerAssumption DEF Lose, Answer, callerVars, poolVars, PoolInv,
          CommandInv, SessionInv, CallerInv, Healthy, TypeOK
  <2> QED BY <2>2, <2>3
<1>5. ASSUME NEW u \in Tx, owner[c] = u PROVE SameCaller(u) \/ DurableInv(u)'
    BY DEF Lose, Answer, callerVars, poolVars, SameCaller
<1>6. owner'[c] \in {owner[c], NoCaller} /\ request'[c] = "none" /\ UNCHANGED callerVars
    BY <1>1 DEF Lose, Answer, callerVars, poolVars, TypeOK
<1> QED BY <1>1, <1>2, <1>3, <1>4, <1>5, <1>6, ServerStep

(* A closed connection enters the pool with nothing on it. *)
LEMMA CloseConnStep ==
    ASSUME IInv, NEW c \in Conn, CloseConn(c), TypeOK'
    PROVE IInv'
<1> USE DEF Statement, LeaseOp, EndOp, Op, Armed, Suspended
<1>1. TypeOK /\ PoolInv
    BY DEF IInv
<1>2. /\ \A u \in Caller : owner[c] # u => SameCaller(u)
      /\ \A d \in Conn : d # c => SameConn(d)
    BY <1>1 DEF CloseConn, Answer, callerVars, SameCaller, SameConn, TypeOK
<1>3. PoolInv'
    BY <1>1 DEF CloseConn, Answer, callerVars, PoolInv, CleanPool, TypeOK
<1>4. ASSUME NEW u \in Caller, owner'[c] = u PROVE CommandInv(u, c)' /\ SessionInv(u, c)'
    BY <1>1, <1>4, CallerAssumption DEF CloseConn, TypeOK
<1>5. ASSUME NEW u \in Tx, owner[c] = u PROVE SameCaller(u) \/ DurableInv(u)'
    BY DEF CloseConn, Answer, callerVars, SameCaller
<1>6. owner'[c] \in {owner[c], NoCaller} /\ request'[c] = "none" /\ UNCHANGED callerVars
    BY <1>1 DEF CloseConn, Answer, callerVars, TypeOK
<1> QED BY <1>1, <1>2, <1>3, <1>4, <1>5, <1>6, ServerStep

(* The keeper latch and stuttering touch no transaction. *)
LEMMA IdleStep ==
    ASSUME IInv, LoseKeeper \/ UNCHANGED vars, TypeOK'
    PROVE IInv'
<1> USE DEF LoseKeeper, vars, callerVars, poolVars, serverVars
<1>1. PoolInv'
    BY DEF IInv, PoolInv, CleanPool
<1>2. /\ \A u \in Caller : SameCaller(u)
      /\ \A d \in Conn : SameConn(d)
    BY DEF SameCaller, SameConn
<1>3. ASSUME NEW u \in Caller PROVE CallerInv(u)'
    BY <1>2, CallerFrame DEF IInv
<1>4. ASSUME NEW u \in Caller, NEW d \in Conn, owner'[d] = u
      PROVE CommandInv(u, d)' /\ SessionInv(u, d)'
    BY <1>2, <1>4, ConnFrame DEF IInv
<1>5. ASSUME NEW u \in Tx PROVE DurableInv(u)'
    BY <1>2, DurableFrame DEF IInv, Caller
<1> QED BY <1>1, <1>3, <1>4, <1>5 DEF IInv

(* The inductive invariant holds initially. *)
LEMMA IInvInit == Init => IInv
<1> SUFFICES ASSUME Init PROVE IInv
    OBVIOUS
<1>1. TypeOK
    BY TypeInit
<1>2. PoolInv
    BY CallerAssumption DEF Init, PoolInv, CleanPool
<1>3. ASSUME NEW t \in Caller PROVE CallerInv(t)
    BY DEF Init, CallerInv, By, Statement, LeaseOp, EndOp, Op
<1>4. ASSUME NEW t \in Caller, NEW c \in Conn PROVE owner[c] # t
    BY CallerAssumption DEF Init
<1>5. ASSUME NEW t \in Tx PROVE DurableInv(t)
    BY DEF Init, DurableInv, By, Caller
<1> QED BY <1>1, <1>2, <1>3, <1>4, <1>5 DEF IInv

(* Every step preserves the inductive invariant. *)
LEMMA IInvStep == IInv /\ [Next]_vars => IInv'
<1> SUFFICES ASSUME IInv, [Next]_vars PROVE IInv'
    OBVIOUS
<1>1. TypeOK'
    BY TypeStep DEF IInv
<1>2. ASSUME NEW t \in Caller, NEW c \in Conn, Step(t, c) PROVE IInv'
    BY <1>1, <1>2, BeginWriteStep, PooledQueryStep, RunStatementStep, CommitStep, RollbackStep,
       DropReadyStep, CheckLeaseStep, EncodeErrorStep, SendStep, BegunStep, AnsweredStep,
       EndedStep, LeaseEndedStep, CancelStatementStep, CancelOwnerStep DEF Step
<1>3. ASSUME NEW c \in Conn, Serve(c) \/ Lose(c) \/ CloseConn(c) PROVE IInv'
    BY <1>1, <1>3, ServeBeginStep, ServeOkStep, ServeBindCountStep, ServeErrorStep,
       ServeCommitStep, ServeRollbackStep, LoseStep, CloseConnStep DEF Serve
<1>4. CASE LoseKeeper \/ UNCHANGED vars
    BY <1>1, <1>4, IdleStep
<1> QED BY <1>2, <1>3, <1>4 DEF Next

(* The inductive invariant gives each property the runs check. *)
LEMMA IInvImplies ==
    IInv => /\ AllOrNothing /\ HonestOutcome /\ RollbackOnly /\ CleanPool
            /\ StatementInTransaction /\ NoStaleInterrupt
<1> SUFFICES ASSUME IInv
             PROVE /\ AllOrNothing /\ HonestOutcome /\ RollbackOnly /\ CleanPool
                   /\ StatementInTransaction /\ NoStaleInterrupt
    OBVIOUS
<1>1. AllOrNothing /\ RollbackOnly
    BY DEF IInv, AllOrNothing, RollbackOnly, DurableInv
<1>2. HonestOutcome
  <2> SUFFICES ASSUME NEW t \in Tx
               PROVE /\ result[t] = "committed" => By(durable, t) = By(acked, t)
                     /\ result[t] \in NotCommitted => By(durable, t) = {}
      BY DEF HonestOutcome
  <2>1. result[t] \in NotCommitted => at[t] = "done"
      BY DEF IInv, CallerInv, NotCommitted, Caller, TypeOK
  <2> QED BY <2>1 DEF IInv, DurableInv, NotCommitted
<1>3. CleanPool
    BY DEF IInv, PoolInv
<1>4. StatementInTransaction
  <2> SUFFICES ASSUME NEW c \in Conn, request[c] \in Statement PROVE session[c] = "open"
      BY DEF StatementInTransaction
  <2>1. owner[c] \in Caller
      BY DEF IInv, PoolInv, CleanPool, TypeOK, Statement
  <2> QED BY <2>1 DEF IInv, CommandInv
<1>5. NoStaleInterrupt
    BY DEF IInv, CommandInv, NoStaleInterrupt
<1> QED BY <1>1, <1>2, <1>3, <1>4, <1>5

-----------------------------------------------------------------------------
(* The invariant of transaction.rs and of the leases of driver.rs. *)
THEOREM Invariant == Spec => []IInv
BY IInvInit, IInvStep, PTL DEF Spec

(* A transaction becomes durable with exactly its acknowledged writes or    *)
(* not at all, whatever is cancelled, refused, lost or interrupted.         *)
THEOREM Atomicity == Spec => []AllOrNothing
BY Invariant, IInvImplies, PTL

(* What commit, rollback and drop tell the caller is what happened. *)
THEOREM Honesty == Spec => []HonestOutcome
BY Invariant, IInvImplies, PTL

(* A transaction with a failed or cancelled statement never commits. *)
THEOREM RollbackOnlyHolds == Spec => []RollbackOnly
BY Invariant, IInvImplies, PTL

(* No transaction, uncommitted write or running command is ever pooled. *)
THEOREM PoolHygiene == Spec => []CleanPool
BY Invariant, IInvImplies, PTL

(* No statement of a transaction runs outside it. *)
THEOREM InTransaction == Spec => []StatementInTransaction
BY Invariant, IInvImplies, PTL

(* No live command runs under an abandoned interruption callback. *)
THEOREM NoInterrupt == Spec => []NoStaleInterrupt
BY Invariant, IInvImplies, PTL

=============================================================================
