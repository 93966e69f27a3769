-------------------------- MODULE WarehouseProofs --------------------------
(***************************************************************************)
(* Proofs about Warehouse, for any number of calls, any workload and any    *)
(* supply: the invariant IInv is inductive, the stock that a call checked   *)
(* stays current until it commits, and Warehouse implements Inventory.      *)
(*                                                                          *)
(* Every action of a call changes that call's own fields only, and all but  *)
(* two leave the database alone.  So the step lemmas prove the parts of     *)
(* IInv about the acting call, LocalStep carries them over to the others,   *)
(* and DurableStep does the same for the two ways to commit, where the row  *)
(* lock or the single writer is what protects the others.                   *)
(***************************************************************************)
EXTENDS Warehouse, TLAPS

CallInv(c) == ProgressInv(c) /\ LockInv(c) /\ WorkInv(c) /\ AnswerInv(c)

\* A step of c leaves the fields of the other calls as they are.
Local(c) ==
    \A d \in Others(c) :
        /\ at'[d] = at[d] /\ session'[d] = session[d] /\ rowLock'[d] = rowLock[d]
        /\ available'[d] = available[d] /\ sold'[d] = sold[d] /\ inserted'[d] = inserted[d]
        /\ outcome'[d] = outcome[d] /\ result'[d] = result[d]

\* A step that leaves the database alone preserves IInv if it does so for the
\* acting call and its relation to the others.
LEMMA LocalStep ==
    ASSUME IInv, NEW c \in Call, Local(c), UNCHANGED Database,
           TypeOK', CallInv(c)', \A d \in Others(c) : PairInv(c, d)'
    PROVE  IInv'
<1>1. ASSUME NEW d \in Others(c)
      PROVE  CallInv(d)'
  <2>1. d \in Call /\ CallInv(d)
    BY <1>1 DEF IInv, CallInv, Others
  <2>2. Reserved(d)' = Reserved(d)
    BY DEF Reserved, Database
  <2> QED
    BY <1>1, <2>1, <2>2 DEF CallInv, ProgressInv, LockInv, WorkInv, AnswerInv, Local,
       Database, Sku, Locked
<1>2. ASSUME NEW d \in Call, NEW e \in Call, d # e
      PROVE  PairInv(d, e)'
  <2>1. CASE d = c
    BY <1>2, <2>1 DEF Others
  <2>2. CASE e = c
    <3>1. PairInv(e, d)'
      BY <1>2, <2>2 DEF Others
    <3> QED
      BY <3>1 DEF PairInv
  <2>3. CASE d # c /\ e # c
    <3>1. PairInv(d, e)
      BY <1>2 DEF IInv
    <3>2. d \in Others(c) /\ e \in Others(c)
      BY <1>2, <2>3 DEF Others
    <3> QED
      BY <3>1, <3>2 DEF PairInv, Local, Database, Sku
  <2> QED
    BY <2>1, <2>2, <2>3
<1> QED
  BY <1>1, <1>2 DEF IInv, CallInv, Others

\* Before the first call nobody holds or has anything.
LEMMA InitInvariant == Init => IInv
<1> SUFFICES ASSUME Init PROVE IInv
  OBVIOUS
<1> USE DEF Init
<1>1. TypeOK
  BY SupplyAssumption DEF TypeOK, Step, Result, Refusal
<1>2. ASSUME NEW c \in Call PROVE ProgressInv(c) /\ LockInv(c) /\ WorkInv(c) /\ AnswerInv(c)
  BY DEF ProgressInv, LockInv, WorkInv, AnswerInv, Locked
<1>3. ASSUME NEW c \in Call, NEW d \in Call PROVE PairInv(c, d)
  BY DEF PairInv
<1> QED
  BY <1>1, <1>2, <1>3 DEF IInv


\* reserve refuses an empty quantity or goes on to BEGIN.
LEMMA ReserveStep ==
    ASSUME IInv, NEW c \in Call, Reserve(c)
    PROVE  IInv'
<1> USE DEF Reserve, Goto, Return
<1>1. TypeOK /\ CallInv(c) /\ request[c].quantity \in Int
  BY WorkloadAssumption DEF IInv, CallInv, TypeOK
<1>2. Local(c) /\ UNCHANGED Database
  BY <1>1 DEF Local, Database, TypeOK, Others
<1>3. TypeOK'
  BY <1>1 DEF TypeOK, Step, Refusal, Result, Database, AnswerInv, CallInv
<1>4. CallInv(c)'
  <2>1. Reserved(c)' = Reserved(c)
    BY <1>2 DEF Reserved, Database
  <2> QED
    BY <1>1, <1>2, <2>1 DEF CallInv, ProgressInv, LockInv, WorkInv, AnswerInv, Locked, Sku, TypeOK, Database, Step, Refusal
<1>5. \A d \in Others(c) : PairInv(c, d)'
  BY <1>1, <1>2 DEF IInv, PairInv, Others, Local, Database, TypeOK, Sku, CallInv, LockInv, ProgressInv
<1> QED
  BY <1>2, <1>3, <1>4, <1>5, LocalStep

\* The session that BEGIN opens is the only one on SQLite.
LEMMA BeginWriteStep ==
    ASSUME IInv, NEW c \in Call, BeginWrite(c)
    PROVE  IInv'
<1> USE DEF BeginWrite, Goto, Return
<1>1. TypeOK /\ CallInv(c) /\ request[c].quantity \in Int
  BY WorkloadAssumption DEF IInv, CallInv, TypeOK
<1>2. Local(c) /\ UNCHANGED Database
  BY <1>1 DEF Local, Database, TypeOK, Others
<1>3. TypeOK'
  BY <1>1 DEF TypeOK, Step, Refusal, Result, Database, AnswerInv, CallInv
<1>4. CallInv(c)'
  <2>1. Reserved(c)' = Reserved(c)
    BY <1>2 DEF Reserved, Database
  <2> QED
    BY <1>1, <1>2, <2>1 DEF CallInv, ProgressInv, LockInv, WorkInv, AnswerInv, Locked, Sku, TypeOK, Database, Step, Refusal
<1>5. \A d \in Others(c) : PairInv(c, d)'
  BY <1>1, <1>2 DEF IInv, PairInv, Others, Local, Database, TypeOK, Sku, CallInv, LockInv, ProgressInv
<1> QED
  BY <1>2, <1>3, <1>4, <1>5, LocalStep

\* A call without a session holds nothing.
LEMMA BeginFailsStep ==
    ASSUME IInv, NEW c \in Call, BeginFails(c)
    PROVE  IInv'
<1> USE DEF BeginFails, Goto, Return
<1>1. TypeOK /\ CallInv(c) /\ request[c].quantity \in Int
  BY WorkloadAssumption DEF IInv, CallInv, TypeOK
<1>2. Local(c) /\ UNCHANGED Database
  BY <1>1 DEF Local, Database, TypeOK, Others
<1>3. TypeOK'
  BY <1>1 DEF TypeOK, Step, Refusal, Result, Database, AnswerInv, CallInv
<1>4. CallInv(c)'
  <2>1. Reserved(c)' = Reserved(c)
    BY <1>2 DEF Reserved, Database
  <2> QED
    BY <1>1, <1>2, <2>1 DEF CallInv, ProgressInv, LockInv, WorkInv, AnswerInv, Locked, Sku, TypeOK, Database, Step, Refusal
<1>5. \A d \in Others(c) : PairInv(c, d)'
  BY <1>1, <1>2 DEF IInv, PairInv, Others, Local, Database, TypeOK, Sku, CallInv, LockInv, ProgressInv
<1> QED
  BY <1>2, <1>3, <1>4, <1>5, LocalStep

\* The lock is granted to one call at a time.
LEMMA LockRowStep ==
    ASSUME IInv, NEW c \in Call, LockRow(c)
    PROVE  IInv'
<1> USE DEF LockRow, Fail, RowFree, Goto, Return
<1>1. TypeOK /\ CallInv(c) /\ request[c].quantity \in Int
  BY WorkloadAssumption DEF IInv, CallInv, TypeOK
<1>2. Local(c) /\ UNCHANGED Database
  BY <1>1 DEF Local, Database, TypeOK, Others
<1>3. TypeOK'
  BY <1>1 DEF TypeOK, Step, Refusal, Result, Database, AnswerInv, CallInv
<1>4. CallInv(c)'
  <2>1. Reserved(c)' = Reserved(c)
    BY <1>2 DEF Reserved, Database
  <2> QED
    BY <1>1, <1>2, <2>1 DEF CallInv, ProgressInv, LockInv, WorkInv, AnswerInv, Locked, Sku, TypeOK, Database, Step, Refusal
<1>5. \A d \in Others(c) : PairInv(c, d)'
  BY <1>1, <1>2 DEF IInv, PairInv, Others, Local, Database, TypeOK, Sku, CallInv, LockInv, ProgressInv
<1> QED
  BY <1>2, <1>3, <1>4, <1>5, LocalStep

\* What the closure reads is the committed stock, and a refusal is true.
LEMMA ReadStockStep ==
    ASSUME IInv, NEW c \in Call, ReadStock(c)
    PROVE  IInv'
<1> USE DEF ReadStock, Fail, Goto, Return
<1>1. TypeOK /\ CallInv(c) /\ request[c].quantity \in Int
  BY WorkloadAssumption DEF IInv, CallInv, TypeOK
<1>2. Local(c) /\ UNCHANGED Database
  BY <1>1 DEF Local, Database, TypeOK, Others
<1>3. TypeOK'
  <2>1. Sku(c) \in DOMAIN stock
    BY <1>1 DEF CallInv, LockInv, Locked
  <2> QED
    BY <1>1, <2>1 DEF TypeOK, Step, Refusal, Result, Database
<1>4. CallInv(c)'
  <2>1. Reserved(c)' = Reserved(c)
    BY <1>2 DEF Reserved, Database
  <2> QED
    BY <1>1, <1>2, <2>1 DEF CallInv, ProgressInv, LockInv, WorkInv, AnswerInv, Locked, Sku, TypeOK, Database, Step, Refusal
<1>5. \A d \in Others(c) : PairInv(c, d)'
  BY <1>1, <1>2 DEF IInv, PairInv, Others, Local, Database, TypeOK, Sku, CallInv, LockInv, ProgressInv
<1> QED
  BY <1>2, <1>3, <1>4, <1>5, LocalStep

\* The CHECK constraint never fails: the checked stock is current.
LEMMA UpdateStockStep ==
    ASSUME IInv, NEW c \in Call, UpdateStock(c)
    PROVE  IInv'
<1> USE DEF UpdateStock, Fail, RowFree, Goto, Return
<1>1. TypeOK /\ CallInv(c) /\ request[c].quantity \in Int
  BY WorkloadAssumption DEF IInv, CallInv, TypeOK
<1>2. Local(c) /\ UNCHANGED Database
  BY <1>1 DEF Local, Database, TypeOK, Others
<1>3. TypeOK'
  <2>1. request[c].quantity \in Nat
    BY <1>1 DEF CallInv, ProgressInv
  <2> QED
    BY <1>1, <2>1 DEF TypeOK, Step, Refusal, Result, Database
<1>4. CallInv(c)'
  <2>1. Reserved(c)' = Reserved(c)
    BY <1>2 DEF Reserved, Database
  <2> QED
    BY <1>1, <1>2, <2>1 DEF CallInv, ProgressInv, LockInv, WorkInv, AnswerInv, Locked, Sku, TypeOK, Database, Step, Refusal
<1>5. \A d \in Others(c) : PairInv(c, d)'
  BY <1>1, <1>2 DEF IInv, PairInv, Others, Local, Database, TypeOK, Sku, CallInv, LockInv, ProgressInv
<1> QED
  BY <1>2, <1>3, <1>4, <1>5, LocalStep

\* A new id is neither reserved nor about to be.
LEMMA InsertReservationStep ==
    ASSUME IInv, NEW c \in Call, InsertReservation(c)
    PROVE  IInv'
<1> USE DEF InsertReservation, Fail, Goto, Return
<1>1. TypeOK /\ CallInv(c) /\ request[c].quantity \in Int
  BY WorkloadAssumption DEF IInv, CallInv, TypeOK
<1>2. Local(c) /\ UNCHANGED Database
  BY <1>1 DEF Local, Database, TypeOK, Others
<1>3. TypeOK'
  BY <1>1 DEF TypeOK, Step, Refusal, Result, Database, AnswerInv, CallInv
<1>4. CallInv(c)'
  <2>1. Reserved(c)' = Reserved(c)
    BY <1>2 DEF Reserved, Database
  <2> QED
    BY <1>1, <1>2, <2>1 DEF CallInv, ProgressInv, LockInv, WorkInv, AnswerInv, Locked, Sku, TypeOK, Database, Step, Refusal
<1>5. \A d \in Others(c) : PairInv(c, d)'
  BY <1>1, <1>2 DEF IInv, PairInv, Others, Local, Database, TypeOK, Sku, CallInv, LockInv, ProgressInv
<1> QED
  BY <1>2, <1>3, <1>4, <1>5, LocalStep

\* A failed statement leads to the rollback.
LEMMA StatementFailsStep ==
    ASSUME IInv, NEW c \in Call, StatementFails(c)
    PROVE  IInv'
<1> USE DEF StatementFails, Fail, Goto, Return
<1>1. TypeOK /\ CallInv(c) /\ request[c].quantity \in Int
  BY WorkloadAssumption DEF IInv, CallInv, TypeOK
<1>2. Local(c) /\ UNCHANGED Database
  BY <1>1 DEF Local, Database, TypeOK, Others
<1>3. TypeOK'
  BY <1>1 DEF TypeOK, Step, Refusal, Result, Database, AnswerInv, CallInv
<1>4. CallInv(c)'
  <2>1. Reserved(c)' = Reserved(c)
    BY <1>2 DEF Reserved, Database
  <2> QED
    BY <1>1, <1>2, <2>1 DEF CallInv, ProgressInv, LockInv, WorkInv, AnswerInv, Locked, Sku, TypeOK, Database, Step, Refusal
<1>5. \A d \in Others(c) : PairInv(c, d)'
  BY <1>1, <1>2 DEF IInv, PairInv, Others, Local, Database, TypeOK, Sku, CallInv, LockInv, ProgressInv
<1> QED
  BY <1>2, <1>3, <1>4, <1>5, LocalStep

\* The session is over or will do nothing more.
LEMMA RollbackStep ==
    ASSUME IInv, NEW c \in Call, Rollback(c)
    PROVE  IInv'
<1> USE DEF Rollback, Over, Abandon, Goto, Return
<1>1. TypeOK /\ CallInv(c) /\ request[c].quantity \in Int
  BY WorkloadAssumption DEF IInv, CallInv, TypeOK
<1>2. Local(c) /\ UNCHANGED Database
  BY <1>1 DEF Local, Database, TypeOK, Others
<1>3. TypeOK'
  <2>1. outcome[c] \in Result
    BY <1>1 DEF TypeOK, Result
  <2>2. result' \in [Call -> Result]
    BY <1>1, <2>1 DEF TypeOK
  <2>3. /\ session' \in [Call -> {"none", "open", "doomed", "committing"}]
        /\ rowLock' \in [Call -> BOOLEAN] /\ sold' \in [Call -> Nat]
        /\ inserted' \in [Call -> BOOLEAN]
    <3>1. CASE Over(c)
      BY <1>1, <3>1 DEF TypeOK
    <3>2. CASE Abandon(c, "doomed")
      BY <1>1, <3>2 DEF TypeOK
    <3> QED
      BY <3>1, <3>2
  <2> QED
    BY <1>1, <2>2, <2>3 DEF TypeOK, Step, Database
<1>4. CallInv(c)'
  <2>1. Reserved(c)' = Reserved(c)
    BY <1>2 DEF Reserved, Database
  <2> QED
    BY <1>1, <1>2, <2>1 DEF CallInv, ProgressInv, LockInv, WorkInv, AnswerInv, Locked, Sku, TypeOK, Database, Step, Refusal
<1>5. \A d \in Others(c) : PairInv(c, d)'
  BY <1>1, <1>2 DEF IInv, PairInv, Others, Local, Database, TypeOK, Sku, CallInv, LockInv, ProgressInv
<1> QED
  BY <1>2, <1>3, <1>4, <1>5, LocalStep

\* A dropped call is told nothing; only its COMMIT can still take effect.
LEMMA DropStep ==
    ASSUME IInv, NEW c \in Call, Drop(c)
    PROVE  IInv'
<1> USE DEF Drop, Abandon, Goto, Return
<1>1. TypeOK /\ CallInv(c) /\ request[c].quantity \in Int
  BY WorkloadAssumption DEF IInv, CallInv, TypeOK
<1>2. Local(c) /\ UNCHANGED Database
  BY <1>1 DEF Local, Database, TypeOK, Others
<1>3. TypeOK'
  BY <1>1 DEF TypeOK, Step, Refusal, Result, Database, AnswerInv, CallInv
<1>4. CallInv(c)'
  <2>1. Reserved(c)' = Reserved(c)
    BY <1>2 DEF Reserved, Database
  <2> QED
    BY <1>1, <1>2, <2>1 DEF CallInv, ProgressInv, LockInv, WorkInv, AnswerInv, Locked, Sku, TypeOK, Database, Step, Refusal
<1>5. \A d \in Others(c) : PairInv(c, d)'
  BY <1>1, <1>2 DEF IInv, PairInv, Others, Local, Database, TypeOK, Sku, CallInv, LockInv, ProgressInv
<1> QED
  BY <1>2, <1>3, <1>4, <1>5, LocalStep

\* A lost session takes its locks and its work with it.
LEMMA LoseSessionStep ==
    ASSUME IInv, NEW c \in Call, LoseSession(c)
    PROVE  IInv'
<1> USE DEF LoseSession, Over, Goto, Return
<1>1. TypeOK /\ CallInv(c) /\ request[c].quantity \in Int
  BY WorkloadAssumption DEF IInv, CallInv, TypeOK
<1>2. Local(c) /\ UNCHANGED Database
  BY <1>1 DEF Local, Database, TypeOK, Others
<1>3. TypeOK'
  BY <1>1 DEF TypeOK, Step, Refusal, Result, Database, AnswerInv, CallInv
<1>4. CallInv(c)'
  <2>1. Reserved(c)' = Reserved(c)
    BY <1>2 DEF Reserved, Database
  <2> QED
    BY <1>1, <1>2, <2>1 DEF CallInv, ProgressInv, LockInv, WorkInv, AnswerInv, Locked, Sku, TypeOK, Database, Step, Refusal
<1>5. \A d \in Others(c) : PairInv(c, d)'
  BY <1>1, <1>2 DEF IInv, PairInv, Others, Local, Database, TypeOK, Sku, CallInv, LockInv, ProgressInv
<1> QED
  BY <1>2, <1>3, <1>4, <1>5, LocalStep

\* So does an abandoned one that the other end ends.
LEMMA EndSessionStep ==
    ASSUME IInv, NEW c \in Call, EndSession(c)
    PROVE  IInv'
<1> USE DEF EndSession, Over, Goto, Return
<1>1. TypeOK /\ CallInv(c) /\ request[c].quantity \in Int
  BY WorkloadAssumption DEF IInv, CallInv, TypeOK
<1>2. Local(c) /\ UNCHANGED Database
  BY <1>1 DEF Local, Database, TypeOK, Others
<1>3. TypeOK'
  BY <1>1 DEF TypeOK, Step, Refusal, Result, Database, AnswerInv, CallInv
<1>4. CallInv(c)'
  <2>1. Reserved(c)' = Reserved(c)
    BY <1>2 DEF Reserved, Database
  <2> QED
    BY <1>1, <1>2, <2>1 DEF CallInv, ProgressInv, LockInv, WorkInv, AnswerInv, Locked, Sku, TypeOK, Database, Step, Refusal
<1>5. \A d \in Others(c) : PairInv(c, d)'
  BY <1>1, <1>2 DEF IInv, PairInv, Others, Local, Database, TypeOK, Sku, CallInv, LockInv, ProgressInv
<1> QED
  BY <1>2, <1>3, <1>4, <1>5, LocalStep

-----------------------------------------------------------------------------
(* The two ways to commit.                                                  *)

\* An open session at COMMIT, or an abandoned one whose COMMIT is served
\* late, holds the lock and the reservation it has inserted.
Committing(c) == (session[c] = "open" /\ at[c] = "commit") \/ session[c] = "committing"

\* What COMMIT makes durable is one Take of the inventory.
LEMMA DurableIsTake ==
    ASSUME IInv, NEW c \in Call, Committing(c), MakeDurable(c)
    PROVE  /\ inserted[c] /\ ~Reserved(c) /\ Sku(c) \in DOMAIN stock
           /\ request[c].quantity \in 1..stock[Sku(c)]
           /\ stock' = [stock EXCEPT ![Sku(c)] = @ - request[c].quantity]
           /\ reservations' = reservations \cup {c}
           /\ stock' \in [DOMAIN Supply -> Nat]
<1>1. CallInv(c) /\ TypeOK /\ request[c].quantity \in Int
  BY WorkloadAssumption DEF IInv, CallInv, TypeOK
<1>2. inserted[c] /\ ~Reserved(c) /\ sold[c] # 0 /\ sold[c] \in Nat
  BY <1>1 DEF CallInv, WorkInv, Committing, TypeOK
<1>3. Sku(c) \in DOMAIN stock /\ sold[c] = request[c].quantity /\ sold[c] <= stock[Sku(c)]
  BY <1>1, <1>2 DEF CallInv, WorkInv
<1>4. stock[Sku(c)] \in Nat /\ DOMAIN stock = DOMAIN Supply
  BY <1>1, <1>3 DEF TypeOK
<1>5. stock[Sku(c)] - sold[c] \in Nat /\ request[c].quantity \in 1..stock[Sku(c)]
  BY <1>2, <1>3, <1>4
<1> QED
  BY <1>1, <1>2, <1>3, <1>4, <1>5 DEF MakeDurable, TypeOK

\* A COMMIT of c disturbs no other call: whoever relies on the stock of the
\* same SKU holds its row or the writer, and c does too.
LEMMA DurableStep ==
    ASSUME IInv, NEW c \in Call, Committing(c), MakeDurable(c), Over(c), Local(c),
           UNCHANGED <<postgres, request, available, outcome>>,
           at'[c] = "done", at' \in [Call -> Step],
           result'[c] \in {"ok", "unknown"}, result' \in [Call -> Result]
    PROVE  IInv'
<1>1. CallInv(c) /\ TypeOK /\ request[c].quantity \in Int
  BY WorkloadAssumption DEF IInv, CallInv, TypeOK
<1>2. /\ inserted[c] /\ ~Reserved(c) /\ Sku(c) \in DOMAIN stock
      /\ request[c].quantity \in 1..stock[Sku(c)]
      /\ stock' = [stock EXCEPT ![Sku(c)] = @ - request[c].quantity]
      /\ reservations' = reservations \cup {c}
      /\ stock' \in [DOMAIN Supply -> Nat]
  BY DurableIsTake
<1>3. TypeOK'
  BY <1>1, <1>2 DEF TypeOK, Over
<1>4. DOMAIN stock' = DOMAIN stock
  BY <1>1, <1>2 DEF TypeOK
<1>5. \A d \in Call : Reserved(d)' <=> Reserved(d) \/ request[c].id = request[d].id
  BY <1>2 DEF Reserved
<1>6. CallInv(c)'
  BY <1>1, <1>2, <1>4, <1>5 DEF CallInv, ProgressInv, LockInv, WorkInv, AnswerInv, Locked, Sku,
     TypeOK, Over
<1>7. ASSUME NEW d \in Others(c)
      PROVE  CallInv(d)' /\ PairInv(c, d)' /\ PairInv(d, c)'
  <2>1. d \in Call /\ d # c /\ CallInv(d) /\ PairInv(c, d)
    BY <1>7 DEF IInv, CallInv, Others
  <2>2. sold[d] # 0 \/ (session[d] = "open" /\ at[d] \in Locked) => Sku(d) # Sku(c)
    BY <1>1, <1>2, <2>1 DEF CallInv, LockInv, WorkInv, PairInv, Locked, TypeOK, Committing
  <2>3. Sku(d) # Sku(c) => stock'[Sku(d)] = stock[Sku(d)]
    BY <1>1, <1>2 DEF TypeOK
  <2>4. Sku(d) \in DOMAIN stock => stock'[Sku(d)] <= stock[Sku(d)]
    BY <1>1, <1>2 DEF TypeOK
  <2>5. inserted[d] => ~Reserved(d)'
    BY <1>2, <1>5, <2>1 DEF CallInv, WorkInv, PairInv
  <2>6. Sku(d)' = Sku(d) /\ (d \in reservations' <=> d \in reservations)
    BY <1>2, <2>1 DEF Sku
  <2>7. ProgressInv(d)' /\ LockInv(d)'
    BY <1>4, <1>7, <2>1, <2>6 DEF CallInv, ProgressInv, LockInv, Local, Sku
  <2>8. WorkInv(d)'
    BY <1>4, <1>7, <2>1, <2>2, <2>3, <2>5, <2>6 DEF CallInv, WorkInv, Local, Sku, Locked
  <2>9. AnswerInv(d)'
    <3>1. request[d].quantity \in Int /\ Sku(d) = request[d].sku
      BY <1>1, <2>1, WorkloadAssumption DEF TypeOK, Sku
    <3>2. Sku(d) \in DOMAIN stock => stock[Sku(d)] \in Nat /\ stock'[Sku(d)] \in Nat
      BY <1>1, <1>2, <1>4 DEF TypeOK
    <3>3. stock[Sku(d)] < request[d].quantity /\ Sku(d) \in DOMAIN stock
          => stock'[Sku(d)] < request[d].quantity
      BY <2>4, <3>1, <3>2
    <3> QED
      BY <1>4, <1>5, <1>7, <2>1, <2>6, <3>3 DEF CallInv, AnswerInv, Local
  <2>10. PairInv(c, d)' /\ PairInv(d, c)'
    BY <1>1, <2>1 DEF PairInv, Over, TypeOK
  <2> QED
    BY <2>7, <2>8, <2>9, <2>10 DEF CallInv
<1>8. ASSUME NEW d \in Others(c), NEW e \in Others(c), d # e
      PROVE  PairInv(d, e)'
  BY <1>8 DEF IInv, PairInv, Local, Others, Sku
<1> QED
  BY <1>3, <1>6, <1>7, <1>8 DEF IInv, CallInv, Others

\* COMMIT succeeds, is refused, or its answer is lost.
LEMMA CommitStep ==
    ASSUME IInv, NEW c \in Call, Commit(c)
    PROVE  IInv'
<1> USE DEF Commit
<1>1. TypeOK /\ CallInv(c)
  BY DEF IInv, CallInv
<1>2. CASE CommitOk(c)
  <2>1. Committing(c) /\ MakeDurable(c) /\ Over(c)
    BY <1>2 DEF CommitOk, Committing
  <2>2. Local(c) /\ at'[c] = "done" /\ at' \in [Call -> Step]
    BY <1>1, <1>2 DEF CommitOk, Over, Return, Goto, Local, Others, TypeOK, Step
  <2>3. result'[c] \in {"ok", "unknown"} /\ result' \in [Call -> Result]
    BY <1>1, <1>2 DEF CommitOk, Return, TypeOK, Result
  <2> QED
    BY <2>1, <2>2, <2>3, DurableStep
<1>3. CASE CommitRefused(c) \/ CommitLost(c)
  <2> USE DEF CommitRefused, CommitLost, Abandon, Return, Goto
  <2>1. Local(c) /\ UNCHANGED Database
    BY <1>1, <1>3 DEF Local, Database, TypeOK, Others
  <2>2. TypeOK'
    BY <1>1, <1>3 DEF TypeOK, Step, Refusal, Result
  <2>3. CallInv(c)'
    <3>1. Reserved(c)' = Reserved(c)
      BY <2>1 DEF Reserved, Database
    <3> QED
      BY <1>1, <1>3, <2>1, <3>1 DEF CallInv, ProgressInv, LockInv, WorkInv, AnswerInv, Locked, Sku,
         TypeOK, Database, Step
  <2>4. \A d \in Others(c) : PairInv(c, d)'
    BY <1>1, <1>3, <2>1 DEF IInv, PairInv, Others, Local, Database, TypeOK, Sku
  <2> QED
    BY <2>1, <2>2, <2>3, <2>4, LocalStep
<1> QED
  BY <1>2, <1>3

\* A COMMIT whose answer nobody awaits is served.
LEMMA LateCommitStep ==
    ASSUME IInv, NEW c \in Call, LateCommit(c)
    PROVE  IInv'
<1>1. TypeOK /\ CallInv(c) /\ Committing(c)
  BY DEF IInv, CallInv, LateCommit, Committing
<1>2. Local(c) /\ at'[c] = "done" /\ at' \in [Call -> Step]
  BY <1>1 DEF LateCommit, Over, Local, Others, TypeOK, CallInv, ProgressInv
<1>3. result'[c] \in {"ok", "unknown"} /\ result' \in [Call -> Result]
  BY <1>1 DEF LateCommit, TypeOK, CallInv, ProgressInv
<1> QED
  BY <1>1, <1>2, <1>3, DurableStep DEF LateCommit

\* Every step preserves the invariant.
LEMMA NextInvariant ==
    ASSUME IInv, [Next]_vars
    PROVE  IInv'
<1>1. ASSUME NEW c \in Call, Advance(c)
      PROVE  IInv'
  BY <1>1, ReserveStep, BeginWriteStep, LockRowStep, ReadStockStep, UpdateStockStep,
     InsertReservationStep, CommitStep, RollbackStep, EndSessionStep, StatementFailsStep DEF Advance
<1>2. ASSUME NEW c \in Call,
             BeginFails(c) \/ StatementFails(c) \/ Drop(c) \/ LoseSession(c) \/ LateCommit(c)
      PROVE  IInv'
  BY <1>2, BeginFailsStep, StatementFailsStep, DropStep, LoseSessionStep, LateCommitStep
<1>3. CASE UNCHANGED vars
  BY <1>3 DEF vars, local, IInv, TypeOK, ProgressInv, LockInv, WorkInv, AnswerInv, PairInv, Reserved,
     Sku
<1> QED
  BY <1>1, <1>2, <1>3 DEF Next

\* The inductive invariant holds of every behaviour of the warehouse, whatever
\* the calls, the workload and the supply; in particular the stock of an SKU
\* is never negative.
THEOREM WarehouseInvariant == Spec => []IInv
<1>1. IInv /\ [Next]_vars => IInv'
  BY NextInvariant
<1> QED
  BY <1>1, InitInvariant, PTL DEF Spec

\* The stock that reserve checked is still the stock when it commits, for any
\* number of concurrent calls.
THEOREM StockStaysCurrent == Spec => []CheckedStockIsCurrent
<1>1. IInv => CheckedStockIsCurrent
  BY DEF IInv, CheckedStockIsCurrent, WorkInv, AnswerInv
<1> QED
  BY <1>1, WarehouseInvariant, PTL

-----------------------------------------------------------------------------
(* Warehouse implements Inventory.                                          *)

\* A step without an answer and without a COMMIT is no step of the inventory.
LEMMA Silent ==
    ASSUME UNCHANGED <<request, stock, reservations, result>>
    PROVE  UNCHANGED Store!vars
BY DEF Store!vars

\* A negative answer is a Refuse of the inventory if it is justified.
LEMMA Answered ==
    ASSUME IInv, NEW c \in Call, at[c] # "done", UNCHANGED Database,
           NEW a \in {"insufficient", "duplicate", "not_found", "failed", "dropped", "unknown"},
           result' = [result EXCEPT ![c] = a],
           a = "insufficient" =>
              \/ request[c].quantity <= 0
              \/ Sku(c) \in DOMAIN stock /\ stock[Sku(c)] < request[c].quantity,
           a = "duplicate" => Reserved(c),
           a = "not_found" => Sku(c) \notin DOMAIN stock
    PROVE  Store!Next
<1>1. result[c] = "none" /\ c \notin reservations
  BY DEF IInv, ProgressInv, AnswerInv
<1>2. Store!Refuse(c)
  BY <1>1 DEF Store!Refuse, Store!Reserved, Reserved, Sku, Database
<1> QED
  BY <1>2 DEF Store!Next

\* COMMIT at the other end is a Take of the inventory.
LEMMA Taken ==
    ASSUME IInv, NEW c \in Call, Committing(c), MakeDurable(c), UNCHANGED request,
           result' = result \/ (result[c] = "none" /\ result' = [result EXCEPT ![c] = "ok"])
    PROVE  Store!Next
<1>1. /\ ~Reserved(c) /\ Sku(c) \in DOMAIN stock
      /\ request[c].quantity \in 1..stock[Sku(c)]
      /\ stock' = [stock EXCEPT ![Sku(c)] = @ - request[c].quantity]
      /\ reservations' = reservations \cup {c}
  BY DurableIsTake
<1>2. result[c] \in {"none", "unknown"}
  BY DEF IInv, ProgressInv, Committing
<1>3. Store!Take(c)
  BY <1>1, <1>2 DEF Store!Take, Store!Reserved, Reserved, Sku
<1> QED
  BY <1>3 DEF Store!Next

\* Every step of a call is a step of the inventory or none.
LEMMA StepRefines ==
    ASSUME IInv, [Next]_vars
    PROVE  [Store!Next]_(Store!vars)
<1>1. ASSUME NEW c \in Call, Reserve(c)
      PROVE  [Store!Next]_(Store!vars)
  <2>1. CASE request[c].quantity <= 0
    BY <1>1, <2>1, Answered DEF Reserve, Return
  <2>2. CASE ~(request[c].quantity <= 0)
    BY <1>1, <2>2, Silent DEF Reserve, Database
  <2> QED
    BY <2>1, <2>2
<1>2. ASSUME NEW c \in Call,
             \/ BeginWrite(c) \/ LockRow(c) \/ ReadStock(c) \/ UpdateStock(c)
             \/ InsertReservation(c) \/ StatementFails(c) \/ EndSession(c) \/ LoseSession(c)
      PROVE  [Store!Next]_(Store!vars)
  BY <1>2, Silent DEF BeginWrite, LockRow, ReadStock, UpdateStock, InsertReservation, StatementFails,
     EndSession, LoseSession, Fail, Over, Database
<1>3. ASSUME NEW c \in Call, BeginFails(c)
      PROVE  [Store!Next]_(Store!vars)
  BY <1>3, Answered DEF BeginFails, Return
<1>4. ASSUME NEW c \in Call, Drop(c)
      PROVE  [Store!Next]_(Store!vars)
  BY <1>4, Answered DEF Drop, Return
<1>5. ASSUME NEW c \in Call, Rollback(c)
      PROVE  [Store!Next]_(Store!vars)
  <2>1. outcome[c] \in {"insufficient", "duplicate", "not_found", "failed"} /\ AnswerInv(c)
    BY <1>5 DEF IInv, AnswerInv, TypeOK, Refusal, Rollback
  <2> QED
    BY <1>5, <2>1, Answered DEF Rollback, Return, AnswerInv
<1>6. ASSUME NEW c \in Call, Commit(c)
      PROVE  [Store!Next]_(Store!vars)
  <2>1. CASE CommitOk(c)
    <3>1. result[c] = "none"
      BY <1>6 DEF IInv, ProgressInv, Commit
    <3> QED
      BY <1>6, <2>1, <3>1, Taken DEF Commit, CommitOk, Committing, Return
  <2>2. CASE CommitRefused(c) \/ CommitLost(c)
    BY <1>6, <2>2, Answered DEF Commit, CommitRefused, CommitLost, Return, Database
  <2> QED
    BY <1>6, <2>1, <2>2 DEF Commit
<1>7. ASSUME NEW c \in Call, LateCommit(c)
      PROVE  [Store!Next]_(Store!vars)
  BY <1>7, Taken DEF LateCommit, Committing
<1>8. CASE UNCHANGED vars
  BY <1>8, Silent DEF vars, local
<1> QED
  BY <1>1, <1>2, <1>3, <1>4, <1>5, <1>6, <1>7, <1>8 DEF Next, Advance

\* For any number of calls, any workload and any supply, what callers of
\* reserve and readers of the two tables see is a behaviour of Inventory: a
\* reservation and its stock are one step, refusals are true, and a call that
\* was told it failed never takes effect.
THEOREM WarehouseImplementsInventory == Spec => ImplementsInventory
<1>1. Init => Store!Init
  BY DEF Init, Store!Init
<1>2. IInv /\ [Next]_vars => [Store!Next]_(Store!vars)
  BY StepRefines
<1> QED
  BY <1>1, <1>2, WarehouseInvariant, PTL DEF Spec, ImplementsInventory, Store!Spec

=============================================================================
