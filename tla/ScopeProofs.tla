---------------------------- MODULE ScopeProofs ----------------------------
(* Proofs about Scope for any operations and streams. *)
EXTENDS Scope, SequenceTheorems, WellFoundedInduction, TLAPS

-----------------------------------------------------------------------------
(* A future that gives up its place in a queue.                             *)

(* A set of numbers that is not empty has a least one. *)
LEMMA LeastNumber ==
    ASSUME NEW I \in SUBSET Nat, I # {}
    PROVE  \E x \in I : \A y \in I : x =< y
<1>1. PICK x \in I : \A y \in I : ~(<<y, x>> \in OpToRel(<, Nat))
    BY NatLessThanWellFounded, WFMin
<1>2. ASSUME NEW y \in I
      PROVE  x =< y
    <2>1. <<y, x>> \in Nat \X Nat
        OBVIOUS
    <2>2. ~(<<y, x>>[1] < <<y, x>>[2])
        BY <1>1, <2>1 DEF OpToRel
    <2> QED BY <2>2
<1> QED BY <1>2

(* The first place of f, if it has one. *)
LEMMA FirstPlace ==
    ASSUME NEW S, NEW q \in Seq(S), NEW f, \E i \in 1..Len(q) : q[i] = f
    PROVE  \E k \in 1..Len(q) :
             /\ q[k] = f
             /\ \A j \in 1..(k - 1) : q[j] # f
             /\ RemoveFirst(q, f) = RemoveAt(q, k)
<1> DEFINE I == {i \in 1..Len(q) : q[i] = f}
           k == CHOOSE x \in I : \A y \in I : x =< y
<1>1. I \in SUBSET Nat /\ I # {}
    OBVIOUS
<1>2. \E x \in I : \A y \in I : x =< y
    BY <1>1, LeastNumber
<1>3. k \in I /\ \A y \in I : k =< y
    BY <1>2
<1>4. RemoveFirst(q, f) = RemoveAt(q, k)
    BY <1>1 DEF RemoveFirst, SelectInSeq, Min
<1>5. k \in 1..Len(q) /\ q[k] = f
    BY <1>3
<1>6. \A j \in 1..(k - 1) : q[j] # f
    <2> SUFFICES ASSUME NEW j \in 1..(k - 1), q[j] = f
                 PROVE  FALSE
        OBVIOUS
    <2> HIDE DEF k
    <2>1. Len(q) \in Nat /\ k \in Int /\ k <= Len(q) /\ j \in Int /\ 1 <= j /\ j <= k - 1
        BY <1>5, LenProperties
    <2>2. j \in I
        BY <2>1
    <2> HIDE DEF I
    <2>3. k =< j
        BY <1>3, <2>2
    <2> QED BY <2>1, <2>3
<1> HIDE DEF k
<1> QED BY <1>4, <1>5, <1>6

(* What is left is a queue of the same futures. *)
LEMMA RemoveTyped ==
    ASSUME NEW S, NEW q \in Seq(S), NEW f
    PROVE  RemoveFirst(q, f) \in Seq(S)
<1>1. CASE \E i \in 1..Len(q) : q[i] = f
    <2>1. PICK k \in 1..Len(q) : RemoveFirst(q, f) = RemoveAt(q, k)
        BY <1>1, FirstPlace
    <2>2. SubSeq(q, 1, k - 1) \in Seq(S) /\ SubSeq(q, k + 1, Len(q)) \in Seq(S)
        BY <2>1, LenProperties, SubSeqProperties
    <2> QED BY <2>1, <2>2, ConcatProperties DEF RemoveAt
<1>2. CASE ~ \E i \in 1..Len(q) : q[i] = f
    BY <1>2 DEF RemoveFirst
<1> QED BY <1>1, <1>2

(* Whoever is first and does not leave stays first. *)
LEMMA RemoveKeepsHead ==
    ASSUME NEW S, NEW q \in Seq(S), NEW f, q # <<>>, Head(q) # f
    PROVE  RemoveFirst(q, f) # <<>> /\ Head(RemoveFirst(q, f)) = Head(q)
<1>1. CASE \E i \in 1..Len(q) : q[i] = f
    <2>1. PICK k \in 1..Len(q) : q[k] = f /\ RemoveFirst(q, f) = RemoveAt(q, k)
        BY <1>1, FirstPlace
    <2>2. Len(q) \in Nat /\ k \in 2..Len(q)
        BY <2>1, LenProperties, HeadTailProperties
    <2> DEFINE front == SubSeq(q, 1, k - 1)
               back  == SubSeq(q, k + 1, Len(q))
    <2>3. front \in Seq(S) /\ back \in Seq(S) /\ Len(front) = k - 1 /\ front[1] = q[1] /\ Len(back) \in Nat
        BY <2>2, SubSeqProperties, LenProperties
    <2>4. Len(front \o back) > 0 /\ (front \o back)[1] = q[1] /\ front \o back \in Seq(S)
        BY <2>2, <2>3, ConcatProperties
    <2>5. RemoveFirst(q, f) = front \o back
        BY <2>1 DEF RemoveAt
    <2> HIDE DEF front, back
    <2> QED BY <2>4, <2>5
<1>2. CASE ~ \E i \in 1..Len(q) : q[i] = f
    BY <1>2 DEF RemoveFirst
<1> QED BY <1>1, <1>2

(* The queues of the transaction's mutex are short. *)
LEMMA RemoveFromEmpty ==
    ASSUME NEW f
    PROVE  RemoveFirst(<<>>, f) = <<>>
BY DEF RemoveFirst

LEMMA RemoveOnly ==
    ASSUME NEW f
    PROVE  RemoveFirst(<<f>>, f) = <<>>
<1>1. \E i \in 1..Len(<<f>>) : <<f>>[i] = f
    BY 1 \in 1..Len(<<f>>)
<1>2. PICK k \in 1..Len(<<f>>) : RemoveFirst(<<f>>, f) = RemoveAt(<<f>>, k)
    BY <1>1, FirstPlace, <<f>> \in Seq({f})
<1>3. k = 1
    OBVIOUS
<1> QED BY <1>2, <1>3 DEF RemoveAt

LEMMA RemoveFromPair ==
    ASSUME NEW f, NEW g, f # g
    PROVE  RemoveFirst(<<f, g>>, f) = <<g>> /\ RemoveFirst(<<f, g>>, g) = <<f>>
<1> DEFINE q == <<f, g>>
<1>1. q \in Seq({f, g}) /\ Len(q) = 2 /\ q[1] = f /\ q[2] = g
    OBVIOUS
<1>2. (\E i \in 1..Len(q) : q[i] = f) /\ (\E i \in 1..Len(q) : q[i] = g)
    BY <1>1, 1 \in 1..Len(q), 2 \in 1..Len(q)
<1> HIDE DEF q
<1>3. PICK k \in 1..Len(q) : q[k] = f /\ RemoveFirst(q, f) = RemoveAt(q, k)
    BY <1>1, <1>2, FirstPlace
<1>4. PICK l \in 1..Len(q) : q[l] = g /\ RemoveFirst(q, g) = RemoveAt(q, l)
    BY <1>1, <1>2, FirstPlace
<1>5. k = 1 /\ l = 2
    BY <1>1, <1>3, <1>4
<1>6. RemoveFirst(q, f) = SubSeq(q, 1, 0) \o SubSeq(q, 2, 2) /\ RemoveFirst(q, g) = SubSeq(q, 1, 1) \o SubSeq(q, 3, 2)
    BY <1>1, <1>3, <1>4, <1>5 DEF RemoveAt
<1> QED BY <1>6 DEF q

LEMMA AppendToOne ==
    ASSUME NEW f, NEW g
    PROVE  Append(<<f>>, g) = <<f, g>>
<1> DEFINE s == Append(<<f>>, g)
           t == <<f, g>>
<1>1. s \in Seq({f, g}) /\ Len(s) = 2 /\ s[1] = f /\ s[2] = g
    BY <<f>> \in Seq({f, g}), Len(<<f>>) = 1, <<f>>[1] = f, AppendProperties
<1>2. t \in Seq({f, g}) /\ Len(t) = 2 /\ t[1] = f /\ t[2] = g
    OBVIOUS
<1> HIDE DEF s, t
<1>3. \A i \in 1..Len(s) : s[i] = t[i]
    BY <1>1, <1>2
<1>4. s = t
    BY <1>1, <1>2, <1>3, SeqEqual
<1> QED BY <1>4 DEF s, t

-----------------------------------------------------------------------------
(* The steps of one future.                                                 *)

USE FutureAssumption DEF Future, Free, Holds, InSlot

(* Leaving the serial queue does not take the lock from the operation in    *)
(* the slot.                                                                *)
LEMMA CloseQueue ==
    ASSUME TypeOK, QueueInv, NEW f \in Future, Close(f)
    PROVE  /\ serialQ' \in Seq(Op)
           /\ operation' \in {operation, None} /\ cursor' \in {cursor, None}
           /\ operation' # None => operation # f /\ Holds(serialQ', operation)
<1>1. serialQ' \in Seq(Op)
    BY RemoveTyped DEF Close, TypeOK
<1>2. ASSUME operation' # None
      PROVE  operation # f /\ serialQ # <<>> /\ Head(serialQ) # f /\ Head(serialQ) = operation
    BY <1>2 DEF Close, QueueInv
<1>3. ASSUME operation' # None
      PROVE  Holds(serialQ', operation)
    BY <1>2, <1>3, RemoveKeepsHead DEF Close, TypeOK
<1> QED BY <1>1, <1>2, <1>3 DEF Close

(* A future that ends takes its place in the line with it, if it has one. *)
LEMMA EndLine ==
    ASSUME TypeOK, QueueInv, NEW f \in Future, End(f)
    PROVE  /\ txQ' = Line'
           /\ at' = [at EXCEPT ![f] = "done"]
           /\ operation' = IF operation = f THEN None ELSE operation
           /\ cursor' = IF cursor = f THEN None ELSE cursor
           /\ UNCHANGED <<aborted, acked>>
           /\ InSlot(f) /\ at[f] = "stmt" => broken' = broken \cup {f} /\ work' \in {work, work \cup {f}}
           /\ ~(InSlot(f) /\ at[f] = "stmt") => UNCHANGED <<broken, work>>
<1> DEFINE F == {f} \cap {operation, cursor}
<1>1. /\ at' = [at EXCEPT ![f] = "done"]
      /\ operation' = IF operation = f THEN None ELSE operation
      /\ cursor' = IF cursor = f THEN None ELSE cursor
      /\ UNCHANGED <<aborted, acked>>
      /\ Discard(F)
    BY DEF End, Close
<1>2. InSlot(f) => F = {f}
    OBVIOUS
<1>3. ~InSlot(f) => F = {}
    OBVIOUS
<1>4. InSlot(f) /\ at[f] = "stmt" => broken' = broken \cup {f} /\ work' \in {work, work \cup {f}}
    BY <1>1, <1>2 DEF Discard
<1>5. ~(InSlot(f) /\ at[f] = "stmt") => UNCHANGED <<broken, work>>
    BY <1>1, <1>2, <1>3 DEF Discard
<1>6. txQ' = Line'
    <2>1. CASE ~InSlot(f)
        BY <1>1, <1>3, <2>1 DEF Discard, Line, QueueInv
    <2>2. CASE operation = f
        <3>1. txQ' = RemoveFirst(Line, operation) /\ operation' = None /\ cursor' = cursor
            BY <1>1, <1>2, <2>2 DEF Discard, TypeOK, QueueInv
        <3> QED BY <3>1, <2>2, RemoveOnly, RemoveFromPair DEF Line, TypeOK
    <2>3. CASE cursor = f
        <3>1. txQ' = RemoveFirst(Line, cursor) /\ cursor' = None /\ operation' = operation
            BY <1>1, <1>2, <2>3 DEF Discard, TypeOK, QueueInv
        <3> QED BY <3>1, <2>3, RemoveOnly, RemoveFromPair DEF Line, TypeOK
    <2> QED BY <2>1, <2>2, <2>3
<1> QED BY <1>1, <1>4, <1>5, <1>6

(* A future outside the slots, which has sent nothing, ends.                *)
LEMMA CloseKeeps ==
    ASSUME IInv, NEW f \in Future, ~InSlot(f), Close(f),
           UNCHANGED <<enterVars, aborted, txQ, work, acked, broken, durable>>
    PROVE  IInv'
<1>1. operation' = operation /\ cursor' = cursor /\ at' = [at EXCEPT ![f] = "done"]
    BY DEF Close
<1>2. serialQ' \in Seq(Op) /\ (operation' # None => Holds(serialQ', operation'))
    BY <1>1, CloseQueue DEF IInv
<1>3. TypeOK'
    BY <1>1, <1>2 DEF IInv, TypeOK, enterVars
<1>4. QueueInv'
    BY <1>1, <1>2 DEF IInv, TypeOK, QueueInv, Line
<1>5. PhaseInv' /\ DurableInv'
    BY <1>1 DEF IInv, PhaseInv, DurableInv, enterVars
<1>6. CleanInv'
    BY <1>1 DEF IInv, TypeOK, CleanInv, Running
<1> QED BY <1>3, <1>4, <1>5, <1>6 DEF IInv

(* A future ends, in a slot or not: an abandoned statement leaves the       *)
(* transaction rollback-only.                                               *)
LEMMA EndKeeps ==
    ASSUME IInv, NEW f \in Future, End(f), UNCHANGED <<enterVars, durable>>
    PROVE  IInv'
<1>1. /\ txQ' = Line'
      /\ at' = [at EXCEPT ![f] = "done"]
      /\ operation' = IF operation = f THEN None ELSE operation
      /\ cursor' = IF cursor = f THEN None ELSE cursor
      /\ UNCHANGED <<aborted, acked>>
      /\ InSlot(f) /\ at[f] = "stmt" => broken' = broken \cup {f} /\ work' \in {work, work \cup {f}}
      /\ ~(InSlot(f) /\ at[f] = "stmt") => UNCHANGED <<broken, work>>
    BY EndLine DEF IInv
<1>2. serialQ' \in Seq(Op) /\ (operation' # None => Holds(serialQ', operation'))
    BY <1>1, CloseQueue DEF IInv, End
<1>3. TypeOK'
    <2>1. txQ' \in Seq(Future)
        <3>1. operation' \in Op \cup {None} /\ cursor' \in Stream \cup {None}
            BY <1>1 DEF IInv, TypeOK
        <3>2. <<>> \in Seq(Future) /\ \A g, h \in Future : {<<g>>, <<g, h>>} \subseteq Seq(Future)
            OBVIOUS
        <3> QED BY <1>1, <3>1, <3>2 DEF Line
    <2> QED BY <1>1, <1>2, <2>1 DEF IInv, TypeOK, enterVars
<1>4. QueueInv'
    BY <1>1, <1>2 DEF IInv, TypeOK, QueueInv
<1>5. PhaseInv'
    BY <1>1 DEF IInv, TypeOK, PhaseInv, enterVars
<1>6. CleanInv'
    BY <1>1 DEF IInv, TypeOK, QueueInv, CleanInv, Running
<1>7. DurableInv'
    BY <1>1 DEF IInv, PhaseInv, DurableInv, enterVars
<1> QED BY <1>3, <1>4, <1>5, <1>6, <1>7 DEF IInv

(* A future enters its slot: at the head of the line it sends its           *)
(* statement, behind another one it waits.                                  *)
LEMMA InstallKeeps ==
    ASSUME IInv, NEW f \in Future, ~InSlot(f), Available, phase = "body", Install(f),
           f \in Op => Free(serialQ) \/ Holds(serialQ, f),
           UNCHANGED <<enterVars, work, acked, broken, durable>>
    PROVE  IInv'
<1>1. CASE Close(f) /\ UNCHANGED <<aborted, txQ>>
    BY <1>1, CloseKeeps
<1>2. CASE /\ Free(txQ) => ~Refusing
           /\ operation' = IF f \in Op THEN f ELSE operation
           /\ cursor' = IF f \in Stream THEN f ELSE cursor
           /\ txQ' = Append(txQ, f)
           /\ at' = [at EXCEPT ![f] = IF Free(txQ) THEN "stmt" ELSE "lock"]
           /\ aborted' = (aborted \/ Free(txQ))
           /\ serialQ' = IF f \in Op /\ Free(serialQ) THEN <<f>> ELSE serialQ
    <2>1. cursor = None /\ (f \in Op => operation = None)
        BY DEF Available, IInv, QueueInv
    <2>2. txQ' = Line'
        <3>1. CASE operation = None
            <4>1. txQ = <<>> /\ txQ' = <<f>>
                BY <1>2, <2>1, <3>1 DEF IInv, QueueInv, Line
            <4> QED BY <1>2, <2>1, <3>1, <4>1 DEF Line
        <3>2. CASE operation # None
            <4>1. txQ = <<operation>> /\ txQ' = <<operation, f>> /\ f \in Stream
                <5>1. Append(<<operation>>, f) = <<operation, f>>
                    BY AppendToOne
                <5> QED BY <1>2, <2>1, <3>2, <5>1 DEF IInv, QueueInv, Line
            <4> QED BY <1>2, <2>1, <3>2, <4>1 DEF Line
        <3> QED BY <3>1, <3>2
    <2>3. serialQ' \in Seq(Op) /\ (operation' # None => Holds(serialQ', operation'))
        BY <1>2, <2>1 DEF IInv, TypeOK, QueueInv
    <2>4. TypeOK'
        <3>1. txQ' \in Seq(Future)
            BY <1>2 DEF IInv, TypeOK
        <3> QED BY <1>2, <2>3, <3>1 DEF IInv, TypeOK, enterVars
    <2>5. QueueInv'
        BY <1>2, <2>1, <2>2, <2>3 DEF IInv, TypeOK, QueueInv, Line
    <2>6. PhaseInv' /\ DurableInv'
        BY <1>2 DEF IInv, PhaseInv, DurableInv, enterVars
    <2>7. CleanInv'
        BY <1>2, <2>1 DEF IInv, TypeOK, QueueInv, CleanInv, Running, Refusing, Line
    <2> QED BY <2>4, <2>5, <2>6, <2>7 DEF IInv
<1> QED BY <1>1, <1>2 DEF Install

(* The mutex is granted to a future in its slot, which sends its statement. *)
LEMMA SendKeeps ==
    ASSUME IInv, NEW f \in Future, InSlot(f), at[f] = "lock", Holds(txQ, f), ~Refusing,
           at' = [at EXCEPT ![f] = "stmt"], aborted' = TRUE,
           UNCHANGED <<slotVars, serialQ, txQ, work, acked, broken, enterVars, durable>>
    PROVE  IInv'
<1>1. operation # None => f = operation
    BY DEF IInv, TypeOK, QueueInv, Line
<1>2. TypeOK' /\ PhaseInv' /\ DurableInv'
    BY DEF IInv, TypeOK, PhaseInv, DurableInv, enterVars, slotVars
<1>3. QueueInv'
    BY <1>1 DEF IInv, TypeOK, QueueInv, slotVars, Line
<1>4. CleanInv'
    BY DEF IInv, TypeOK, CleanInv, Running, Refusing, slotVars
<1> QED BY <1>2, <1>3, <1>4 DEF IInv

(* The statement of the future at the head of the line completes.           *)
LEMMA CompleteKeeps ==
    ASSUME IInv, NEW f \in Future, InSlot(f), at[f] = "stmt", Complete(f), Close(f),
           UNCHANGED <<enterVars, durable>>
    PROVE  IInv'
<1>1. cursor = f => operation = None
    BY DEF IInv, TypeOK, QueueInv
<1>2. /\ at' = [at EXCEPT ![f] = "done"]
      /\ operation' = IF operation = f THEN None ELSE operation
      /\ cursor' = IF cursor = f THEN None ELSE cursor
    BY DEF Close
<1>3. txQ' = Line' /\ txQ' \in Seq(Future)
    <2>1. CASE cursor = None \/ operation = None
        <3>1. txQ = <<f>>
            BY <2>1 DEF IInv, TypeOK, QueueInv, Line
        <3> QED BY <3>1, <2>1, <1>2 DEF IInv, TypeOK, Line, Complete
    <2>2. CASE cursor # None /\ operation # None
        <3>1. txQ = <<f, cursor>> /\ f = operation
            BY <2>2, <1>1 DEF IInv, TypeOK, QueueInv, Line
        <3>2. txQ' = <<cursor>> /\ cursor \in Future
            BY <2>2, <3>1 DEF IInv, TypeOK, Complete
        <3> QED BY <3>1, <3>2, <2>2, <1>2 DEF IInv, TypeOK, Line
    <2> QED BY <2>1, <2>2
<1>4. serialQ' \in Seq(Op) /\ (operation' # None => Holds(serialQ', operation'))
    BY <1>2, CloseQueue DEF IInv
<1>5. broken = {} /\ work = acked /\ aborted = TRUE
    BY DEF IInv, TypeOK, CleanInv, Running
<1>6. ~Running'
    BY <1>2, <1>1 DEF IInv, TypeOK, QueueInv, Running
<1>7. TypeOK'
    BY <1>2, <1>3, <1>4 DEF IInv, TypeOK, Complete, enterVars
<1>8. QueueInv'
    BY <1>2, <1>3, <1>4 DEF IInv, TypeOK, QueueInv
<1>9. PhaseInv' /\ DurableInv'
    BY <1>2 DEF IInv, TypeOK, PhaseInv, DurableInv, enterVars
<1>10. CleanInv'
    <2>1. aborted' = FALSE => broken' = {} /\ work' = acked'
        BY <1>5 DEF Complete
    <2>2. aborted' \in BOOLEAN
        BY <1>7 DEF TypeOK
    <2> QED BY <1>6, <2>1, <2>2 DEF CleanInv
<1> QED BY <1>7, <1>8, <1>9, <1>10 DEF IInv

(* Every poll of a future that has started. *)
LEMMA PollKeeps ==
    ASSUME IInv, NEW f \in Future, NEW here \in BOOLEAN, Poll(f, here)
    PROVE  IInv'
<1>1. CASE End(f)
    BY <1>1, EndKeeps DEF Poll
<1>2. CASE ~End(f)
    BY <1>2, SendKeeps, CompleteKeeps DEF Poll
<1> QED BY <1>1, <1>2

LEMMA DropKeeps ==
    ASSUME IInv, NEW f \in Future, Drop(f)
    PROVE  IInv'
BY EndKeeps DEF Drop

(* The first poll of an operation inside the scope. *)
LEMMA StartOpKeeps ==
    ASSUME IInv, NEW o \in Op, StartOp(o)
    PROVE  IInv'
<1>1. ~InSlot(o)
    BY DEF IInv, QueueInv, StartOp
<1>2. CASE Close(o) /\ UNCHANGED <<aborted, txQ>>
    BY <1>1, <1>2, CloseKeeps DEF StartOp
<1>3. CASE /\ ~Free(serialQ)
           /\ at' = [at EXCEPT ![o] = "serial"]
           /\ serialQ' = Append(serialQ, o)
           /\ UNCHANGED <<aborted, txQ, slotVars>>
    <2>1. serialQ' \in Seq(Op) /\ serialQ' # <<>> /\ Head(serialQ') = Head(serialQ)
        BY <1>3, AppendProperties, HeadTailProperties DEF IInv, TypeOK
    <2>2. TypeOK' /\ PhaseInv' /\ DurableInv'
        BY <1>3, <2>1 DEF IInv, TypeOK, PhaseInv, DurableInv, StartOp, slotVars, enterVars
    <2>3. QueueInv'
        BY <1>1, <1>3, <2>1 DEF IInv, TypeOK, QueueInv, Line, slotVars
    <2>4. CleanInv'
        BY <1>1, <1>3 DEF IInv, TypeOK, CleanInv, Running, StartOp, slotVars
    <2> QED BY <2>2, <2>3, <2>4 DEF IInv
<1>4. CASE Available /\ Free(serialQ) /\ Install(o)
    BY <1>1, <1>4, InstallKeeps DEF StartOp
<1> QED BY <1>2, <1>3, <1>4 DEF StartOp

(* An operation that has the serial lock looks again before it registers.   *)
LEMMA GrantOpKeeps ==
    ASSUME IInv, NEW o \in Op, NEW here \in BOOLEAN, GrantOp(o, here)
    PROVE  IInv'
<1>1. ~InSlot(o)
    BY DEF IInv, QueueInv, GrantOp
<1>2. CASE Close(o) /\ UNCHANGED <<aborted, txQ>>
    BY <1>1, <1>2, CloseKeeps DEF GrantOp
<1>3. CASE Available /\ here /\ Install(o)
    BY <1>1, <1>3, InstallKeeps DEF GrantOp, Here
<1> QED BY <1>2, <1>3 DEF GrantOp

(* The first poll of a stream inside the scope. *)
LEMMA StartStreamKeeps ==
    ASSUME IInv, NEW s \in Stream, StartStream(s)
    PROVE  IInv'
<1>1. ~InSlot(s)
    BY DEF IInv, QueueInv, StartStream
<1> QED BY <1>1, CloseKeeps, InstallKeeps DEF StartStream

(* Futures polled outside every scope touch nothing of this one. *)
LEMMA OutsideKeeps ==
    ASSUME IInv, NEW f \in Future, StartOutside(f) \/ (f \in Stream /\ EndPooled(f))
    PROVE  IInv'
<1>1. ~InSlot(f)
    BY DEF IInv, QueueInv, StartOutside, EndPooled
<1>2. CASE StartOutside(f)
    BY <1>1, <1>2 DEF StartOutside, IInv, TypeOK, QueueInv, Line, PhaseInv, CleanInv, Running, DurableInv,
        enterVars, slotVars
<1>3. CASE EndPooled(f)
    BY <1>1, <1>3, CloseKeeps DEF EndPooled
<1> QED BY <1>2, <1>3

-----------------------------------------------------------------------------
(* The steps of ScopedDatabase::enter.                                      *)

(* Emptying the slots frees the transaction's mutex, whoever still holds    *)
(* the futures, and a statement in them leaves the transaction              *)
(* rollback-only.                                                           *)
LEMMA EmptyFrees ==
    ASSUME IInv, Empty
    PROVE  /\ txQ' = <<>> /\ operation' = None /\ cursor' = None
           /\ UNCHANGED <<aborted, serialQ, at, acked>>
           /\ work' \in SUBSET Future /\ broken' \in SUBSET Future
           /\ ~aborted => UNCHANGED <<work, broken>>
           /\ operation = None /\ cursor = None => UNCHANGED <<work, broken>>
<1> DEFINE F == {operation, cursor} \ {None}
<1>1. /\ operation' = None /\ cursor' = None
      /\ UNCHANGED <<aborted, serialQ, at, acked>>
      /\ Discard(F)
    BY DEF Empty
<1>2. txQ' = <<>>
    BY <1>1, RemoveOnly, RemoveFromPair DEF IInv, TypeOK, QueueInv, Line, Discard
<1>3. {f \in F : at[f] = "stmt"} \subseteq Future
    BY DEF IInv, TypeOK
<1>4. ~aborted \/ (operation = None /\ cursor = None) => {f \in F : at[f] = "stmt"} = {}
    BY <1>3 DEF IInv, CleanInv, Running
<1> HIDE DEF F
<1>5. /\ work' \in SUBSET Future /\ broken' \in SUBSET Future
      /\ ~aborted \/ (operation = None /\ cursor = None) => UNCHANGED <<work, broken>>
    BY <1>1, <1>3, <1>4 DEF IInv, TypeOK, Discard
<1> QED BY <1>1, <1>2, <1>5

(* The body returns. *)
LEMMA BodyReturnKeeps ==
    ASSUME IInv, NEW result \in {"ok", "err"}, BodyReturn(result)
    PROVE  IInv'
<1>1. Empty
    BY DEF BodyReturn
<1>2. TypeOK' /\ QueueInv'
    <2>1. TypeOK'
        <3>1. phase' = "closing" /\ outcome' = "none" /\ closed' = TRUE /\ tx' = tx /\ durable' = durable
            BY DEF BodyReturn, IInv, TypeOK
        <3>2. verdict' \in {"none", "ok", "err", "stream"}
            BY DEF BodyReturn
        <3>3. /\ txQ' = <<>> /\ operation' = None /\ cursor' = None
              /\ UNCHANGED <<aborted, serialQ, at, acked>>
              /\ work' \in SUBSET Future /\ broken' \in SUBSET Future
            BY <1>1, EmptyFrees
        <3>4. txQ' \in Seq(Future)
            BY <3>3
        <3> QED BY <3>1, <3>2, <3>3, <3>4 DEF IInv, TypeOK, Outcome
    <2>2. QueueInv'
        BY <1>1, EmptyFrees DEF QueueInv, Line
    <2> QED BY <2>1, <2>2
<1>3. PhaseInv'
    BY <1>1, EmptyFrees DEF BodyReturn, IInv, PhaseInv
<1>4. CleanInv'
    <2>1. ~Running'
        BY <1>1, EmptyFrees DEF Running
    <2> QED BY <1>1, <2>1, EmptyFrees DEF IInv, CleanInv
<1>5. DurableInv'
    BY DEF BodyReturn, IInv, TypeOK, DurableInv
<1> QED BY <1>2, <1>3, <1>4, <1>5 DEF IInv

(* The steps that leave the futures alone. *)
LEMMA EnterKeeps ==
    ASSUME IInv, Enter \/ EnterStep
    PROVE  IInv'
<1> USE DEF IInv, TypeOK, QueueInv, Line, PhaseInv, CleanInv, Running, DurableInv, Outcome, Answer,
        futureVars, slotVars
<1>1. CASE Enter
    BY <1>1 DEF Enter
<1>2. CASE Begun
    <2>1. CASE phase' = "done"
        BY <1>2, <2>1 DEF Begun
    <2>2. CASE phase' = "lock"
        BY <1>2, <2>2 DEF Begun
    <2>3. CASE phase' = "body"
        BY <1>2, <2>3 DEF Begun
    <2> QED BY <1>2, <2>1, <2>2, <2>3 DEF Begun
<1>3. CASE Locked
    <2>1. CASE phase' = "body"
        BY <1>3, <2>1 DEF Locked
    <2>2. CASE phase' = "rollback"
        BY <1>3, <2>2 DEF Locked
    <2> QED BY <1>3, <2>1, <2>2 DEF Locked
<1>4. CASE TakeTransaction
    BY <1>4 DEF TakeTransaction
<1>5. CASE Committed
    BY <1>5 DEF Committed
<1>6. CASE RolledBack
    BY <1>6 DEF RolledBack
<1> QED BY <1>1, <1>2, <1>3, <1>4, <1>5, <1>6 DEF EnterStep

(* write is dropped: the slots are empty, so that ScopeOwner::drop gets the *)
(* transaction.                                                             *)
LEMMA CancelKeeps ==
    ASSUME IInv, Cancel
    PROVE  IInv'
<1>1. Empty
    BY DEF Cancel
<1>2. TypeOK' /\ QueueInv'
    <2>1. TypeOK'
        <3>1. phase' = "done" /\ outcome' \in {"unknown", "dropped"} /\ closed' \in BOOLEAN /\ verdict' = verdict
            BY DEF Cancel, Answer
        <3>2. tx' \in {"absent", "held", "taken"} /\ durable' \in SUBSET Future
            BY DEF Cancel, IInv, TypeOK
        <3>3. /\ txQ' = <<>> /\ operation' = None /\ cursor' = None
              /\ UNCHANGED <<aborted, serialQ, at, acked>>
              /\ work' \in SUBSET Future /\ broken' \in SUBSET Future
            BY <1>1, EmptyFrees
        <3>4. txQ' \in Seq(Future)
            BY <3>3
        <3> QED BY <3>1, <3>2, <3>3, <3>4 DEF IInv, TypeOK, Outcome
    <2>2. QueueInv'
        BY <1>1, EmptyFrees DEF QueueInv, Line
    <2> QED BY <2>1, <2>2
<1>3. PhaseInv'
    BY <1>1, EmptyFrees DEF Cancel, Answer, IInv, TypeOK, PhaseInv
<1>4. CleanInv'
    <2>1. ~Running'
        BY <1>1, EmptyFrees DEF Running
    <2> QED BY <1>1, <2>1, EmptyFrees DEF IInv, CleanInv
<1>5. DurableInv'
    BY <1>1, EmptyFrees DEF Cancel, Answer, IInv, TypeOK, PhaseInv, CleanInv, DurableInv
<1> QED BY <1>2, <1>3, <1>4, <1>5 DEF IInv

-----------------------------------------------------------------------------
(* The theorems.                                                            *)

LEMMA InitInv == Init => IInv
<1> SUFFICES ASSUME Init
             PROVE  IInv
    OBVIOUS
<1>1. <<>> \in Seq(Future) /\ <<>> \in Seq(Op)
    OBVIOUS
<1>2. TypeOK
    BY <1>1 DEF Init, TypeOK, Outcome
<1>3. QueueInv /\ PhaseInv /\ DurableInv
    BY DEF Init, QueueInv, Line, PhaseInv, DurableInv
<1>4. CleanInv
    BY DEF Init, CleanInv, Running
<1> QED BY <1>2, <1>3, <1>4 DEF IInv

LEMMA NextKeeps == IInv /\ [Next]_vars => IInv'
<1> SUFFICES ASSUME IInv, [Next]_vars
             PROVE  IInv'
    OBVIOUS
<1>1. CASE Enter \/ EnterStep
    BY <1>1, EnterKeeps
<1>2. CASE Cancel
    BY <1>2, CancelKeeps
<1>3. CASE \E result \in {"ok", "err"} : BodyReturn(result)
    BY <1>3, BodyReturnKeeps
<1>4. CASE \E o \in Op : StartOp(o) \/ \E here \in BOOLEAN : GrantOp(o, here)
    BY <1>4, StartOpKeeps, GrantOpKeeps
<1>5. CASE \E s \in Stream : StartStream(s) \/ EndPooled(s)
    BY <1>5, StartStreamKeeps, OutsideKeeps
<1>6. CASE \E f \in Future : StartOutside(f) \/ Drop(f) \/ \E here \in BOOLEAN : Poll(f, here)
    BY <1>6, OutsideKeeps, DropKeeps, PollKeeps
<1>7. CASE UNCHANGED vars
    BY <1>7 DEF vars, enterVars, slotVars, IInv, TypeOK, QueueInv, Line, PhaseInv, CleanInv, Running, DurableInv
<1> QED BY <1>1, <1>2, <1>3, <1>4, <1>5, <1>6, <1>7 DEF Next

(* The inductive invariant holds of every scope: the slots account for the  *)
(* transaction's mutex, the rollback-only flag for what was abandoned.      *)
THEOREM ScopeInv == Spec => []IInv
<1>1. Init => IInv
    BY InitInv
<1>2. IInv /\ [Next]_vars => IInv'
    BY NextKeeps
<1> QED BY <1>1, <1>2, PTL DEF Spec

(* What write reports is true of everything the body did, for any number of *)
(* operations and streams.                                                  *)
THEOREM WriteIsHonest == Spec => []HonestWrite
<1>1. IInv => HonestWrite
    BY DEF IInv, DurableInv, HonestWrite
<1> QED BY <1>1, ScopeInv, PTL

(* A commit contains no abandoned or failed statement and happens only when *)
(* the body returned Ok with no stream active.                              *)
THEOREM CommitIsClean == Spec => []CommitOnlyClean
<1>1. IInv => CommitOnlyClean
    BY DEF IInv, DurableInv, CommitOnlyClean
<1> QED BY <1>1, ScopeInv, PTL

(* The slots own the two locks. *)
THEOREM SlotsAreOwners == Spec => []SlotsOwnTheLocks
<1>1. ASSUME IInv
      PROVE  SlotsOwnTheLocks
    <2>1. ToSet(txQ) \subseteq {operation, cursor}
        BY <1>1 DEF IInv, QueueInv, Line, ToSet
    <2>2. operation # None => Holds(serialQ, operation) /\ at[operation] \in {"lock", "stmt"}
        BY <1>1 DEF IInv, TypeOK, QueueInv
    <2> QED BY <2>1, <2>2 DEF SlotsOwnTheLocks
<1> QED BY <1>1, ScopeInv, PTL

(* Whatever futures the body left elsewhere, write ends without a statement *)
(* under way and without a transaction that nobody will end.                *)
THEOREM WriteLeavesNothing == Spec => []NothingLeftBehind
<1>1. IInv => NothingLeftBehind
    BY DEF IInv, TypeOK, QueueInv, Line, PhaseInv, NothingLeftBehind
<1> QED BY <1>1, ScopeInv, PTL

(* No operation queues behind a stream. *)
THEOREM StreamsComeLast == Spec => []NoWaitBehindStream
<1>1. ASSUME IInv
      PROVE  NoWaitBehindStream
    <2>1. CASE operation = None \/ cursor = None
        <3>1. Len(txQ) = 0 \/ Len(txQ) = 1
            BY <1>1, <2>1 DEF IInv, QueueInv, Line
        <3>2. ASSUME NEW i \in 1..Len(txQ), NEW j \in 1..Len(txQ)
              PROVE  ~(i < j)
            <4>1. CASE Len(txQ) = 0
                BY <4>1
            <4>2. CASE Len(txQ) = 1
                BY <4>2
            <4> QED BY <3>1, <4>1, <4>2
        <3> QED BY <3>2 DEF NoWaitBehindStream
    <2>2. CASE operation # None /\ cursor # None
        <3>1. Len(txQ) = 2 /\ txQ[1] \in Op
            BY <1>1, <2>2 DEF IInv, TypeOK, QueueInv, Line
        <3> QED BY <3>1 DEF NoWaitBehindStream
    <2> QED BY <2>1, <2>2
<1> QED BY <1>1, ScopeInv, PTL

=============================================================================
