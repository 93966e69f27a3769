--------------------------- MODULE MigrateProofs ---------------------------
(* Proofs about Migrate for any runs, migrators and initial ledgers. *)
EXTENDS Migrate, FunctionTheorems, FiniteSetTheorems, SequenceTheorems, WellFoundedInduction, TLAPS

-----------------------------------------------------------------------------
(* Numbers, sequences and listings.                                         *)

(* A set of numbers that is not empty has a least one. *)
LEMMA LeastNumber ==
    ASSUME NEW I \in SUBSET Nat, I # {}
    PROVE  Min(I) \in I /\ \A y \in I : Min(I) <= y
<1>1. PICK x \in I : \A y \in I : ~(<<y, x>> \in OpToRel(<, Nat))
    BY NatLessThanWellFounded, WFMin
<1>2. ASSUME NEW y \in I
      PROVE  x <= y
    <2>1. <<y, x>> \in Nat \X Nat
        OBVIOUS
    <2>2. ~(<<y, x>>[1] < <<y, x>>[2])
        BY <1>1, <2>1 DEF OpToRel
    <2> QED BY <2>2
<1> QED BY <1>2 DEF Min

LEMMA SumWithin ==
    ASSUME NEW a \in Nat, NEW b \in Nat, NEW c \in Nat, a + b <= c
    PROVE  a + b \in 0..c
OBVIOUS

(* A prefix, position by position. *)
LEMMA PrefixIs ==
    ASSUME NEW S, NEW s \in Seq(S), NEW t \in Seq(S)
    PROVE  IsPrefix(s, t) <=> Len(s) <= Len(t) /\ \A i \in 1..Len(s) : s[i] = t[i]
<1>1. Len(s) \in Nat /\ Len(t) \in Nat /\ SubSeq(s, 1, Len(s)) = s
    BY LenProperties, SubSeqFull
<1>2. ASSUME Len(s) <= Len(t)
      PROVE  /\ SubSeq(t, 1, Len(s)) \in Seq(S) /\ Len(SubSeq(t, 1, Len(s))) = Len(s)
             /\ \A i \in 1..Len(s) : SubSeq(t, 1, Len(s))[i] = t[i]
    BY <1>1, <1>2, SubSeqProperties
<1>3. ASSUME Len(s) <= Len(t), \A i \in 1..Len(s) : s[i] = t[i]
      PROVE  s = SubSeq(t, 1, Len(s))
    BY <1>1, <1>2, <1>3, SeqEqual
<1> QED BY <1>1, <1>2, <1>3 DEF IsPrefix

(* What is left of a sequence without its first elements. *)
LEMMA SuffixIs ==
    ASSUME NEW S, NEW s \in Seq(S), NEW k \in Nat
    PROVE  LET rest == SubSeq(s, k + 1, Len(s))
           IN  /\ rest \in Seq(S) /\ Len(rest) \in Nat
               /\ Len(s) > k => Len(rest) = Len(s) - k
               /\ Len(s) <= k => Len(rest) = 0
               /\ \A i \in 1..Len(rest) : rest[i] = s[k + i]
<1> DEFINE rest == SubSeq(s, k + 1, Len(s))
<1>1. Len(s) \in Nat
    BY LenProperties
<1>2. CASE Len(s) > k
    <2>1. /\ rest \in Seq(S) /\ Len(rest) = Len(s) - k
          /\ \A i \in 1..(Len(s) - k) : rest[i] = s[(k + 1) + i - 1]
        BY <1>1, <1>2, SubSeqProperties
    <2>2. \A i \in 1..(Len(s) - k) : (k + 1) + i - 1 = k + i
        BY <1>1
    <2> HIDE DEF rest
    <2>3. Len(s) - k \in Nat /\ ~(Len(s) <= k)
        BY <1>1, <1>2
    <2>4. \A i \in 1..Len(rest) : rest[i] = s[k + i]
        BY <2>1, <2>2
    <2>5. rest \in Seq(S) /\ Len(rest) \in Nat /\ Len(rest) = Len(s) - k
        BY <2>1, <2>3
    <2> QED BY <2>3, <2>4, <2>5 DEF rest
<1>3. CASE ~(Len(s) > k)
    BY <1>1, <1>3, SubSeqProperties, SubSeqEmpty
<1> QED BY <1>2, <1>3

(* The parts of a listing. *)
LEMMA RowsTyped ==
    ASSUME NEW s \in Seq(LedgerRow)
    PROVE  /\ Len(s) \in Nat /\ DOMAIN s = 1..Len(s)
           /\ \A i \in 1..Len(s) : s[i] \in LedgerRow /\ s[i].version \in Int
<1>1. Len(s) \in Nat /\ DOMAIN s = 1..Len(s) /\ \A i \in 1..Len(s) : s[i] \in LedgerRow
    BY LenProperties, ElementOfSeq
<1>2. \A row \in LedgerRow : row.version \in Int
    BY DEF LedgerRow
<1> QED BY <1>1, <1>2

LEMMA ListTyped ==
    ASSUME NEW s \in Seq(Migration)
    PROVE  /\ Len(s) \in Nat /\ DOMAIN s = 1..Len(s)
           /\ \A i \in 1..Len(s) : s[i] \in Migration /\ s[i].version \in Int
<1>1. Len(s) \in Nat /\ DOMAIN s = 1..Len(s) /\ \A i \in 1..Len(s) : s[i] \in Migration
    BY LenProperties, ElementOfSeq
<1>2. \A row \in Migration : row.version \in Int
    BY DEF Migration
<1> QED BY <1>1, <1>2

(* try_new compares neighbours only; by transitivity that orders the list. *)
LEMMA OrderedAscends ==
    ASSUME NEW list \in Seq(Migration), Ordered(list)
    PROVE  Ascending(list)
<1> DEFINE Bad(d) == d > 0 /\ \E i \in 1..Len(list) :
                        i + d \in 1..Len(list) /\ ~(list[i].version < list[i + d].version)
           D == {d \in Nat : Bad(d)}
<1>1. Len(list) \in Nat /\ DOMAIN list = 1..Len(list) /\ \A i \in 1..Len(list) : list[i].version \in Int
    BY ListTyped
<1>2. D = {}
    <2> SUFFICES ASSUME D # {}
                 PROVE  FALSE
        OBVIOUS
    <2>1. Min(D) \in D /\ \A y \in D : Min(D) <= y
        BY LeastNumber
    <2> DEFINE d == Min(D)
    <2> HIDE DEF d
    <2>2. d \in Nat /\ d > 0 /\ (d - 1 \in Nat => ~Bad(d - 1))
        <3>1. d \in D /\ \A y \in D : d <= y
            BY <2>1 DEF d
        <3>2. d \in Nat /\ d > 0
            BY <3>1
        <3>3. d - 1 \notin D
            <4> HIDE DEF D
            <4> QED BY <3>1, <3>2
        <3> QED BY <3>2, <3>3
    <2>3. PICK i \in 1..Len(list) : i + d \in 1..Len(list) /\ ~(list[i].version < list[i + d].version)
        BY <2>1 DEF d
    <2>4. i + d - 1 \in 1..(Len(list) - 1) /\ (i + d - 1) + 1 = i + d
        BY <1>1, <2>2, <2>3
    <2>5. list[i + d - 1].version < list[i + d].version
        BY <2>4 DEF Ordered
    <2>6. CASE d = 1
        BY <2>3, <2>5, <2>6, <1>1
    <2>7. CASE d > 1
        <3>1. i + (d - 1) = i + d - 1 /\ i + d - 1 \in 1..Len(list)
            BY <1>1, <2>2, <2>4
        <3>2. list[i].version < list[i + d - 1].version
            BY <2>2, <2>7, <3>1
        <3> QED BY <1>1, <2>3, <2>5, <3>1, <3>2
    <2> QED BY <2>2, <2>6, <2>7
<1>3. ASSUME NEW i \in 1..Len(list), NEW j \in 1..Len(list), i < j
      PROVE  list[i].version < list[j].version
    <2>1. j - i \in Nat /\ j - i > 0 /\ i + (j - i) = j
        BY <1>3
    <2>2. ~Bad(j - i)
        BY <1>2, <2>1
    <2> QED BY <2>1, <2>2
<1> QED BY <1>1, <1>3 DEF Ascending

(* Two listings of the same rows are the same. *)
LEMMA ListingUnique ==
    ASSUME NEW s \in Seq(LedgerRow), NEW t \in Seq(LedgerRow), Ascending(s), Ascending(t),
           Len(s) = Len(t), ToSet(s) = ToSet(t)
    PROVE  s = t
<1> DEFINE B == {k \in 1..Len(s) : s[k] # t[k]}
<1>1. /\ Len(s) \in Nat /\ DOMAIN s = 1..Len(s) /\ DOMAIN t = 1..Len(s)
      /\ \A i \in 1..Len(s) : s[i].version \in Int /\ t[i].version \in Int
    BY RowsTyped
<1>2. B = {}
    <2> SUFFICES ASSUME B # {}
                 PROVE  FALSE
        OBVIOUS
    <2> DEFINE k == Min(B)
    <2>1. k \in B /\ \A y \in B : k <= y
        <3>1. B \in SUBSET Nat
            BY <1>1
        <3> QED BY <3>1, LeastNumber
    <2> HIDE DEF k
    <2>2. k \in 1..Len(s) /\ s[k] # t[k] /\ \A i \in 1..Len(s) : i < k => s[i] = t[i]
        BY <1>1, <2>1
    <2>3. PICK j \in 1..Len(s) : t[j] = s[k]
        BY <1>1, <2>2 DEF ToSet
    <2>4. PICK l \in 1..Len(s) : s[l] = t[k]
        BY <1>1, <2>2 DEF ToSet
    <2>5. j > k
        <3>1. j < k => s[j] = s[k] /\ s[j].version < s[k].version
            BY <1>1, <2>2, <2>3 DEF Ascending
        <3>2. j < k => FALSE
            BY <1>1, <2>2, <3>1
        <3> QED BY <1>1, <2>2, <2>3, <3>2
    <2>6. l > k
        <3>1. l < k => t[l] = t[k] /\ t[l].version < t[k].version
            BY <1>1, <2>2, <2>4 DEF Ascending
        <3>2. l < k => FALSE
            BY <1>1, <2>2, <3>1
        <3> QED BY <1>1, <2>2, <2>4, <3>2
    <2>7. t[k].version < s[k].version
        BY <1>1, <2>2, <2>3, <2>5 DEF Ascending
    <2>8. s[k].version < t[k].version
        BY <1>1, <2>2, <2>4, <2>6 DEF Ascending
    <2> QED BY <1>1, <2>2, <2>7, <2>8
<1> QED BY <1>1, <1>2, SeqEqual

(* ORDER BY version: the listing of the rows of an ascending sequence. *)
LEMMA ListingIs ==
    ASSUME NEW s \in Seq(LedgerRow), Ascending(s)
    PROVE  ByVersion(ToSet(s)) = s
<1> DEFINE S == ToSet(s)
           Lists == [1..Cardinality(S) -> S]
<1>1. /\ Len(s) \in Nat /\ DOMAIN s = 1..Len(s) /\ s \in [1..Len(s) -> S]
      /\ \A i \in 1..Len(s) : s[i].version \in Int
    BY RowsTyped DEF ToSet
<1>2. s \in Bijection(1..Len(s), S)
    <2>1. \A i, j \in 1..Len(s) : s[i] = s[j] => i = j
        BY <1>1 DEF Ascending
    <2>2. s \in Injection(1..Len(s), S)
        BY <1>1, <2>1, Fun_IsInj
    <2>3. s \in Surjection(1..Len(s), S)
        BY <1>1, Fun_IsSurj DEF ToSet
    <2> QED BY <2>2, <2>3 DEF Bijection
<1>3. Cardinality(S) = Len(s)
    BY <1>1, <1>2, FS_CountingElements DEF ExistsBijection
<1>4. s \in Lists
    BY <1>1, <1>3
<1> DEFINE t == CHOOSE list \in Lists : Ascending(list)
<1>5. t \in Lists /\ Ascending(t)
    BY <1>4
<1> HIDE DEF t
<1>6. S \subseteq LedgerRow
    BY <1>1, ElementOfSeq DEF ToSet
<1>7. t \in [1..Len(s) -> S] /\ DOMAIN t = 1..Len(s)
    BY <1>3, <1>5
<1>8. t \in Seq(LedgerRow) /\ Len(t) = Len(s)
    BY <1>1, <1>6, <1>7, IsASeq, LenProperties
<1>9. ToSet(t) = S
    <2>1. \A i, j \in 1..Len(s) : t[i] = t[j] => i = j
        <3>1. \A i \in 1..Len(s) : t[i].version \in Int
            BY <1>6, <1>7 DEF LedgerRow
        <3> QED BY <1>1, <1>5, <1>7, <3>1 DEF Ascending
    <2>2. IsFiniteSet(S)
        BY <1>1, <1>2, FS_NatSurjection DEF Bijection, ExistsSurjection
    <2>3. t \in Injection(1..Len(s), S)
        BY <1>7, <2>1, Fun_IsInj
    <2>4. Cardinality(1..Len(s)) = Cardinality(S)
        <3>1. Cardinality(1..Len(s)) = Len(s)
            BY <1>1, FS_Interval
        <3> QED BY <1>3, <3>1
    <2>5. t \in Surjection(1..Len(s), S)
        BY <2>2, <2>3, <2>4, FS_Injection
    <2>6. \A x \in S : \E i \in 1..Len(s) : t[i] = x
        BY <2>5, Fun_SurjectionProperties
    <2> HIDE DEF S
    <2> QED BY <1>7, <2>6 DEF ToSet
<1> QED BY <1>5, <1>8, <1>9, ListingUnique DEF t, ByVersion

-----------------------------------------------------------------------------
(* validate, and the pending batch.                                         *)

(* A ledger without a fault agrees with the list, row by row. *)
LEMMA FaultNone ==
    ASSUME NEW m \in Migrators, NEW list \in Seq(LedgerRow), Fault(m, list) = "none"
    PROVE  Follows(m, list)
<1> DEFINE faulty == {i \in DOMAIN list : RowFault(m, list, i) # "none"}
<1>1. /\ Len(list) \in Nat /\ DOMAIN list = 1..Len(list) /\ Len(m.list) \in Nat
      /\ DOMAIN m.list = 1..Len(m.list)
      /\ \A i \in 1..Len(list) : list[i] \in LedgerRow
      /\ \A i \in 1..Len(m.list) : m.list[i] \in Migration
    BY RowsTyped, ListTyped, MigratorAssumption
<1>2. faulty = {}
    <2>1. faulty \in SUBSET Nat
        BY <1>1
    <2>2. faulty # {} => Min(faulty) \in faulty
        BY <2>1, LeastNumber
    <2> QED BY <2>2 DEF Fault
<1>3. ASSUME NEW i \in 1..Len(list)
      PROVE  i <= Len(m.list) /\ Script(list[i]) = m.list[i]
    <2>1. RowFault(m, list, i) = "none"
        BY <1>1, <1>2
    <2>2. i <= Len(m.list)
        <3> SUFFICES ASSUME i > Len(m.list)
                     PROVE  RowFault(m, list, i) = "unknown_version"
            BY <1>1, <2>1
        <3>1. ~(i <= Len(m.list))
            BY <1>1
        <3> QED BY <3>1 DEF RowFault
    <2>3. list[i].version = m.list[i].version
        BY <1>1, <2>1, <2>2 DEF RowFault
    <2>4. list[i].definition = m.list[i].definition
        BY <1>1, <2>1, <2>2, <2>3 DEF RowFault
    <2> QED BY <1>1, <2>2, <2>3, <2>4 DEF Script, Migration
<1> QED BY <1>1, <1>3 DEF Follows

(* The faults of validate are refusals of their own. *)
LEMMA FaultKinds ==
    ASSUME NEW m \in Migrators, NEW list
    PROVE  Fault(m, list) \in Refusal \cup {"none"} /\ Fault(m, list) # "collision"
<1>1. \A i : RowFault(m, list, i) \in
        {"none", "unknown_version", "version_mismatch", "definition_mismatch", "applied_at"}
    BY DEF RowFault
<1> QED BY <1>1 DEF Fault, Refusal

(* The pending batch continues the list up to the last version within the   *)
(* target.                                                                  *)
LEMMA PendingIs ==
    ASSUME NEW m \in Migrators, Ordered(m.list), NEW count \in 0..Len(m.list)
    PROVE  /\ Pending(m, count) \in Seq(Migration)
           /\ Len(Pending(m, count)) \in Nat /\ count + Len(Pending(m, count)) <= Len(m.list)
           /\ \A i \in 1..Len(Pending(m, count)) : Pending(m, count)[i] = m.list[count + i]
           /\ \A i \in DOMAIN m.list :
                m.list[i].version <= m.target => i <= count + Len(Pending(m, count))
<1> DEFINE beyond == {i \in (count + 1)..Len(m.list) : m.list[i].version > m.target}
           I == beyond \cup {Len(m.list) + 1}
           k == Min(I)
<1>1. /\ m.list \in Seq(Migration) /\ Len(m.list) \in Nat /\ DOMAIN m.list = 1..Len(m.list) /\ m.target \in Int
      /\ \A i \in 1..Len(m.list) : m.list[i].version \in Int
    BY ListTyped, MigratorAssumption
<1>2. I \in SUBSET Nat
    BY <1>1
<1>3. k \in I /\ \A y \in I : k <= y
    BY <1>2, LeastNumber
<1> HIDE DEF k
<1>4. k \in (count + 1)..(Len(m.list) + 1)
    BY <1>1, <1>3
<1>5. Pending(m, count) = SubSeq(m.list, count + 1, k - 1)
    BY DEF Pending, k
<1>6. /\ Pending(m, count) \in Seq(Migration) /\ Len(Pending(m, count)) = k - 1 - count
      /\ \A i \in 1..(k - 1 - count) : Pending(m, count)[i] = m.list[count + i]
    BY <1>1, <1>4, <1>5, SubSeqProperties
<1>7. ASSUME NEW i \in DOMAIN m.list, m.list[i].version <= m.target
      PROVE  i <= k - 1
    <2> SUFFICES ASSUME i >= k
                 PROVE  FALSE
        BY <1>1, <1>4
    <2>1. k \in 1..Len(m.list) /\ m.list[k].version > m.target
        BY <1>1, <1>3, <1>4
    <2>2. m.list[k].version <= m.list[i].version
        BY <1>1, <2>1, OrderedAscends DEF Ascending
    <2> QED BY <1>1, <1>7, <2>1, <2>2
<1> QED BY <1>1, <1>4, <1>6, <1>7

-----------------------------------------------------------------------------
(* The steps that leave the ledger as it is.                                *)

(* What the committed state says does not depend on where the runs are. *)
LEMMA StoreStays ==
    ASSUME UNCHANGED <<config, store>>
    PROVE  /\ LedgerInv => LedgerInv'
           /\ LedgerTellsHistory => LedgerTellsHistory'
           /\ \A m \in Migrators : Migrated(m) => Migrated(m)'
           /\ authors' = authors
BY DEF LedgerInv, LedgerTellsHistory, Migrated, Now, Old, config, store

(* Works, as a relation of the values it speaks of. *)
AtWork(m, list, source, effects, place, s, ins, e) ==
    LET wrote == s \o Recorded(e)
    IN  /\ place = "adopt" => s = list /\ Follows(m, s)
        /\ place = "copy" =>
             /\ list \o ins = s /\ Follows(m, s) /\ Follows(m, source)
             /\ \A i \in 1..Len(s) : i <= Len(source) => s[i] = source[i]
             /\ Len(list) = Len(s) \/ Len(s) <= Len(source)
        /\ place \in {"script", "record", "commit", "adrift"} =>
             /\ IsPrefix(list, s) /\ Scripts(s) = effects
             /\ Len(s) + Len(e) <= Len(m.list) /\ Follows(m, wrote)
             /\ list \o ins = IF place = "record" THEN Front(wrote) ELSE wrote
        /\ place = "record" => e # <<>>
        /\ place \in {"commit", "adrift"} =>
             \A i \in DOMAIN m.list : m.list[i].version <= m.target => i <= Len(s) + Len(e)

LEMMA WorksIs ==
    ASSUME NEW r \in Run, NEW m, NEW list, NEW source, NEW effects, migrator'[r] = m,
           ByVersion(ledger'[m.namespace]) = list, Source(r)' = source, history'[m.namespace] = effects,
           AtWork(m, list, source, effects, at'[r], rows'[r], inserted'[r], executed'[r])
    PROVE  Works(r)'
BY DEF Works, AtWork

LEMMA WorksStays ==
    ASSUME NEW q \in Run, Works(q), UNCHANGED <<config, store>>, at'[q] = at[q], rows'[q] = rows[q],
           inserted'[q] = inserted[q], executed'[q] = executed[q]
    PROVE  Works(q)'
BY DEF Works, Source, config, store

(* A run that moves to a place where nothing is claimed of its rows, or     *)
(* whose COMMIT is under way already.                                       *)
LEMMA QuietKeeps ==
    ASSUME IInv, NEW r \in Run, NEW p \in Place \ {"adopt", "copy", "script", "record", "commit"},
           UNCHANGED <<config, store, rows>>, at' = [at EXCEPT ![r] = p],
           \A q \in Run \ {r} : inserted'[q] = inserted[q] /\ executed'[q] = executed[q],
           p = "adrift" => at[r] = "commit" /\ UNCHANGED <<inserted, executed>>
    PROVE  LedgerInv' /\ LedgerTellsHistory' /\ WorkInv'
<1>1. LedgerInv' /\ LedgerTellsHistory'
    BY StoreStays DEF IInv
<1>2. ASSUME NEW q \in Run
      PROVE  Ordered(migrator[q].list)' /\ Works(q)'
    <2>1. Ordered(migrator[q].list)'
        BY DEF IInv, WorkInv, config
    <2>2. CASE q # r
        <3>1. at'[q] = at[q] /\ rows'[q] = rows[q] /\ inserted'[q] = inserted[q] /\ executed'[q] = executed[q]
            BY <2>2 DEF IInv, TypeOK
        <3> QED BY <2>1, <3>1, WorksStays DEF IInv, WorkInv
    <2>3. CASE q = r /\ p # "adrift"
        <3>1. at'[r] = p
            BY DEF IInv, TypeOK
        <3> QED BY <2>1, <2>3, <3>1 DEF Works
    <2>4. CASE q = r /\ p = "adrift"
        <3>1. at'[r] = "adrift" /\ at[r] = "commit" /\ Works(r)
            BY <2>4 DEF IInv, TypeOK, WorkInv
        <3> QED BY <2>1, <2>4, <3>1 DEF Works, config, store
    <2> QED BY <2>2, <2>3, <2>4
<1> QED BY <1>1, <1>2 DEF WorkInv

(* The keys are keys. *)
LEMMA KeyTyped ==
    /\ LedgerKey \in Key /\ WriterKey \in Key
    /\ \A n \in Namespace : AdvisoryKey("namespace", n) \in Key
BY Zenon DEF Key

USE DEF Goto, Tell, Place, Result

(* A refusal is a result of a run that is to be rolled back. *)
LEMMA RefusedTyped ==
    ASSUME IInv, NEW r \in Run, NEW what \in Refusal,
           at' = [at EXCEPT ![r] = "abort"], result' = [result EXCEPT ![r] = what]
    PROVE  /\ at' \in [Run -> Place] /\ result' \in [Run -> Result]
           /\ \A q \in Run : result'[q] # "none" <=> at'[q] \in {"abort", "orphan", "adrift", "end"}
<1>1. what # "none" /\ what \in Result
    BY DEF Refusal
<1> QED BY <1>1 DEF IInv, TypeOK

(* SQLite: the run gets the writer. *)
LEMMA BeginImmediateKeeps ==
    ASSUME IInv, NEW r \in Run, BeginImmediate(r)
    PROVE  IInv'
<1> USE DEF BeginImmediate
<1>1. LedgerInv' /\ LedgerTellsHistory' /\ WorkInv'
    BY QuietKeeps
<1>2. TypeOK'
    BY KeyTyped DEF IInv, TypeOK, Acquire, config, store
<1>3. LockInv'
    BY DEF IInv, TypeOK, LockInv, Placed, Turn, Acquire, Free, config
<1>4. DoneInv' /\ NoCollision'
    BY StoreStays DEF IInv, TypeOK, DoneInv, NoCollision, config
<1> QED BY <1>1, <1>2, <1>3, <1>4 DEF IInv

(* PostgreSQL: the run begins without a lock. *)
LEMMA BeginReadCommittedKeeps ==
    ASSUME IInv, NEW r \in Run, BeginReadCommitted(r)
    PROVE  IInv'
<1> USE DEF BeginReadCommitted
<1>1. LedgerInv' /\ LedgerTellsHistory' /\ WorkInv'
    BY QuietKeeps DEF session
<1>2. TypeOK'
    BY DEF IInv, TypeOK, config, store, session
<1>3. LockInv'
    BY DEF IInv, TypeOK, LockInv, Placed, Turn, config, session
<1>4. DoneInv' /\ NoCollision'
    BY StoreStays DEF IInv, TypeOK, DoneInv, NoCollision, config
<1> QED BY <1>1, <1>2, <1>3, <1>4 DEF IInv

(* The locks of PostgreSQL, in their order. *)
LEMMA LockLedgerKeeps ==
    ASSUME IInv, NEW r \in Run, LockLedger(r)
    PROVE  IInv'
<1> USE DEF LockLedger
<1>1. LedgerInv' /\ LedgerTellsHistory' /\ WorkInv'
    BY QuietKeeps
<1>2. TypeOK'
    BY KeyTyped DEF IInv, TypeOK, Acquire, config, store
<1>3. LockInv'
    BY DEF IInv, TypeOK, LockInv, Placed, Turn, Acquire, Free, config
<1>4. DoneInv' /\ NoCollision'
    BY StoreStays DEF IInv, TypeOK, DoneInv, NoCollision, config
<1> QED BY <1>1, <1>2, <1>3, <1>4 DEF IInv

LEMMA LockNamespaceKeeps ==
    ASSUME IInv, NEW r \in Run, LockNamespace(r)
    PROVE  IInv'
<1> USE DEF LockNamespace
<1>1. LedgerInv' /\ LedgerTellsHistory' /\ WorkInv'
    BY QuietKeeps
<1>2. TypeOK'
    <2>1. AdvisoryKey("namespace", migrator[r].namespace) \in Key
        BY KeyTyped, MigratorAssumption DEF IInv, TypeOK
    <2> QED BY <2>1 DEF IInv, TypeOK, Acquire, config, store
<1>3. LockInv'
    BY DEF IInv, TypeOK, LockInv, Placed, Turn, Acquire, Free, config
<1>4. DoneInv' /\ NoCollision'
    BY StoreStays DEF IInv, TypeOK, DoneInv, NoCollision, config
<1> QED BY <1>1, <1>2, <1>3, <1>4 DEF IInv

(* The end of a session frees its locks and discards what it wrote. *)
LEMMA SessionEnds ==
    ASSUME IInv, NEW r \in Run, EndSession(r)
    PROVE  /\ holds' \in [Run -> SUBSET Key] /\ created' \in [Run -> BOOLEAN]
           /\ inserted' \in [Run -> Seq(LedgerRow)] /\ executed' \in [Run -> Seq(Migration)]
           /\ ~created'[r] /\ inserted'[r] = <<>> /\ executed'[r] = <<>> /\ holds'[r] = {}
           /\ \A q \in Run \ {r} : /\ created'[q] = created[q] /\ inserted'[q] = inserted[q]
                                   /\ executed'[q] = executed[q] /\ holds'[q] = holds[q]
<1>1. <<>> \in Seq(LedgerRow) /\ <<>> \in Seq(Migration)
    OBVIOUS
<1> QED BY <1>1 DEF IInv, TypeOK, EndSession

LEMMA LocksEnd ==
    ASSUME IInv, NEW r \in Run, EndSession(r), NEW p \in {"end", "answer"}, at' = [at EXCEPT ![r] = p],
           UNCHANGED postgres
    PROVE  LockInv'
<1>1. /\ ~created'[r] /\ inserted'[r] = <<>> /\ executed'[r] = <<>> /\ holds'[r] = {} /\ at'[r] = p
      /\ \A q \in Run \ {r} : /\ created'[q] = created[q] /\ inserted'[q] = inserted[q] /\ at'[q] = at[q]
                              /\ executed'[q] = executed[q] /\ holds'[q] = holds[q]
    BY SessionEnds DEF IInv, TypeOK
<1>2. \A q \in Run : q # r => Placed(q)'
    BY <1>1 DEF IInv, LockInv, Placed, Turn
<1>3. Placed(r)'
    BY <1>1 DEF Placed
<1>4. \A q, u \in Run : q # u => holds'[q] \cap holds'[u] = {}
    BY <1>1 DEF IInv, LockInv
<1> QED BY <1>2, <1>3, <1>4 DEF LockInv

(* Without a connection nothing happens. *)
LEMMA BeginFailsKeeps ==
    ASSUME IInv, NEW r \in Run, BeginFails(r)
    PROVE  IInv'
<1> USE DEF BeginFails, session
<1>1. LedgerInv' /\ LedgerTellsHistory' /\ WorkInv'
    BY QuietKeeps DEF IInv, TypeOK
<1>2. TypeOK'
    BY DEF IInv, TypeOK, config, store
<1>3. LockInv'
    BY DEF IInv, TypeOK, LockInv, Placed, Turn, config
<1>4. DoneInv' /\ NoCollision'
    BY StoreStays DEF IInv, TypeOK, DoneInv, NoCollision, config
<1> QED BY <1>1, <1>2, <1>3, <1>4 DEF IInv

(* A statement that fails leaves its session to the rollback. *)
LEMMA StatementFailsKeeps ==
    ASSUME IInv, NEW r \in Run, StatementFails(r)
    PROVE  IInv'
<1> USE DEF StatementFails, session, Refuse
<1>1. LedgerInv' /\ LedgerTellsHistory' /\ WorkInv'
    BY QuietKeeps DEF IInv, TypeOK
<1>2. TypeOK'
    BY DEF IInv, TypeOK, config, store
<1>3. LockInv'
    BY DEF IInv, TypeOK, LockInv, Placed, Turn, config
<1>4. DoneInv' /\ NoCollision'
    BY StoreStays DEF IInv, TypeOK, DoneInv, NoCollision, config
<1> QED BY <1>1, <1>2, <1>3, <1>4 DEF IInv

(* The session ends now, or when the server notices. *)
LEMMA RollbackKeeps ==
    ASSUME IInv, NEW r \in Run, Rollback(r)
    PROVE  IInv'
<1>1. CASE EndSession(r) /\ Goto(r, "end")
    <2>1. LedgerInv' /\ LedgerTellsHistory' /\ WorkInv'
        BY <1>1, SessionEnds, QuietKeeps DEF Rollback
    <2>2. TypeOK'
        BY <1>1, SessionEnds DEF Rollback, IInv, TypeOK, config, store
    <2>3. LockInv'
        BY <1>1, LocksEnd DEF Rollback, config
    <2>4. DoneInv' /\ NoCollision'
        BY <1>1, StoreStays DEF Rollback, IInv, TypeOK, DoneInv, NoCollision, config
    <2> QED BY <2>1, <2>2, <2>3, <2>4 DEF IInv
<1>2. CASE Goto(r, "orphan") /\ UNCHANGED session
    <2>1. LedgerInv' /\ LedgerTellsHistory' /\ WorkInv'
        BY <1>2, QuietKeeps DEF Rollback, session
    <2>2. TypeOK'
        BY <1>2 DEF Rollback, IInv, TypeOK, config, store, session
    <2>3. LockInv'
        BY <1>2 DEF Rollback, IInv, TypeOK, LockInv, Placed, Turn, config, session
    <2>4. DoneInv' /\ NoCollision'
        BY <1>2, StoreStays DEF Rollback, IInv, TypeOK, DoneInv, NoCollision, config
    <2> QED BY <2>1, <2>2, <2>3, <2>4 DEF IInv
<1> QED BY <1>1, <1>2 DEF Rollback

(* A COMMIT that is refused leaves nothing. *)
LEMMA CommitFailsKeeps ==
    ASSUME IInv, NEW r \in Run, CommitFails(r)
    PROVE  IInv'
<1> USE DEF CommitFails, session
<1>1. LedgerInv' /\ LedgerTellsHistory' /\ WorkInv'
    BY SessionEnds, QuietKeeps
<1>2. TypeOK'
    BY SessionEnds DEF IInv, TypeOK, config, store
<1>3. LockInv'
    BY LocksEnd DEF config
<1>4. DoneInv' /\ NoCollision'
    BY StoreStays DEF IInv, TypeOK, DoneInv, NoCollision, config
<1> QED BY <1>1, <1>2, <1>3, <1>4 DEF IInv

(* What the answer says was true when it was sent, and still is. *)
LEMMA AnsweredKeeps ==
    ASSUME IInv, NEW r \in Run, Answered(r)
    PROVE  IInv'
<1> USE DEF Answered, session
<1>1. LedgerInv' /\ LedgerTellsHistory' /\ WorkInv'
    BY QuietKeeps DEF IInv, TypeOK
<1>2. TypeOK'
    BY DEF IInv, TypeOK, config, store
<1>3. LockInv'
    BY DEF IInv, TypeOK, LockInv, Placed, Turn, config
<1>4. DoneInv' /\ NoCollision'
    BY StoreStays DEF IInv, TypeOK, DoneInv, NoCollision, config
<1> QED BY <1>1, <1>2, <1>3, <1>4 DEF IInv

(* Without an answer the run knows nothing. *)
LEMMA AnswerLostKeeps ==
    ASSUME IInv, NEW r \in Run, AnswerLost(r)
    PROVE  IInv'
<1> USE DEF AnswerLost, session
<1>1. LedgerInv' /\ LedgerTellsHistory' /\ WorkInv'
    BY QuietKeeps DEF IInv, TypeOK
<1>2. TypeOK'
    BY DEF IInv, TypeOK, config, store
<1>3. LockInv'
    BY DEF IInv, TypeOK, LockInv, Placed, Turn, config
<1>4. DoneInv' /\ NoCollision'
    BY StoreStays DEF IInv, TypeOK, DoneInv, NoCollision, config
<1> QED BY <1>1, <1>2, <1>3, <1>4 DEF IInv

(* A dropped run leaves its session to the server. *)
LEMMA DroppedKeeps ==
    ASSUME IInv, NEW r \in Run, Dropped(r)
    PROVE  IInv'
<1> USE DEF Dropped, session
<1>1. LedgerInv' /\ LedgerTellsHistory' /\ WorkInv'
    BY QuietKeeps DEF IInv, TypeOK
<1>2. TypeOK'
    BY DEF IInv, TypeOK, config, store
<1>3. LockInv'
    BY DEF IInv, TypeOK, LockInv, Placed, Turn, config
<1>4. DoneInv' /\ NoCollision'
    BY StoreStays DEF IInv, TypeOK, DoneInv, NoCollision, config
<1> QED BY <1>1, <1>2, <1>3, <1>4 DEF IInv

(* An abandoned session ends. *)
LEMMA ReapKeeps ==
    ASSUME IInv, NEW r \in Run, Reap(r)
    PROVE  IInv'
<1> USE DEF Reap, session
<1>1. LedgerInv' /\ LedgerTellsHistory' /\ WorkInv'
    BY SessionEnds, QuietKeeps
<1>2. TypeOK'
    BY SessionEnds DEF IInv, TypeOK, config, store
<1>3. LockInv'
    BY LocksEnd DEF config
<1>4. DoneInv' /\ NoCollision'
    BY StoreStays DEF IInv, TypeOK, DoneInv, NoCollision, config
<1> QED BY <1>1, <1>2, <1>3, <1>4 DEF IInv

(* CREATE TABLE meets no other session's table: the other one would hold    *)
(* the same lock.                                                           *)
LEMMA CreateLedgerKeeps ==
    ASSUME IInv, NEW r \in Run, CreateLedger(r)
    PROVE  IInv'
<1>1. \A q \in Run \ {r} : ~created[q]
    BY DEF CreateLedger, IInv, TypeOK, LockInv, Placed
<1>2. /\ at[r] = "locked" /\ created' = [created EXCEPT ![r] = ~table] /\ at' = [at EXCEPT ![r] = "read"]
      /\ UNCHANGED <<result, config, rows, holds, inserted, executed, store>>
    BY <1>1 DEF CreateLedger
<1>3. LedgerInv' /\ LedgerTellsHistory' /\ WorkInv'
    BY <1>2, QuietKeeps
<1>4. TypeOK'
    BY <1>2 DEF IInv, TypeOK, config, store
<1>5. LockInv'
    BY <1>2 DEF IInv, TypeOK, LockInv, Placed, Turn, config
<1>6. DoneInv' /\ NoCollision'
    BY <1>2, StoreStays DEF IInv, TypeOK, DoneInv, NoCollision, config
<1> QED BY <1>3, <1>4, <1>5, <1>6 DEF IInv

-----------------------------------------------------------------------------
(* Rows and scripts.                                                        *)

LEMMA ScriptsTyped ==
    ASSUME NEW s \in Seq(LedgerRow)
    PROVE  /\ Scripts(s) \in Seq(Migration) /\ Len(Scripts(s)) = Len(s)
           /\ \A i \in 1..Len(s) : Scripts(s)[i] = Script(s[i])
<1>1. \A row \in LedgerRow : Script(row) \in Migration
    BY DEF LedgerRow, Migration, Script
<1>2. Len(s) \in Nat /\ DOMAIN s = 1..Len(s) /\ \A i \in 1..Len(s) : s[i] \in LedgerRow
    BY RowsTyped
<1>3. Scripts(s) = [i \in 1..Len(s) |-> Script(s[i])]
    BY <1>2 DEF Scripts
<1>4. Scripts(s) \in [1..Len(s) -> Migration]
    BY <1>1, <1>2, <1>3
<1>5. Scripts(s) \in Seq(Migration)
    BY <1>2, <1>4, IsASeq
<1>6. DOMAIN Scripts(s) = 1..Len(s)
    BY <1>3
<1> QED BY <1>2, <1>3, <1>5, <1>6, LenProperties

LEMMA RecordedTyped ==
    ASSUME NEW s \in Seq(Migration)
    PROVE  /\ Recorded(s) \in Seq(LedgerRow) /\ Len(Recorded(s)) = Len(s)
           /\ \A i \in 1..Len(s) : Recorded(s)[i] = Row(s[i], "now") /\ Script(Recorded(s)[i]) = s[i]
<1>1. \A m \in Migration : Row(m, "now") \in LedgerRow /\ Script(Row(m, "now")) = m
    <2> TAKE m \in Migration
    <2>1. Row(m, "now") \in LedgerRow
        <3>1. "now" \in Stamp
            BY Zenon DEF Stamp
        <3>2. m.version \in Int /\ m.definition \in STRING
            BY DEF Migration
        <3> QED BY <3>1, <3>2 DEF LedgerRow, Row
    <2>2. Script(Row(m, "now")) = [version |-> m.version, definition |-> m.definition]
        BY DEF Script, Row
    <2>3. m = [version |-> m.version, definition |-> m.definition]
        BY DEF Migration
    <2> QED BY <2>1, <2>2, <2>3
<1>2. Len(s) \in Nat /\ DOMAIN s = 1..Len(s) /\ \A i \in 1..Len(s) : s[i] \in Migration
    BY ListTyped
<1>3. Recorded(s) = [i \in 1..Len(s) |-> Row(s[i], "now")]
    BY <1>2 DEF Recorded
<1>4. Recorded(s) \in [1..Len(s) -> LedgerRow]
    BY <1>1, <1>2, <1>3
<1>5. Recorded(s) \in Seq(LedgerRow)
    BY <1>2, <1>4, IsASeq
<1>6. DOMAIN Recorded(s) = 1..Len(s)
    BY <1>3
<1>7. \A i \in 1..Len(s) : Recorded(s)[i] = Row(s[i], "now") /\ Script(Recorded(s)[i]) = s[i]
    BY <1>1, <1>2, <1>3
<1> QED BY <1>2, <1>5, <1>6, <1>7, LenProperties

(* The rows of a run followed by those of its scripts. *)
LEMMA WroteIs ==
    ASSUME NEW s \in Seq(LedgerRow), NEW e \in Seq(Migration)
    PROVE  /\ s \o Recorded(e) \in Seq(LedgerRow) /\ Len(s \o Recorded(e)) = Len(s) + Len(e)
           /\ \A i \in 1..Len(s) : (s \o Recorded(e))[i] = s[i]
           /\ \A i \in 1..Len(e) : /\ (s \o Recorded(e))[Len(s) + i] = Row(e[i], "now")
                                   /\ Script((s \o Recorded(e))[Len(s) + i]) = e[i]
<1>1. /\ Recorded(e) \in Seq(LedgerRow) /\ Len(Recorded(e)) = Len(e) /\ Len(s) \in Nat /\ Len(e) \in Nat
      /\ \A i \in 1..Len(e) : Recorded(e)[i] = Row(e[i], "now") /\ Script(Recorded(e)[i]) = e[i]
    BY RecordedTyped, RowsTyped, ListTyped
<1>2. /\ s \o Recorded(e) \in Seq(LedgerRow) /\ Len(s \o Recorded(e)) = Len(s) + Len(e)
      /\ \A i \in 1..(Len(s) + Len(e)) :
            (s \o Recorded(e))[i] = IF i <= Len(s) THEN s[i] ELSE Recorded(e)[i - Len(s)]
    <2> DEFINE t == Recorded(e)
    <2>1. t \in Seq(LedgerRow) /\ Len(t) = Len(e)
        BY <1>1
    <2> HIDE DEF t
    <2>2. /\ s \o t \in Seq(LedgerRow) /\ Len(s \o t) = Len(s) + Len(t)
          /\ \A i \in 1..(Len(s) + Len(t)) : (s \o t)[i] = IF i <= Len(s) THEN s[i] ELSE t[i - Len(s)]
        BY <2>1, ConcatProperties
    <2> QED BY <2>1, <2>2 DEF t
<1>3. \A i \in 1..Len(s) : (s \o Recorded(e))[i] = s[i]
    BY <1>1, <1>2
<1>4. ASSUME NEW i \in 1..Len(e)
      PROVE  (s \o Recorded(e))[Len(s) + i] = Recorded(e)[i]
    <2>1. Len(s) + i \in 1..(Len(s) + Len(e)) /\ ~(Len(s) + i <= Len(s)) /\ (Len(s) + i) - Len(s) = i
        BY <1>1
    <2> QED BY <1>2, <2>1
<1> QED BY <1>1, <1>2, <1>3, <1>4

(* Rows that follow an ordered list ascend. *)
LEMMA FollowsAscends ==
    ASSUME NEW m \in Migrators, Ordered(m.list), NEW s \in Seq(LedgerRow), Follows(m, s)
    PROVE  Ascending(s)
<1>1. /\ Len(s) \in Nat /\ DOMAIN s = 1..Len(s) /\ Len(m.list) \in Nat
      /\ DOMAIN m.list = 1..Len(m.list) /\ m.list \in Seq(Migration)
    BY RowsTyped, ListTyped, MigratorAssumption
<1>2. Ascending(m.list)
    BY <1>1, OrderedAscends
<1>3. \A i \in 1..Len(s) : i \in 1..Len(m.list) /\ s[i].version = m.list[i].version
    <2>1. \A row : Script(row).version = row.version
        BY DEF Script
    <2> QED BY <1>1, <2>1 DEF Follows
<1> QED BY <1>1, <1>2, <1>3 DEF Ascending

(* A step that leaves the committed state and the other runs alone. *)
LEMMA MoveKeeps ==
    ASSUME IInv, NEW r \in Run, NEW p \in Place, UNCHANGED <<config, store>>, at' = [at EXCEPT ![r] = p],
           \A q \in Run \ {r} :
              rows'[q] = rows[q] /\ inserted'[q] = inserted[q] /\ executed'[q] = executed[q],
           Works(r)'
    PROVE  LedgerInv' /\ LedgerTellsHistory' /\ WorkInv'
<1>1. LedgerInv' /\ LedgerTellsHistory'
    BY StoreStays DEF IInv
<1>2. ASSUME NEW q \in Run, q # r
      PROVE  Works(q)'
    <2>1. at'[q] = at[q] /\ rows'[q] = rows[q] /\ inserted'[q] = inserted[q] /\ executed'[q] = executed[q]
        BY <1>2 DEF IInv, TypeOK
    <2> QED BY <2>1, WorksStays DEF IInv, WorkInv
<1>3. \A q \in Run : Ordered(migrator'[q].list)
    BY DEF IInv, WorkInv, config
<1> QED BY <1>1, <1>2, <1>3 DEF WorkInv

(* What every step of apply starts from. *)
LEMMA RunTyped ==
    ASSUME IInv, NEW r \in Run
    PROVE  LET m == migrator[r]
               n == m.namespace
           IN  /\ m \in Migrators /\ n \in Namespace /\ Ordered(m.list)
               /\ m.list \in Seq(Migration) /\ Len(m.list) \in Nat /\ DOMAIN m.list = 1..Len(m.list)
               /\ ByVersion(ledger[n]) \in Seq(LedgerRow) /\ Ascending(ByVersion(ledger[n]))
               /\ ToSet(ByVersion(ledger[n])) = ledger[n]
               /\ rows[r] \in Seq(LedgerRow) /\ Len(rows[r]) \in Nat
               /\ inserted[r] \in Seq(LedgerRow) /\ Len(inserted[r]) \in Nat
               /\ executed[r] \in Seq(Migration) /\ Len(executed[r]) \in Nat
               /\ legacy[n] \in Seq(LedgerRow) /\ Len(legacy[n]) \in Nat
<1>1. migrator[r] \in Migrators /\ migrator[r].namespace \in Namespace /\ migrator[r].list \in Seq(Migration)
    BY MigratorAssumption DEF IInv, TypeOK
<1>2. rows[r] \in Seq(LedgerRow) /\ inserted[r] \in Seq(LedgerRow) /\ executed[r] \in Seq(Migration)
      /\ legacy[migrator[r].namespace] \in Seq(LedgerRow)
    BY <1>1 DEF IInv, TypeOK
<1>3. Ordered(migrator[r].list)
    BY DEF IInv, WorkInv
<1>4. LET list == ByVersion(ledger[migrator[r].namespace])
      IN  list \in Seq(LedgerRow) /\ Ascending(list) /\ ToSet(list) = ledger[migrator[r].namespace]
    BY <1>1 DEF IInv, LedgerInv
<1> QED BY <1>1, <1>2, <1>3, <1>4, ListTyped, RowsTyped

-----------------------------------------------------------------------------
(* Appending a script, its row, and what a listing holds.                   *)

LEMMA FrontOfAppend ==
    ASSUME NEW S, NEW s \in Seq(S), NEW x \in S
    PROVE  Front(Append(s, x)) = s /\ Last(Append(s, x)) = x
<1> DEFINE t == Append(s, x)
<1>1. /\ Len(s) \in Nat /\ t \in Seq(S) /\ Len(t) = Len(s) + 1 /\ t[Len(s) + 1] = x
      /\ \A i \in 1..Len(s) : t[i] = s[i]
    BY AppendProperties, LenProperties
<1> HIDE DEF t
<1>2. Len(t) - 1 = Len(s) /\ Len(t) = Len(s) + 1
    BY <1>1
<1>3. IsPrefix(s, t)
    BY <1>1, <1>2, PrefixIs
<1>4. s = SubSeq(t, 1, Len(s))
    BY <1>1, <1>3, SubSeqFull DEF IsPrefix
<1> QED BY <1>1, <1>2, <1>4 DEF Front, Last, t

LEMMA ConcatAppend ==
    ASSUME NEW S, NEW s \in Seq(S), NEW t \in Seq(S), NEW x \in S
    PROVE  s \o Append(t, x) = Append(s \o t, x)
<1>1. <<x>> \in Seq(S) /\ s \o t \in Seq(S)
    BY ConcatProperties
<1>2. Append(t, x) = t \o <<x>> /\ Append(s \o t, x) = (s \o t) \o <<x>>
    BY <1>1, AppendIsConcat
<1>3. (s \o t) \o <<x>> = s \o (t \o <<x>>)
    BY <1>1, ConcatAssociative
<1> QED BY <1>2, <1>3

LEMMA ConcatPrefix ==
    ASSUME NEW S, NEW s \in Seq(S), NEW t \in Seq(S)
    PROVE  IsPrefix(s, s \o t)
<1> DEFINE u == s \o t
<1>1. /\ u \in Seq(S) /\ Len(s) \in Nat /\ Len(t) \in Nat /\ Len(u) = Len(s) + Len(t)
      /\ \A i \in 1..(Len(s) + Len(t)) : u[i] = IF i <= Len(s) THEN s[i] ELSE t[i - Len(s)]
    BY ConcatProperties, LenProperties
<1> HIDE DEF u
<1>2. Len(s) <= Len(u) /\ \A i \in 1..Len(s) : s[i] = u[i]
    BY <1>1
<1>3. IsPrefix(s, u)
    BY <1>1, <1>2, PrefixIs
<1> QED BY <1>3 DEF u

(* The elements of a concatenation. *)
LEMMA SetOfConcat ==
    ASSUME NEW S, NEW s \in Seq(S), NEW t \in Seq(S)
    PROVE  ToSet(s \o t) = ToSet(s) \cup ToSet(t)
<1> DEFINE u == s \o t
<1>1. /\ u \in Seq(S) /\ Len(s) \in Nat /\ Len(t) \in Nat /\ Len(u) = Len(s) + Len(t)
      /\ DOMAIN s = 1..Len(s) /\ DOMAIN t = 1..Len(t) /\ DOMAIN u = 1..Len(u)
      /\ \A i \in 1..(Len(s) + Len(t)) : u[i] = IF i <= Len(s) THEN s[i] ELSE t[i - Len(s)]
    BY ConcatProperties, LenProperties
<1> HIDE DEF u
<1>2. \A i \in 1..Len(s) : i \in 1..Len(u) /\ u[i] = s[i]
    BY <1>1
<1>3. ASSUME NEW i \in 1..Len(t)
      PROVE  Len(s) + i \in 1..Len(u) /\ u[Len(s) + i] = t[i]
    <2>1. Len(s) + i \in 1..(Len(s) + Len(t)) /\ ~(Len(s) + i <= Len(s)) /\ (Len(s) + i) - Len(s) = i
        BY <1>1
    <2> QED BY <1>1, <2>1
<1>4. \A i \in 1..Len(u) : ~(i <= Len(s)) => i - Len(s) \in 1..Len(t) /\ u[i] = t[i - Len(s)]
    BY <1>1
<1>5. \A i \in 1..Len(u) : i <= Len(s) => i \in 1..Len(s)
    BY <1>1
<1>6. ToSet(u) \subseteq ToSet(s) \cup ToSet(t)
    BY <1>1, <1>2, <1>4, <1>5 DEF ToSet
<1>7. ToSet(s) \subseteq ToSet(u)
    BY <1>1, <1>2 DEF ToSet
<1>8. ASSUME NEW x \in ToSet(t)
      PROVE  x \in ToSet(u)
    <2>1. PICK i \in 1..Len(t) : x = t[i]
        BY <1>1 DEF ToSet
    <2>2. PICK j \in DOMAIN u : x = u[j]
        BY <1>1, <1>3, <2>1
    <2> QED BY <2>2 DEF ToSet
<1> QED BY <1>6, <1>7, <1>8 DEF u

(* The rows that a run knows and did not insert are those of the ledger. *)
LEMMA KnownRows ==
    ASSUME NEW list \in Seq(LedgerRow), NEW ins \in Seq(LedgerRow), NEW s \in Seq(LedgerRow),
           NEW rest \in Seq(LedgerRow), IsPrefix(list, s), list \o ins = s \o rest, Ascending(s \o rest)
    PROVE  ToSet(list) = ToSet(s) \ ToSet(ins)
<1> DEFINE t == list \o ins
<1>1. ToSet(s) \subseteq ToSet(list) \cup ToSet(ins)
    <2>1. \A u, v \in Seq(LedgerRow) : ToSet(u \o v) = ToSet(u) \cup ToSet(v)
        BY SetOfConcat
    <2>2. ToSet(s \o rest) = ToSet(s) \cup ToSet(rest) /\ ToSet(list \o ins) = ToSet(list) \cup ToSet(ins)
        BY <2>1, Zenon
    <2> QED BY <2>2
<1>2. ToSet(list) \subseteq ToSet(s)
    <2>1. Len(list) <= Len(s) /\ \A i \in 1..Len(list) : list[i] = s[i]
        BY PrefixIs
    <2>2. Len(list) \in Nat /\ DOMAIN list = 1..Len(list) /\ Len(s) \in Nat /\ DOMAIN s = 1..Len(s)
        BY RowsTyped
    <2> QED BY <2>1, <2>2 DEF ToSet
<1>3. ASSUME NEW x \in ToSet(list), x \in ToSet(ins)
      PROVE  FALSE
    <2>1. /\ t \in Seq(LedgerRow) /\ Len(t) = Len(list) + Len(ins)
          /\ \A i \in 1..(Len(list) + Len(ins)) : t[i] = IF i <= Len(list) THEN list[i] ELSE ins[i - Len(list)]
        BY ConcatProperties
    <2>2. /\ Len(list) \in Nat /\ DOMAIN list = 1..Len(list) /\ Len(ins) \in Nat /\ DOMAIN ins = 1..Len(ins)
          /\ DOMAIN t = 1..Len(t) /\ \A i \in 1..Len(t) : t[i].version \in Int
        BY <2>1, RowsTyped
    <2>3. Ascending(t)
        OBVIOUS
    <2> HIDE DEF t
    <2>4. PICK i \in 1..Len(list), j \in 1..Len(ins) : x = list[i] /\ x = ins[j]
        BY <1>3, <2>2 DEF ToSet
    <2>5. /\ i \in 1..Len(t) /\ Len(list) + j \in 1..Len(t) /\ i < Len(list) + j
          /\ (Len(list) + j) - Len(list) = j /\ ~(Len(list) + j <= Len(list)) /\ i <= Len(list)
        BY <2>1, <2>2
    <2>6. t[i] = x /\ t[Len(list) + j] = x
        BY <2>1, <2>4, <2>5
    <2>7. t[i].version < t[Len(list) + j].version
        BY <2>2, <2>3, <2>5 DEF Ascending
    <2> QED BY <2>2, <2>5, <2>6, <2>7
<1> QED BY <1>1, <1>2, <1>3

(* One more script is one more row. *)
LEMMA WroteAppend ==
    ASSUME NEW s \in Seq(LedgerRow), NEW e \in Seq(Migration), NEW x \in Migration
    PROVE  /\ Row(x, "now") \in LedgerRow /\ Script(Row(x, "now")) = x
           /\ s \o Recorded(Append(e, x)) = Append(s \o Recorded(e), Row(x, "now"))
<1> DEFINE y == Row(x, "now")
<1>1. <<x>> \in Seq(Migration) /\ Len(<<x>>) = 1 /\ <<x>>[1] = x
    OBVIOUS
<1>2. Recorded(<<x>>) \in Seq(LedgerRow) /\ Len(Recorded(<<x>>)) = 1 /\ Recorded(<<x>>)[1] = y /\ Script(y) = x
    <2>1. /\ Recorded(<<x>>) \in Seq(LedgerRow) /\ Len(Recorded(<<x>>)) = Len(<<x>>)
          /\ \A i \in 1..Len(<<x>>) : Recorded(<<x>>)[i] = Row(<<x>>[i], "now") /\ Script(Recorded(<<x>>)[i]) = <<x>>[i]
        BY <1>1, RecordedTyped
    <2>2. 1 \in 1..Len(<<x>>)
        BY <1>1
    <2> QED BY <1>1, <2>1, <2>2
<1>3. y \in LedgerRow
    BY <1>2, RowsTyped
<1> HIDE DEF y
<1>4. Recorded(Append(e, x)) = Append(Recorded(e), y)
    <2> DEFINE f == Append(e, x)
    <2>1. /\ f \in Seq(Migration) /\ Len(f) = Len(e) + 1 /\ Len(e) \in Nat /\ f[Len(e) + 1] = x
          /\ \A i \in 1..Len(e) : f[i] = e[i]
        BY AppendProperties, ListTyped
    <2> HIDE DEF f
    <2>2. /\ Recorded(f) \in Seq(LedgerRow) /\ Len(Recorded(f)) = Len(e) + 1
          /\ \A i \in 1..(Len(e) + 1) : Recorded(f)[i] = Row(f[i], "now")
        BY <2>1, RecordedTyped
    <2>3. Recorded(e) \in Seq(LedgerRow) /\ Len(Recorded(e)) = Len(e) /\ \A i \in 1..Len(e) : Recorded(e)[i] = Row(e[i], "now")
        BY RecordedTyped
    <2> DEFINE g == Recorded(e)
               h == Append(g, y)
    <2> HIDE DEF g
    <2>4. /\ h \in Seq(LedgerRow) /\ Len(h) = Len(e) + 1 /\ h[Len(e) + 1] = y
          /\ \A i \in 1..Len(e) : h[i] = g[i]
        BY <1>3, <2>3, AppendProperties DEF g
    <2> HIDE DEF h
    <2>5. ASSUME NEW i \in 1..(Len(e) + 1)
          PROVE  Recorded(f)[i] = h[i]
        <3>1. CASE i \in 1..Len(e)
            BY <2>1, <2>2, <2>3, <2>4, <2>5, <3>1 DEF g
        <3>2. CASE i = Len(e) + 1
            BY <2>1, <2>2, <2>4, <2>5, <3>2 DEF y
        <3> QED BY <2>1, <2>5, <3>1, <3>2
    <2>6. Recorded(f) = h
        BY <2>2, <2>4, <2>5, SeqEqual
    <2> QED BY <2>6 DEF f, g, h
<1>5. s \o Append(Recorded(e), y) = Append(s \o Recorded(e), y)
    BY <1>3, RecordedTyped, ConcatAppend
<1> QED BY <1>2, <1>3, <1>4, <1>5 DEF y

(* ... and the row of the next migration of the list. *)
LEMMA FollowsAppend ==
    ASSUME NEW m \in Migrators, NEW s \in Seq(LedgerRow), Follows(m, s), NEW y \in LedgerRow,
           Len(s) + 1 <= Len(m.list), Script(y) = m.list[Len(s) + 1]
    PROVE  Follows(m, Append(s, y))
<1> DEFINE t == Append(s, y)
<1>1. /\ Len(s) \in Nat /\ Len(t) = Len(s) + 1 /\ t[Len(s) + 1] = y /\ \A i \in 1..Len(s) : t[i] = s[i]
    BY AppendProperties, RowsTyped
<1> HIDE DEF t
<1>2. \A i \in 1..Len(t) : i \in 1..Len(s) \/ i = Len(s) + 1
    BY <1>1
<1>3. \A i \in 1..Len(t) : Script(t[i]) = m.list[i]
    BY <1>1, <1>2 DEF Follows
<1> QED BY <1>1, <1>3 DEF Follows, t

-----------------------------------------------------------------------------
(* The steps of apply under the lock.                                       *)

(* Nobody else is at work. *)
LEMMA Alone ==
    ASSUME IInv, NEW r \in Run, Turn \in holds[r]
    PROVE  \A q \in Run \ {r} :
              /\ at[q] \notin {"keyed", "locked", "read", "adopt", "copy", "script", "record", "commit", "adrift"}
              /\ ~created[q] /\ inserted[q] = <<>> /\ executed[q] = <<>>
BY DEF IInv, TypeOK, LockInv, Placed

(* A step of apply changes nothing that DoneInv speaks of. *)
LEMMA NotDone ==
    ASSUME IInv, NEW r \in Run, at[r] \in {"read", "adopt", "copy", "script", "record"},
           NEW p \in Place \ {"answer", "adrift"}, UNCHANGED <<config, store>>, at' = [at EXCEPT ![r] = p],
           \/ UNCHANGED result
           \/ \E what \in Refusal \cup {"none"} : result' = [result EXCEPT ![r] = what] /\ what # "collision"
    PROVE  DoneInv' /\ NoCollision'
<1>1. "ok" \notin Refusal \cup {"none"}
    BY DEF Refusal
<1> QED BY <1>1, StoreStays DEF IInv, TypeOK, DoneInv, NoCollision, config

(* The listing of the ledger is kept if it agrees with the list. *)
LEMMA ReadLedgerKeeps ==
    ASSUME IInv, NEW r \in Run, ReadLedger(r)
    PROVE  IInv'
<1> DEFINE m    == migrator[r]
           read == ByVersion(ledger[m.namespace])
           fault == Fault(m, read)
<1>1. m \in Migrators /\ read \in Seq(LedgerRow)
    BY RunTyped
<1>2. /\ at[r] = "read" /\ rows' = [rows EXCEPT ![r] = read]
      /\ UNCHANGED <<config, session, store>>
      /\ \/ fault = "none" /\ at' = [at EXCEPT ![r] = "adopt"] /\ UNCHANGED result
         \/ fault # "none" /\ at' = [at EXCEPT ![r] = "abort"] /\ result' = [result EXCEPT ![r] = fault]
    BY DEF ReadLedger, Refuse
<1>3. fault \in Refusal \cup {"none"} /\ fault # "collision"
    BY <1>1, FaultKinds
<1>4. fault = "none" => Follows(m, read)
    BY <1>1, FaultNone
<1> HIDE DEF fault
<1>5. rows'[r] = read /\ at'[r] \in {"adopt", "abort"} /\ (at'[r] = "adopt" => Follows(m, read))
    BY <1>2, <1>4 DEF IInv, TypeOK
<1>6. Works(r)'
    BY <1>2, <1>5 DEF Works, config, store
<1>7. LedgerInv' /\ LedgerTellsHistory' /\ WorkInv'
    <2>1. \A q \in Run \ {r} :
              rows'[q] = rows[q] /\ inserted'[q] = inserted[q] /\ executed'[q] = executed[q]
        BY <1>2 DEF IInv, TypeOK, session
    <2> QED BY <1>2, <1>6, <2>1, MoveKeeps
<1>8. TypeOK'
    <2>1. /\ at' \in [Run -> Place] /\ result' \in [Run -> Result]
          /\ \A q \in Run : result'[q] # "none" <=> at'[q] \in {"abort", "orphan", "adrift", "end"}
        <3>1. CASE fault # "none"
            BY <1>2, <1>3, <3>1, RefusedTyped
        <3>2. CASE fault = "none"
            BY <1>2, <3>2 DEF IInv, TypeOK
        <3> QED BY <3>1, <3>2
    <2>2. rows' \in [Run -> Seq(LedgerRow)]
        BY <1>1, <1>2 DEF IInv, TypeOK
    <2> QED BY <1>2, <2>1, <2>2 DEF IInv, TypeOK, config, store, session
<1>9. LockInv'
    BY <1>2 DEF IInv, TypeOK, LockInv, Placed, Turn, config, session
<1>10. DoneInv' /\ NoCollision'
    BY <1>2, <1>3, NotDone
<1> QED BY <1>7, <1>8, <1>9, <1>10 DEF IInv

(* The INSERT of a row that continues the ledger and what the run has        *)
(* inserted meets no other row.                                             *)
LEMMA FreshRow ==
    ASSUME IInv, NEW r \in Run, Turn \in holds[r], NEW row \in LedgerRow,
           Ascending(Append(ByVersion(ledger[migrator[r].namespace]) \o inserted[r], row))
    PROVE  ~Collides(r, row)
<1> DEFINE n    == migrator[r].namespace
           list == ByVersion(ledger[n])
           ins  == inserted[r]
           t    == list \o ins
           u    == Append(t, row)
<1>1. list \in Seq(LedgerRow) /\ ins \in Seq(LedgerRow) /\ ToSet(list) = ledger[n]
    BY RunTyped
<1>2. \A q \in Run \ {r} : ToSet(inserted[q]) = {}
    BY Alone DEF ToSet
<1>3. ToSet(t) = ledger[n] \cup ToSet(ins) /\ t \in Seq(LedgerRow)
    BY <1>1, SetOfConcat, ConcatProperties
<1>4. Ascending(u)
    OBVIOUS
<1> HIDE DEF t
<1>5. /\ Len(t) \in Nat /\ DOMAIN t = 1..Len(t) /\ u \in Seq(LedgerRow) /\ Len(u) = Len(t) + 1
      /\ u[Len(t) + 1] = row /\ \A i \in 1..Len(t) : u[i] = t[i]
    BY <1>3, RowsTyped, AppendProperties
<1> HIDE DEF u
<1>6. DOMAIN u = 1..Len(u) /\ \A i \in 1..Len(u) : u[i].version \in Int
    BY <1>5, RowsTyped
<1>7. ASSUME NEW other \in ToSet(t)
      PROVE  other.version # row.version
    <2>1. PICK i \in 1..Len(t) : other = t[i]
        BY <1>5 DEF ToSet
    <2>2. i \in 1..Len(u) /\ Len(t) + 1 \in 1..Len(u) /\ i < Len(t) + 1
        BY <1>5
    <2>3. u[i].version < u[Len(t) + 1].version
        BY <1>4, <1>6, <2>2 DEF Ascending
    <2> QED BY <1>5, <1>6, <2>1, <2>2, <2>3
<1>8. ASSUME NEW other \in ledger[n] \cup UNION {ToSet(inserted[q]) : q \in {p \in Run : migrator[p].namespace = n}}
      PROVE  other \in ToSet(t)
    <2>1. CASE other \in ledger[n]
        BY <1>3, <2>1
    <2>2. CASE other \notin ledger[n]
        <3>1. PICK q \in Run : other \in ToSet(inserted[q])
            BY <1>8, <2>2
        <3>2. q = r
            BY <1>2, <3>1
        <3> QED BY <1>3, <3>1, <3>2
    <2> QED BY <2>1, <2>2
<1> QED BY <1>7, <1>8 DEF Collides

LEMMA SourceTyped ==
    ASSUME IInv, NEW r \in Run
    PROVE  Source(r) \in Seq(LedgerRow) /\ Len(Source(r)) \in Nat /\ DOMAIN Source(r) = 1..Len(Source(r))
<1>1. <<>> \in Seq(LedgerRow)
    OBVIOUS
<1>2. Source(r) \in Seq(LedgerRow)
    BY <1>1, RunTyped DEF Source
<1> QED BY <1>2, RowsTyped

(* A legacy ledger that is adopted agrees with the rows and with the list. *)
LEMMA AdoptKeeps ==
    ASSUME IInv, NEW r \in Run, Adopt(r)
    PROVE  IInv'
<1> DEFINE m      == migrator[r]
           n      == m.namespace
           list   == ByVersion(ledger[n])
           source == Source(r)
           fault  == Fault(m, source)
           differ == \E i \in DOMAIN source \cap DOMAIN rows[r] : source[i] # rows[r][i]
           refusal == IF fault # "none" THEN fault ELSE IF differ THEN "conflict" ELSE "none"
<1>1. /\ at[r] = "adopt" /\ UNCHANGED <<config, rows, session, store>>
      /\ \/ refusal = "none" /\ at' = [at EXCEPT ![r] = "copy"] /\ UNCHANGED result
         \/ refusal # "none" /\ at' = [at EXCEPT ![r] = "abort"] /\ result' = [result EXCEPT ![r] = refusal]
    BY DEF Adopt, Refuse
<1>2. /\ m \in Migrators /\ source \in Seq(LedgerRow) /\ DOMAIN source = 1..Len(source) /\ Len(source) \in Nat
      /\ rows[r] \in Seq(LedgerRow) /\ DOMAIN rows[r] = 1..Len(rows[r]) /\ Len(rows[r]) \in Nat
    BY RunTyped, SourceTyped, RowsTyped
<1>3. fault = "none" => Follows(m, source)
    BY <1>2, FaultNone
<1>4. fault \in Refusal \cup {"none"} /\ fault # "collision"
    BY <1>2, FaultKinds
<1>5. rows[r] = list /\ Follows(m, rows[r]) /\ inserted[r] = <<>>
    BY <1>1 DEF IInv, LockInv, Placed, WorkInv, Works
<1> HIDE DEF fault
<1>6. /\ refusal \in Refusal \cup {"none"} /\ refusal # "collision"
      /\ refusal = "none" => fault = "none" /\ ~differ
    BY <1>4 DEF Refusal
<1> HIDE DEF refusal
<1>7. Works(r)'
    <2>1. /\ migrator'[r] = m /\ ByVersion(ledger'[n]) = list /\ Source(r)' = source /\ history'[n] = history[n]
          /\ rows'[r] = rows[r] /\ inserted'[r] = <<>> /\ at'[r] \in {"copy", "abort"}
          /\ at'[r] = "copy" => refusal = "none"
        BY <1>1, <1>5 DEF IInv, TypeOK, Source, config, store, session
    <2>2. list \o <<>> = rows[r]
        BY <1>2, <1>5, ConcatEmptySeq
    <2>3. refusal = "none" => \A i \in 1..Len(rows[r]) : i <= Len(source) => rows[r][i] = source[i]
        BY <1>2, <1>6
    <2>4. Len(list) = Len(rows[r])
        BY <1>5
    <2> HIDE DEF m, list, source, n, differ
    <2>5. AtWork(m, list, source, history[n], at'[r], rows'[r], inserted'[r], executed'[r])
        BY <1>3, <1>5, <1>6, <2>1, <2>2, <2>3, <2>4 DEF AtWork
    <2> QED BY <2>1, <2>5, WorksIs DEF n
<1>8. LedgerInv' /\ LedgerTellsHistory' /\ WorkInv'
    <2>1. \A q \in Run \ {r} :
              rows'[q] = rows[q] /\ inserted'[q] = inserted[q] /\ executed'[q] = executed[q]
        BY <1>1 DEF session
    <2> QED BY <1>1, <1>7, <2>1, MoveKeeps
<1>9. TypeOK'
    <2>1. /\ at' \in [Run -> Place] /\ result' \in [Run -> Result]
          /\ \A q \in Run : result'[q] # "none" <=> at'[q] \in {"abort", "orphan", "adrift", "end"}
        <3>1. CASE refusal # "none"
            BY <1>1, <1>6, <3>1, RefusedTyped
        <3>2. CASE refusal = "none"
            BY <1>1, <3>2 DEF IInv, TypeOK
        <3> QED BY <3>1, <3>2
    <2> QED BY <1>1, <2>1 DEF IInv, TypeOK, config, store, session
<1>10. LockInv'
    BY <1>1 DEF IInv, TypeOK, LockInv, Placed, Turn, config, session
<1>11. DoneInv' /\ NoCollision'
    BY <1>1, <1>6, NotDone
<1> QED BY <1>8, <1>9, <1>10, <1>11 DEF IInv

(* What a run that copies the legacy rows knows. *)
LEMMA CopyingIs ==
    ASSUME IInv, NEW r \in Run, at[r] = "copy"
    PROVE  LET m    == migrator[r]
               list == ByVersion(ledger[m.namespace])
           IN  /\ Turn \in holds[r] /\ executed[r] = <<>>
               /\ list \o inserted[r] = rows[r] /\ Follows(m, rows[r]) /\ Follows(m, Source(r))
               /\ \A i \in 1..Len(rows[r]) : i <= Len(Source(r)) => rows[r][i] = Source(r)[i]
               /\ Len(list) = Len(rows[r]) \/ Len(rows[r]) <= Len(Source(r))
<1>1. Turn \in holds[r] /\ executed[r] = <<>>
    BY DEF IInv, LockInv, Placed
<1>2. Works(r)
    BY DEF IInv, WorkInv
<1> QED BY <1>1, <1>2 DEF Works

(* Each adopted row is the next of the legacy ledger and of the list. *)
LEMMA CopyRowKeeps ==
    ASSUME IInv, NEW r \in Run, CopyRow(r)
    PROVE  IInv'
<1> DEFINE m      == migrator[r]
           n      == m.namespace
           list   == ByVersion(ledger[n])
           s      == rows[r]
           ins    == inserted[r]
           source == Source(r)
           row    == source[Len(s) + 1]
<1>1. /\ at[r] = "copy" /\ Len(s) < Len(source) /\ UNCHANGED <<config, holds, created, executed, store>>
      /\ \/ Collides(r, row)
         \/ /\ rows' = [rows EXCEPT ![r] = Append(s, row)]
            /\ inserted' = [inserted EXCEPT ![r] = Append(ins, row)]
            /\ UNCHANGED <<at, result>>
    BY DEF CopyRow
<1>2. /\ Turn \in holds[r] /\ list \o ins = s /\ Follows(m, s) /\ Follows(m, source)
      /\ \A i \in 1..Len(s) : i <= Len(source) => s[i] = source[i]
    BY <1>1, CopyingIs
<1>3. /\ m \in Migrators /\ Ordered(m.list) /\ s \in Seq(LedgerRow) /\ ins \in Seq(LedgerRow)
      /\ list \in Seq(LedgerRow) /\ Len(s) \in Nat /\ source \in Seq(LedgerRow) /\ Len(source) \in Nat
      /\ Len(m.list) \in Nat
    BY RunTyped, SourceTyped
<1>4. /\ migrator'[r] = m /\ ByVersion(ledger'[n]) = list /\ Source(r)' = source /\ history'[n] = history[n]
    BY <1>1 DEF Source, config, store
<1>5. ~Collides(r, row) /\ row \in LedgerRow /\ Follows(m, Append(s, row))
    <2>1. Len(s) + 1 \in 1..Len(source) /\ Len(s) + 1 <= Len(m.list) /\ Script(row) = m.list[Len(s) + 1]
        <3> HIDE DEF s, source, m
        <3>1. Len(source) <= Len(m.list) /\ \A i \in 1..Len(source) : Script(source[i]) = m.list[i]
            BY <1>2 DEF Follows
        <3>2. Len(s) + 1 \in 1..Len(source) /\ Len(s) + 1 <= Len(m.list)
            BY <1>1, <1>3, <3>1
        <3> QED BY <3>1, <3>2
    <2>2. row \in LedgerRow
        BY <1>3, <2>1, RowsTyped
    <2> HIDE DEF row
    <2>3. Follows(m, Append(s, row))
        BY <1>2, <1>3, <2>1, <2>2, FollowsAppend
    <2>4. Append(s, row) \in Seq(LedgerRow)
        BY <1>3, <2>2, AppendProperties
    <2>5. Ascending(Append(s, row))
        BY <1>3, <2>3, <2>4, FollowsAscends
    <2>6. ~Collides(r, row)
        BY <1>2, <2>2, <2>5, FreshRow
    <2> QED BY <2>2, <2>3, <2>6
<1> HIDE DEF row
<1>6. /\ Append(s, row) \in Seq(LedgerRow) /\ Append(ins, row) \in Seq(LedgerRow)
      /\ Len(Append(s, row)) = Len(s) + 1 /\ Append(s, row)[Len(s) + 1] = row
      /\ \A i \in 1..Len(s) : Append(s, row)[i] = s[i]
      /\ list \o Append(ins, row) = Append(s, row)
    <2> HIDE DEF s, ins, list
    <2>1. list \o Append(ins, row) = Append(list \o ins, row)
        BY <1>3, <1>5, ConcatAppend
    <2> QED BY <1>2, <1>3, <1>5, <2>1, AppendProperties
<1>7. /\ rows' = [rows EXCEPT ![r] = Append(s, row)] /\ rows'[r] = Append(s, row)
      /\ inserted' = [inserted EXCEPT ![r] = Append(ins, row)] /\ inserted'[r] = Append(ins, row)
      /\ at' = [at EXCEPT ![r] = "copy"] /\ at'[r] = "copy" /\ UNCHANGED <<at, result>>
    BY <1>1, <1>5 DEF IInv, TypeOK
<1> HIDE DEF m, n, list, s, ins, source
<1>8. Works(r)'
    <2> DEFINE t == Append(s, row)
    <2>1. \A i \in 1..Len(t) : i <= Len(source) => t[i] = source[i]
        <3> SUFFICES ASSUME NEW i \in 1..Len(t), i <= Len(source)
                     PROVE  t[i] = source[i]
            OBVIOUS
        <3> HIDE DEF t
        <3>1. Len(t) = Len(s) + 1 /\ t[Len(s) + 1] = row /\ \A j \in 1..Len(s) : t[j] = s[j]
            BY <1>6 DEF t
        <3>2. i \in 1..Len(s) \/ i = Len(s) + 1
            BY <1>3, <3>1
        <3> QED BY <1>2, <3>1, <3>2 DEF row
    <2>2. Len(t) <= Len(source)
        BY <1>1, <1>3, <1>6
    <2>3. list \o Append(ins, row) = t /\ Follows(m, t)
        BY <1>5, <1>6
    <2> HIDE DEF t
    <2>4. AtWork(m, list, source, history[n], "copy", t, Append(ins, row), executed'[r])
        BY <1>2, <2>1, <2>2, <2>3 DEF AtWork
    <2>5. AtWork(m, list, source, history[n], at'[r], rows'[r], inserted'[r], executed'[r])
        BY <1>7, <2>4 DEF t
    <2> QED BY <1>4, <2>5, WorksIs DEF n
<1>9. LedgerInv' /\ LedgerTellsHistory' /\ WorkInv'
    <2>1. \A q \in Run \ {r} :
              rows'[q] = rows[q] /\ inserted'[q] = inserted[q] /\ executed'[q] = executed[q]
        BY <1>1, <1>7 DEF IInv, TypeOK
    <2> QED BY <1>1, <1>7, <1>8, <2>1, MoveKeeps
<1>10. TypeOK'
    <2>1. rows' \in [Run -> Seq(LedgerRow)] /\ inserted' \in [Run -> Seq(LedgerRow)]
        <3>1. rows \in [Run -> Seq(LedgerRow)] /\ inserted \in [Run -> Seq(LedgerRow)]
            BY DEF IInv, TypeOK
        <3> QED BY <1>6, <1>7, <3>1
    <2> QED BY <1>1, <1>7, <2>1 DEF IInv, TypeOK, config, store
<1>11. LockInv'
    <2>1. Turn' = Turn
        BY <1>1 DEF Turn, config
    <2>2. \A q \in Run \ {r} : inserted'[q] = inserted[q]
        BY <1>7 DEF IInv, TypeOK
    <2>3. \A q \in Run : /\ at'[q] = at[q] /\ holds'[q] = holds[q] /\ created'[q] = created[q]
                         /\ executed'[q] = executed[q] /\ postgres' = postgres
        BY <1>1, <1>7 DEF config
    <2> QED BY <1>1, <1>2, <2>1, <2>2, <2>3 DEF IInv, LockInv, Placed
<1>12. DoneInv' /\ NoCollision'
    BY <1>1, <1>7, NotDone
<1> QED BY <1>9, <1>10, <1>11, <1>12 DEF IInv

(* Once the legacy rows are copied, the rows of the run tell the past. *)
LEMMA CopiedIs ==
    ASSUME IInv, NEW r \in Run, at[r] = "copy", Len(rows[r]) >= Len(Source(r))
    PROVE  Scripts(rows[r]) = history[migrator[r].namespace]
<1> DEFINE m      == migrator[r]
           n      == m.namespace
           list   == ByVersion(ledger[n])
           s      == rows[r]
           ins    == inserted[r]
           source == Source(r)
           now    == Scripts(list)
           old    == Scripts(legacy[n])
<1>1. /\ m \in Migrators /\ n \in Namespace /\ s \in Seq(LedgerRow) /\ ins \in Seq(LedgerRow)
      /\ list \in Seq(LedgerRow) /\ Len(list) \in Nat /\ Len(s) \in Nat /\ Len(ins) \in Nat
      /\ source \in Seq(LedgerRow) /\ Len(source) \in Nat
      /\ legacy[n] \in Seq(LedgerRow) /\ Len(legacy[n]) \in Nat
    BY RunTyped, SourceTyped, RowsTyped
<1>2. /\ list \o ins = s /\ \A i \in 1..Len(s) : i <= Len(source) => s[i] = source[i]
      /\ Len(list) = Len(s) \/ Len(s) <= Len(source)
    BY CopyingIs
<1>3. Len(s) >= Len(source)
    OBVIOUS
<1>4. source = IF m.adopts THEN legacy[n] ELSE <<>>
    BY DEF Source
<1>5. history[n] = Longer(now, old)
    BY <1>1 DEF IInv, LedgerTellsHistory, Now, Old
<1>6. Len(old) > Len(now) => m.adopts
    BY <1>1 DEF IInv, LedgerInv, Now, Old
<1>7. Len(now) = Len(list) /\ Len(old) = Len(legacy[n])
    BY <1>1, ScriptsTyped
<1>8. Len(list) <= Len(s) /\ (Len(list) = Len(s) => s = list)
    <2> HIDE DEF list, s, ins
    <2>1. /\ Len(s) = Len(list) + Len(ins)
          /\ \A i \in 1..(Len(list) + Len(ins)) : s[i] = IF i <= Len(list) THEN list[i] ELSE ins[i - Len(list)]
        BY <1>1, <1>2, ConcatProperties
    <2>2. Len(list) <= Len(s) /\ \A i \in 1..Len(list) : s[i] = list[i]
        BY <1>1, <2>1
    <2> QED BY <1>1, <2>2, SeqEqual
<1> HIDE DEF m, n, list, s, ins, source, now, old
<1>9. CASE Len(old) > Len(now)
    <2>1. source = legacy[n] /\ history[n] = old
        BY <1>4, <1>5, <1>6, <1>9 DEF Longer
    <2>2. Len(s) = Len(source)
        BY <1>1, <1>2, <1>3, <1>7, <1>9, <2>1
    <2>3. \A i \in 1..Len(s) : s[i] = source[i]
        BY <1>1, <1>2, <2>2
    <2>4. s = legacy[n]
        BY <1>1, <2>1, <2>2, <2>3, SeqEqual
    <2> QED BY <2>1, <2>4 DEF old, n, s, m
<1>10. CASE ~(Len(old) > Len(now))
    <2>1. history[n] = now
        BY <1>5, <1>10 DEF Longer
    <2>2. Len(source) <= Len(list)
        <3>1. CASE m.adopts
            BY <1>1, <1>4, <1>7, <1>10, <3>1
        <3>2. CASE ~m.adopts
            <4>1. Len(source) = 0
                BY <1>4, <3>2
            <4> QED BY <1>1, <4>1
        <3> QED BY <3>1, <3>2
    <2>3. s = list
        BY <1>1, <1>2, <1>8, <2>2
    <2> QED BY <2>1, <2>3 DEF now, n, s, m
<1> QED BY <1>9, <1>10

(* A run that passes the check of the minimum continues with the whole past. *)
LEMMA CheckMinimumKeeps ==
    ASSUME IInv, NEW r \in Run, CheckMinimum(r)
    PROVE  IInv'
<1> DEFINE m    == migrator[r]
           n    == m.namespace
           list == ByVersion(ledger[n])
           s    == rows[r]
           ins  == inserted[r]
<1>1. /\ at[r] = "copy" /\ Len(s) >= Len(Source(r)) /\ UNCHANGED <<config, rows, session, store>>
      /\ \/ at' = [at EXCEPT ![r] = "abort"] /\ result' = [result EXCEPT ![r] = "too_old"]
         \/ at' = [at EXCEPT ![r] = "script"] /\ UNCHANGED result
    BY DEF CheckMinimum, Refuse
<1>2. "too_old" \in Refusal /\ "too_old" # "collision"
    BY DEF Refusal
<1>3. Works(r)'
    <2>1. /\ migrator'[r] = m /\ ByVersion(ledger'[n]) = list /\ Source(r)' = Source(r) /\ history'[n] = history[n]
          /\ rows'[r] = s /\ inserted'[r] = ins /\ executed'[r] = <<>> /\ at'[r] \in {"script", "abort"}
        BY <1>1, CopyingIs DEF IInv, TypeOK, Source, config, store, session
    <2>2. /\ s \in Seq(LedgerRow) /\ ins \in Seq(LedgerRow) /\ list \in Seq(LedgerRow) /\ Len(s) \in Nat
        BY RunTyped
    <2>3. list \o ins = s /\ Follows(m, s)
        BY <1>1, CopyingIs
    <2>4. Scripts(s) = history[n]
        BY <1>1, CopiedIs
    <2> HIDE DEF m, n, list, s, ins
    <2>5. s \o Recorded(<<>>) = s /\ Len(s) + Len(<<>>) = Len(s) /\ Len(s) <= Len(m.list)
        <3>1. Recorded(<<>>) = <<>>
            BY DEF Recorded
        <3> QED BY <2>2, <2>3, <3>1, ConcatEmptySeq DEF Follows
    <2>6. IsPrefix(list, s)
        BY <2>2, <2>3, ConcatPrefix
    <2>7. \A place \in {"script", "abort"} : AtWork(m, list, Source(r), history[n], place, s, ins, <<>>)
        BY <2>3, <2>4, <2>5, <2>6 DEF AtWork
    <2>8. AtWork(m, list, Source(r), history[n], at'[r], rows'[r], inserted'[r], executed'[r])
        BY <2>1, <2>7
    <2> QED BY <2>1, <2>8, WorksIs DEF n
<1>4. LedgerInv' /\ LedgerTellsHistory' /\ WorkInv'
    <2>1. \A q \in Run \ {r} :
              rows'[q] = rows[q] /\ inserted'[q] = inserted[q] /\ executed'[q] = executed[q]
        BY <1>1 DEF session
    <2> QED BY <1>1, <1>3, <2>1, MoveKeeps
<1>5. TypeOK'
    <2>1. /\ at' \in [Run -> Place] /\ result' \in [Run -> Result]
          /\ \A q \in Run : result'[q] # "none" <=> at'[q] \in {"abort", "orphan", "adrift", "end"}
        <3>1. CASE at' = [at EXCEPT ![r] = "abort"] /\ result' = [result EXCEPT ![r] = "too_old"]
            BY <1>2, <3>1, RefusedTyped
        <3>2. CASE at' = [at EXCEPT ![r] = "script"] /\ UNCHANGED result
            BY <1>1, <3>2 DEF IInv, TypeOK
        <3> QED BY <1>1, <3>1, <3>2
    <2> QED BY <1>1, <2>1 DEF IInv, TypeOK, config, store, session
<1>6. LockInv'
    BY <1>1 DEF IInv, TypeOK, LockInv, Placed, Turn, config, session
<1>7. DoneInv' /\ NoCollision'
    BY <1>1, <1>2, NotDone
<1> QED BY <1>4, <1>5, <1>6, <1>7 DEF IInv

(* What a run under way has written so far, as the provers use it. *)
LEMMA WorkingIs ==
    ASSUME IInv, NEW r \in Run, at[r] \in {"script", "record", "commit", "adrift"}
    PROVE  LET m     == migrator[r]
               list  == ByVersion(ledger[m.namespace])
               count == Len(rows[r]) + Len(executed[r])
               wrote == rows[r] \o Recorded(executed[r])
           IN  /\ Turn \in holds[r]
               /\ IsPrefix(list, rows[r]) /\ Scripts(rows[r]) = history[m.namespace]
               /\ count \in 0..Len(m.list) /\ Follows(m, wrote)
               /\ wrote \in Seq(LedgerRow) /\ Len(wrote) = count /\ Ascending(wrote)
               /\ list \o inserted[r] = IF at[r] = "record" THEN Front(wrote) ELSE wrote
               /\ at[r] = "record" => executed[r] # <<>>
<1>1. Turn \in holds[r]
    BY DEF IInv, LockInv, Placed
<1>2. Works(r)
    BY DEF IInv, WorkInv
<1>3. rows[r] \o Recorded(executed[r]) \in Seq(LedgerRow)
      /\ Len(rows[r] \o Recorded(executed[r])) = Len(rows[r]) + Len(executed[r])
    BY RunTyped, WroteIs
<1>4. Follows(migrator[r], rows[r] \o Recorded(executed[r]))
    BY <1>2 DEF Works
<1>5. Ascending(rows[r] \o Recorded(executed[r]))
    BY <1>3, <1>4, RunTyped, FollowsAscends
<1>6. Len(rows[r]) + Len(executed[r]) \in 0..Len(migrator[r].list)
    <2>1. Len(rows[r]) \in Nat /\ Len(executed[r]) \in Nat /\ Len(migrator[r].list) \in Nat
        BY RunTyped
    <2>2. Len(rows[r]) + Len(executed[r]) <= Len(migrator[r].list)
        BY <1>2 DEF Works
    <2> QED BY <2>1, <2>2, SumWithin
<1> QED BY <1>1, <1>2, <1>3, <1>5, <1>6 DEF Works

(* The next script is the next migration of the list; without one, every    *)
(* version up to the target is among the rows.                              *)
LEMMA RunScriptKeeps ==
    ASSUME IInv, NEW r \in Run, RunScript(r)
    PROVE  IInv'
<1> DEFINE m       == migrator[r]
           n       == m.namespace
           list    == ByVersion(ledger[n])
           s       == rows[r]
           e       == executed[r]
           wrote   == s \o Recorded(e)
           pending == Pending(m, Len(s))
           next    == pending[Len(e) + 1]
<1>1. /\ at[r] = "script" /\ UNCHANGED <<config, rows, holds, created, inserted, result, store>>
      /\ \/ /\ Len(e) < Len(pending) /\ executed' = [executed EXCEPT ![r] = Append(e, next)]
            /\ at' = [at EXCEPT ![r] = "record"]
         \/ ~(Len(e) < Len(pending)) /\ at' = [at EXCEPT ![r] = "commit"] /\ UNCHANGED executed
    BY DEF RunScript
<1>2. /\ Turn \in holds[r] /\ IsPrefix(list, s) /\ Scripts(s) = history[n]
      /\ Len(s) + Len(e) <= Len(m.list) /\ Follows(m, wrote)
      /\ wrote \in Seq(LedgerRow) /\ Len(wrote) = Len(s) + Len(e) /\ list \o inserted[r] = wrote
    BY <1>1, WorkingIs DEF IInv, WorkInv, Works
<1>3. /\ m \in Migrators /\ Ordered(m.list) /\ s \in Seq(LedgerRow) /\ e \in Seq(Migration)
      /\ Len(s) \in Nat /\ Len(e) \in Nat /\ Len(m.list) \in Nat
      /\ \A i \in 1..Len(m.list) : m.list[i] \in Migration
    BY RunTyped, ListTyped
<1>4. /\ Len(pending) \in Nat /\ Len(s) + Len(pending) <= Len(m.list)
      /\ \A i \in 1..Len(pending) : pending[i] = m.list[Len(s) + i]
      /\ \A i \in DOMAIN m.list : m.list[i].version <= m.target => i <= Len(s) + Len(pending)
    <2>1. Len(s) \in 0..Len(m.list)
        <3> HIDE DEF s, e, m
        <3> QED BY <1>2, <1>3
    <2> QED BY <1>3, <2>1, PendingIs
<1>5. /\ migrator'[r] = m /\ ByVersion(ledger'[n]) = list /\ rows'[r] = s /\ inserted'[r] = inserted[r]
      /\ Source(r)' = Source(r) /\ history'[n] = history[n]
    BY <1>1 DEF Source, config, store
<1> HIDE DEF m, n, list, s, e, wrote, pending
<1>6. LockInv'
    <2>1. Turn' = Turn
        BY <1>1 DEF Turn, config
    <2>2. at'[r] \in {"record", "commit"} /\ \A q \in Run \ {r} : at'[q] = at[q] /\ executed'[q] = executed[q]
        BY <1>1 DEF IInv, TypeOK
    <2>3. \A q \in Run : holds'[q] = holds[q] /\ created'[q] = created[q] /\ inserted'[q] = inserted[q] /\ postgres' = postgres
        BY <1>1 DEF config
    <2> QED BY <1>1, <1>2, <2>1, <2>2, <2>3 DEF IInv, LockInv, Placed
<1>7. DoneInv' /\ NoCollision'
    BY <1>1, NotDone
<1>8. CASE Len(e) < Len(pending)
    <2>1. /\ at' = [at EXCEPT ![r] = "record"] /\ at'[r] = "record"
          /\ executed' = [executed EXCEPT ![r] = Append(e, next)] /\ executed'[r] = Append(e, next)
        BY <1>1, <1>8 DEF IInv, TypeOK
    <2>2. Len(e) + 1 \in 1..Len(pending) /\ Len(s) + (Len(e) + 1) \in 1..Len(m.list)
        BY <1>3, <1>4, <1>8
    <2>3. next = m.list[Len(s) + (Len(e) + 1)] /\ next \in Migration
        BY <1>3, <1>4, <2>2
    <2> HIDE DEF next
    <2>4. /\ Row(next, "now") \in LedgerRow /\ Script(Row(next, "now")) = next
          /\ s \o Recorded(Append(e, next)) = Append(wrote, Row(next, "now"))
        BY <1>3, <2>3, WroteAppend DEF wrote
    <2>5. Len(wrote) + 1 = Len(s) + (Len(e) + 1) /\ Len(wrote) + 1 <= Len(m.list)
        BY <1>2, <1>3, <2>2
    <2> DEFINE more == s \o Recorded(Append(e, next))
    <2>6. Follows(m, more) /\ Front(more) = wrote
        <3> QED BY <1>2, <1>3, <2>3, <2>4, <2>5, FollowsAppend, FrontOfAppend
    <2>7. Append(e, next) \in Seq(Migration) /\ Append(e, next) # <<>> /\ Len(s) + Len(Append(e, next)) <= Len(m.list)
        BY <1>3, <2>2, <2>3, AppendProperties
    <2>8. Works(r)'
        <3>1. AtWork(m, list, Source(r), history[n], "record", s, inserted[r], Append(e, next))
            BY <1>2, <2>6, <2>7 DEF AtWork
        <3>2. AtWork(m, list, Source(r), history[n], at'[r], rows'[r], inserted'[r], executed'[r])
            BY <1>5, <2>1, <3>1 DEF e
        <3> QED BY <1>5, <3>2, WorksIs DEF n
    <2>9. LedgerInv' /\ LedgerTellsHistory' /\ WorkInv'
        <3>1. \A q \in Run \ {r} :
                  rows'[q] = rows[q] /\ inserted'[q] = inserted[q] /\ executed'[q] = executed[q]
            BY <1>1, <2>1 DEF IInv, TypeOK
        <3> QED BY <1>1, <2>1, <2>8, <3>1, MoveKeeps
    <2>10. TypeOK'
        <3>1. executed' \in [Run -> Seq(Migration)]
            <4>1. executed \in [Run -> Seq(Migration)]
                BY DEF IInv, TypeOK
            <4> QED BY <2>1, <2>7, <4>1
        <3>2. at' \in [Run -> Place] /\ \A q \in Run : result'[q] # "none" <=> at'[q] \in {"abort", "orphan", "adrift", "end"}
            BY <1>1, <2>1 DEF IInv, TypeOK
        <3> QED BY <1>1, <3>1, <3>2 DEF IInv, TypeOK, config, store
    <2> QED BY <1>6, <1>7, <2>9, <2>10 DEF IInv
<1>9. CASE ~(Len(e) < Len(pending))
    <2>1. at' = [at EXCEPT ![r] = "commit"] /\ at'[r] = "commit" /\ UNCHANGED executed
        BY <1>1, <1>9 DEF IInv, TypeOK
    <2>2. \A i \in DOMAIN m.list : m.list[i].version <= m.target => i <= Len(s) + Len(e)
        <3>1. DOMAIN m.list = 1..Len(m.list)
            BY RunTyped DEF m
        <3> QED BY <1>3, <1>4, <1>9, <3>1
    <2>3. Works(r)'
        <3>1. AtWork(m, list, Source(r), history[n], "commit", s, inserted[r], e)
            BY <1>2, <2>2 DEF AtWork, wrote
        <3>2. AtWork(m, list, Source(r), history[n], at'[r], rows'[r], inserted'[r], executed'[r])
            BY <1>5, <2>1, <3>1 DEF e
        <3> QED BY <1>5, <3>2, WorksIs DEF n
    <2>4. LedgerInv' /\ LedgerTellsHistory' /\ WorkInv'
        BY <1>1, <2>1, <2>3, MoveKeeps
    <2>5. TypeOK'
        BY <1>1, <2>1 DEF IInv, TypeOK, config, store
    <2> QED BY <1>6, <1>7, <2>4, <2>5 DEF IInv
<1> QED BY <1>8, <1>9

(* The row of the script that was just run is the next one of the ledger:   *)
(* nobody else's row is in its way.                                         *)
LEMMA RecordKeeps ==
    ASSUME IInv, NEW r \in Run, Record(r)
    PROVE  IInv'
<1> DEFINE m     == migrator[r]
           n     == m.namespace
           list  == ByVersion(ledger[n])
           s     == rows[r]
           e     == executed[r]
           ins   == inserted[r]
           wrote == s \o Recorded(e)
           row   == Row(Last(e), "now")
<1>1. /\ at[r] = "record" /\ UNCHANGED <<config, rows, holds, created, executed, store>>
      /\ \/ Collides(r, row)
         \/ /\ inserted' = [inserted EXCEPT ![r] = Append(ins, row)]
            /\ at' = [at EXCEPT ![r] = "script"] /\ UNCHANGED result
    BY DEF Record
<1>2. /\ Turn \in holds[r] /\ IsPrefix(list, s) /\ Scripts(s) = history[n]
      /\ Len(s) + Len(e) <= Len(m.list) /\ Follows(m, wrote) /\ Ascending(wrote)
      /\ wrote \in Seq(LedgerRow) /\ list \o ins = Front(wrote) /\ e # <<>>
    BY <1>1, WorkingIs DEF IInv, WorkInv, Works
<1>3. /\ m \in Migrators /\ s \in Seq(LedgerRow) /\ e \in Seq(Migration) /\ ins \in Seq(LedgerRow)
      /\ list \in Seq(LedgerRow) /\ ToSet(list) = ledger[n]
    BY RunTyped
<1>4. row \in LedgerRow /\ list \o ins \in Seq(LedgerRow) /\ wrote = Append(list \o ins, row)
    <2>1. PICK f \in Seq(Migration), x \in Migration : e = Append(f, x)
        <3>1. e \in Seq(Migration) /\ e # <<>>
            BY <1>2, <1>3
        <3> QED BY <3>1, SequenceEmptyOrAppend
    <2>2. Last(e) = x
        BY <2>1, FrontOfAppend
    <2>3. s \o Recorded(f) \in Seq(LedgerRow)
        BY <1>3, <2>1, WroteIs
    <2>4. Row(x, "now") \in LedgerRow /\ wrote = Append(s \o Recorded(f), Row(x, "now"))
        <3> HIDE DEF s, e
        <3> QED BY <1>3, <2>1, WroteAppend
    <2>5. Front(wrote) = s \o Recorded(f)
        BY <2>3, <2>4, FrontOfAppend
    <2> QED BY <1>2, <2>2, <2>3, <2>4, <2>5
<1>5. list \o Append(ins, row) = wrote /\ Append(ins, row) \in Seq(LedgerRow)
    <2> HIDE DEF row, list, ins, wrote
    <2> QED BY <1>3, <1>4, ConcatAppend, AppendProperties
<1>6. ~Collides(r, row)
    <2> HIDE DEF row, wrote
    <2> QED BY <1>2, <1>4, FreshRow
<1>7. /\ inserted' = [inserted EXCEPT ![r] = Append(ins, row)] /\ inserted'[r] = Append(ins, row)
      /\ at' = [at EXCEPT ![r] = "script"] /\ at'[r] = "script" /\ UNCHANGED result
    BY <1>1, <1>6 DEF IInv, TypeOK
<1>8. /\ migrator'[r] = m /\ ByVersion(ledger'[n]) = list /\ rows'[r] = s /\ executed'[r] = e
      /\ Source(r)' = Source(r) /\ history'[n] = history[n]
    BY <1>1 DEF Source, config, store
<1> HIDE DEF m, n, list, s, e, ins, wrote, row
<1>9. Works(r)'
    <2>1. AtWork(m, list, Source(r), history[n], "script", s, Append(ins, row), e)
        BY <1>2, <1>5 DEF AtWork, wrote
    <2>2. AtWork(m, list, Source(r), history[n], at'[r], rows'[r], inserted'[r], executed'[r])
        BY <1>7, <1>8, <2>1
    <2> QED BY <1>8, <2>2, WorksIs DEF n
<1>10. LedgerInv' /\ LedgerTellsHistory' /\ WorkInv'
    <2>1. \A q \in Run \ {r} :
              rows'[q] = rows[q] /\ inserted'[q] = inserted[q] /\ executed'[q] = executed[q]
        BY <1>1, <1>7 DEF IInv, TypeOK
    <2> QED BY <1>1, <1>7, <1>9, <2>1, MoveKeeps
<1>11. TypeOK'
    <2>1. inserted' \in [Run -> Seq(LedgerRow)]
        <3>1. inserted \in [Run -> Seq(LedgerRow)]
            BY DEF IInv, TypeOK
        <3> QED BY <1>5, <1>7, <3>1
    <2>2. at' \in [Run -> Place] /\ \A q \in Run : result'[q] # "none" <=> at'[q] \in {"abort", "orphan", "adrift", "end"}
        BY <1>1, <1>7 DEF IInv, TypeOK
    <2> QED BY <1>1, <1>7, <2>1, <2>2 DEF IInv, TypeOK, config, store
<1>12. LockInv'
    <2>1. Turn' = Turn
        BY <1>1 DEF Turn, config
    <2>2. \A q \in Run \ {r} : at'[q] = at[q] /\ inserted'[q] = inserted[q]
        BY <1>7 DEF IInv, TypeOK
    <2>3. \A q \in Run : holds'[q] = holds[q] /\ created'[q] = created[q] /\ executed'[q] = executed[q] /\ postgres' = postgres
        BY <1>1 DEF config
    <2> QED BY <1>1, <1>2, <1>7, <2>1, <2>2, <2>3 DEF IInv, LockInv, Placed
<1>13. DoneInv' /\ NoCollision'
    BY <1>1, <1>7, NotDone
<1> QED BY <1>10, <1>11, <1>12, <1>13 DEF IInv

-----------------------------------------------------------------------------
(* The commit.                                                              *)

(* If the rows of a run tell the effects, then its rows and those of its    *)
(* scripts tell the effects together with its scripts.                      *)
LEMMA EffectsGrow ==
    ASSUME NEW e \in Seq(Migration), NEW s \in Seq(LedgerRow)
    PROVE  Scripts(s) \o e = Scripts(s \o Recorded(e))
<1> DEFINE h     == Scripts(s)
           u     == h \o e
           wrote == s \o Recorded(e)
           all   == Scripts(wrote)
<1>1. /\ h \in Seq(Migration) /\ Len(h) = Len(s) /\ \A i \in 1..Len(s) : h[i] = Script(s[i])
      /\ Len(s) \in Nat /\ Len(e) \in Nat
    BY ScriptsTyped, RowsTyped, ListTyped
<1>2. /\ wrote \in Seq(LedgerRow) /\ Len(wrote) = Len(s) + Len(e)
      /\ \A i \in 1..Len(s) : wrote[i] = s[i]
      /\ \A i \in 1..Len(e) : Script(wrote[Len(s) + i]) = e[i]
    BY WroteIs
<1> HIDE DEF h, wrote
<1>3. /\ u \in Seq(Migration) /\ Len(u) = Len(s) + Len(e)
      /\ \A i \in 1..(Len(s) + Len(e)) : u[i] = IF i <= Len(s) THEN h[i] ELSE e[i - Len(s)]
    <2>1. /\ u \in Seq(Migration) /\ Len(u) = Len(h) + Len(e)
          /\ \A i \in 1..(Len(h) + Len(e)) : u[i] = IF i <= Len(h) THEN h[i] ELSE e[i - Len(h)]
        <3>1. h \in Seq(Migration)
            BY <1>1
        <3> QED BY <3>1, ConcatProperties
    <2> HIDE DEF u
    <2> QED BY <1>1, <2>1
<1>4. /\ all \in Seq(Migration) /\ Len(all) = Len(s) + Len(e)
      /\ \A i \in 1..(Len(s) + Len(e)) : all[i] = Script(wrote[i])
    BY <1>2, ScriptsTyped
<1> HIDE DEF u, all
<1>5. ASSUME NEW i \in 1..(Len(s) + Len(e))
      PROVE  u[i] = all[i]
    <2>1. CASE i <= Len(s)
        <3>1. i \in 1..Len(s)
            BY <1>1, <2>1
        <3>2. u[i] = h[i] /\ all[i] = Script(wrote[i])
            BY <1>3, <1>4, <2>1
        <3> QED BY <1>1, <1>2, <3>1, <3>2
    <2>2. CASE ~(i <= Len(s))
        <3>1. i - Len(s) \in 1..Len(e) /\ Len(s) + (i - Len(s)) = i
            BY <1>1, <2>2
        <3>2. Script(wrote[Len(s) + (i - Len(s))]) = e[i - Len(s)]
            BY <1>2, <3>1
        <3> QED BY <1>3, <1>4, <2>2, <3>1, <3>2
    <2> QED BY <2>1, <2>2
<1>6. u = all
    BY <1>3, <1>4, <1>5, SeqEqual
<1> QED BY <1>6 DEF u, h, all, wrote

(* The rows that a run committed are the listing of the ledger from then    *)
(* on, and an earlier listing is a prefix of it.                            *)
LEMMA CommitKeeps ==
    ASSUME IInv, NEW r \in Run, Commit(r)
    PROVE  IInv'
<1> DEFINE m     == migrator[r]
           n     == m.namespace
           list  == ByVersion(ledger[n])
           s     == rows[r]
           e     == executed[r]
           ins   == inserted[r]
           h     == history[n]
           wrote == s \o Recorded(e)
           place == IF at[r] = "commit" THEN "answer" ELSE "end"
<1>1. /\ at[r] \in {"commit", "adrift"} /\ EndSession(r) /\ at' = [at EXCEPT ![r] = place]
      /\ table' = (table \/ created[r]) /\ ledger' = [ledger EXCEPT ![n] = ledger[n] \cup ToSet(ins)]
      /\ history' = [history EXCEPT ![n] = h \o e]
      /\ authors' \subseteq authors \cup {r} /\ UNCHANGED <<config, rows, result, legacy>>
    BY DEF Commit, MakeDurable
<1>2. /\ Turn \in holds[r] /\ IsPrefix(list, s) /\ Scripts(s) = history[n]
      /\ Len(s) + Len(e) <= Len(m.list) /\ Follows(m, wrote) /\ Ascending(wrote)
      /\ wrote \in Seq(LedgerRow) /\ Len(wrote) = Len(s) + Len(e) /\ list \o ins = wrote
      /\ \A i \in DOMAIN m.list : m.list[i].version <= m.target => i <= Len(s) + Len(e)
    <2>1. at[r] # "record"
        BY <1>1
    <2>2. Works(r)
        BY DEF IInv, WorkInv
    <2>3. \A i \in DOMAIN m.list : m.list[i].version <= m.target => i <= Len(s) + Len(e)
        BY <1>1, <2>2 DEF Works
    <2>4. Len(s) + Len(e) <= Len(m.list) /\ Follows(m, wrote)
        BY <1>1, <2>2 DEF Works
    <2> QED BY <1>1, <2>1, <2>3, <2>4, WorkingIs
<1>3. /\ m \in Migrators /\ n \in Namespace /\ s \in Seq(LedgerRow) /\ e \in Seq(Migration) /\ ins \in Seq(LedgerRow)
      /\ list \in Seq(LedgerRow) /\ ToSet(list) = ledger[n] /\ legacy[n] \in Seq(LedgerRow)
      /\ Len(s) \in Nat /\ Len(e) \in Nat /\ DOMAIN m.list = 1..Len(m.list) /\ Len(m.list) \in Nat
    BY RunTyped
<1>4. h \in Seq(Migration)
    BY <1>3 DEF IInv, TypeOK
<1>5. /\ ledger'[n] = ToSet(wrote) /\ ByVersion(ledger'[n]) = wrote
      /\ \A k \in Namespace \ {n} : ledger'[k] = ledger[k]
    <2>1. ToSet(wrote) = ledger[n] \cup ToSet(ins)
        <3>1. ToSet(list \o ins) = ToSet(list) \cup ToSet(ins)
            BY <1>3, SetOfConcat
        <3> QED BY <1>2, <1>3, <3>1
    <2>2. ledger'[n] = ToSet(wrote) /\ \A k \in Namespace \ {n} : ledger'[k] = ledger[k]
        BY <1>1, <1>3, <2>1 DEF IInv, TypeOK
    <2> QED BY <1>2, <2>2, ListingIs
<1>6. history'[n] = Scripts(wrote) /\ \A k \in Namespace \ {n} : history'[k] = history[k]
    <2>1. history'[n] = h \o e /\ \A k \in Namespace \ {n} : history'[k] = history[k]
        BY <1>1, <1>3 DEF IInv, TypeOK
    <2>2. h = Scripts(s)
        BY <1>2
    <2> HIDE DEF h, s, e
    <2>3. Scripts(s) \o e = Scripts(s \o Recorded(e))
        BY <1>3, EffectsGrow
    <2> QED BY <2>1, <2>2, <2>3
<1> DEFINE now == Scripts(list)
           old == Scripts(legacy[n])
           eff == Scripts(s)
           all == Scripts(wrote)
<1>7. /\ now \in Seq(Migration) /\ old \in Seq(Migration) /\ eff \in Seq(Migration) /\ all \in Seq(Migration)
      /\ Len(now) \in Nat /\ Len(old) \in Nat /\ Len(eff) = Len(s) /\ Len(all) = Len(s) + Len(e)
      /\ \A i \in 1..Len(s) : all[i] = eff[i]
      /\ \A i \in 1..(Len(s) + Len(e)) : all[i] = m.list[i]
    <2>1. /\ now \in Seq(Migration) /\ old \in Seq(Migration) /\ eff \in Seq(Migration) /\ all \in Seq(Migration)
          /\ Len(eff) = Len(s) /\ Len(all) = Len(s) + Len(e)
          /\ \A i \in 1..Len(s) : eff[i] = Script(s[i])
          /\ \A i \in 1..(Len(s) + Len(e)) : all[i] = Script(wrote[i])
        BY <1>2, <1>3, ScriptsTyped
    <2>2. Len(now) \in Nat /\ Len(old) \in Nat
        BY <2>1, LenProperties
    <2>3. \A i \in 1..Len(s) : wrote[i] = s[i] /\ i \in 1..(Len(s) + Len(e))
        <3>1. \A i \in 1..Len(s) : wrote[i] = s[i]
            BY <1>3, WroteIs
        <3> HIDE DEF s, e, wrote
        <3> QED BY <1>3, <3>1
    <2>4. \A i \in 1..(Len(s) + Len(e)) : Script(wrote[i]) = m.list[i]
        BY <1>2 DEF Follows
    <2> HIDE DEF now, old, eff, all, s, wrote, e
    <2> QED BY <2>1, <2>2, <2>3, <2>4
<1>8. IsPrefix(now, eff) /\ IsPrefix(old, eff) /\ eff = history[n]
    BY <1>2, <1>3 DEF IInv, LedgerTellsHistory, Now, Old
<1>9. migrator' = migrator /\ legacy' = legacy /\ rows' = rows /\ result' = result
    BY <1>1 DEF config
<1>10. at'[r] \in {"answer", "end"} /\ \A q \in Run \ {r} : at'[q] = at[q]
    BY <1>1 DEF IInv, TypeOK
<1>11. \A q \in Run \ {r} : at[q] \notin {"keyed", "locked", "read", "adopt", "copy", "script", "record", "commit", "adrift"}
    BY <1>2, Alone
<1> HIDE DEF m, n, list, s, e, ins, h, wrote, now, old, eff, all
<1>12. IsPrefix(eff, all) /\ IsPrefix(now, all) /\ IsPrefix(old, all) /\ Len(old) <= Len(all)
    <2>1. Len(eff) <= Len(all) /\ \A i \in 1..Len(eff) : eff[i] = all[i]
        BY <1>3, <1>7
    <2>2. /\ Len(now) <= Len(eff) /\ \A i \in 1..Len(now) : now[i] = eff[i]
          /\ Len(old) <= Len(eff) /\ \A i \in 1..Len(old) : old[i] = eff[i]
        BY <1>7, <1>8, PrefixIs
    <2>3. Len(now) <= Len(all) /\ \A i \in 1..Len(now) : now[i] = all[i]
        BY <1>3, <1>7, <2>1, <2>2
    <2>4. Len(old) <= Len(all) /\ \A i \in 1..Len(old) : old[i] = all[i]
        BY <1>3, <1>7, <2>1, <2>2
    <2> QED BY <1>7, <2>1, <2>3, <2>4, PrefixIs
<1>13. ASSUME NEW k \in Namespace, k # n
       PROVE  Now(k)' = Now(k) /\ Old(k)' = Old(k) /\ history'[k] = history[k]
    BY <1>5, <1>6, <1>9, <1>13 DEF Now, Old
<1>14. LedgerTellsHistory'
    <2> SUFFICES ASSUME NEW k \in Namespace
                 PROVE  /\ history'[k] = Longer(Now(k)', Old(k)')
                        /\ IsPrefix(Now(k)', history'[k]) /\ IsPrefix(Old(k)', history'[k])
        BY DEF LedgerTellsHistory
    <2>1. CASE k # n
        BY <1>13, <2>1 DEF IInv, LedgerTellsHistory
    <2>2. CASE k = n
        <3>1. Now(k)' = all /\ Old(k)' = old /\ history'[k] = all
            BY <1>5, <1>6, <1>9, <2>2 DEF Now, Old, old, all
        <3>2. Longer(all, old) = all
            BY <1>3, <1>7, <1>12 DEF Longer
        <3>3. IsPrefix(all, all)
            BY <1>7, PrefixIs, LenProperties
        <3> QED BY <1>12, <3>1, <3>2, <3>3
    <2> QED BY <2>1, <2>2
<1>15. LedgerInv'
    <2> SUFFICES ASSUME NEW k \in Namespace
                 PROVE  /\ ByVersion(ledger'[k]) \in Seq(LedgerRow) /\ Ascending(ByVersion(ledger'[k]))
                        /\ ToSet(ByVersion(ledger'[k])) = ledger'[k]
                        /\ Len(Old(k)') > Len(Now(k)') =>
                             \A q \in Run : migrator'[q].namespace = k => migrator'[q].adopts
        BY DEF LedgerInv
    <2>1. CASE k # n
        BY <1>5, <1>9, <1>13, <2>1 DEF IInv, LedgerInv
    <2>2. CASE k = n
        <3>1. Now(k)' = all /\ Old(k)' = old
            BY <1>5, <1>9, <2>2 DEF Now, Old, old, all
        <3>2. ~(Len(old) > Len(all))
            BY <1>3, <1>7, <1>12
        <3> QED BY <1>2, <1>5, <2>2, <3>1, <3>2
    <2> QED BY <2>1, <2>2
<1>16. WorkInv'
    <2>1. \A q \in Run : Works(q)'
        BY <1>10, <1>11 DEF Works
    <2> QED BY <1>9, <2>1 DEF IInv, WorkInv
<1>17. ASSUME NEW q \in Run
       PROVE  (Migrated(migrator[q]) => Migrated(migrator[q])') /\ (q \in authors' => q \in authors \/ q = r)
    <2> DEFINE w == migrator[q]
    <2>1. w \in Migrators /\ w.namespace \in Namespace
        BY RunTyped
    <2>2. CASE w.namespace # n
        <3>1. /\ ledger'[w.namespace] = ledger[w.namespace] /\ history'[w.namespace] = history[w.namespace]
            BY <1>5, <1>6, <2>1, <2>2
        <3> QED BY <1>1, <1>9, <3>1 DEF Migrated, Now
    <2>3. CASE w.namespace = n
        <3>1. Scripts(ByVersion(ledger[n])) = now /\ Scripts(ByVersion(ledger'[n])) = all
            BY <1>5 DEF now, list, all
        <3>2. \A i \in 1..Len(now) : i <= Len(all) /\ all[i] = now[i]
            <4>1. Len(now) <= Len(all) /\ \A i \in 1..Len(now) : now[i] = all[i]
                BY <1>7, <1>12, PrefixIs
            <4> QED BY <1>3, <1>7, <4>1
        <3>3. DOMAIN w.list = 1..Len(w.list) /\ Len(w.list) \in Nat
            BY RunTyped
        <3>4. Migrated(w) => Migrated(w)'
            <4> SUFFICES ASSUME Migrated(w), NEW i \in DOMAIN w.list, w.list[i].version <= w.target
                         PROVE  i <= Len(all) /\ all[i] = w.list[i]
                BY <1>9, <2>3, <3>1 DEF Migrated, Now
            <4>1. i <= Len(now) /\ now[i] = w.list[i]
                BY <2>3, <3>1 DEF Migrated, Now
            <4>2. i \in 1..Len(now)
                BY <1>7, <3>3, <4>1
            <4> QED BY <3>2, <4>1, <4>2
        <3>5. q \in authors' => q \in authors \/ q = r
            BY <1>1
        <3> QED BY <3>4, <3>5
    <2> QED BY <2>2, <2>3
<1>18. Migrated(m)'
    <2>1. m' = m /\ Scripts(ByVersion(ledger'[m.namespace])) = all
        BY <1>5, <1>9 DEF m, n, all
    <2>2. ASSUME NEW i \in DOMAIN m.list, m.list[i].version <= m.target
          PROVE  i <= Len(all) /\ all[i] = m.list[i]
        <3>1. i <= Len(s) + Len(e) /\ i \in 1..(Len(s) + Len(e))
            BY <1>2, <1>3, <2>2
        <3> QED BY <1>7, <3>1
    <2> QED BY <2>1, <2>2 DEF Migrated, Now
<1>19. DoneInv' /\ NoCollision'
    <2>1. result[r] \in {"none", "unknown", "dropped"}
        BY <1>1 DEF IInv, TypeOK, DoneInv
    <2>2. ASSUME NEW q \in Run
          PROVE  /\ at'[q] = "answer" \/ result'[q] = "ok" => Migrated(migrator[q])'
                 /\ q \in authors' =>
                      /\ at'[q] \in {"answer", "end"} /\ Migrated(migrator[q])'
                      /\ result'[q] \in {"none", "ok", "unknown", "dropped"}
                 /\ at'[q] = "adrift" => result'[q] \in {"unknown", "dropped"}
        <3>1. CASE q = r
            BY <1>9, <1>10, <1>18, <2>1, <3>1 DEF m
        <3>2. CASE q # r
            BY <1>9, <1>10, <1>17, <3>2 DEF IInv, DoneInv
        <3> QED BY <3>1, <3>2
    <2> QED BY <1>9, <2>2 DEF IInv, DoneInv, NoCollision
<1>20. LockInv'
    BY <1>1, LocksEnd DEF config
<1>21. TypeOK'
    <2>1. ledger' \in [Namespace -> SUBSET LedgerRow]
        <3>1. ToSet(ins) \subseteq LedgerRow
            BY <1>3, RowsTyped DEF ToSet
        <3> QED BY <1>1, <1>3, <3>1 DEF IInv, TypeOK
    <2>2. history' \in [Namespace -> Seq(Migration)] /\ authors' \subseteq Run
        <3>1. h \o e \in Seq(Migration)
            BY <1>3, <1>4, ConcatProperties
        <3>2. history \in [Namespace -> Seq(Migration)] /\ authors \subseteq Run
            BY DEF IInv, TypeOK
        <3> QED BY <1>1, <3>1, <3>2
    <2>3. at' \in [Run -> Place] /\ \A q \in Run : result'[q] # "none" <=> at'[q] \in {"abort", "orphan", "adrift", "end"}
        BY <1>1 DEF IInv, TypeOK
    <2>4. table' \in BOOLEAN
        BY <1>1 DEF IInv, TypeOK
    <2>5. /\ holds' \in [Run -> SUBSET Key] /\ created' \in [Run -> BOOLEAN]
          /\ inserted' \in [Run -> Seq(LedgerRow)] /\ executed' \in [Run -> Seq(Migration)]
        BY <1>1, SessionEnds
    <2> QED BY <1>1, <1>9, <2>1, <2>2, <2>3, <2>4, <2>5 DEF IInv, TypeOK, config
<1> QED BY <1>14, <1>15, <1>16, <1>19, <1>20, <1>21 DEF IInv

-----------------------------------------------------------------------------
(* The inductive invariant.                                                 *)

LEMMA InitInv == Init => IInv
<1> SUFFICES ASSUME Init
             PROVE  IInv
    OBVIOUS
<1>1. ASSUME NEW n \in Namespace
      PROVE  /\ ByVersion(ledger[n]) \in Seq(LedgerRow) /\ Ascending(ByVersion(ledger[n]))
             /\ ToSet(ByVersion(ledger[n])) = ledger[n] /\ ledger[n] \in SUBSET LedgerRow
             /\ legacy[n] \in Seq(LedgerRow)
    <2>1. legacy[n] \in Tables[n] /\ \E t \in Tables[n] : ledger[n] = ToSet(t)
        BY DEF Init
    <2>2. PICK t \in Tables[n] : ledger[n] = ToSet(t)
        BY <2>1
    <2>3. t \in Seq(LedgerRow) /\ Ascending(t) /\ legacy[n] \in Seq(LedgerRow)
        BY <2>1, TableAssumption
    <2>4. ByVersion(ledger[n]) = t
        BY <2>2, <2>3, ListingIs
    <2>5. ToSet(t) \subseteq LedgerRow
        BY <2>3, RowsTyped DEF ToSet
    <2> QED BY <2>2, <2>3, <2>4, <2>5
<1>2. ASSUME NEW n \in Namespace
      PROVE  /\ Longer(Now(n), Old(n)) \in Seq(Migration)
             /\ history[n] = Longer(Now(n), Old(n))
             /\ IsPrefix(Now(n), Longer(Now(n), Old(n))) /\ IsPrefix(Old(n), Longer(Now(n), Old(n)))
    <2>1. Now(n) \in Seq(Migration) /\ Old(n) \in Seq(Migration)
        BY <1>1, ScriptsTyped DEF Now, Old
    <2>2. history = [k \in Namespace |-> Longer(Now(k), Old(k))]
        BY DEF Init
    <2> QED BY <2>1, <2>2 DEF Init, Longer
<1>3. authors = {}
    BY DEF Init
<1>4. migrator \in [Run -> Migrators] /\ \A r \in Run : Ordered(migrator[r].list) /\ migrator[r].namespace \in Namespace
    BY MigratorAssumption DEF Init
<1>5. /\ at = [r \in Run |-> "new"] /\ rows = [r \in Run |-> <<>>]
      /\ holds = [r \in Run |-> {}] /\ created = [r \in Run |-> FALSE]
      /\ inserted = [r \in Run |-> <<>>] /\ executed = [r \in Run |-> <<>>]
      /\ result = [r \in Run |-> "none"]
    BY DEF Init
<1>6. TypeOK
    <2>1. postgres \in BOOLEAN /\ table \in BOOLEAN
        BY DEF Init
    <2>2. ledger \in [Namespace -> SUBSET LedgerRow] /\ legacy \in [Namespace -> Seq(LedgerRow)]
        <3>1. ledger = [n \in Namespace |-> ledger[n]] /\ legacy = [n \in Namespace |-> legacy[n]]
            BY DEF Init
        <3> QED BY <1>1, <3>1
    <2>3. history \in [Namespace -> Seq(Migration)] /\ authors \subseteq Run
        <3>1. history = [n \in Namespace |-> history[n]]
            BY DEF Init
        <3> QED BY <1>2, <1>3, <3>1
    <2>4. /\ holds \in [Run -> SUBSET Key] /\ created \in [Run -> BOOLEAN]
          /\ at \in [Run -> Place] /\ result \in [Run -> Result]
          /\ \A r \in Run : result[r] # "none" <=> at[r] \in {"abort", "orphan", "adrift", "end"}
        BY <1>5
    <2>5. /\ rows \in [Run -> Seq(LedgerRow)] /\ inserted \in [Run -> Seq(LedgerRow)]
          /\ executed \in [Run -> Seq(Migration)]
        <3>1. <<>> \in Seq(LedgerRow) /\ <<>> \in Seq(Migration)
            OBVIOUS
        <3> QED BY <1>5, <3>1
    <2> QED BY <1>4, <2>1, <2>2, <2>3, <2>4, <2>5 DEF TypeOK
<1>7. LockInv
    BY <1>5 DEF LockInv, Placed
<1>8. LedgerInv
    <2>1. \A n \in Namespace :
             Len(Old(n)) > Len(Now(n)) => \A r \in Run : migrator[r].namespace = n => migrator[r].adopts
        BY DEF Init
    <2> QED BY <1>1, <2>1 DEF LedgerInv
<1>9. LedgerTellsHistory
    BY <1>2 DEF LedgerTellsHistory
<1>10. WorkInv
    BY <1>4, <1>5 DEF WorkInv, Works
<1>11. DoneInv /\ NoCollision
    BY <1>3, <1>5 DEF DoneInv, NoCollision
<1> QED BY <1>6, <1>7, <1>8, <1>9, <1>10, <1>11 DEF IInv

LEMMA NextKeeps == IInv /\ [Next]_vars => IInv'
<1>1. ASSUME IInv, UNCHANGED vars
      PROVE  IInv'
    <2>1. UNCHANGED <<config, at, rows, session, result, store>>
        BY <1>1 DEF vars
    <2>2. TypeOK' /\ LockInv'
        BY <1>1, <2>1 DEF IInv, TypeOK, LockInv, Placed, Turn, config, session, store
    <2>3. LedgerInv' /\ LedgerTellsHistory'
        BY <1>1, <2>1, StoreStays DEF IInv
    <2>4. WorkInv'
        BY <1>1, <2>1, WorksStays DEF IInv, WorkInv, config, session
    <2>5. DoneInv' /\ NoCollision'
        BY <1>1, <2>1, StoreStays DEF IInv, TypeOK, DoneInv, NoCollision, config
    <2> QED BY <2>2, <2>3, <2>4, <2>5 DEF IInv
<1>2. ASSUME IInv, NEW r \in Run, Advance(r)
      PROVE  IInv'
    BY <1>2, BeginImmediateKeeps, BeginReadCommittedKeeps, LockLedgerKeeps, LockNamespaceKeeps,
       CreateLedgerKeeps, ReadLedgerKeeps, AdoptKeeps, CopyRowKeeps, CheckMinimumKeeps, RunScriptKeeps, RecordKeeps, RollbackKeeps,
       CommitKeeps, AnsweredKeeps, ReapKeeps DEF Advance
<1>3. ASSUME IInv, NEW r \in Run, Fails(r)
      PROVE  IInv'
    BY <1>3, BeginFailsKeeps, StatementFailsKeeps, CommitFailsKeeps, AnswerLostKeeps, DroppedKeeps DEF Fails
<1> QED BY <1>1, <1>2, <1>3 DEF Next

(* The inductive invariant holds of every behaviour: for any runs,          *)
(* migrators and initial ledgers (Migrator::run, apply, begin_write).       *)
THEOREM MigrateInv == Spec => []IInv
<1>1. Init => IInv
    BY InitInv
<1>2. IInv /\ [Next]_vars => IInv'
    BY NextKeeps
<1> QED BY <1>1, <1>2, PTL DEF Spec

(* The ledger tells what took effect: no script is committed without its    *)
(* row, no row without its script and none twice (apply: the batch and its  *)
(* INSERT in one transaction under the lock).                               *)
THEOREM LedgerIsHistory == Spec => []LedgerTellsHistory
<1>1. IInv => LedgerTellsHistory
    BY DEF IInv
<1> QED BY <1>1, MigrateInv, PTL

(* A success that run reports stays true: the ledger begins with the run's  *)
(* migrations up to its target, whatever other binaries do afterwards.      *)
THEOREM OkIsMigrated == Spec => []OkMeansMigrated
<1>1. IInv => OkMeansMigrated
    BY DEF IInv, DoneInv, OkMeansMigrated
<1> QED BY <1>1, MigrateInv, PTL

(* A run of which anything is durable, an adopted row included, committed   *)
(* its whole batch and was not told of a refusal or a definite failure      *)
(* (run's commit and rollback).                                             *)
THEOREM BatchIsWhole == Spec => []WholeBatchOrNothing
<1>1. IInv => WholeBatchOrNothing
    BY DEF IInv, TypeOK, DoneInv, WholeBatchOrNothing
<1> QED BY <1>1, MigrateInv, PTL

(* What apply read of the ledger is current until its transaction ends: the *)
(* locks come before the read (begin_write, then the SELECT).               *)
THEOREM ReadIsCurrent == Spec => []ReadStaysCurrent
<1>1. IInv => ReadStaysCurrent
    <2> SUFFICES ASSUME IInv, NEW r \in Run, at[r] \in {"adopt", "copy", "script", "record", "commit"}
                 PROVE  ledger[migrator[r].namespace] = ToSet(rows[r]) \ ToSet(inserted[r])
        BY DEF ReadStaysCurrent
    <2> DEFINE list == ByVersion(ledger[migrator[r].namespace])
               s    == rows[r]
               e    == executed[r]
               ins  == inserted[r]
    <2>1. /\ s \in Seq(LedgerRow) /\ e \in Seq(Migration) /\ ins \in Seq(LedgerRow) /\ list \in Seq(LedgerRow)
          /\ ToSet(list) = ledger[migrator[r].namespace]
        BY RunTyped
    <2>2. CASE at[r] = "adopt"
        <3>1. s = list /\ ins = <<>>
            BY <2>2 DEF IInv, LockInv, Placed, WorkInv, Works
        <3>2. ToSet(<<>>) = {}
            BY DEF ToSet
        <3> QED BY <2>1, <3>1, <3>2
    <2>3. CASE at[r] = "copy"
        <3>1. list \o ins = s /\ Follows(migrator[r], s)
            BY <2>3, CopyingIs
        <3>2. Ascending(s)
            BY <2>1, <3>1, RunTyped, FollowsAscends
        <3> HIDE DEF list, s, ins
        <3> DEFINE rest == <<>>
        <3>3. rest \in Seq(LedgerRow) /\ s \o rest = s
            BY <2>1, ConcatEmptySeq
        <3> HIDE DEF rest
        <3>4. IsPrefix(list, s)
            BY <2>1, <3>1, ConcatPrefix
        <3>5. list \o ins = s \o rest /\ Ascending(s \o rest)
            BY <3>1, <3>2, <3>3
        <3>6. ToSet(list) = ToSet(s) \ ToSet(ins)
            BY <2>1, <3>3, <3>4, <3>5, KnownRows
        <3> QED BY <2>1, <3>6 DEF s, ins
    <2>4. CASE at[r] \notin {"adopt", "copy"}
        <3> DEFINE wrote == s \o Recorded(e)
        <3>1. /\ IsPrefix(list, s) /\ wrote \in Seq(LedgerRow) /\ Ascending(wrote)
              /\ list \o ins = (IF at[r] = "record" THEN Front(wrote) ELSE wrote)
              /\ at[r] = "record" => e # <<>>
            BY <2>4, WorkingIs
        <3> HIDE DEF list, s, e, ins
        <3>2. \E rest \in Seq(LedgerRow) : list \o ins = s \o rest /\ Ascending(s \o rest)
            <4>1. CASE at[r] # "record"
                BY <2>1, <3>1, <4>1, RecordedTyped
            <4>2. CASE at[r] = "record"
                <5>1. PICK f \in Seq(Migration), x \in Migration : e = Append(f, x)
                    BY <2>1, <3>1, <4>2, SequenceEmptyOrAppend
                <5> DEFINE t == s \o Recorded(f)
                           y == Row(x, "now")
                <5>2. t \in Seq(LedgerRow) /\ y \in LedgerRow /\ wrote = Append(t, y)
                    BY <2>1, <5>1, WroteIs, WroteAppend
                <5> HIDE DEF t, y, wrote
                <5>3. Front(wrote) = t
                    BY <5>2, FrontOfAppend
                <5>4. /\ Len(t) \in Nat /\ DOMAIN t = 1..Len(t) /\ DOMAIN wrote = 1..(Len(t) + 1)
                      /\ \A i \in 1..Len(t) : wrote[i] = t[i]
                    BY <3>1, <5>2, RowsTyped, AppendProperties
                <5>5. Ascending(t)
                    BY <3>1, <5>4 DEF Ascending
                <5> QED BY <3>1, <4>2, <5>1, <5>3, <5>5, RecordedTyped DEF t
            <4> QED BY <4>1, <4>2
        <3>3. ToSet(list) = ToSet(s) \ ToSet(ins)
            BY <2>1, <3>1, <3>2, KnownRows
        <3> QED BY <2>1, <3>3 DEF s, ins
    <2> QED BY <2>2, <2>3, <2>4
<1> QED BY <1>1, MigrateInv, PTL

(* No run fails because another one is at work: CREATE TABLE and the        *)
(* INSERTs of a run meet no other session's (the common key of begin_write).*)
THEOREM NeverCollides == Spec => []NoCollision
<1>1. IInv => NoCollision
    BY DEF IInv
<1> QED BY <1>1, MigrateInv, PTL

=============================================================================
