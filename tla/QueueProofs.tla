---------------------------- MODULE QueueProofs ----------------------------
(***************************************************************************)
(* Proofs of the queue's safety properties for every number of producers,  *)
(* guards and items, every capacity, backend and durability policy.        *)
(***************************************************************************)
EXTENDS QueueProperties, WellFoundedInduction, TLAPS

USE StoreAssumption, QueueAssumption DEF StoreAssumption, QueueAssumption, Seqs, Values, Versions, Usize

-----------------------------------------------------------------------------
(* Type correctness.                                                       *)

(* Counting an item in or out, wrapping, stays in the usize range.         *)
LEMMA UsizeArithmetic ==
  ASSUME NEW x \in Usize, NEW i \in Items
  PROVE  /\ Add(x, 1) \in Usize /\ Add(x, Size[i]) \in Usize
         /\ Sub(x, 1) \in Usize /\ Sub(x, Size[i]) \in Usize
<1>1. 1 \in Usize /\ Size[i] \in Usize
  OBVIOUS
<1> QED
  BY <1>1 DEF Add, Sub

(* The initial state is well typed.                                        *)
LEMMA TypeInit == Init => TypeInv
<1> SUFFICES ASSUME Init PROVE TypeInv
  OBVIOUS
<1>1. closed \in BOOLEAN
  BY DEF Init
<1>2. StoreTypeOK
  BY DEF Init, StoreInit, StoreTypeOK
<1>3. InnerOK
  BY DEF Init, InnerOK
<1>4. ThreadsOK /\ InCall
  BY DEF Init, ThreadsOK, InCall, ProducerPC, ConsumerPC, GuardPC
<1>5. HistoryOK
  BY DEF Init, HistoryOK
<1> QED
  BY <1>1, <1>2, <1>3, <1>4, <1>5 DEF TypeInv, TypeOK

(* tail after recovery is a sequence number or one past the last.          *)
LEMMA RecoveredTailType == RecoveredTail \in 0 .. MaxSeq
  BY DEF RecoveredTail, SeekBack, Stored

(* notify_one moves at most one producer, from waiting to woken.           *)
LEMMA NotifyOneEffect ==
  ASSUME NEW pc \in [Producers -> ProducerPC], NEW pcn \in NotifyOne(pc)
  PROVE  /\ pcn \in [Producers -> ProducerPC]
         /\ \A q \in Producers :
              pcn[q] # pc[q] => pc[q] = "waiting" /\ pcn[q] = "woken"
  BY DEF NotifyOne, Waiting, ProducerPC

(* The notification after a failed write: the writer is done, and at most  *)
(* one sleeper is awake.                                                   *)
LEMMA WriteNotifyEffect ==
  ASSUME ThreadsOK, NEW p \in Producers, WriteNotify(p)
  PROVE  /\ ppc' \in [Producers -> ProducerPC]
         /\ ppc'[p] = "idle"
         /\ \A q \in Producers :
              ppc'[q] # ppc[q] => q = p \/ (ppc[q] = "waiting" /\ ppc'[q] = "woken")
<1> DEFINE pc == [ppc EXCEPT ![p] = "idle"]
<1>1. pc \in [Producers -> ProducerPC]
  BY DEF ThreadsOK, ProducerPC
<1>2. pc[p] = "idle" /\ \A q \in Producers \ {p} : pc[q] = ppc[q]
  BY DEF ThreadsOK
<1>3. ppc' \in NotifyOne(pc)
  BY DEF WriteNotify
<1> HIDE DEF pc
<1> QED
  BY <1>1, <1>2, <1>3, NotifyOneEffect

(* The critical section of push keeps the types.                           *)
LEMMA PushLockedType ==
  ASSUME TypeInv, NEW p \in Producers, NEW i \in Items, PushLocked(p, i),
         UNCHANGED <<storeVars, consVars, guardVars, restarts>>
  PROVE  TypeInv'
<1> USE DEF TypeInv, TypeOK
<1>1. closed' \in BOOLEAN
  BY DEF PushLocked, Claim, innerVars
<1>2. StoreTypeOK'
  BY DEF StoreTypeOK, storeVars
<1>3. InnerOK'
  <2>1. len \in Usize /\ bytes \in Usize
    BY DEF InnerOK
  <2>2. Add(len, 1) \in Usize /\ Add(bytes, Size[i]) \in Usize
    BY <2>1, UsizeArithmetic
  <2>3. CASE Claim(p, i)
    BY <2>2, <2>3 DEF InnerOK, Claim
  <2>4. CASE UNCHANGED innerVars
    BY <2>4 DEF InnerOK, innerVars
  <2> QED
    BY <2>3, <2>4 DEF PushLocked
<1>4. ThreadsOK' /\ InCall'
  BY DEF ThreadsOK, InCall, ProducerPC, InnerOK, PushLocked, Claim, innerVars, consVars, guardVars
<1>5. HistoryOK'
  BY DEF HistoryOK, InnerOK, PushLocked, Claim, histVars
<1> QED
  BY <1>1, <1>2, <1>3, <1>4, <1>5

(* Every step keeps the types.                                             *)
LEMMA TypeStep == TypeInv /\ [Next]_vars => TypeInv'
<1> SUFFICES ASSUME TypeInv, [Next]_vars PROVE TypeInv'
  OBVIOUS
<1> DEFINE Rest == StoreTypeOK /\ InnerOK /\ ThreadsOK /\ HistoryOK /\ InCall
<1>0. SUFFICES closed' \in BOOLEAN /\ Rest'
  BY DEF TypeInv, TypeOK
<1>1. closed \in BOOLEAN /\ Rest
  BY DEF TypeInv, TypeOK
<1> USE <1>1 DEF StoreTypeOK, InnerOK, ThreadsOK, HistoryOK, InCall, ProducerPC,
      ConsumerPC, GuardPC, storeVars, innerVars, prodVars, consVars, guardVars, histVars
<1>2. CASE UNCHANGED vars
  BY <1>2 DEF vars
<1>3. CASE OpenStart
  <2>1. closed' \in BOOLEAN
    BY <1>3 DEF OpenStart
  <2>2. Rest'
    BY <1>3, RecoveredTailType DEF OpenStart
  <2> QED
    BY <2>1, <2>2
<1>4. CASE OpenErr
  <2>1. closed' \in BOOLEAN
    BY <1>4 DEF OpenErr
  <2>2. Rest'
    BY <1>4 DEF OpenErr
  <2> QED
    BY <2>1, <2>2
<1>5. CASE RecoverEntry
  <2>1. closed' \in BOOLEAN
    BY <1>5 DEF RecoverEntry, Seek, Stored
  <2>2. Rest'
    <3>1. PICK s \in Seek(cursor) :
            /\ head' = IF len = 0 THEN s ELSE head
            /\ len' = Add(len, 1)
            /\ bytes' = Add(bytes, Size[live[s]])
            /\ cursor' = s + 1
      BY <1>5 DEF RecoverEntry
    <3>2. s \in Seqs /\ live[s] \in Items
      BY DEF Seek, Stored
    <3>3. len' \in Usize /\ bytes' \in Usize
      BY <3>1, <3>2, UsizeArithmetic
    <3>5. StoreTypeOK'
      BY <1>5, <3>1, <3>2, <3>3 DEF RecoverEntry
    <3>6. InnerOK'
      BY <1>5, <3>1, <3>2, <3>3 DEF RecoverEntry
    <3>7. ThreadsOK'
      BY <1>5, <3>1, <3>2, <3>3, SMTT(30) DEF RecoverEntry
    <3>8. HistoryOK'
      BY <1>5, <3>1, <3>2, <3>3 DEF RecoverEntry
    <3>9. InCall'
      BY <1>5, <3>1, <3>2, <3>3 DEF RecoverEntry
    <3> QED
      BY <3>5, <3>6, <3>7, <3>8, <3>9
  <2> QED
    BY <2>1, <2>2
<1>6. CASE RecoverDone
  <2>1. closed' \in BOOLEAN
    BY <1>6 DEF RecoverDone
  <2>2. Rest'
    BY <1>6 DEF RecoverDone
  <2> QED
    BY <2>1, <2>2
<1>7. CASE RecoverErr
  <2>1. closed' \in BOOLEAN
    BY <1>7 DEF RecoverErr
  <2>2. Rest'
    BY <1>7 DEF RecoverErr
  <2> QED
    BY <2>1, <2>2
<1>8. CASE Crash
  <2>1. closed' \in BOOLEAN
    BY <1>8 DEF Crash, PowerLoss
  <2>2. Rest'
    BY <1>8 DEF Crash, PowerLoss
  <2> QED
    BY <2>1, <2>2
<1>9. CASE ReserveStart
  <2>1. closed' \in BOOLEAN
    BY <1>9 DEF ReserveStart
  <2>2. Rest'
    BY <1>9 DEF ReserveStart
  <2> QED
    BY <2>1, <2>2
<1>10. CASE ReserveSeek
  <2>1. closed' \in BOOLEAN
    BY <1>10 DEF ReserveSeek, Seek, Stored
  <2>2. Rest'
    BY <1>10 DEF ReserveSeek, Seek, Stored
  <2> QED
    BY <2>1, <2>2
<1>11. CASE ReserveNone
  <2>1. closed' \in BOOLEAN
    BY <1>11 DEF ReserveNone
  <2>2. Rest'
    BY <1>11 DEF ReserveNone
  <2> QED
    BY <2>1, <2>2
<1>12. CASE ReserveSkip
  <2>1. closed' \in BOOLEAN
    BY <1>12 DEF ReserveSkip
  <2>2. Rest'
    BY <1>12 DEF ReserveSkip
  <2> QED
    BY <2>1, <2>2
<1>13. CASE ReserveTake
  <2>1. closed' \in BOOLEAN
    BY <1>13 DEF ReserveTake, HandOut
  <2>2. Rest'
    BY <1>13 DEF ReserveTake, HandOut
  <2> QED
    BY <2>1, <2>2
<1>14. ASSUME NEW p \in Producers, Push(p) PROVE TypeInv'
  BY <1>14, PushLockedType DEF Push, Fresh, TypeInv
<1>15. ASSUME NEW p \in Producers, PushRetry(p) PROVE TypeInv'
  BY <1>15, PushLockedType DEF PushRetry, Fresh, TypeInv
<1>16. ASSUME NEW p \in Producers, TryPush(p) PROVE TypeInv'
  <2>1. PICK i \in Items : PushLocked(p, i)
    BY <1>16 DEF TryPush, Fresh, PushLocked
  <2> QED
    BY <1>16, <2>1, PushLockedType DEF TryPush
<1>17. ASSUME NEW p \in Producers, SpuriousWake(p) PROVE closed' \in BOOLEAN /\ Rest'
  <2>1. closed' \in BOOLEAN
    BY <1>17 DEF SpuriousWake
  <2>2. Rest'
    BY <1>17 DEF SpuriousWake
  <2> QED
    BY <2>1, <2>2
<1>18. ASSUME NEW p \in Producers, Close(p) PROVE closed' \in BOOLEAN /\ Rest'
  <2>1. closed' \in BOOLEAN
    BY <1>18 DEF Close
  <2>2. Rest'
    BY <1>18 DEF Close
  <2> QED
    BY <2>1, <2>2
<1>19. ASSUME NEW p \in Producers, WriteApply(p) PROVE closed' \in BOOLEAN /\ Rest'
  <2>1. closed' \in BOOLEAN
    BY <1>19 DEF WriteApply, Apply
  <2>2. Rest'
    BY <1>19 DEF WriteApply, Apply
  <2> QED
    BY <2>1, <2>2
<1>20. ASSUME NEW p \in Producers, WriteOk(p) PROVE closed' \in BOOLEAN /\ Rest'
  <2>1. closed' \in BOOLEAN
    BY <1>20 DEF WriteOk, Settle
  <2>2. Rest'
    BY <1>20 DEF WriteOk, Settle
  <2> QED
    BY <2>1, <2>2
<1>21. ASSUME NEW p \in Producers, WriteErr(p) PROVE closed' \in BOOLEAN /\ Rest'
  <2>1. closed' \in BOOLEAN
    BY <1>21 DEF WriteErr
  <2>2. Rest'
    BY <1>21 DEF WriteErr
  <2> QED
    BY <2>1, <2>2
<1>22. ASSUME NEW p \in Producers, GiveBack(p) PROVE closed' \in BOOLEAN /\ Rest'
  <2>1. closed' \in BOOLEAN
    BY <1>22 DEF GiveBack
  <2>2. Rest'
    BY <1>22, UsizeArithmetic DEF GiveBack
  <2> QED
    BY <2>1, <2>2
<1>23. ASSUME NEW p \in Producers, WriteNotify(p) PROVE closed' \in BOOLEAN /\ Rest'
  <2>1. closed' \in BOOLEAN
    BY <1>23 DEF WriteNotify
  <2>2. Rest'
    <3>5. StoreTypeOK'
      BY <1>23, WriteNotifyEffect DEF WriteNotify
    <3>6. InnerOK'
      BY <1>23, WriteNotifyEffect DEF WriteNotify
    <3>7. ThreadsOK'
      BY <1>23, WriteNotifyEffect DEF WriteNotify
    <3>8. HistoryOK'
      BY <1>23, WriteNotifyEffect DEF WriteNotify
    <3>9. InCall'
      BY <1>23, WriteNotifyEffect DEF WriteNotify
    <3> QED
      BY <3>5, <3>6, <3>7, <3>8, <3>9
  <2> QED
    BY <2>1, <2>2
<1>24. ASSUME NEW p \in Producers, CloseNotify(p) PROVE closed' \in BOOLEAN /\ Rest'
  <2>1. closed' \in BOOLEAN
    BY <1>24 DEF CloseNotify
  <2>2. Rest'
    BY <1>24 DEF CloseNotify
  <2> QED
    BY <2>1, <2>2
<1>25. ASSUME NEW g \in Guards, Nack(g) PROVE closed' \in BOOLEAN /\ Rest'
  <2>1. closed' \in BOOLEAN
    BY <1>25 DEF Nack, Release
  <2>2. Rest'
    <3>5. StoreTypeOK'
      BY <1>25 DEF Nack, Release
    <3>6. InnerOK'
      BY <1>25 DEF Nack, Release
    <3>7. ThreadsOK'
      BY <1>25 DEF Nack, Release
    <3>8. HistoryOK'
      BY <1>25 DEF Nack, Release
    <3>9. InCall'
      BY <1>25 DEF Nack, Release
    <3> QED
      BY <3>5, <3>6, <3>7, <3>8, <3>9
  <2> QED
    BY <2>1, <2>2
<1>26. ASSUME NEW g \in Guards, AckApply(g) PROVE closed' \in BOOLEAN /\ Rest'
  <2>1. closed' \in BOOLEAN
    BY <1>26 DEF AckApply, CanCall, Apply
  <2>2. Rest'
    BY <1>26, SMTT(30) DEF AckApply, CanCall, Apply
  <2> QED
    BY <2>1, <2>2
<1>27. ASSUME NEW g \in Guards, AckOk(g) PROVE closed' \in BOOLEAN /\ Rest'
  <2>1. closed' \in BOOLEAN
    BY <1>27 DEF AckOk, Settle
  <2>2. Rest'
    BY <1>27 DEF AckOk, Settle
  <2> QED
    BY <2>1, <2>2
<1>28. ASSUME NEW g \in Guards, AckErr(g) PROVE closed' \in BOOLEAN /\ Rest'
  <2>1. closed' \in BOOLEAN
    BY <1>28 DEF AckErr, Release
  <2>2. Rest'
    <3>5. StoreTypeOK'
      BY <1>28 DEF AckErr, Release
    <3>6. InnerOK'
      BY <1>28 DEF AckErr, Release
    <3>7. ThreadsOK'
      BY <1>28 DEF AckErr, Release
    <3>8. HistoryOK'
      BY <1>28 DEF AckErr, Release
    <3>9. InCall'
      BY <1>28 DEF AckErr, Release
    <3> QED
      BY <3>5, <3>6, <3>7, <3>8, <3>9
  <2> QED
    BY <2>1, <2>2
<1>29. ASSUME NEW g \in Guards, AckSettle(g) PROVE closed' \in BOOLEAN /\ Rest'
  <2>1. closed' \in BOOLEAN
    BY <1>29 DEF AckSettle, AdvanceHead
  <2>2. Rest'
    <3>1. len' \in Usize /\ bytes' \in Usize
      BY <1>29, UsizeArithmetic DEF AckSettle
    <3>2. head' \in 0 .. MaxSeq
      BY <1>29 DEF AckSettle, AdvanceHead
    <3>3. acked_above' \in SUBSET Seqs
      <4>1. acked_above' \subseteq acked_above \cup {gseq[g]}
        BY <1>29 DEF AckSettle, AdvanceHead
      <4>2. gseq[g] \in Seqs
        BY <1>29 DEF AckSettle
      <4> QED
        BY <4>1, <4>2
    <3> QED
      BY <1>29, <3>1, <3>2, <3>3, ZenonT(40) DEF AckSettle
  <2> QED
    BY <2>1, <2>2
<1>30. ASSUME NEW g \in Guards, AckNotify(g) PROVE closed' \in BOOLEAN /\ Rest'
  <2>1. closed' \in BOOLEAN
    BY <1>30 DEF AckNotify
  <2>2. Rest'
    <3>2. /\ ppc' \in [Producers -> ProducerPC]
          /\ \A q \in Producers :
               ppc'[q] # ppc[q] => ppc[q] = "waiting" /\ ppc'[q] = "woken"
      BY <1>30, NotifyOneEffect DEF AckNotify
    <3>5. StoreTypeOK'
      BY <1>30, <3>2 DEF AckNotify
    <3>6. InnerOK'
      BY <1>30, <3>2 DEF AckNotify
    <3>7. ThreadsOK'
      BY <1>30, <3>2 DEF AckNotify
    <3>8. HistoryOK'
      BY <1>30, <3>2 DEF AckNotify
    <3>9. InCall'
      BY <1>30, <3>2 DEF AckNotify
    <3> QED
      BY <3>5, <3>6, <3>7, <3>8, <3>9
  <2> QED
    BY <2>1, <2>2
<1> QED
  BY <1>2, <1>3, <1>4, <1>5, <1>6, <1>7, <1>8, <1>9, <1>10, <1>11, <1>12, <1>13, <1>14, <1>15, <1>16, <1>17, <1>18, <1>19, <1>20, <1>21, <1>22, <1>23, <1>24, <1>25, <1>26, <1>27, <1>28, <1>29, <1>30
     DEF Next, ProducerStep, GuardStep, TypeInv, TypeOK

(* Every variable keeps its type, in every reachable state: the counters   *)
(* of struct Inner stay in the usize range and no thread, guard or scan    *)
(* ever names a sequence number or an item that does not exist.            *)
THEOREM TypeCorrect == Spec => []TypeOK
<1>1. Spec => []TypeInv
  BY TypeInit, TypeStep, PTL DEF Spec
<1> QED
  BY <1>1, PTL DEF TypeInv

-----------------------------------------------------------------------------
(* What the store's seeks find.                                            *)

(* Every non-empty set of naturals has a least element.                    *)
LEMMA LeastElement ==
  ASSUME NEW T \in SUBSET Nat, T # {}
  PROVE  \E m \in T : \A n \in T : m <= n
<1>1. \E m \in T : \A n \in T : <<n, m>> \notin OpToRel(<, Nat)
  BY WFMin, NatLessThanWellFounded, Zenon
<1>2. \A m, n \in T : <<n, m>> \in OpToRel(<, Nat) <=> n < m
  BY DEF OpToRel
<1>3. PICK m \in T : \A n \in T : ~(n < m)
  BY <1>1, <1>2
<1>4. \A n \in T : m <= n
  BY <1>3
<1> QED
  BY <1>4

(* A seek that finds nothing has no entry at or above it.                  *)
LEMMA SeekNothing ==
  ASSUME NEW c \in Nat, Seek(c) = {}
  PROVE  \A s \in Stored : s < c
<1> SUFFICES ASSUME NEW t \in Stored, t >= c PROVE FALSE
  BY DEF Stored
<1> DEFINE T == {s \in Stored : s >= c}
<1>1. T \in SUBSET Nat /\ T # {}
  BY DEF Stored
<1>2. PICK m \in T : \A n \in T : m <= n
  BY <1>1, LeastElement
<1>3. m \in Seek(c)
  BY <1>2 DEF Seek
<1> QED
  BY <1>3

(* The recovered tail is above every entry in the store.                   *)
LEMMA TailAboveStored == \A s \in Stored : s < RecoveredTail
<1> SUFFICES ASSUME NEW t \in Stored PROVE t < RecoveredTail
  OBVIOUS
<1> DEFINE T == {MaxSeq - s : s \in Stored}
<1>1. T \in SUBSET Nat /\ T # {}
  BY DEF Stored
<1>2. PICK m \in T : \A n \in T : m <= n
  BY <1>1, LeastElement
<1>3. PICK s \in Stored : m = MaxSeq - s
  BY <1>2
<1>4. ASSUME NEW u \in Stored PROVE u <= s
  <2>1. MaxSeq - u \in T
    OBVIOUS
  <2>2. m <= MaxSeq - u
    BY <1>2, <2>1
  <2> QED
    BY <1>3, <2>2 DEF Stored
<1>5. SeekBack # {} /\ \A u \in SeekBack : u \in Stored /\ t <= u
  BY <1>4 DEF SeekBack
<1> QED
  BY <1>5 DEF RecoveredTail, Stored

-----------------------------------------------------------------------------
(* The log: what head, acked_above and a finished ack have passed is gone  *)
(* for good.                                                               *)

SafeInv == DownInv /\ LogInv /\ RecoverInv

(* The log is in order before the first open.                              *)
LEMMA SafeInit == Init => SafeInv
  BY DEF Init, StoreInit, SafeInv, DownInv, LogInv, RecoverInv, Up, Stored, Committed, Dead

(* The critical section of push keeps the log in order.                    *)
LEMMA PushLockedSafe ==
  ASSUME TypeInv, SafeInv, NEW p \in Producers, NEW i \in Items,
         ppc[p] \in {"idle", "woken"}, Up, PushLocked(p, i),
         UNCHANGED <<storeVars, consVars, guardVars, restarts>>
  PROVE  SafeInv'
<1>1. StoreTypeOK /\ InnerOK /\ ThreadsOK /\ InCall
  BY DEF TypeInv, TypeOK
<1> USE <1>1 DEF SafeInv, DownInv, LogInv, RecoverInv, Up, Stored, Committed, Dead,
      storeVars, innerVars, consVars, guardVars,
      StoreTypeOK, InnerOK, ThreadsOK, InCall, ProducerPC, ConsumerPC, GuardPC
<1>2. CASE Claim(p, i)
  BY <1>2, SMTT(30) DEF Claim
<1>3. CASE /\ UNCHANGED <<innerVars, pseq>>
           /\ \E c \in {"idle", "waiting"} : ppc' = [ppc EXCEPT ![p] = c]
  BY <1>3
<1> QED
  BY <1>2, <1>3 DEF PushLocked

(* Every step keeps the log in order.                                      *)
LEMMA SafeStep == TypeInv /\ SafeInv /\ [Next]_vars => SafeInv'
<1> SUFFICES ASSUME TypeInv, SafeInv, [Next]_vars PROVE SafeInv'
  OBVIOUS
<1>1. StoreTypeOK /\ InnerOK /\ ThreadsOK /\ InCall
  BY DEF TypeInv, TypeOK
<1> USE <1>1 DEF SafeInv, DownInv, LogInv, RecoverInv, Up, Stored, Committed, Dead,
      storeVars, innerVars, prodVars, consVars, guardVars
<1> USE DEF StoreTypeOK, InnerOK, ThreadsOK, InCall, ProducerPC, ConsumerPC, GuardPC
<1>2. CASE UNCHANGED vars
  BY <1>2 DEF vars
<1>3. CASE OpenStart
  BY <1>3, TailAboveStored, RecoveredTailType DEF OpenStart
<1>4. CASE OpenErr
  BY <1>4 DEF OpenErr
<1>5. CASE RecoverEntry
  <2>1. PICK s \in Seek(cursor) :
          /\ head' = IF len = 0 THEN s ELSE head
          /\ len' = Add(len, 1)
          /\ cursor' = s + 1
    BY <1>5 DEF RecoverEntry
  <2>2. s \in Stored /\ s >= cursor /\ \A u \in Stored : u < s + 1 => u = s \/ u < cursor
    BY DEF Seek
  <2>3. len' = len + 1
    BY <1>5, <2>1, <2>2 DEF RecoverEntry, Add
  <2>4. LogInv'
    BY <1>5, <2>1, <2>2 DEF RecoverEntry
  <2>5. RecoverInv'
    BY <1>5, <2>1, <2>2, <2>3, SMTT(30) DEF RecoverEntry
  <2>6. DownInv'
    BY <1>5 DEF RecoverEntry
  <2> QED
    BY <2>4, <2>5, <2>6
<1>6. CASE RecoverDone
  <2>1. \A s \in Stored : s < cursor
    <3>1. cursor \in Nat /\ Seek(cursor) = {}
      BY <1>6 DEF RecoverDone
    <3> QED
      BY <3>1, SeekNothing, Zenon
  <2>2. \A s \in Stored : head <= s
    BY <1>6, <2>1 DEF RecoverDone
  <2> QED
    BY <1>6, <2>2 DEF RecoverDone
<1>7. CASE RecoverErr
  BY <1>7 DEF RecoverErr
<1>8. CASE Crash
  BY <1>8 DEF Crash, PowerLoss
<1>9. CASE ReserveStart
  BY <1>9 DEF ReserveStart
<1>10. CASE ReserveSeek
  BY <1>10 DEF ReserveSeek, Seek
<1>11. CASE ReserveNone
  BY <1>11 DEF ReserveNone
<1>12. CASE ReserveSkip
  BY <1>12 DEF ReserveSkip
<1>13. CASE ReserveTake
  BY <1>13 DEF ReserveTake, HandOut
<1>14. ASSUME NEW p \in Producers, Push(p) PROVE SafeInv'
  BY <1>14, PushLockedSafe DEF Push, Fresh
<1>15. ASSUME NEW p \in Producers, PushRetry(p) PROVE SafeInv'
  BY <1>15, PushLockedSafe DEF PushRetry
<1>16. ASSUME NEW p \in Producers, TryPush(p) PROVE SafeInv'
  BY <1>16, SMTT(30) DEF TryPush, Claim, Fresh
<1>17. ASSUME NEW p \in Producers, SpuriousWake(p) PROVE SafeInv'
  BY <1>17 DEF SpuriousWake
<1>18. ASSUME NEW p \in Producers, Close(p) PROVE SafeInv'
  BY <1>18 DEF Close
<1>19. ASSUME NEW p \in Producers, WriteApply(p) PROVE SafeInv'
  BY <1>19 DEF WriteApply, Apply
<1>20. ASSUME NEW p \in Producers, WriteOk(p) PROVE SafeInv'
  BY <1>20 DEF WriteOk
<1>21. ASSUME NEW p \in Producers, WriteErr(p) PROVE SafeInv'
  BY <1>21 DEF WriteErr
<1>22. ASSUME NEW p \in Producers, GiveBack(p) PROVE SafeInv'
  BY <1>22 DEF GiveBack
<1>23. ASSUME NEW p \in Producers, WriteNotify(p) PROVE SafeInv'
  <2>1. ThreadsOK
    BY <1>1
  <2>2. \A q \in Producers : ppc'[q] = "apply" <=> ppc[q] = "apply"
    BY <1>23, <2>1, WriteNotifyEffect DEF WriteNotify
  <2>3. Up
    BY <1>23 DEF WriteNotify
  <2> QED
    BY <1>23, <2>2, <2>3 DEF WriteNotify
<1>24. ASSUME NEW p \in Producers, CloseNotify(p) PROVE SafeInv'
  BY <1>24 DEF CloseNotify
<1>25. ASSUME NEW g \in Guards, Nack(g) PROVE SafeInv'
  BY <1>25 DEF Nack, Release
<1>26. ASSUME NEW g \in Guards, AckApply(g) PROVE SafeInv'
  BY <1>26, SMTT(30) DEF AckApply, CanCall, Apply
<1>27. ASSUME NEW g \in Guards, AckOk(g) PROVE SafeInv'
  BY <1>27 DEF AckOk
<1>28. ASSUME NEW g \in Guards, AckErr(g) PROVE SafeInv'
  BY <1>28 DEF AckErr, Release
<1>29. ASSUME NEW g \in Guards, AckSettle(g) PROVE SafeInv'
  <2> DEFINE s == gseq[g]
  <2>1. Up /\ s \in Seqs /\ Dead(s)
    BY <1>29 DEF AckSettle
  <2>2. UNCHANGED <<live, tail, cpc, cursor, found, ppc, pseq, gseq>>
    BY <1>29 DEF AckSettle
  <2>3. \A u \in Seqs : u < head \/ u = s \/ u \in acked_above => Dead(u)'
    BY <2>1, <2>2
  <2>4. \A u \in acked_above' : u \in acked_above \/ u = s
    BY <1>29 DEF AckSettle, AdvanceHead
  <2>5. head' <= tail /\ \A u \in Seqs : u < head' => u < head \/ u = s \/ u \in acked_above
    <3>1. CASE s # head
      BY <1>29, <3>1 DEF AckSettle, AdvanceHead
    <3>2. CASE s = head
      <4>1. PICK n \in (head + 1) .. MaxSeq :
              /\ \A m \in (head + 1) .. (n - 1) : m \in acked_above
              /\ head' = n
        BY <1>29, <3>2 DEF AckSettle, AdvanceHead
      <4>2. n - 1 = s \/ n - 1 \in acked_above
        BY <3>2, <4>1
      <4> QED
        BY <2>1, <3>2, <4>1, <4>2
    <3> QED
      BY <3>1, <3>2
  <2>6. gpc' = [gpc EXCEPT ![g] = "notify"]
    BY <1>29 DEF AckSettle
  <2>7. LogInv'
    <3>1. /\ \A u \in Seqs : u < head' => Dead(u)'
          /\ \A u \in acked_above' : Dead(u)'
      <4> HIDE DEF Dead
      <4> QED
        BY <2>1, <2>3, <2>4, <2>5, ZenonT(40)
    <3>3. \A h \in Guards :
            /\ gpc'[h] # "free" => gpc[h] # "free"
            /\ gpc'[h] \in {"flush", "settle"} => gpc[h] \in {"flush", "settle"}
      BY <1>29, <2>6 DEF AckSettle
    <3> QED
      BY <2>2, <2>5, <3>1, <3>3
  <2> QED
    BY <2>1, <2>2, <2>7
<1>30. ASSUME NEW g \in Guards, AckNotify(g) PROVE SafeInv'
  <2>1. ppc \in [Producers -> ProducerPC] /\ ppc' \in NotifyOne(ppc)
    BY <1>30 DEF AckNotify
  <2>2. \A q \in Producers : ppc'[q] = "apply" <=> ppc[q] = "apply"
    BY <2>1, NotifyOneEffect, ZenonT(40)
  <2>3. Up
    BY <1>30 DEF AckNotify
  <2> QED
    BY <1>30, <2>2, <2>3 DEF AckNotify
<1> QED
  BY <1>2, <1>3, <1>4, <1>5, <1>6, <1>7, <1>8, <1>9, <1>10, <1>11, <1>12, <1>13, <1>14, <1>15, <1>16, <1>17, <1>18, <1>19, <1>20, <1>21, <1>22, <1>23, <1>24, <1>25, <1>26, <1>27, <1>28, <1>29, <1>30
     DEF Next, ProducerStep, GuardStep

(* Both layers hold in every reachable state.                              *)
LEMMA SafeAlways == Spec => [](TypeInv /\ SafeInv)
  BY TypeInit, TypeStep, SafeInit, SafeStep, PTL DEF Spec

(* What is below head is dead, so neither stored nor about to be.          *)
LEMMA NothingBelowHead == TypeInv /\ SafeInv => HeadSafe
<1> SUFFICES ASSUME TypeInv, SafeInv, Up
             PROVE  /\ \A s \in Stored : s >= head
                    /\ \A p \in Producers : ppc[p] = "apply" => pseq[p] >= head
  BY DEF HeadSafe
<1>1. head \in 0 .. MaxSeq
  BY DEF TypeInv, TypeOK, InnerOK
<1>2. \A s \in Seqs : s < head => Dead(s)
  BY DEF SafeInv, LogInv
<1>3. \A s \in Stored : s >= head
  BY <1>1, <1>2 DEF Stored, Dead
<1>4. \A p \in Producers : ppc[p] = "apply" => pseq[p] \in Seqs
  BY DEF TypeInv, InCall
<1>5. \A p \in Producers : ppc[p] = "apply" => pseq[p] >= head
  BY <1>1, <1>2, <1>4 DEF Dead, Committed
<1> QED
  BY <1>3, <1>5

(* reserve never starts its scan above an entry that is stored or about to *)
(* be stored: whatever producers, acks on other threads, failing commits   *)
(* and restarts do, head passes only dead sequence numbers.                *)
THEOREM HeadNeverSkips == Spec => []HeadSafe
  BY NothingBelowHead, SafeAlways, PTL

-----------------------------------------------------------------------------
(* At-least-once: an accepted item stays until an ack deletes it.          *)

(* Nothing is on loan and nothing accepted before the first open.          *)
LEMMA ValueInit == Init => ValueInv /\ NoLoss
  BY DEF Init, ValueInv, NoLoss

(* What was read or written stays what is stored, or is deleted.           *)
LEMMA ValueStep == TypeInv /\ SafeInv /\ ValueInv /\ [Next]_vars => ValueInv'
<1> SUFFICES ASSUME TypeInv, SafeInv, ValueInv, [Next]_vars PROVE ValueInv'
  OBVIOUS
<1>1. StoreTypeOK /\ InnerOK /\ ThreadsOK /\ HistoryOK /\ InCall
  BY DEF TypeInv, TypeOK
<1> USE <1>1 DEF SafeInv, DownInv, LogInv, ValueInv, Up, Stored, Committed,
      storeVars, innerVars, prodVars, consVars, guardVars, histVars,
      StoreTypeOK, InnerOK, ThreadsOK, HistoryOK, InCall, ProducerPC, ConsumerPC, GuardPC
<1>2. CASE UNCHANGED vars
  BY <1>2 DEF vars
<1>3. CASE OpenStart
  BY <1>3 DEF OpenStart
<1>4. CASE OpenErr
  BY <1>4 DEF OpenErr
<1>5. CASE RecoverEntry
  BY <1>5 DEF RecoverEntry
<1>6. CASE RecoverDone
  BY <1>6 DEF RecoverDone
<1>7. CASE RecoverErr
  BY <1>7 DEF RecoverErr
<1>8. CASE Crash
  BY <1>8 DEF Crash, PowerLoss
<1>9. CASE ReserveStart
  BY <1>9 DEF ReserveStart
<1>10. CASE ReserveSeek
  BY <1>10 DEF ReserveSeek, Seek
<1>11. CASE ReserveNone
  BY <1>11 DEF ReserveNone
<1>12. CASE ReserveSkip
  BY <1>12 DEF ReserveSkip
<1>13. CASE ReserveTake
  BY <1>13 DEF ReserveTake, HandOut
<1>14. ASSUME NEW p \in Producers, Push(p) PROVE ValueInv'
  <2>1. \A q \in Producers :
          ppc'[q] = "flush" => ppc[q] = "flush" /\ pitem'[q] = pitem[q] /\ pseq'[q] = pseq[q]
    BY <1>14, SMTT(30) DEF Push, PushLocked, Claim
  <2>2. UNCHANGED <<live, deleted, consVars, guardVars>>
    BY <1>14 DEF Push, PushLocked, Claim
  <2> QED
    BY <2>1, <2>2
<1>15. ASSUME NEW p \in Producers, PushRetry(p) PROVE ValueInv'
  BY <1>15, SMTT(30) DEF PushRetry, PushLocked, Claim
<1>16. ASSUME NEW p \in Producers, TryPush(p) PROVE ValueInv'
  BY <1>16 DEF TryPush, Claim
<1>17. ASSUME NEW p \in Producers, SpuriousWake(p) PROVE ValueInv'
  BY <1>17 DEF SpuriousWake
<1>18. ASSUME NEW p \in Producers, Close(p) PROVE ValueInv'
  BY <1>18 DEF Close
<1>19. ASSUME NEW p \in Producers, WriteApply(p) PROVE ValueInv'
  BY <1>19 DEF WriteApply, Apply
<1>20. ASSUME NEW p \in Producers, WriteOk(p) PROVE ValueInv'
  BY <1>20 DEF WriteOk, Settle
<1>21. ASSUME NEW p \in Producers, WriteErr(p) PROVE ValueInv'
  BY <1>21 DEF WriteErr
<1>22. ASSUME NEW p \in Producers, GiveBack(p) PROVE ValueInv'
  BY <1>22 DEF GiveBack
<1>23. ASSUME NEW p \in Producers, WriteNotify(p) PROVE ValueInv'
  BY <1>23, WriteNotifyEffect DEF WriteNotify
<1>24. ASSUME NEW p \in Producers, CloseNotify(p) PROVE ValueInv'
  BY <1>24 DEF CloseNotify
<1>25. ASSUME NEW g \in Guards, Nack(g) PROVE ValueInv'
  BY <1>25 DEF Nack, Release
<1>26. ASSUME NEW g \in Guards, AckApply(g) PROVE ValueInv'
  BY <1>26 DEF AckApply, CanCall, Apply
<1>27. ASSUME NEW g \in Guards, AckOk(g) PROVE ValueInv'
  BY <1>27 DEF AckOk, Settle
<1>28. ASSUME NEW g \in Guards, AckErr(g) PROVE ValueInv'
  BY <1>28 DEF AckErr, Release
<1>29. ASSUME NEW g \in Guards, AckSettle(g) PROVE ValueInv'
  BY <1>29 DEF AckSettle
<1>30. ASSUME NEW g \in Guards, AckNotify(g) PROVE ValueInv'
  <2>1. ppc \in [Producers -> ProducerPC] /\ ppc' \in NotifyOne(ppc)
    BY <1>30 DEF AckNotify
  <2>2. \A q \in Producers : ppc'[q] = "flush" => ppc[q] = "flush"
    BY <2>1, NotifyOneEffect, ZenonT(40)
  <2>3. \A h \in Guards : gpc'[h] # "free" => gpc[h] # "free" /\ gseq'[h] = gseq[h] /\ gitem'[h] = gitem[h]
    BY <1>30 DEF AckNotify
  <2>4. UNCHANGED <<live, pseq, pitem, deleted, cpc, found, fitem>>
    BY <1>30 DEF AckNotify
  <2> QED
    BY <2>2, <2>3, <2>4
<1> QED
  BY <1>2, <1>3, <1>4, <1>5, <1>6, <1>7, <1>8, <1>9, <1>10, <1>11, <1>12, <1>13, <1>14, <1>15, <1>16, <1>17, <1>18, <1>19, <1>20, <1>21, <1>22, <1>23, <1>24, <1>25, <1>26, <1>27, <1>28, <1>29, <1>30
     DEF Next, ProducerStep, GuardStep

(* No step loses an accepted item.                                         *)
LEMMA NoLossStep == TypeInv /\ SafeInv /\ ValueInv /\ NoLoss /\ [Next]_vars => NoLoss'
<1> SUFFICES ASSUME TypeInv, SafeInv, ValueInv, NoLoss, [Next]_vars PROVE NoLoss'
  OBVIOUS
<1>1. StoreTypeOK /\ InnerOK /\ ThreadsOK /\ HistoryOK /\ InCall
  BY DEF TypeInv, TypeOK
<1> USE <1>1 DEF SafeInv, LogInv, ValueInv, NoLoss,
      storeVars, innerVars, prodVars, consVars, guardVars, histVars,
      StoreTypeOK, ThreadsOK, HistoryOK, InCall
<1>2. CASE UNCHANGED vars
  BY <1>2 DEF vars
<1>3. CASE OpenStart
  BY <1>3 DEF OpenStart
<1>4. CASE OpenErr
  BY <1>4 DEF OpenErr
<1>5. CASE RecoverEntry
  BY <1>5 DEF RecoverEntry
<1>6. CASE RecoverDone
  BY <1>6 DEF RecoverDone
<1>7. CASE RecoverErr
  BY <1>7 DEF RecoverErr
<1>8. CASE Crash
  <2> SUFFICES ASSUME restarts' = 0 \/ (durable /\ Backend # "mem"),
                      NEW i \in accepted' \ deleted'
               PROVE  \E s \in Seqs : live'[s] = i /\ (durable => disk'[s] = {i})
    BY DEF NoLoss
  <2>1. durable /\ Backend # "mem" /\ i \in accepted \ deleted
    BY <1>8 DEF Crash
  <2>2. PICK s \in Seqs : live[s] = i /\ disk[s] = {i}
    BY <2>1
  <2>3. live'[s] \in disk[s] /\ disk'[s] = {live'[s]}
    BY <1>8, <2>1 DEF Crash, PowerLoss
  <2> QED
    BY <2>2, <2>3
<1>9. CASE ReserveStart
  BY <1>9 DEF ReserveStart
<1>10. CASE ReserveSeek
  BY <1>10 DEF ReserveSeek, Seek
<1>11. CASE ReserveNone
  BY <1>11 DEF ReserveNone
<1>12. CASE ReserveSkip
  BY <1>12 DEF ReserveSkip
<1>13. CASE ReserveTake
  BY <1>13 DEF ReserveTake, HandOut
<1>14. ASSUME NEW p \in Producers, Push(p) PROVE NoLoss'
  BY <1>14 DEF Push, PushLocked, Claim
<1>15. ASSUME NEW p \in Producers, PushRetry(p) PROVE NoLoss'
  BY <1>15 DEF PushRetry, PushLocked, Claim
<1>16. ASSUME NEW p \in Producers, TryPush(p) PROVE NoLoss'
  BY <1>16 DEF TryPush, Claim
<1>17. ASSUME NEW p \in Producers, SpuriousWake(p) PROVE NoLoss'
  BY <1>17 DEF SpuriousWake
<1>18. ASSUME NEW p \in Producers, Close(p) PROVE NoLoss'
  BY <1>18 DEF Close
<1>19. ASSUME NEW p \in Producers, WriteApply(p) PROVE NoLoss'
  <2> SUFFICES ASSUME restarts' = 0 \/ (durable /\ Backend # "mem"),
                      NEW i \in accepted' \ deleted'
               PROVE  \E s \in Seqs : live'[s] = i /\ (durable => disk'[s] = {i})
    BY DEF NoLoss
  <2>1. PICK s \in Seqs : live[s] = i /\ (durable => disk[s] = {i})
    BY <1>19 DEF WriteApply
  <2>2. s # pseq[p]
    BY <1>19, <2>1 DEF WriteApply
  <2>3. live'[s] = live[s] /\ disk'[s] = disk[s]
    BY <1>19, <2>2 DEF WriteApply, Apply
  <2> QED
    BY <2>1, <2>3
<1>20. ASSUME NEW p \in Producers, WriteOk(p) PROVE NoLoss'
  <2> SUFFICES ASSUME restarts' = 0 \/ (durable /\ Backend # "mem"),
                      NEW i \in accepted' \ deleted'
               PROVE  \E s \in Seqs : live'[s] = i /\ (durable => disk'[s] = {i})
    BY DEF NoLoss
  <2>1. /\ live' = live
        /\ disk' = [disk EXCEPT ![pseq[p]] =
                      IF durable /\ live[pseq[p]] = pitem[p] THEN {pitem[p]} ELSE @]
    BY <1>20 DEF WriteOk, Settle
  <2>2. CASE i = pitem[p]
    <3>1. pseq[p] \in Seqs /\ live[pseq[p]] = i
      BY <1>20, <2>2 DEF WriteOk
    <3>2. live'[pseq[p]] = i /\ (durable => disk'[pseq[p]] = {i})
      BY <2>1, <2>2, <3>1
    <3> QED
      BY <3>1, <3>2
  <2>3. CASE i # pitem[p]
    <3>1. i \in accepted \ deleted
      BY <1>20, <2>3 DEF WriteOk
    <3>2. PICK s \in Seqs : live[s] = i /\ (durable => disk[s] = {i})
      BY <1>20, <3>1 DEF WriteOk
    <3>3. disk'[s] = disk[s]
      BY <2>1, <2>3, <3>2
    <3> QED
      BY <2>1, <3>2, <3>3
  <2> QED
    BY <2>2, <2>3
<1>21. ASSUME NEW p \in Producers, WriteErr(p) PROVE NoLoss'
  BY <1>21 DEF WriteErr
<1>22. ASSUME NEW p \in Producers, GiveBack(p) PROVE NoLoss'
  BY <1>22 DEF GiveBack
<1>23. ASSUME NEW p \in Producers, WriteNotify(p) PROVE NoLoss'
  BY <1>23 DEF WriteNotify
<1>24. ASSUME NEW p \in Producers, CloseNotify(p) PROVE NoLoss'
  BY <1>24 DEF CloseNotify
<1>25. ASSUME NEW g \in Guards, Nack(g) PROVE NoLoss'
  BY <1>25 DEF Nack, Release
<1>26. ASSUME NEW g \in Guards, AckApply(g) PROVE NoLoss'
  <2> SUFFICES ASSUME restarts' = 0 \/ (durable /\ Backend # "mem"),
                      NEW i \in accepted' \ deleted'
               PROVE  \E s \in Seqs : live'[s] = i /\ (durable => disk'[s] = {i})
    BY DEF NoLoss
  <2>1. PICK s \in Seqs : live[s] = i /\ (durable => disk[s] = {i})
    BY <1>26 DEF AckApply
  <2>2. s # gseq[g]
    <3>1. gpc[g] # "free"
      BY <1>26 DEF AckApply, CanCall
    <3>2. live[gseq[g]] \in {gitem[g], NoItem}
      BY <3>1
    <3>3. i # gitem[g] /\ i # NoItem
      BY <1>26 DEF AckApply
    <3> QED
      BY <2>1, <3>2, <3>3
  <2>3. live'[s] = live[s] /\ disk'[s] = disk[s]
    BY <1>26, <2>2 DEF AckApply, Apply
  <2> QED
    BY <2>1, <2>3
<1>27. ASSUME NEW g \in Guards, AckOk(g) PROVE NoLoss'
  <2> SUFFICES ASSUME restarts' = 0 \/ (durable /\ Backend # "mem"),
                      NEW i \in accepted' \ deleted'
               PROVE  \E s \in Seqs : live'[s] = i /\ (durable => disk'[s] = {i})
    BY DEF NoLoss
  <2>1. PICK s \in Seqs : live[s] = i /\ (durable => disk[s] = {i})
    BY <1>27 DEF AckOk
  <2>2. live' = live
        /\ disk' = [disk EXCEPT ![gseq[g]] =
                      IF ack_durable /\ live[gseq[g]] = NoItem THEN {NoItem} ELSE @]
    BY <1>27 DEF AckOk, Settle
  <2>3. i # NoItem
    BY <1>27 DEF AckOk
  <2>4. disk'[s] = disk[s]
    <3>1. CASE s = gseq[g]
      BY <2>1, <2>2, <2>3, <3>1
    <3>2. CASE s # gseq[g]
      BY <2>2, <3>2
    <3> QED
      BY <3>1, <3>2
  <2> QED
    BY <2>1, <2>2, <2>4
<1>28. ASSUME NEW g \in Guards, AckErr(g) PROVE NoLoss'
  BY <1>28 DEF AckErr, Release
<1>29. ASSUME NEW g \in Guards, AckSettle(g) PROVE NoLoss'
  BY <1>29 DEF AckSettle
<1>30. ASSUME NEW g \in Guards, AckNotify(g) PROVE NoLoss'
  BY <1>30 DEF AckNotify
<1> QED
  BY <1>2, <1>3, <1>4, <1>5, <1>6, <1>7, <1>8, <1>9, <1>10, <1>11, <1>12, <1>13, <1>14, <1>15, <1>16, <1>17, <1>18, <1>19, <1>20, <1>21, <1>22, <1>23, <1>24, <1>25, <1>26, <1>27, <1>28, <1>29, <1>30
     DEF Next, ProducerStep, GuardStep

(* At-least-once delivery rests on this: an item whose push returned Ok is *)
(* in the store, and on disk under a durable policy, until an ack deletes  *)
(* it, with any number of crashes, failing commits and concurrent acks.    *)
THEOREM AcceptedIsKept == Spec => []NoLoss
  BY TypeInit, TypeStep, SafeInit, SafeStep, ValueInit, ValueStep, NoLossStep, PTL DEF Spec

-----------------------------------------------------------------------------
(* Reservations.                                                           *)

(* Nothing is reserved before the first open.                              *)
LEMMA ReservedInit == Init => ReservedExact
  BY DEF Init, ReservedExact, OnLoan

(* Every step keeps the reserved set equal to the entries on loan.         *)
LEMMA ReservedStep == TypeInv /\ ReservedExact /\ [Next]_vars => ReservedExact'
<1> SUFFICES ASSUME TypeInv, ReservedExact, [Next]_vars PROVE ReservedExact'
  OBVIOUS
<1>1. gpc \in [Guards -> GuardPC] /\ gseq \in [Guards -> 0 .. MaxSeq]
  BY DEF TypeInv, TypeOK, ThreadsOK
<1> USE <1>1 DEF ReservedExact, OnLoan, GuardPC, storeVars, innerVars, prodVars,
      consVars, guardVars, histVars
<1>2. CASE UNCHANGED vars
  BY <1>2 DEF vars
<1>3. CASE OpenStart
  BY <1>3 DEF OpenStart
<1>4. CASE OpenErr
  BY <1>4 DEF OpenErr
<1>5. CASE RecoverEntry
  BY <1>5 DEF RecoverEntry
<1>6. CASE RecoverDone
  BY <1>6 DEF RecoverDone
<1>7. CASE RecoverErr
  BY <1>7 DEF RecoverErr
<1>8. CASE Crash
  BY <1>8 DEF Crash
<1>9. CASE ReserveStart
  BY <1>9 DEF ReserveStart
<1>10. CASE ReserveSeek
  BY <1>10 DEF ReserveSeek
<1>11. CASE ReserveNone
  BY <1>11 DEF ReserveNone
<1>12. CASE ReserveSkip
  BY <1>12 DEF ReserveSkip
<1>13. CASE ReserveTake
  BY <1>13 DEF ReserveTake, HandOut
<1>14. ASSUME NEW p \in Producers, Push(p) PROVE ReservedExact'
  BY <1>14 DEF Push, PushLocked, Claim
<1>15. ASSUME NEW p \in Producers, PushRetry(p) PROVE ReservedExact'
  BY <1>15 DEF PushRetry, PushLocked, Claim
<1>16. ASSUME NEW p \in Producers, TryPush(p) PROVE ReservedExact'
  BY <1>16 DEF TryPush, Claim
<1>17. ASSUME NEW p \in Producers, SpuriousWake(p) PROVE ReservedExact'
  BY <1>17 DEF SpuriousWake
<1>18. ASSUME NEW p \in Producers, Close(p) PROVE ReservedExact'
  BY <1>18 DEF Close
<1>19. ASSUME NEW p \in Producers, WriteApply(p) PROVE ReservedExact'
  BY <1>19 DEF WriteApply
<1>20. ASSUME NEW p \in Producers, WriteOk(p) PROVE ReservedExact'
  BY <1>20 DEF WriteOk
<1>21. ASSUME NEW p \in Producers, WriteErr(p) PROVE ReservedExact'
  BY <1>21 DEF WriteErr
<1>22. ASSUME NEW p \in Producers, GiveBack(p) PROVE ReservedExact'
  BY <1>22 DEF GiveBack
<1>23. ASSUME NEW p \in Producers, WriteNotify(p) PROVE ReservedExact'
  BY <1>23 DEF WriteNotify
<1>24. ASSUME NEW p \in Producers, CloseNotify(p) PROVE ReservedExact'
  BY <1>24 DEF CloseNotify
<1>25. ASSUME NEW g \in Guards, Nack(g) PROVE ReservedExact'
  BY <1>25 DEF Nack, Release, CanCall
<1>26. ASSUME NEW g \in Guards, AckApply(g) PROVE ReservedExact'
  BY <1>26 DEF AckApply, CanCall
<1>27. ASSUME NEW g \in Guards, AckOk(g) PROVE ReservedExact'
  BY <1>27 DEF AckOk
<1>28. ASSUME NEW g \in Guards, AckErr(g) PROVE ReservedExact'
  BY <1>28 DEF AckErr, Release, CanCall
<1>29. ASSUME NEW g \in Guards, AckSettle(g) PROVE ReservedExact'
  BY <1>29 DEF AckSettle
<1>30. ASSUME NEW g \in Guards, AckNotify(g) PROVE ReservedExact'
  BY <1>30 DEF AckNotify
<1> QED
  BY <1>2, <1>3, <1>4, <1>5, <1>6, <1>7, <1>8, <1>9, <1>10, <1>11, <1>12, <1>13, <1>14, <1>15, <1>16, <1>17, <1>18, <1>19, <1>20, <1>21, <1>22, <1>23, <1>24, <1>25, <1>26, <1>27, <1>28, <1>29, <1>30
     DEF Next, ProducerStep, GuardStep

(* No entry is ever on loan to two guards, and none stays reserved after   *)
(* its guard is gone, on any path out of a guard.                          *)
THEOREM ReservationsExact == Spec => []ReservedExact
  BY TypeInit, TypeStep, ReservedInit, ReservedStep, PTL DEF Spec

-----------------------------------------------------------------------------
(* Wake-ups.                                                               *)

(* Nobody sleeps before the first open.                                    *)
LEMMA StallInit == Init => NoStall
  BY DEF Init, NoStall, Waiting

(* Every step that lets a sleeper go on has its wake-up under way.         *)
LEMMA StallStep == TypeInv /\ SafeInv /\ NoStall /\ [Next]_vars => NoStall'
<1> SUFFICES ASSUME TypeInv, SafeInv, NoStall, [Next]_vars PROVE NoStall'
  OBVIOUS
<1>1. ThreadsOK /\ InnerOK
  BY DEF TypeInv, TypeOK
<1> USE <1>1 DEF SafeInv, DownInv, NoStall, WakePending, Waiting, Up, storeVars, innerVars,
      prodVars, consVars, guardVars, histVars, ThreadsOK, InnerOK, ProducerPC, GuardPC, ConsumerPC
<1>2. CASE UNCHANGED vars
  BY <1>2 DEF vars
<1>3. CASE OpenStart
  BY <1>3 DEF OpenStart
<1>4. CASE OpenErr
  BY <1>4 DEF OpenErr
<1>5. CASE RecoverEntry
  BY <1>5 DEF RecoverEntry
<1>6. CASE RecoverDone
  BY <1>6 DEF RecoverDone
<1>7. CASE RecoverErr
  BY <1>7 DEF RecoverErr
<1>8. CASE Crash
  BY <1>8 DEF Crash
<1>9. CASE ReserveStart
  BY <1>9 DEF ReserveStart
<1>10. CASE ReserveSeek
  BY <1>10 DEF ReserveSeek
<1>11. CASE ReserveNone
  BY <1>11 DEF ReserveNone
<1>12. CASE ReserveSkip
  BY <1>12 DEF ReserveSkip
<1>13. CASE ReserveTake
  BY <1>13 DEF ReserveTake, HandOut
<1>14. ASSUME NEW p \in Producers, Push(p) PROVE NoStall'
  BY <1>14 DEF Push, PushLocked, Claim, Admits, Add, Fresh
<1>15. ASSUME NEW p \in Producers, PushRetry(p) PROVE NoStall'
  BY <1>15 DEF PushRetry, PushLocked, Claim, Admits, Add
<1>16. ASSUME NEW p \in Producers, TryPush(p) PROVE NoStall'
  BY <1>16 DEF TryPush, Claim, Admits, Add
<1>17. ASSUME NEW p \in Producers, SpuriousWake(p) PROVE NoStall'
  BY <1>17 DEF SpuriousWake
<1>18. ASSUME NEW p \in Producers, Close(p) PROVE NoStall'
  BY <1>18 DEF Close
<1>19. ASSUME NEW p \in Producers, WriteApply(p) PROVE NoStall'
  BY <1>19 DEF WriteApply
<1>20. ASSUME NEW p \in Producers, WriteOk(p) PROVE NoStall'
  BY <1>20 DEF WriteOk
<1>21. ASSUME NEW p \in Producers, WriteErr(p) PROVE NoStall'
  BY <1>21 DEF WriteErr
<1>22. ASSUME NEW p \in Producers, GiveBack(p) PROVE NoStall'
  BY <1>22 DEF GiveBack
<1>23. ASSUME NEW p \in Producers, WriteNotify(p) PROVE NoStall'
  BY <1>23 DEF WriteNotify, NotifyOne
<1>24. ASSUME NEW p \in Producers, CloseNotify(p) PROVE NoStall'
  BY <1>24 DEF CloseNotify
<1>25. ASSUME NEW g \in Guards, Nack(g) PROVE NoStall'
  BY <1>25 DEF Nack, Release, CanCall
<1>26. ASSUME NEW g \in Guards, AckApply(g) PROVE NoStall'
  BY <1>26 DEF AckApply, CanCall
<1>27. ASSUME NEW g \in Guards, AckOk(g) PROVE NoStall'
  BY <1>27 DEF AckOk
<1>28. ASSUME NEW g \in Guards, AckErr(g) PROVE NoStall'
  BY <1>28 DEF AckErr, Release, CanCall
<1>29. ASSUME NEW g \in Guards, AckSettle(g) PROVE NoStall'
  BY <1>29 DEF AckSettle
<1>30. ASSUME NEW g \in Guards, AckNotify(g) PROVE NoStall'
  BY <1>30 DEF AckNotify, NotifyOne
<1> QED
  BY <1>2, <1>3, <1>4, <1>5, <1>6, <1>7, <1>8, <1>9, <1>10, <1>11, <1>12, <1>13, <1>14, <1>15, <1>16, <1>17, <1>18, <1>19, <1>20, <1>21, <1>22, <1>23, <1>24, <1>25, <1>26, <1>27, <1>28, <1>29, <1>30
     DEF Next, ProducerStep, GuardStep

(* After close, and whenever the queue is empty, no producer sleeps on the *)
(* condition variable without a wake-up under way: unlocking before        *)
(* notifying, waking one at a time and spurious wake-ups lose none.        *)
THEOREM NobodyStalls == Spec => []NoStall
  BY TypeInit, TypeStep, SafeInit, SafeStep, StallInit, StallStep, PTL DEF Spec

-----------------------------------------------------------------------------
(* The log only grows.                                                     *)

(* A claim takes a free sequence number at or above head.                  *)
LEMMA ClaimGrows ==
  ASSUME TypeInv, SafeInv, NEW p \in Producers, NEW i \in Items, Up, Claim(p, i)
  PROVE  GrowStep
  BY DEF TypeInv, TypeOK, StoreTypeOK, InnerOK, HistoryOK, SafeInv, LogInv, GrowStep,
         Claim, Up, Stored

(* Every step of an open queue moves head and tail forward or not at all.  *)
LEMMA GrowsStep == TypeInv /\ SafeInv /\ [Next]_vars => [GrowStep]_vars
<1> SUFFICES ASSUME TypeInv, SafeInv, Next PROVE GrowStep
  OBVIOUS
<1> USE DEF storeVars, innerVars, prodVars, consVars, guardVars, histVars
<1>1. tail \in Nat /\ head \in Nat
  BY DEF TypeInv, TypeOK, InnerOK
<1>2. ASSUME UNCHANGED <<head, tail, owner>> PROVE GrowStep
  BY <1>1, <1>2 DEF GrowStep
<1>3. CASE OpenStart \/ OpenErr \/ RecoverEntry \/ RecoverDone \/ RecoverErr \/ Crash
  BY <1>3 DEF GrowStep, Up, OpenStart, OpenErr, RecoverEntry, RecoverDone, RecoverErr, Crash
<1>4. CASE ReserveStart \/ ReserveSeek \/ ReserveNone \/ ReserveSkip \/ ReserveTake
  BY <1>2, <1>4 DEF ReserveStart, ReserveSeek, ReserveNone, ReserveSkip, ReserveTake, HandOut
<1>5. ASSUME NEW p \in Producers, Push(p) \/ PushRetry(p) \/ TryPush(p) PROVE GrowStep
  <2>1. CASE UNCHANGED <<head, tail, owner>>
    BY <1>2, <2>1
  <2>2. CASE \E i \in Items : Up /\ Claim(p, i)
    BY <2>2, ClaimGrows
  <2>3. ppc[p] = "woken" => Up /\ pitem[p] \in Items
    BY DEF SafeInv, DownInv, TypeInv, InCall
  <2> QED
    BY <1>5, <2>1, <2>2, <2>3 DEF Push, PushRetry, TryPush, PushLocked, Fresh
<1>6. ASSUME NEW p \in Producers,
             \/ SpuriousWake(p) \/ Close(p) \/ WriteApply(p) \/ WriteOk(p) \/ WriteErr(p)
             \/ GiveBack(p) \/ WriteNotify(p) \/ CloseNotify(p)
      PROVE  GrowStep
  BY <1>2, <1>6 DEF SpuriousWake, Close, WriteApply, WriteOk, WriteErr, GiveBack,
                    WriteNotify, CloseNotify
<1>7. ASSUME NEW g \in Guards, Nack(g) \/ AckApply(g) \/ AckOk(g) \/ AckErr(g) \/ AckNotify(g)
      PROVE  GrowStep
  BY <1>2, <1>7 DEF Nack, AckApply, AckOk, AckErr, AckNotify
<1>8. ASSUME NEW g \in Guards, AckSettle(g) PROVE GrowStep
  <2>1. head' \in Nat /\ head' >= head
    BY <1>1, <1>8 DEF AckSettle, AdvanceHead
  <2>2. UNCHANGED <<tail, owner>>
    BY <1>8 DEF AckSettle
  <2> QED
    BY <1>1, <2>1, <2>2 DEF GrowStep
<1> QED
  BY <1>3, <1>4, <1>5, <1>6, <1>7, <1>8 DEF Next, ProducerStep, GuardStep

(* While the queue is open, head and tail never move back and no claim     *)
(* overwrites a stored item, in particular after recovery derived tail.    *)
THEOREM LogOnlyGrows == Spec => LogGrows
  BY SafeAlways, GrowsStep, PTL DEF Spec, LogGrows

=============================================================================
