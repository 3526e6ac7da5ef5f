--------------------------- MODULE IdentityProofs ---------------------------
(***************************************************************************)
(* Proofs about what becomes of each item: that it keeps its own sequence  *)
(* number, what a crash may leave of it, when it may come back.            *)
(***************************************************************************)
EXTENDS QueueProofs

USE StoreAssumption, QueueAssumption DEF StoreAssumption, QueueAssumption, Seqs, Values, Versions, Usize

-----------------------------------------------------------------------------
(* Items and numbers.                                                      *)

(* Nothing has a number before the first push.                             *)
LEMMA IdentityInit == Init => IdentityInv
  BY DEF Init, StoreInit, IdentityInv, ItemInv, DiskInv, HistoryInv, Up

(* The notification after an ack wakes at most one sleeper.                *)
LEMMA AckNotifyEffect ==
  ASSUME ThreadsOK, NEW g \in Guards, AckNotify(g)
  PROVE  /\ ppc' \in [Producers -> ProducerPC]
         /\ \A q \in Producers :
              ppc'[q] # ppc[q] => ppc[q] = "waiting" /\ ppc'[q] = "woken"
<1>1. ppc \in [Producers -> ProducerPC] /\ ppc' \in NotifyOne(ppc)
  BY DEF ThreadsOK, AckNotify
<1> QED
  BY <1>1, NotifyOneEffect, Zenon

(* The critical section of push: a claim gives a new item the number at    *)
(* tail, which nobody names.                                               *)
LEMMA PushLockedItem ==
  ASSUME TypeInv, SafeInv, ItemInv, NEW p \in Producers, NEW i \in Items \ pushed, Author[i] = p,
         PushLocked(p, i), UNCHANGED <<storeVars, consVars, guardVars, restarts>>
  PROVE  ItemInv'
<1>1. StoreTypeOK /\ InnerOK /\ ThreadsOK /\ HistoryOK /\ InCall
  BY DEF TypeInv, TypeOK
<1> USE <1>1 DEF SafeInv, LogInv, ItemInv, Committed, InnerOK, ThreadsOK, HistoryOK, InCall,
      storeVars, innerVars, consVars, guardVars, histVars
<1>2. CASE Claim(p, i)
  <2> USE <1>2 DEF Claim
  <2>1. tail \in Seqs /\ owner' = [owner EXCEPT ![tail] = i]
    OBVIOUS
  <2>2. \A s \in Seqs : owner[s] # i
    OBVIOUS
  <2>3. \A s, t \in Seqs : owner'[s] = owner'[t] /\ owner'[s] # NoItem => s = t
    BY <2>1, <2>2
  <2>4. \A s \in Seqs : owner'[s] \in pushed' \cup {NoItem}
    BY <2>1
  <2>5. \A q \in Producers :
          /\ ppc'[q] \in {"waiting", "woken"} => pitem'[q] \notin pushed'
          /\ ppc'[q] \in {"waiting", "woken", "apply"} => Author[pitem'[q]] = q
    OBVIOUS
  <2>6. \A q \in Producers :
          ppc'[q] \in {"apply", "flush", "giveback"} => pseq'[q] < tail' /\ owner'[pseq'[q]] = pitem'[q]
    OBVIOUS
  <2>7. \A q, r \in Producers :
          /\ ppc'[q] \in {"apply", "flush", "giveback"}
          /\ ppc'[r] \in {"apply", "flush", "giveback"}
          /\ pseq'[q] = pseq'[r]
          => q = r
    OBVIOUS
  <2>8. \A g \in Guards : gpc'[g] # "free" => owner'[gseq'[g]] = gitem'[g]
    OBVIOUS
  <2>9. cpc' = "check" => owner'[found'] = fitem'
    OBVIOUS
  <2> QED
    BY <2>3, <2>4, <2>5, <2>6, <2>7, <2>8, <2>9
<1>3. CASE /\ ppc' = [ppc EXCEPT ![p] = "idle"] /\ pitem' = [pitem EXCEPT ![p] = NoItem]
           /\ UNCHANGED <<innerVars, pseq, histVars>>
  BY <1>3
<1>4. CASE /\ ppc' = [ppc EXCEPT ![p] = "waiting"] /\ pitem' = [pitem EXCEPT ![p] = i]
           /\ UNCHANGED <<innerVars, pseq, histVars>>
  BY <1>4
<1> QED
  BY <1>2, <1>3, <1>4 DEF PushLocked

(* Every push goes through the critical section with a new item of its     *)
(* producer.                                                               *)
LEMMA PushForms ==
  ASSUME TypeInv, ItemInv, NEW p \in Producers, Push(p) \/ PushRetry(p) \/ TryPush(p)
  PROVE  /\ \E i \in Items \ pushed : Author[i] = p /\ PushLocked(p, i)
         /\ ppc[p] \in {"idle", "woken"}
         /\ UNCHANGED <<storeVars, consVars, guardVars, restarts>>
<1>1. CASE Push(p)
  BY <1>1 DEF Push, Fresh
<1>2. CASE PushRetry(p)
  BY <1>2 DEF PushRetry, TypeInv, InCall, ItemInv
<1>3. CASE TryPush(p)
  BY <1>3 DEF TryPush, Fresh, PushLocked
<1> QED
  BY <1>1, <1>2, <1>3

(* Every step keeps items and numbers together.                            *)
LEMMA ItemStep == TypeInv /\ SafeInv /\ IdentityInv /\ [Next]_vars => ItemInv'
<1> SUFFICES ASSUME TypeInv, SafeInv, ItemInv, DiskInv, [Next]_vars PROVE ItemInv'
  BY DEF IdentityInv
<1>1. StoreTypeOK /\ InnerOK /\ ThreadsOK /\ HistoryOK /\ InCall
  BY DEF TypeInv, TypeOK
<1> USE <1>1 DEF ItemInv, InnerOK, ThreadsOK, HistoryOK, InCall, StoreTypeOK, ProducerPC, GuardPC, ConsumerPC,
      storeVars, innerVars, prodVars, consVars, guardVars, histVars
<1>2. CASE UNCHANGED vars
  BY <1>2 DEF vars
<1>3. CASE OpenStart
  BY <1>3 DEF OpenStart, SafeInv, DownInv, Up
<1>4. CASE OpenErr
  BY <1>4 DEF OpenErr
<1>5. CASE RecoverEntry
  BY <1>5 DEF RecoverEntry
<1>6. CASE RecoverDone
  BY <1>6 DEF RecoverDone
<1>7. CASE RecoverErr
  BY <1>7 DEF RecoverErr
<1>8. CASE Crash
  BY <1>8 DEF Crash, PowerLoss
<1>9. CASE ReserveStart
  BY <1>9 DEF ReserveStart
<1>10. CASE ReserveSeek
  BY <1>10 DEF ReserveSeek, Seek, Stored, DiskInv
<1>11. CASE ReserveNone
  BY <1>11 DEF ReserveNone
<1>12. CASE ReserveSkip
  BY <1>12 DEF ReserveSkip
<1>13. CASE ReserveTake
  BY <1>13 DEF ReserveTake, HandOut
<1>14. ASSUME NEW p \in Producers, Push(p) PROVE ItemInv'
  BY <1>14, PushForms, PushLockedItem
<1>15. ASSUME NEW p \in Producers, PushRetry(p) PROVE ItemInv'
  BY <1>15, PushForms, PushLockedItem
<1>16. ASSUME NEW p \in Producers, TryPush(p) PROVE ItemInv'
  BY <1>16, PushForms, PushLockedItem
<1>17. ASSUME NEW p \in Producers, SpuriousWake(p) PROVE ItemInv'
  BY <1>17 DEF SpuriousWake
<1>18. ASSUME NEW p \in Producers, Close(p) PROVE ItemInv'
  BY <1>18 DEF Close
<1>19. ASSUME NEW p \in Producers, WriteApply(p) PROVE ItemInv'
  BY <1>19 DEF WriteApply, Apply
<1>20. ASSUME NEW p \in Producers, WriteOk(p) PROVE ItemInv'
  BY <1>20 DEF WriteOk, Settle
<1>21. ASSUME NEW p \in Producers, WriteErr(p) PROVE ItemInv'
  BY <1>21 DEF WriteErr
<1>22. ASSUME NEW p \in Producers, GiveBack(p) PROVE ItemInv'
  BY <1>22 DEF GiveBack
<1>23. ASSUME NEW p \in Producers, WriteNotify(p) PROVE ItemInv'
  <2>1. \A q \in Producers :
          ppc'[q] # ppc[q] => ppc'[q] = "idle" \/ (ppc[q] = "waiting" /\ ppc'[q] = "woken")
    BY <1>1, <1>23, WriteNotifyEffect, Zenon
  <2>2. UNCHANGED <<owner, pushed, tail, pitem, pseq, consVars, guardVars>>
    BY <1>23 DEF WriteNotify
  <2>3. \A q \in Producers :
          /\ ppc'[q] \in {"apply", "flush", "giveback"} => ppc'[q] = ppc[q]
          /\ ppc'[q] \in {"waiting", "woken"} => ppc[q] \in {"waiting", "woken"}
    BY <2>1
  <2> QED
    BY <2>2, <2>3
<1>24. ASSUME NEW p \in Producers, CloseNotify(p) PROVE ItemInv'
  BY <1>24 DEF CloseNotify
<1>25. ASSUME NEW g \in Guards, Nack(g) PROVE ItemInv'
  BY <1>25 DEF Nack, Release, CanCall
<1>26. ASSUME NEW g \in Guards, AckApply(g) PROVE ItemInv'
  BY <1>26 DEF AckApply, CanCall, Apply
<1>27. ASSUME NEW g \in Guards, AckOk(g) PROVE ItemInv'
  BY <1>27 DEF AckOk, Settle
<1>28. ASSUME NEW g \in Guards, AckErr(g) PROVE ItemInv'
  BY <1>28 DEF AckErr, Release, CanCall
<1>29. ASSUME NEW g \in Guards, AckSettle(g) PROVE ItemInv'
  BY <1>29 DEF AckSettle
<1>30. ASSUME NEW g \in Guards, AckNotify(g) PROVE ItemInv'
  <2>1. \A q \in Producers :
          ppc'[q] # ppc[q] => ppc[q] = "waiting" /\ ppc'[q] = "woken"
    BY <1>1, <1>30, AckNotifyEffect, Zenon
  <2>2. UNCHANGED <<tail, owner, pushed, pseq, pitem, cpc, found, fitem>>
    BY <1>30 DEF AckNotify
  <2>3. \A h \in Guards : gpc'[h] # "free" => gpc[h] # "free" /\ gseq'[h] = gseq[h] /\ gitem'[h] = gitem[h]
    BY <1>30 DEF AckNotify
  <2>4. \A q \in Producers :
          /\ ppc'[q] \in {"apply", "flush", "giveback"} => ppc'[q] = ppc[q]
          /\ ppc'[q] \in {"waiting", "woken"} => ppc[q] \in {"waiting", "woken"}
    BY <2>1
  <2> QED
    BY <2>2, <2>3, <2>4
<1> QED
  BY <1>2, <1>3, <1>4, <1>5, <1>6, <1>7, <1>8, <1>9, <1>10, <1>11, <1>12, <1>13, <1>14, <1>15, <1>16, <1>17, <1>18, <1>19, <1>20, <1>21, <1>22, <1>23, <1>24, <1>25, <1>26, <1>27, <1>28, <1>29, <1>30
     DEF Next, ProducerStep, GuardStep

(* A claim writes nothing yet, at a number nothing was written at.         *)
LEMMA PushLockedDisk ==
  ASSUME TypeInv, SafeInv, DiskInv, NEW p \in Producers, NEW i \in Items \ pushed, Up,
         PushLocked(p, i), UNCHANGED <<storeVars, consVars, guardVars, restarts>>
  PROVE  DiskInv'
<1>1. StoreTypeOK /\ InnerOK /\ ThreadsOK /\ HistoryOK /\ InCall
  BY DEF TypeInv, TypeOK
<1>a. tail \in Nat /\ owner \in [Seqs -> Values] /\ cpc # "down"
  BY <1>1 DEF InnerOK, HistoryOK, Up
<1>b. \/ tail' = tail + 1 /\ owner' = [owner EXCEPT ![tail] = i]
      \/ UNCHANGED <<tail, owner>>
  BY DEF PushLocked, Claim, innerVars, histVars
<1>2. tail' >= tail /\ tail' \in Nat
  BY <1>a, <1>b
<1>3. \A s \in Seqs : owner'[s] = owner[s] \/ disk[s] = {NoItem}
  <2>1. \A s \in Seqs : owner'[s] = owner[s] \/ s = tail
    BY <1>a, <1>b
  <2> QED
    BY <1>a, <2>1 DEF DiskInv
<1>4. UNCHANGED <<live, disk, cpc>>
  BY DEF storeVars, consVars
<1>5. \A s \in Seqs : disk[s] \subseteq {NoItem, owner[s]} /\ live[s] \in disk[s]
  BY DEF DiskInv
<1>6. \A s \in Seqs : disk[s] \subseteq {NoItem, owner'[s]}
  BY <1>3, <1>5
<1>7. \A s \in Seqs : s >= tail' => disk[s] = {NoItem}
  <2>1. \A s \in Seqs : s >= tail => disk[s] = {NoItem}
    BY <1>a DEF DiskInv
  <2> QED
    BY <1>a, <1>2, <2>1, StoreAssumption DEF Seqs
<1>8. Up'
  BY <1>4 DEF Up
<1> QED
  BY <1>4, <1>5, <1>6, <1>7, <1>8 DEF DiskInv

(* Every step keeps what a crash may leave in hand.                        *)
LEMMA DiskStep == TypeInv /\ SafeInv /\ IdentityInv /\ [Next]_vars => DiskInv'
<1> SUFFICES ASSUME TypeInv, SafeInv, ItemInv, DiskInv, [Next]_vars PROVE DiskInv'
  BY DEF IdentityInv
<1>1. StoreTypeOK /\ InnerOK /\ ThreadsOK /\ HistoryOK /\ InCall
  BY DEF TypeInv, TypeOK
<1> USE <1>1 DEF DiskInv, Up, StoreTypeOK, InnerOK, HistoryOK,
      storeVars, innerVars, prodVars, consVars, guardVars, histVars
<1>u. \A p \in Producers : ppc[p] # "idle" => Up
  BY DEF SafeInv, DownInv
<1>v. \A g \in Guards : gpc[g] # "free" => Up
  BY DEF SafeInv, DownInv
<1>2. CASE UNCHANGED vars
  BY <1>2 DEF vars
<1>3. CASE OpenStart
  <2>1. \A s \in Seqs : s >= RecoveredTail => live[s] = NoItem
    BY TailAboveStored, RecoveredTailType DEF Stored
  <2> QED
    BY <1>3, <2>1 DEF OpenStart
<1>4. CASE OpenErr
  BY <1>4 DEF OpenErr
<1>5. CASE RecoverEntry
  BY <1>5 DEF RecoverEntry
<1>6. CASE RecoverDone
  BY <1>6 DEF RecoverDone
<1>7. CASE RecoverErr
  BY <1>7 DEF RecoverErr
<1>8. CASE Crash
  BY <1>8 DEF Crash, PowerLoss
<1>9. CASE ReserveStart
  BY <1>9 DEF ReserveStart
<1>10. CASE ReserveSeek
  BY <1>10 DEF ReserveSeek, Seek
<1>11. CASE ReserveNone
  BY <1>11 DEF ReserveNone
<1>12. CASE ReserveSkip
  BY <1>12 DEF ReserveSkip
<1>13. CASE ReserveTake
  BY <1>13 DEF ReserveTake, HandOut
<1>14. ASSUME NEW p \in Producers, Push(p) PROVE DiskInv'
  BY <1>14, PushForms, PushLockedDisk, <1>u DEF Push
<1>15. ASSUME NEW p \in Producers, PushRetry(p) PROVE DiskInv'
  BY <1>15, PushForms, PushLockedDisk, <1>u DEF PushRetry
<1>16. ASSUME NEW p \in Producers, TryPush(p) PROVE DiskInv'
  BY <1>16, PushForms, PushLockedDisk, <1>u DEF TryPush
<1>17. ASSUME NEW p \in Producers, SpuriousWake(p) PROVE DiskInv'
  BY <1>17 DEF SpuriousWake
<1>18. ASSUME NEW p \in Producers, Close(p) PROVE DiskInv'
  BY <1>18 DEF Close
<1>19. ASSUME NEW p \in Producers, WriteApply(p) PROVE DiskInv'
  <2>1. /\ pseq[p] \in Seqs /\ pseq[p] < tail /\ owner[pseq[p]] = pitem[p] /\ Up
        /\ live' = [live EXCEPT ![pseq[p]] = pitem[p]]
        /\ disk' = [disk EXCEPT ![pseq[p]] = @ \cup {pitem[p]}]
        /\ UNCHANGED <<owner, tail, cpc>>
    BY <1>19, <1>u DEF WriteApply, Apply, ItemInv, InCall
  <2> QED
    BY <2>1
<1>20. ASSUME NEW p \in Producers, WriteOk(p) PROVE DiskInv'
  <2>1. /\ pseq[p] \in Seqs /\ pseq[p] < tail /\ Up
        /\ disk' = [disk EXCEPT ![pseq[p]] = IF durable /\ live[pseq[p]] = pitem[p] THEN {pitem[p]} ELSE @]
        /\ UNCHANGED <<live, owner, tail, cpc>>
    BY <1>20, <1>u DEF WriteOk, Settle, ItemInv, InCall
  <2> QED
    BY <2>1
<1>21. ASSUME NEW p \in Producers, WriteErr(p) PROVE DiskInv'
  BY <1>21 DEF WriteErr
<1>22. ASSUME NEW p \in Producers, GiveBack(p) PROVE DiskInv'
  BY <1>22 DEF GiveBack
<1>23. ASSUME NEW p \in Producers, WriteNotify(p) PROVE DiskInv'
  BY <1>23 DEF WriteNotify
<1>24. ASSUME NEW p \in Producers, CloseNotify(p) PROVE DiskInv'
  BY <1>24 DEF CloseNotify
<1>25. ASSUME NEW g \in Guards, Nack(g) PROVE DiskInv'
  BY <1>25 DEF Nack, Release, CanCall
<1>26. ASSUME NEW g \in Guards, AckApply(g) PROVE DiskInv'
  <2>1. /\ gseq[g] \in Seqs /\ gseq[g] < tail /\ Up
        /\ live' = [live EXCEPT ![gseq[g]] = NoItem]
        /\ disk' = [disk EXCEPT ![gseq[g]] = @ \cup {NoItem}]
        /\ UNCHANGED <<owner, tail, cpc>>
    BY <1>26, <1>v DEF AckApply, CanCall, Apply, SafeInv, LogInv, Committed, InCall
  <2> QED
    BY <2>1
<1>27. ASSUME NEW g \in Guards, AckOk(g) PROVE DiskInv'
  <2>1. /\ gseq[g] \in Seqs /\ gseq[g] < tail /\ Up
        /\ disk' = [disk EXCEPT ![gseq[g]] = IF ack_durable /\ live[gseq[g]] = NoItem THEN {NoItem} ELSE @]
        /\ UNCHANGED <<live, owner, tail, cpc>>
    BY <1>27, <1>v DEF AckOk, Settle, SafeInv, LogInv, Committed, InCall
  <2> QED
    BY <2>1
<1>28. ASSUME NEW g \in Guards, AckErr(g) PROVE DiskInv'
  BY <1>28 DEF AckErr, Release, CanCall
<1>29. ASSUME NEW g \in Guards, AckSettle(g) PROVE DiskInv'
  BY <1>29 DEF AckSettle
<1>30. ASSUME NEW g \in Guards, AckNotify(g) PROVE DiskInv'
  BY <1>30 DEF AckNotify
<1> QED
  BY <1>2, <1>3, <1>4, <1>5, <1>6, <1>7, <1>8, <1>9, <1>10, <1>11, <1>12, <1>13, <1>14, <1>15, <1>16, <1>17, <1>18, <1>19, <1>20, <1>21, <1>22, <1>23, <1>24, <1>25, <1>26, <1>27, <1>28, <1>29, <1>30
     DEF Next, ProducerStep, GuardStep

(* A claim touches the history of no other item.                           *)
LEMMA PushLockedHistory ==
  ASSUME TypeInv, HistoryInv, NEW p \in Producers, NEW i \in Items \ pushed, ppc[p] \in {"idle", "woken"},
         PushLocked(p, i), UNCHANGED <<storeVars, consVars, guardVars, restarts>>
  PROVE  HistoryInv'
<1>1. StoreTypeOK /\ InnerOK /\ ThreadsOK /\ HistoryOK /\ InCall
  BY DEF TypeInv, TypeOK
<1> USE <1>1 DEF HistoryInv, ThreadsOK, storeVars, innerVars, guardVars, histVars
<1>2. UNCHANGED <<live, disk, gpc, gseq, gitem, restarts, accepted, deleted, acked>>
  BY DEF PushLocked, Claim
<1>3. pushed \subseteq pushed'
  BY DEF PushLocked, Claim
<1>4. \A q \in Producers : ppc'[q] = "apply" => pitem'[q] \notin accepted \cup deleted
  <2>1. i \notin accepted \cup deleted
    OBVIOUS
  <2> QED
    BY <2>1 DEF PushLocked, Claim
<1> QED
  BY <1>2, <1>3, <1>4

(* What is stored, or may be after a crash, is the item of its number.     *)
LEMMA StoredItem ==
  ASSUME TypeInv, IdentityInv, NEW s \in Seqs, NEW t \in Seqs, owner[s] \in Items,
         owner[s] \in disk[t] \/ owner[s] = live[t]
  PROVE  s = t
<1>1. owner[s] # NoItem
  BY StoreAssumption
<1>2. disk[t] \subseteq {NoItem, owner[t]} /\ live[t] \in disk[t]
  BY DEF IdentityInv, DiskInv
<1>3. owner[s] = owner[t]
  BY <1>1, <1>2
<1> QED
  BY <1>1, <1>3 DEF IdentityInv, ItemInv

(* Every step keeps to the history of deletes and acks.                    *)
LEMMA HistoryStep == TypeInv /\ SafeInv /\ ValueInv /\ IdentityInv /\ [Next]_vars => HistoryInv'
<1> SUFFICES ASSUME TypeInv, SafeInv, ValueInv, IdentityInv, [Next]_vars PROVE HistoryInv'
  OBVIOUS
<1>1. StoreTypeOK /\ InnerOK /\ ThreadsOK /\ HistoryOK /\ InCall
  BY DEF TypeInv, TypeOK
<1>i. ItemInv /\ DiskInv /\ HistoryInv
  BY DEF IdentityInv
<1> USE <1>1, <1>i DEF HistoryInv, StoreTypeOK, ThreadsOK, HistoryOK,
      storeVars, innerVars, prodVars, consVars, guardVars, histVars
<1>2. CASE UNCHANGED vars
  BY <1>2 DEF vars
<1>3. CASE OpenStart
  BY <1>3 DEF OpenStart
<1>4. CASE OpenErr
  BY <1>4 DEF OpenErr
<1>5. CASE RecoverEntry
  BY <1>5 DEF RecoverEntry
<1>6. CASE RecoverDone
  BY <1>6 DEF RecoverDone
<1>7. CASE RecoverErr
  BY <1>7 DEF RecoverErr
<1>8. CASE Crash
  <2>1. \A s \in Seqs : disk'[s] = {live'[s]} /\ live'[s] \in disk[s] \cup {NoItem}
    BY <1>8 DEF Crash, PowerLoss
  <2>2. Backend = "mem" => \A s \in Seqs : live'[s] = NoItem
    BY <1>8 DEF Crash, PowerLoss
  <2>3. restarts' # 0 /\ UNCHANGED <<pushed, accepted, deleted, acked>> /\ NoItem \notin deleted
    BY <1>8 DEF Crash
  <2>4. /\ \A p \in Producers : ppc'[p] = "idle"
        /\ \A g \in Guards : gpc'[g] = "free"
    BY <1>8 DEF Crash
  <2>5. \A s \in Seqs : live'[s] \in deleted => Backend # "mem" /\ disk'[s] = {live'[s]}
    BY <2>1, <2>2, <2>3
  <2>6. ack_durable => \A s \in Seqs : \A i \in acked : i \notin disk'[s]
    BY <2>1, <2>3
  <2>7. \A s \in Seqs : \A i \in disk'[s] : i = live'[s]
    BY <2>1
  <2> QED
    BY <2>3, <2>4, <2>5, <2>6, <2>7
<1>9. CASE ReserveStart
  BY <1>9 DEF ReserveStart
<1>10. CASE ReserveSeek
  BY <1>10 DEF ReserveSeek, Seek
<1>11. CASE ReserveNone
  BY <1>11 DEF ReserveNone
<1>12. CASE ReserveSkip
  BY <1>12 DEF ReserveSkip
<1>13. CASE ReserveTake
  BY <1>13 DEF ReserveTake, HandOut
<1>14. ASSUME NEW p \in Producers, Push(p) PROVE HistoryInv'
  BY <1>14, PushForms, PushLockedHistory
<1>15. ASSUME NEW p \in Producers, PushRetry(p) PROVE HistoryInv'
  BY <1>15, PushForms, PushLockedHistory
<1>16. ASSUME NEW p \in Producers, TryPush(p) PROVE HistoryInv'
  BY <1>16, PushForms, PushLockedHistory
<1>17. ASSUME NEW p \in Producers, SpuriousWake(p) PROVE HistoryInv'
  BY <1>17 DEF SpuriousWake
<1>18. ASSUME NEW p \in Producers, Close(p) PROVE HistoryInv'
  BY <1>18 DEF Close
<1>19. ASSUME NEW p \in Producers, WriteApply(p) PROVE HistoryInv'
  <2> DEFINE s == pseq[p]
  <2>1. /\ s \in Seqs /\ owner[s] = pitem[p] /\ pitem[p] \in Items /\ pitem[p] \notin accepted \cup deleted
        /\ \A g \in Guards : gpc[g] # "free" => gseq[g] # s /\ gitem[g] # pitem[p]
    BY <1>19 DEF WriteApply, ItemInv, InCall, SafeInv, LogInv, Committed
  <2>2. /\ live' = [live EXCEPT ![s] = pitem[p]]
        /\ disk' = [disk EXCEPT ![s] = @ \cup {pitem[p]}]
        /\ ppc' = [ppc EXCEPT ![p] = "flush"]
        /\ UNCHANGED <<restarts, pushed, accepted, deleted, acked, guardVars, pitem>>
    BY <1>19 DEF WriteApply, Apply
  <2>3. pitem[p] \notin acked
    BY <2>1
  <2>4. live[s] = NoItem
    BY <1>19 DEF WriteApply, SafeInv, LogInv
  <2>5. \A t \in Seqs : \A i \in disk'[t] : i = NoItem \/ i = live'[t] \/ i \in deleted'
    BY <2>1, <2>2, <2>4
  <2> HIDE DEF s
  <2> QED
    BY <2>1, <2>2, <2>3, <2>5
<1>20. ASSUME NEW p \in Producers, WriteOk(p) PROVE HistoryInv'
  <2> DEFINE s == pseq[p]
  <2>1. /\ s \in Seqs /\ owner[s] = pitem[p] /\ pitem[p] \in Items
        /\ \A q \in Producers : ppc[q] = "apply" => pitem[q] # pitem[p]
    BY <1>20 DEF WriteOk, ItemInv, InCall
  <2>2. /\ disk' = [disk EXCEPT ![s] = IF durable /\ live[s] = pitem[p] THEN {pitem[p]} ELSE @]
        /\ ppc' = [ppc EXCEPT ![p] = "idle"] /\ pitem' = [pitem EXCEPT ![p] = NoItem]
        /\ accepted' = accepted \cup {pitem[p]}
        /\ UNCHANGED <<live, restarts, pushed, deleted, acked, guardVars>>
    BY <1>20 DEF WriteOk, Settle
  <2>3. pitem[p] \in pushed
    BY <2>1 DEF ItemInv
  <2>4. \A t \in Seqs : disk'[t] \subseteq disk[t] /\ (disk[t] = {live[t]} => disk'[t] = {live[t]})
    BY <2>1, <2>2 DEF DiskInv
  <2> HIDE DEF s
  <2> QED
    BY <2>1, <2>2, <2>3, <2>4
<1>21. ASSUME NEW p \in Producers, WriteErr(p) PROVE HistoryInv'
  BY <1>21 DEF WriteErr
<1>22. ASSUME NEW p \in Producers, GiveBack(p) PROVE HistoryInv'
  BY <1>22 DEF GiveBack
<1>23. ASSUME NEW p \in Producers, WriteNotify(p) PROVE HistoryInv'
  <2>1. \A q \in Producers : ppc'[q] = "apply" => ppc[q] = "apply"
    BY <1>1, <1>23, WriteNotifyEffect, Zenon
  <2> QED
    BY <1>23, <2>1 DEF WriteNotify
<1>24. ASSUME NEW p \in Producers, CloseNotify(p) PROVE HistoryInv'
  BY <1>24 DEF CloseNotify
<1>25. ASSUME NEW g \in Guards, Nack(g) PROVE HistoryInv'
  BY <1>25 DEF Nack, Release, CanCall
<1>26. ASSUME NEW g \in Guards, AckApply(g) PROVE HistoryInv'
  <2> DEFINE s == gseq[g]
  <2>1. /\ s \in Seqs /\ owner[s] = gitem[g] /\ gitem[g] \in Items /\ gpc[g] = "held"
        /\ \A p \in Producers : ppc[p] = "apply" => pitem[p] # gitem[g]
    BY <1>26 DEF AckApply, CanCall, ItemInv, InCall, SafeInv, LogInv, Committed
  <2>2. /\ live' = [live EXCEPT ![s] = NoItem]
        /\ disk' = [disk EXCEPT ![s] = @ \cup {NoItem}]
        /\ deleted' = deleted \cup {gitem[g]}
        /\ gpc' = [gpc EXCEPT ![g] = "flush"]
        /\ UNCHANGED <<restarts, pushed, accepted, acked, gseq, gitem, ppc, pitem>>
    BY <1>26 DEF AckApply, Apply
  <2>3. gitem[g] \in pushed
    BY <2>1 DEF ItemInv
  <2>4. \A t \in Seqs : t # s => live[t] # gitem[g]
    BY <2>1, StoredItem
  <2>5. NoItem \notin acked /\ NoItem \notin deleted'
    BY <2>1, <2>2
  <2>6. \A t \in Seqs :
          live'[t] \in deleted' => restarts' # 0 /\ Backend # "mem" /\ disk'[t] = {live'[t]}
    BY <2>1, <2>2, <2>4, <2>5
  <2>7. \A h \in Guards :
          gpc'[h] \in {"flush", "settle", "notify"} => gitem'[h] \in deleted' /\ live'[gseq'[h]] = NoItem
    BY <2>1, <2>2 DEF InCall
  <2>8. ack_durable => \A t \in Seqs :
          /\ \A i \in acked' : i \notin disk'[t]
          /\ \A h \in Guards : gpc'[h] \in {"settle", "notify"} => gitem'[h] \notin disk'[t]
    BY <2>1, <2>2, <2>5 DEF InCall
  <2>9. \A t \in Seqs : \A i \in disk'[t] : i = NoItem \/ i = live'[t] \/ i \in deleted'
    BY <2>1, <2>2 DEF ValueInv
  <2> HIDE DEF s
  <2> QED
    BY <2>1, <2>2, <2>3, <2>6, <2>7, <2>8, <2>9
<1>27. ASSUME NEW g \in Guards, AckOk(g) PROVE HistoryInv'
  <2> DEFINE s == gseq[g]
  <2>1. /\ s \in Seqs /\ owner[s] = gitem[g] /\ gitem[g] \in Items /\ gpc[g] = "flush"
        /\ live[s] = NoItem /\ gitem[g] \in deleted
    BY <1>27 DEF AckOk, ItemInv, InCall
  <2>2. /\ disk' = [disk EXCEPT ![s] = IF ack_durable /\ live[s] = NoItem THEN {NoItem} ELSE @]
        /\ gpc' = [gpc EXCEPT ![g] = "settle"]
        /\ UNCHANGED <<live, restarts, histVars, gseq, gitem, ppc, pitem>>
    BY <1>27 DEF AckOk, Settle
  <2>3. \A t \in Seqs : t # s => gitem[g] \notin disk[t]
    BY <2>1, StoredItem
  <2>4. \A t \in Seqs : disk'[t] \subseteq disk[t] \cup {NoItem} /\ (disk[t] = {live[t]} => disk'[t] = {live[t]})
    BY <2>1, <2>2
  <2>5. ack_durable => \A t \in Seqs : gitem[g] \notin disk'[t]
    BY <2>1, <2>2, <2>3
  <2>6. NoItem \notin acked /\ \A h \in Guards : gpc[h] # "free" => gitem[h] # NoItem
    BY DEF InCall
  <2> HIDE DEF s
  <2> QED
    BY <2>1, <2>2, <2>4, <2>5, <2>6
<1>28. ASSUME NEW g \in Guards, AckErr(g) PROVE HistoryInv'
  <2>1. /\ gpc' = [gpc EXCEPT ![g] = "free"] /\ gseq' = [gseq EXCEPT ![g] = 0]
        /\ gitem' = [gitem EXCEPT ![g] = NoItem]
        /\ UNCHANGED <<live, disk, restarts, histVars, ppc, pitem>>
    BY <1>28 DEF AckErr, Release
  <2> QED
    BY <2>1
<1>29. ASSUME NEW g \in Guards, AckSettle(g) PROVE HistoryInv'
  BY <1>29 DEF AckSettle
<1>30. ASSUME NEW g \in Guards, AckNotify(g) PROVE HistoryInv'
  <2>1. \A q \in Producers : ppc'[q] = "apply" => ppc[q] = "apply"
    BY <1>1, <1>30, AckNotifyEffect, Zenon
  <2>2. /\ gpc' = [gpc EXCEPT ![g] = "free"] /\ gseq' = [gseq EXCEPT ![g] = 0]
        /\ gitem' = [gitem EXCEPT ![g] = NoItem] /\ acked' = acked \cup {gitem[g]}
        /\ UNCHANGED <<live, disk, restarts, pushed, accepted, deleted, pitem>>
    BY <1>30 DEF AckNotify
  <2>3. gitem[g] \in deleted /\ (ack_durable => \A t \in Seqs : gitem[g] \notin disk[t])
    BY <1>30 DEF AckNotify
  <2> QED
    BY <2>1, <2>2, <2>3
<1> QED
  BY <1>2, <1>3, <1>4, <1>5, <1>6, <1>7, <1>8, <1>9, <1>10, <1>11, <1>12, <1>13, <1>14, <1>15, <1>16, <1>17, <1>18, <1>19, <1>20, <1>21, <1>22, <1>23, <1>24, <1>25, <1>26, <1>27, <1>28, <1>29, <1>30
     DEF Next, ProducerStep, GuardStep

(* All layers so far hold in every reachable state.                        *)
CoreInv == TypeInv /\ SafeInv /\ ValueInv /\ ReservedExact /\ IdentityInv

(* The initial state satisfies all layers.                                 *)
LEMMA CoreInit == Init => CoreInv
  BY TypeInit, SafeInit, ValueInit, ReservedInit, IdentityInit DEF CoreInv

(* Every step keeps all layers.                                            *)
LEMMA CoreKept == CoreInv /\ [Next]_vars => CoreInv'
<1> SUFFICES ASSUME CoreInv, [Next]_vars PROVE CoreInv'
  OBVIOUS
<1>1. TypeInv' /\ SafeInv' /\ ValueInv' /\ ReservedExact'
  BY TypeStep, SafeStep, ValueStep, ReservedStep DEF CoreInv
<1>2. ItemInv' /\ DiskInv' /\ HistoryInv'
  BY ItemStep, DiskStep, HistoryStep DEF CoreInv
<1> QED
  BY <1>1, <1>2 DEF CoreInv, IdentityInv

(* They are an invariant of the queue.                                     *)
LEMMA CoreAlways == Spec => []CoreInv
  BY CoreInit, CoreKept, PTL DEF Spec

-----------------------------------------------------------------------------
(* One consumer thread.                                                    *)

(* No scan is under way before the first open.                             *)
LEMMA SoloInit == Init => SoloInv
  BY DEF Init, SoloInv

(* Every step of a queue with one consumer thread keeps what the scan      *)
(* found, and what the application holds, in the store.                    *)
LEMMA SoloStep == CoreInv /\ SoloInv /\ [Next]_vars => SoloInv'
<1> SUFFICES ASSUME TypeInv, SafeInv, ReservedExact, SoloInv, [Next]_vars, ~Threaded PROVE SoloInv'
  BY DEF CoreInv, SoloInv
<1>1. StoreTypeOK /\ InnerOK /\ ThreadsOK /\ HistoryOK /\ InCall
  BY DEF TypeInv, TypeOK
<1> USE <1>1 DEF SoloInv, GuardsAtRest, StoreTypeOK, InnerOK, ThreadsOK, InCall, ProducerPC, GuardPC, ConsumerPC,
      storeVars, innerVars, prodVars, consVars, guardVars, histVars
<1>2. CASE UNCHANGED vars
  BY <1>2 DEF vars
<1>3. CASE OpenStart
  BY <1>3 DEF OpenStart
<1>4. CASE OpenErr
  BY <1>4 DEF OpenErr
<1>5. CASE RecoverEntry
  BY <1>5 DEF RecoverEntry
<1>6. CASE RecoverDone
  BY <1>6 DEF RecoverDone
<1>7. CASE RecoverErr
  BY <1>7 DEF RecoverErr
<1>8. CASE Crash
  BY <1>8 DEF Crash, PowerLoss
<1>9. CASE ReserveStart
  BY <1>9 DEF ReserveStart
<1>10. CASE ReserveSeek
  BY <1>10 DEF ReserveSeek, Seek
<1>11. CASE ReserveNone
  BY <1>11 DEF ReserveNone
<1>12. CASE ReserveSkip
  BY <1>12 DEF ReserveSkip
<1>13. CASE ReserveTake
  BY <1>13 DEF ReserveTake, HandOut
<1>14. ASSUME NEW p \in Producers, Push(p) PROVE SoloInv'
  BY <1>14 DEF Push, PushLocked, Claim
<1>15. ASSUME NEW p \in Producers, PushRetry(p) PROVE SoloInv'
  BY <1>15 DEF PushRetry, PushLocked, Claim
<1>16. ASSUME NEW p \in Producers, TryPush(p) PROVE SoloInv'
  BY <1>16 DEF TryPush, Claim
<1>17. ASSUME NEW p \in Producers, SpuriousWake(p) PROVE SoloInv'
  BY <1>17 DEF SpuriousWake
<1>18. ASSUME NEW p \in Producers, Close(p) PROVE SoloInv'
  BY <1>18 DEF Close
<1>19. ASSUME NEW p \in Producers, WriteApply(p) PROVE SoloInv'
  <2>1. /\ pseq[p] \in Seqs
        /\ \A g \in Guards : gpc[g] = "held" => gseq[g] # pseq[p]
        /\ cpc = "check" => found # pseq[p]
    BY <1>19 DEF WriteApply, SafeInv, LogInv, Committed
  <2> QED
    BY <1>19, <2>1 DEF WriteApply, Apply
<1>20. ASSUME NEW p \in Producers, WriteOk(p) PROVE SoloInv'
  BY <1>20 DEF WriteOk, Settle
<1>21. ASSUME NEW p \in Producers, WriteErr(p) PROVE SoloInv'
  BY <1>21 DEF WriteErr
<1>22. ASSUME NEW p \in Producers, GiveBack(p) PROVE SoloInv'
  BY <1>22 DEF GiveBack
<1>23. ASSUME NEW p \in Producers, WriteNotify(p) PROVE SoloInv'
  BY <1>23 DEF WriteNotify
<1>24. ASSUME NEW p \in Producers, CloseNotify(p) PROVE SoloInv'
  BY <1>24 DEF CloseNotify
<1>25. ASSUME NEW g \in Guards, Nack(g) PROVE SoloInv'
  BY <1>25 DEF Nack, Release, CanCall
<1>26. ASSUME NEW g \in Guards, AckApply(g) PROVE SoloInv'
  <2>1. \A h \in Guards : gpc[h] = "held" /\ h # g => gseq[h] # gseq[g]
    BY <1>26 DEF AckApply, CanCall, ReservedExact, OnLoan
  <2>2. /\ cpc = "idle" /\ cpc' = cpc /\ UNCHANGED <<gseq, gitem>>
        /\ gpc' = [gpc EXCEPT ![g] = "flush"]
        /\ live' = [live EXCEPT ![gseq[g]] = NoItem]
    BY <1>26 DEF AckApply, CanCall, Apply
  <2> QED
    BY <2>1, <2>2
<1>27. ASSUME NEW g \in Guards, AckOk(g) PROVE SoloInv'
  BY <1>27 DEF AckOk, Settle
<1>28. ASSUME NEW g \in Guards, AckErr(g) PROVE SoloInv'
  BY <1>28 DEF AckErr, Release, CanCall
<1>29. ASSUME NEW g \in Guards, AckSettle(g) PROVE SoloInv'
  BY <1>29 DEF AckSettle
<1>30. ASSUME NEW g \in Guards, AckNotify(g) PROVE SoloInv'
  BY <1>30 DEF AckNotify
<1> QED
  BY <1>2, <1>3, <1>4, <1>5, <1>6, <1>7, <1>8, <1>9, <1>10, <1>11, <1>12, <1>13, <1>14, <1>15, <1>16, <1>17, <1>18, <1>19, <1>20, <1>21, <1>22, <1>23, <1>24, <1>25, <1>26, <1>27, <1>28, <1>29, <1>30
     DEF Next, ProducerStep, GuardStep

(* Both hold in every reachable state.                                     *)
LEMMA SoloAlways == Spec => [](CoreInv /\ SoloInv)
  BY CoreInit, CoreKept, SoloInit, SoloStep, PTL DEF Spec

(* With one consumer thread an item whose ack returned Ok is never in the  *)
(* application's hands again: not before the first restart, and not after  *)
(* any number of crashes when acks are durable.                            *)
THEOREM AckedIsForever == Spec => [](~Threaded => AckedStaysGone)
<1>1. CoreInv /\ SoloInv => (~Threaded => AckedStaysGone)
  <2> SUFFICES ASSUME CoreInv, SoloInv, ~Threaded, restarts = 0 \/ ack_durable,
                      NEW g \in Guards, gpc[g] = "held", gitem[g] \in acked
               PROVE  FALSE
    BY DEF AckedStaysGone
  <2>1. gseq[g] \in Seqs /\ live[gseq[g]] = gitem[g]
    BY DEF CoreInv, TypeInv, InCall, SoloInv
  <2>2. gitem[g] \in disk[gseq[g]]
    BY <2>1 DEF CoreInv, IdentityInv, DiskInv
  <2>3. gitem[g] \in deleted
    BY DEF CoreInv, IdentityInv, HistoryInv
  <2> QED
    BY <2>1, <2>2, <2>3 DEF CoreInv, IdentityInv, HistoryInv
<1> QED
  BY <1>1, SoloAlways, PTL

-----------------------------------------------------------------------------
(* Refinement: the queue with one consumer thread implements AtLeastOnce.  *)

(* Items on loan are distinct, like the entries they came from.            *)
LEMMA LoanedOnce ==
  ASSUME CoreInv, NEW g \in OnLoan, NEW h \in OnLoan, gitem[g] = gitem[h]
  PROVE  g = h
<1>1. /\ gseq[g] \in Seqs /\ gitem[g] \in Items /\ owner[gseq[g]] = gitem[g]
      /\ gseq[h] \in Seqs /\ gitem[h] \in Items /\ owner[gseq[h]] = gitem[h]
  BY DEF CoreInv, TypeInv, InCall, IdentityInv, ItemInv, OnLoan
<1>2. gseq[g] = gseq[h]
  BY <1>1 DEF CoreInv, IdentityInv, ItemInv
<1> QED
  BY <1>2 DEF CoreInv, ReservedExact

(* An item is in the abstract queue when it is stored under its number.    *)
LEMMA InQueueIff ==
  ASSUME CoreInv
  PROVE  /\ InQueue \subseteq Items
         /\ \A i : i \in InQueue <=> i \in Items /\ \E s \in Seqs : live[s] = i
         /\ \A s \in Seqs : owner[s] \in Items /\ live[s] = NoItem => owner[s] \notin InQueue
<1>1. live \in [Seqs -> Values]
  BY DEF CoreInv, TypeInv, TypeOK, StoreTypeOK
<1>2. \A i : i \in InQueue <=> i \in Items /\ \E s \in Seqs : live[s] = i
  BY <1>1 DEF InQueue, Stored
<1>3. \A s, t \in Seqs : owner[s] \in Items /\ live[t] = owner[s] => t = s
  BY StoredItem DEF CoreInv
<1> QED
  BY <1>2, <1>3

(* A guard that gives its entry back, or whose ack is accounted for, ends  *)
(* one loan.                                                               *)
LEMMA LoanEnds ==
  ASSUME CoreInv, NEW g \in OnLoan, NEW c \in {"free", "notify"}, gpc' = [gpc EXCEPT ![g] = c],
         \A h \in Guards \ {g} : gitem'[h] = gitem[h]
  PROVE  Loaned' = Loaned \ {gitem[g]}
<1>1. gpc \in [Guards -> GuardPC]
  BY DEF CoreInv, TypeInv, TypeOK, ThreadsOK
<1>2. OnLoan' = OnLoan \ {g}
  BY <1>1 DEF OnLoan
<1>3. \A h \in OnLoan \ {g} : gitem[h] # gitem[g]
  BY LoanedOnce
<1> QED
  BY <1>2, <1>3 DEF Loaned, OnLoan

(* The initial state is the abstract queue's.                              *)
LEMMA RefineInit == Init => Abstract!Init
  BY DEF Init, StoreInit, Abstract!Init, InQueue, Stored, Loaned, OnLoan

(* A push's commit becomes visible: its item enters.                       *)
LEMMA WriteEnters ==
  ASSUME CoreInv, CoreInv', NEW p \in Producers, WriteApply(p)
  PROVE  Abstract!Enter
<1>1. /\ pseq[p] \in Seqs /\ pitem[p] \in Items /\ owner[pseq[p]] = pitem[p]
      /\ live[pseq[p]] = NoItem /\ pitem[p] \notin accepted \cup deleted
  BY DEF WriteApply, CoreInv, TypeInv, InCall, SafeInv, LogInv, IdentityInv, ItemInv, HistoryInv
<1>2. live \in [Seqs -> Values] /\ live' = [live EXCEPT ![pseq[p]] = pitem[p]]
  BY DEF WriteApply, Apply, CoreInv, TypeInv, TypeOK, StoreTypeOK
<1>3. pitem[p] \notin InQueue
  BY <1>1, InQueueIff
<1>4. InQueue' = InQueue \cup {pitem[p]}
  <2>1. \A i : i \in InQueue' <=> i \in Items /\ \E s \in Seqs : live'[s] = i
    BY <1>1, <1>2 DEF InQueue, Stored
  <2>2. \A i : i \in InQueue <=> i \in Items /\ \E s \in Seqs : live[s] = i
    BY InQueueIff
  <2> QED
    BY <1>1, <1>2, <2>1, <2>2
<1>5. UNCHANGED <<Loaned, accepted, deleted, acked>>
  BY DEF WriteApply, Loaned, OnLoan, guardVars, histVars
<1>6. deleted' \ InQueue' = deleted \ InQueue
  BY <1>1, <1>4, <1>5
<1>7. {pitem[p]} \in SUBSET (Items \ (InQueue \cup (deleted \ InQueue) \cup accepted))
  BY <1>1, <1>3
<1> QED
  BY <1>4, <1>5, <1>6, <1>7 DEF Abstract!Enter

(* push returns Ok: its item is accepted, and in the queue or removed.     *)
LEMMA WriteAccepts ==
  ASSUME CoreInv, NEW p \in Producers, WriteOk(p)
  PROVE  Abstract!Accept
<1>1. pseq[p] \in Seqs /\ pitem[p] \in Items /\ (live[pseq[p]] = pitem[p] \/ pitem[p] \in deleted)
  BY DEF WriteOk, CoreInv, TypeInv, InCall, ValueInv
<1>2. pitem[p] \in InQueue \cup (deleted \ InQueue)
  BY <1>1, InQueueIff
<1>3. /\ accepted' = accepted \cup {pitem[p]}
      /\ UNCHANGED <<InQueue, Loaned, deleted, acked>>
  BY DEF WriteOk, InQueue, Stored, Loaned, OnLoan, guardVars
<1> QED
  BY <1>2, <1>3 DEF Abstract!Accept

(* reserve hands out an item that is in the queue and with nobody else.    *)
LEMMA TakeDelivers ==
  ASSUME CoreInv, SoloInv, ~Threaded, ReserveTake
  PROVE  Abstract!Deliver
<1>1. /\ found \in Seqs /\ fitem \in Items /\ live[found] = fitem /\ owner[found] = fitem
      /\ found \notin reserved
  BY DEF ReserveTake, CoreInv, TypeInv, InCall, SoloInv, IdentityInv, ItemInv
<1>2. fitem \in InQueue
  BY <1>1, InQueueIff
<1>3. fitem \notin Loaned
  <2> SUFFICES ASSUME NEW g \in OnLoan, gitem[g] = fitem PROVE FALSE
    BY DEF Loaned
  <2>1. gseq[g] \in Seqs /\ owner[gseq[g]] = fitem /\ gseq[g] \in reserved
    BY DEF CoreInv, TypeInv, InCall, IdentityInv, ItemInv, ReservedExact, OnLoan
  <2>2. gseq[g] = found
    BY <1>1, <2>1 DEF CoreInv, IdentityInv, ItemInv
  <2> QED
    BY <1>1, <2>1, <2>2
<1>4. Loaned' = Loaned \cup {fitem}
  <2>1. PICK g \in Guards : /\ gpc[g] = "free"
                            /\ gpc' = [gpc EXCEPT ![g] = "held"]
                            /\ gitem' = [gitem EXCEPT ![g] = fitem]
    BY DEF ReserveTake, HandOut
  <2>2. gpc \in [Guards -> GuardPC] /\ gitem \in [Guards -> Values]
    BY DEF CoreInv, TypeInv, TypeOK, ThreadsOK
  <2>3. OnLoan' = OnLoan \cup {g} /\ g \notin OnLoan
    BY <2>1, <2>2 DEF OnLoan
  <2>4. \A h \in OnLoan : gitem'[h] = gitem[h]
    BY <2>1, <2>2, <2>3 DEF OnLoan
  <2>5. gitem'[g] = fitem
    BY <2>1, <2>2
  <2> QED
    BY <2>3, <2>4, <2>5 DEF Loaned
<1>5. UNCHANGED <<InQueue, accepted, deleted, acked>>
  BY DEF ReserveTake, HandOut, InQueue, Stored, storeVars
<1> QED
  BY <1>2, <1>3, <1>4, <1>5 DEF Abstract!Deliver

(* nack, a failed ack and the accounting of an ack end a loan.             *)
LEMMA GuardGivesUp ==
  ASSUME CoreInv, NEW g \in Guards, Nack(g) \/ AckErr(g) \/ AckSettle(g)
  PROVE  Abstract!GiveUp
<1>1. /\ g \in OnLoan
      /\ \E c \in {"free", "notify"} : gpc' = [gpc EXCEPT ![g] = c]
      /\ \A h \in Guards \ {g} : gitem'[h] = gitem[h]
  BY DEF Nack, AckErr, AckSettle, CanCall, Release, OnLoan, CoreInv, TypeInv, TypeOK, ThreadsOK
<1>2. Loaned' = Loaned \ {gitem[g]}
  BY <1>1, LoanEnds
<1>3. gitem[g] \in Loaned
  BY <1>1 DEF Loaned
<1>4. UNCHANGED <<InQueue, accepted, deleted, acked>>
  BY DEF Nack, AckErr, AckSettle, InQueue, Stored, storeVars, histVars
<1> QED
  BY <1>2, <1>3, <1>4 DEF Abstract!GiveUp

(* The delete of an ack removes the item its guard has.                    *)
LEMMA AckRemoves ==
  ASSUME CoreInv, SoloInv, ~Threaded, NEW g \in Guards, AckApply(g)
  PROVE  Abstract!Remove
<1>1. /\ gpc[g] = "held" /\ gseq[g] \in Seqs /\ gitem[g] \in Items
      /\ owner[gseq[g]] = gitem[g] /\ live[gseq[g]] = gitem[g]
  BY DEF AckApply, CanCall, CoreInv, TypeInv, InCall, IdentityInv, ItemInv, SoloInv
<1>2. live \in [Seqs -> Values] /\ live' = [live EXCEPT ![gseq[g]] = NoItem]
  BY DEF AckApply, Apply, CoreInv, TypeInv, TypeOK, StoreTypeOK
<1>3. gitem[g] \in Loaned /\ gitem[g] \in InQueue
  BY <1>1, InQueueIff DEF Loaned, OnLoan
<1>4. InQueue' = InQueue \ {gitem[g]}
  <2>1. \A i : i \in InQueue' <=> i \in Items /\ \E s \in Seqs : live'[s] = i
    BY <1>1, <1>2 DEF InQueue, Stored
  <2>2. \A i : i \in InQueue <=> i \in Items /\ \E s \in Seqs : live[s] = i
    BY InQueueIff
  <2>3. ASSUME NEW s \in Seqs, live[s] = gitem[g] PROVE s = gseq[g]
    <3>1. TypeInv /\ IdentityInv
      BY DEF CoreInv
    <3> QED
      BY <1>1, <2>3, <3>1, StoredItem
  <2>4. \A s \in Seqs : live'[s] = IF s = gseq[g] THEN NoItem ELSE live[s]
    BY <1>2
  <2>5. ASSUME NEW i \in Items
        PROVE  (\E s \in Seqs : live'[s] = i) <=> (\E s \in Seqs : live[s] = i) /\ i # gitem[g]
    BY <1>1, <2>3, <2>4, <2>5, StoreAssumption
  <2> QED
    BY <1>1, <2>1, <2>2, <2>5
<1>5. deleted' = deleted \cup {gitem[g]} /\ UNCHANGED <<accepted, acked>>
  BY DEF AckApply
<1>6. UNCHANGED Loaned
  <2>1. gpc' = [gpc EXCEPT ![g] = "flush"] /\ gitem' = gitem /\ gpc \in [Guards -> GuardPC]
    BY DEF AckApply, CoreInv, TypeInv, TypeOK, ThreadsOK
  <2>2. OnLoan' = OnLoan
    BY <1>1, <2>1 DEF OnLoan
  <2> QED
    BY <2>1, <2>2 DEF Loaned
<1>7. deleted' \ InQueue' = (deleted \ InQueue) \cup {gitem[g]}
  BY <1>4, <1>5
<1> QED
  BY <1>3, <1>4, <1>5, <1>6, <1>7 DEF Abstract!Remove

(* ack returns Ok: the item is out of the queue.                           *)
LEMMA AckAcknowledges ==
  ASSUME CoreInv, NEW g \in Guards, AckNotify(g)
  PROVE  Abstract!Acknowledge
<1>1. /\ gpc[g] = "notify" /\ gseq[g] \in Seqs /\ gitem[g] \in Items /\ gitem[g] \in deleted
      /\ owner[gseq[g]] = gitem[g] /\ live[gseq[g]] = NoItem
  BY DEF AckNotify, CoreInv, TypeInv, InCall, IdentityInv, ItemInv, HistoryInv
<1>2. gitem[g] \in deleted \ InQueue
  BY <1>1, InQueueIff
<1>3. UNCHANGED Loaned
  <2>1. /\ gpc' = [gpc EXCEPT ![g] = "free"] /\ gitem' = [gitem EXCEPT ![g] = NoItem]
        /\ gpc \in [Guards -> GuardPC] /\ gitem \in [Guards -> Values]
    BY DEF AckNotify, CoreInv, TypeInv, TypeOK, ThreadsOK
  <2>2. OnLoan' = OnLoan /\ \A h \in OnLoan : gitem'[h] = gitem[h]
    BY <1>1, <2>1 DEF OnLoan
  <2> QED
    BY <2>2 DEF Loaned
<1>4. acked' = acked \cup {gitem[g]} /\ UNCHANGED <<InQueue, accepted, deleted>>
  BY DEF AckNotify, InQueue, Stored, storeVars
<1> QED
  BY <1>2, <1>3, <1>4 DEF Abstract!Acknowledge

(* A crash ends every loan and leaves what the durability policy promises. *)
LEMMA CrashLoses ==
  ASSUME CoreInv, NoLoss, NoLoss', Crash
  PROVE  Abstract!Crash
<1>1. live \in [Seqs -> Values] /\ live' \in [Seqs -> Values]
  BY DEF Crash, PowerLoss, CoreInv, TypeInv, TypeOK, StoreTypeOK
<1>2. \A s \in Seqs : IF Backend = "mem" THEN live'[s] = NoItem ELSE live'[s] \in disk[s]
  BY DEF Crash, PowerLoss
<1>3. /\ UNCHANGED <<accepted, deleted, acked>>
      /\ deleted \in SUBSET Items /\ accepted \in SUBSET Items
  BY DEF Crash, histVars, CoreInv, TypeInv, TypeOK, HistoryOK
<1>4. Loaned' = {}
  BY DEF Crash, Loaned, OnLoan
<1>5. \A i : i \in InQueue' <=> i \in Items /\ \E s \in Seqs : live'[s] = i
  BY <1>1 DEF InQueue, Stored
<1>6. \A i : i \in InQueue <=> i \in Items /\ \E s \in Seqs : live[s] = i
  BY InQueueIff
<1>7. \A i \in InQueue' : i \in InQueue \cup deleted
  <2> SUFFICES ASSUME NEW i \in InQueue', i \notin InQueue PROVE i \in deleted
    OBVIOUS
  <2>1. PICK s \in Seqs : live'[s] = i /\ i \in Items
    BY <1>5
  <2>2. i \in disk[s] /\ live[s] # i
    BY <1>2, <1>6, <2>1
  <2> QED
    BY <2>1, <2>2 DEF CoreInv, IdentityInv, HistoryInv
<1>8. deleted \ InQueue' = (deleted \ InQueue) \ InQueue'
  <2> SUFFICES ASSUME NEW i \in deleted \cap InQueue PROVE i \in InQueue'
    OBVIOUS
  <2>1. PICK s \in Seqs : live[s] = i
    BY <1>6
  <2>2. Backend # "mem" /\ disk[s] = {i}
    BY <2>1 DEF CoreInv, IdentityInv, HistoryInv
  <2> QED
    BY <1>2, <1>5, <1>6, <2>2
<1>9. durable /\ Backend # "mem" => accepted \subseteq InQueue' \cup (deleted \ InQueue')
  BY <1>3, <1>5 DEF NoLoss
<1>10. ack_durable => acked \cap InQueue' = {}
  <2> SUFFICES ASSUME ack_durable, NEW i \in acked, i \in InQueue' PROVE FALSE
    OBVIOUS
  <2>1. PICK s \in Seqs : live'[s] = i /\ i \in Items
    BY <1>5
  <2>2. i \in disk[s]
    BY <1>2, <2>1
  <2> QED
    BY <2>2 DEF CoreInv, IdentityInv, HistoryInv
<1> QED
  BY <1>3, <1>4, <1>7, <1>8, <1>9, <1>10 DEF Abstract!Crash

(* A step that changes neither the store nor a guard, nor what has been    *)
(* accepted, deleted or acked, is none of the abstract queue's.            *)
LEMMA Invisible ==
  ASSUME UNCHANGED <<live, gpc, gitem, accepted, deleted, acked>>
  PROVE  UNCHANGED Abstract!vars
  BY DEF Abstract!vars, InQueue, Stored, Loaned, OnLoan

(* A producer between its write and its return has changed nothing the     *)
(* abstract queue shows; nor has a push that claims, sleeps or is refused. *)
LEMMA ProducerInvisible ==
  ASSUME NEW p \in Producers,
         \/ Push(p) \/ PushRetry(p) \/ TryPush(p) \/ SpuriousWake(p) \/ Close(p)
         \/ WriteErr(p) \/ GiveBack(p) \/ WriteNotify(p) \/ CloseNotify(p)
  PROVE  UNCHANGED Abstract!vars
<1>1. UNCHANGED <<live, gpc, gitem, accepted, deleted, acked>>
  BY DEF Push, PushRetry, TryPush, PushLocked, Claim, SpuriousWake, Close, WriteErr, GiveBack,
         WriteNotify, CloseNotify, storeVars, guardVars, histVars
<1> QED
  BY <1>1, Invisible

(* Every step of the queue with one consumer thread is a step of the       *)
(* abstract queue, or changes nothing there.                               *)
LEMMA RefineStep ==
  ASSUME ~Threaded, CoreInv, CoreInv', SoloInv, NoLoss, NoLoss', [Next]_vars
  PROVE  [Abstract!Next]_(Abstract!vars)
<1> USE DEF Abstract!Next
<1>1. CASE UNCHANGED vars
  BY <1>1, Invisible DEF vars, storeVars, guardVars, histVars
<1>2. CASE OpenStart \/ OpenErr \/ RecoverEntry \/ RecoverDone \/ RecoverErr
  <2>1. UNCHANGED <<live, gpc, gitem, accepted, deleted, acked>>
    BY <1>2 DEF OpenStart, OpenErr, RecoverEntry, RecoverDone, RecoverErr, storeVars, guardVars, histVars
  <2> QED
    BY <2>1, Invisible
<1>3. CASE ReserveStart \/ ReserveSeek \/ ReserveNone \/ ReserveSkip
  <2>1. UNCHANGED <<live, gpc, gitem, accepted, deleted, acked>>
    BY <1>3 DEF ReserveStart, ReserveSeek, ReserveNone, ReserveSkip, storeVars, guardVars, histVars
  <2> QED
    BY <2>1, Invisible
<1>4. CASE Crash
  BY <1>4, CrashLoses
<1>5. CASE ReserveTake
  BY <1>5, TakeDelivers
<1>6. ASSUME NEW p \in Producers,
             \/ Push(p) \/ TryPush(p) \/ SpuriousWake(p) \/ Close(p) \/ ProducerStep(p)
      PROVE  [Abstract!Next]_(Abstract!vars)
  BY <1>6, WriteEnters, WriteAccepts, ProducerInvisible DEF ProducerStep
<1>7. ASSUME NEW g \in Guards, AckOk(g) PROVE UNCHANGED Abstract!vars
  <2>1. /\ gpc \in [Guards -> GuardPC] /\ gpc[g] = "flush" /\ gpc' = [gpc EXCEPT ![g] = "settle"]
        /\ UNCHANGED <<live, gitem, accepted, deleted, acked>>
    BY <1>7 DEF AckOk, histVars, CoreInv, TypeInv, TypeOK, ThreadsOK
  <2>2. OnLoan' = OnLoan
    BY <2>1 DEF OnLoan
  <2> QED
    BY <2>1, <2>2 DEF Abstract!vars, InQueue, Stored, Loaned
<1>8. ASSUME NEW g \in Guards, Nack(g) \/ AckApply(g) \/ GuardStep(g)
      PROVE  [Abstract!Next]_(Abstract!vars)
  BY <1>7, <1>8, GuardGivesUp, AckRemoves, AckAcknowledges DEF GuardStep
<1> QED
  BY <1>1, <1>2, <1>3, <1>4, <1>5, <1>6, <1>8 DEF Next

(* Initial states satisfy, and steps keep, everything the refinement uses. *)
LEMMA RefineInvariant == Spec => [](CoreInv /\ SoloInv /\ NoLoss)
  BY SoloAlways, AcceptedIsKept, PTL

(* The queue with one consumer thread, under any policy and over any       *)
(* backend, is an at-least-once queue: it loses no accepted item, lends    *)
(* no item twice at once, removes none that is not on loan, and a crash    *)
(* brings back only what was not acked durably.                            *)
THEOREM QueueImplements == ASSUME ~Threaded PROVE Spec => Implements
<1>1. CoreInv /\ SoloInv /\ NoLoss /\ (CoreInv /\ SoloInv /\ NoLoss)' /\ [Next]_vars
      => [Abstract!Next]_(Abstract!vars)
  BY RefineStep
<1> QED
  BY <1>1, RefineInit, RefineInvariant, PTL DEF Spec, Implements, Abstract!Spec

=============================================================================
