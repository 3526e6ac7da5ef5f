---------------------------- MODULE OrderProofs ----------------------------
(***************************************************************************)
(* Proofs about where things are in the log: head never rests on an acked  *)
(* entry, and a consumer that holds one guard gets each producer's items   *)
(* in the order they were pushed.                                          *)
(***************************************************************************)
EXTENDS IdentityProofs

USE StoreAssumption, QueueAssumption DEF StoreAssumption, QueueAssumption, Seqs, Values, Versions, Usize

-----------------------------------------------------------------------------
(* head.                                                                   *)

(* Nothing is acked before the first open.                                 *)
LEMMA TightInit == Init => TightInv
  BY DEF Init, TightInv

(* A claim uses a number at tail, for an item that was never deleted.      *)
LEMMA PushLockedTight ==
  ASSUME TypeInv, HistoryInv, TightInv, NEW p \in Producers, NEW i \in Items \ pushed, PushLocked(p, i),
         UNCHANGED <<storeVars, consVars, guardVars, restarts>>
  PROVE  TightInv'
<1>1. InnerOK /\ HistoryOK
  BY DEF TypeInv, TypeOK
<1>2. i \notin deleted
  BY DEF HistoryInv
<1>3. CASE Claim(p, i)
  <2>1. /\ tail \in Seqs /\ tail' = tail + 1 /\ owner' = [owner EXCEPT ![tail] = i]
        /\ UNCHANGED <<head, acked_above, deleted, live, gpc, gseq, restarts, cpc>>
    BY <1>1, <1>3 DEF Claim, InnerOK, storeVars, guardVars, consVars
  <2>2. \A s \in Seqs : s < tail' /\ owner'[s] \in deleted => s < tail /\ owner[s] \in deleted
    BY <1>1, <1>2, <2>1 DEF InnerOK, HistoryOK
  <2> QED
    BY <2>1, <2>2 DEF TightInv, Up
<1>4. CASE ~Claim(p, i)
  BY <1>4 DEF PushLocked, TightInv, innerVars, histVars, storeVars, guardVars, consVars, Up
<1> QED
  BY <1>3, <1>4

(* Every ack at or above head is remembered until head has passed it.      *)
LEMMA TightStep == CoreInv /\ TightInv /\ [Next]_vars => TightInv'
<1> SUFFICES ASSUME CoreInv, TightInv, [Next]_vars PROVE TightInv'
  OBVIOUS
<1>1. TypeInv /\ SafeInv /\ ItemInv /\ HistoryInv
  BY DEF CoreInv, IdentityInv
<1>i. StoreTypeOK /\ InnerOK /\ ThreadsOK /\ HistoryOK /\ InCall
  BY <1>1 DEF TypeInv, TypeOK
<1>d. ~Up => /\ \A p \in Producers : ppc[p] = "idle"
             /\ \A g \in Guards : gpc[g] = "free"
             /\ acked_above = {}
  BY <1>1 DEF SafeInv, DownInv
<1>t. ASSUME UNCHANGED <<head, tail, acked_above, deleted, live, owner, gpc, gseq, restarts>>, Up' <=> Up PROVE TightInv'
  BY <1>t DEF TightInv
<1> USE <1>1, <1>i DEF storeVars, innerVars, prodVars, consVars, guardVars, histVars
<1>2. CASE UNCHANGED vars
  BY <1>2, <1>t DEF vars, Up
<1>3. CASE OpenStart
  BY <1>3, <1>d DEF OpenStart, TightInv, Up
<1>4. CASE OpenErr
  BY <1>4, <1>t DEF OpenErr, Up
<1>5. CASE RecoverEntry
  BY <1>5, <1>d DEF RecoverEntry, TightInv, Up
<1>6. CASE RecoverDone
  BY <1>6, <1>d DEF RecoverDone, TightInv, Up
<1>7. CASE RecoverErr
  BY <1>7, <1>d DEF RecoverErr, TightInv, Up
<1>8. CASE Crash
  BY <1>8 DEF Crash, TightInv, HistoryOK
<1>9. CASE ReserveStart
  BY <1>9, <1>t DEF ReserveStart, Up
<1>10. CASE ReserveSeek
  BY <1>10, <1>t DEF ReserveSeek, Up
<1>11. CASE ReserveNone
  BY <1>11, <1>t DEF ReserveNone, Up
<1>12. CASE ReserveSkip
  BY <1>12, <1>t DEF ReserveSkip, Up
<1>13. CASE ReserveTake
  <2>1. PICK g \in Guards : gpc[g] = "free" /\ gpc' = [gpc EXCEPT ![g] = "held"] /\ gseq' = [gseq EXCEPT ![g] = found]
    BY <1>13 DEF ReserveTake, HandOut
  <2>2. Up /\ Up' /\ UNCHANGED <<head, tail, acked_above, deleted, live, owner, restarts>>
    BY <1>13 DEF ReserveTake, HandOut, Up
  <2> QED
    BY <2>1, <2>2 DEF TightInv, ThreadsOK
<1>14. ASSUME NEW p \in Producers, Push(p) PROVE TightInv'
  BY <1>14, PushForms, PushLockedTight
<1>15. ASSUME NEW p \in Producers, PushRetry(p) PROVE TightInv'
  BY <1>15, PushForms, PushLockedTight
<1>16. ASSUME NEW p \in Producers, TryPush(p) PROVE TightInv'
  BY <1>16, PushForms, PushLockedTight
<1>17. ASSUME NEW p \in Producers, SpuriousWake(p) PROVE TightInv'
  BY <1>17, <1>t DEF SpuriousWake, Up
<1>18. ASSUME NEW p \in Producers, Close(p) PROVE TightInv'
  BY <1>18, <1>t DEF Close, Up
<1>19. ASSUME NEW p \in Producers, WriteApply(p) PROVE TightInv'
  <2>1. /\ live' = [live EXCEPT ![pseq[p]] = pitem[p]] /\ pseq[p] \in Seqs /\ pitem[p] # NoItem
        /\ UNCHANGED <<head, tail, acked_above, deleted, owner, gpc, gseq, restarts, cpc>>
    BY <1>19 DEF WriteApply, Apply, InCall
  <2> QED
    BY <2>1 DEF TightInv, StoreTypeOK, Up
<1>20. ASSUME NEW p \in Producers, WriteOk(p) PROVE TightInv'
  BY <1>20, <1>t DEF WriteOk, Up
<1>21. ASSUME NEW p \in Producers, WriteErr(p) PROVE TightInv'
  BY <1>21, <1>t DEF WriteErr, Up
<1>22. ASSUME NEW p \in Producers, GiveBack(p) PROVE TightInv'
  BY <1>22, <1>t DEF GiveBack, Up
<1>23. ASSUME NEW p \in Producers, WriteNotify(p) PROVE TightInv'
  BY <1>23, <1>t DEF WriteNotify, Up
<1>24. ASSUME NEW p \in Producers, CloseNotify(p) PROVE TightInv'
  BY <1>24, <1>t DEF CloseNotify, Up
<1>25. ASSUME NEW g \in Guards, Nack(g) PROVE TightInv'
  <2>1. gpc[g] = "held" /\ gpc' = [gpc EXCEPT ![g] = "free"] /\ gseq' = [gseq EXCEPT ![g] = 0]
        /\ UNCHANGED <<head, tail, acked_above, deleted, live, owner, restarts, cpc>>
    BY <1>25 DEF Nack, Release, CanCall
  <2> QED
    BY <2>1 DEF TightInv, ThreadsOK, Up
<1>26. ASSUME NEW g \in Guards, AckApply(g) PROVE TightInv'
  <2>1. /\ gpc[g] = "held" /\ gpc' = [gpc EXCEPT ![g] = "flush"] /\ live' = [live EXCEPT ![gseq[g]] = NoItem]
        /\ deleted' = deleted \cup {gitem[g]}
        /\ UNCHANGED <<head, tail, acked_above, owner, gseq, restarts, cpc>>
    BY <1>26 DEF AckApply, Apply, CanCall
  <2>2. Up /\ gseq[g] \in Seqs /\ \A s \in Seqs : owner[s] = gitem[g] => s = gseq[g]
    BY <2>1, <1>d DEF InCall, ItemInv
  <2>3. \A s \in Seqs : live'[s] = NoItem /\ owner[s] \in deleted' => s = gseq[g] \/ (live[s] = NoItem /\ owner[s] \in deleted)
    BY <2>1, <2>2 DEF StoreTypeOK
  <2>4. \A h \in Guards : gpc[h] \in {"flush", "settle"} => gpc'[h] \in {"flush", "settle"}
    BY <2>1 DEF ThreadsOK
  <2>5. gpc'[g] = "flush"
    BY <2>1 DEF ThreadsOK
  <2> QED
    BY <2>1, <2>2, <2>3, <2>4, <2>5 DEF TightInv, Up
<1>27. ASSUME NEW g \in Guards, AckOk(g) PROVE TightInv'
  <2>1. gpc[g] = "flush" /\ gpc' = [gpc EXCEPT ![g] = "settle"]
        /\ UNCHANGED <<head, tail, acked_above, deleted, live, owner, gseq, restarts, cpc>>
    BY <1>27 DEF AckOk
  <2> QED
    BY <2>1 DEF TightInv, ThreadsOK, Up
<1>28. ASSUME NEW g \in Guards, AckErr(g) PROVE TightInv'
  <2>1. gpc' = [gpc EXCEPT ![g] = "free"] /\ gseq' = [gseq EXCEPT ![g] = 0]
        /\ UNCHANGED <<head, tail, acked_above, deleted, live, owner, restarts, cpc>>
    BY <1>28 DEF AckErr, Release
  <2>2. CleanFailures => gpc[g] = "held"
    BY <1>28 DEF AckErr, CanCall, CleanFailures, ack_durable
  <2> QED
    BY <2>1, <2>2 DEF TightInv, ThreadsOK, Up
<1>29. ASSUME NEW g \in Guards, AckSettle(g) PROVE TightInv'
  <2>1. /\ gpc[g] = "settle" /\ gpc' = [gpc EXCEPT ![g] = "notify"] /\ AdvanceHead(gseq[g])
        /\ UNCHANGED <<tail, deleted, live, owner, gseq, restarts, cpc>>
    BY <1>29 DEF AckSettle
  <2>2. Up
    BY <2>1, <1>d
  <2> SUFFICES ASSUME CleanFailures, restarts = 0
               PROVE  /\ head' \notin acked_above'
                      /\ \A s \in Seqs :
                           /\ head' <= s /\ s < tail
                           /\ live[s] = NoItem /\ owner[s] \in deleted
                           => s \in acked_above' \/ \E h \in Guards : gseq[h] = s /\ gpc'[h] \in {"flush", "settle"}
    BY <2>1, <2>2 DEF TightInv, Up
  <2>3. /\ head \notin acked_above
        /\ \A s \in Seqs :
             /\ head <= s /\ s < tail
             /\ live[s] = NoItem /\ owner[s] \in deleted
             => s \in acked_above \/ \E h \in Guards : gseq[h] = s /\ gpc[h] \in {"flush", "settle"}
    BY DEF TightInv
  <2>4. \A h \in Guards : h # g => gpc'[h] = gpc[h]
    BY <2>1 DEF ThreadsOK
  <2>5. head \in Nat /\ tail \in Nat /\ acked_above \subseteq Seqs
    BY DEF InnerOK
  <2>6. CASE gseq[g] = head
    <3>1. PICK n \in (head + 1) .. MaxSeq :
                 n \notin acked_above /\ head' = n /\ acked_above' = acked_above \ ((head + 1) .. (n - 1))
      BY <2>1, <2>6 DEF AdvanceHead
    <3> QED
      BY <2>3, <2>4, <2>5, <2>6, <3>1
  <2>7. CASE gseq[g] # head
    <3>1. acked_above' = acked_above \cup {gseq[g]} /\ head' = head
      BY <2>1, <2>7 DEF AdvanceHead
    <3> QED
      BY <2>3, <2>4, <2>7, <3>1
  <2> QED
    BY <2>6, <2>7
<1>30. ASSUME NEW g \in Guards, AckNotify(g) PROVE TightInv'
  <2>1. gpc[g] = "notify" /\ gpc' = [gpc EXCEPT ![g] = "free"] /\ gseq' = [gseq EXCEPT ![g] = 0]
        /\ UNCHANGED <<head, tail, acked_above, deleted, live, owner, restarts, cpc>>
    BY <1>30 DEF AckNotify
  <2> QED
    BY <2>1 DEF TightInv, ThreadsOK, Up
<1> QED
  BY <1>2, <1>3, <1>4, <1>5, <1>6, <1>7, <1>8, <1>9, <1>10, <1>11, <1>12, <1>13, <1>14, <1>15, <1>16, <1>17, <1>18, <1>19, <1>20, <1>21, <1>22, <1>23, <1>24, <1>25, <1>26, <1>27, <1>28, <1>29, <1>30
     DEF Next, ProducerStep, GuardStep

(* Over a store whose failed commits leave nothing behind, head wastes no  *)
(* scan until the first restart, however acks on several threads and out   *)
(* of order interleave: at rest it is never at an acked entry.             *)
THEOREM HeadWastesNothing == Spec => [](CleanFailures => HeadTight)
<1>1. CoreInv /\ TightInv => (CleanFailures => HeadTight)
  <2> SUFFICES ASSUME CoreInv, TightInv, CleanFailures, Up, Quiet, restarts = 0, head # tail,
                      live[head] = NoItem, owner[head] \in deleted
               PROVE  FALSE
    BY DEF HeadTight
  <2>1. head \in Seqs /\ head < tail
    BY DEF CoreInv, TypeInv, TypeOK, InnerOK, SafeInv, LogInv, Up
  <2>2. head \notin acked_above
    BY DEF TightInv
  <2>3. \E g \in Guards : gseq[g] = head /\ gpc[g] \in {"flush", "settle"}
    BY <2>1, <2>2 DEF TightInv
  <2> QED
    BY <2>3 DEF Quiet, GuardsAtRest
<1> QED
  BY <1>1, CoreInit, CoreKept, TightInit, TightStep, PTL DEF Spec

-----------------------------------------------------------------------------
(* Order.                                                                  *)

(* Nobody is pushing before the first open.                                *)
LEMMA AuthorInit == Init => AuthorInv
  BY DEF Init, AuthorInv

(* A claim takes the highest number so far.                                *)
LEMMA PushLockedAuthor ==
  ASSUME TypeInv, AuthorInv, NEW p \in Producers, NEW i \in Items, Author[i] = p, PushLocked(p, i),
         ppc[p] \in {"idle", "woken"}
  PROVE  AuthorInv'
<1>1. InnerOK /\ ThreadsOK /\ HistoryOK /\ InCall
  BY DEF TypeInv, TypeOK
<1>2. CASE Claim(p, i)
  <2>1. /\ tail \in Seqs /\ tail' = tail + 1 /\ owner' = [owner EXCEPT ![tail] = i]
        /\ ppc' = [ppc EXCEPT ![p] = "apply"] /\ pseq' = [pseq EXCEPT ![p] = tail]
    BY <1>1, <1>2 DEF Claim, InnerOK
  <2> SUFFICES ASSUME NEW q \in Producers, ppc'[q] = "apply", NEW t \in Seqs,
                      pseq'[q] < t, t < tail', owner'[t] \in Items
               PROVE  Author[owner'[t]] # q
    BY DEF AuthorInv
  <2>2. q # p /\ ppc[q] = "apply" /\ pseq'[q] = pseq[q]
    BY <1>1, <2>1 DEF ThreadsOK, InnerOK
  <2>3. CASE t = tail
    BY <1>1, <2>1, <2>2, <2>3 DEF HistoryOK
  <2>4. CASE t # tail
    BY <1>1, <2>1, <2>2, <2>4 DEF HistoryOK, AuthorInv, InnerOK
  <2> QED
    BY <2>3, <2>4
<1>3. CASE ~Claim(p, i)
  BY <1>1, <1>3 DEF PushLocked, AuthorInv, innerVars, histVars, ThreadsOK
<1> QED
  BY <1>2, <1>3

(* While a producer is storing an item, it pushes no other.                *)
LEMMA AuthorStep == CoreInv /\ AuthorInv /\ [Next]_vars => AuthorInv'
<1> SUFFICES ASSUME CoreInv, AuthorInv, [Next]_vars PROVE AuthorInv'
  OBVIOUS
<1>1. TypeInv /\ SafeInv /\ ItemInv
  BY DEF CoreInv, IdentityInv
<1>i. InnerOK /\ ThreadsOK /\ InCall
  BY <1>1 DEF TypeInv, TypeOK
<1>e. ASSUME \A p \in Producers : ppc'[p] = "idle" PROVE AuthorInv'
  BY <1>e DEF AuthorInv
<1>t. ASSUME UNCHANGED <<tail, owner, pseq>>, \A p \in Producers : ppc'[p] = "apply" => ppc[p] = "apply" PROVE AuthorInv'
  BY <1>t DEF AuthorInv
<1> USE <1>1, <1>i DEF ThreadsOK, storeVars, innerVars, prodVars, consVars, guardVars, histVars
<1>2. CASE UNCHANGED vars
  BY <1>2, <1>t DEF vars
<1>3. CASE OpenStart
  <2>1. \A p \in Producers : ppc'[p] = "idle"
    BY <1>3 DEF OpenStart, SafeInv, DownInv, Up
  <2> QED
    BY <1>e, <2>1
<1>4. CASE OpenErr
  BY <1>4, <1>t DEF OpenErr
<1>5. CASE RecoverEntry
  BY <1>5, <1>t DEF RecoverEntry
<1>6. CASE RecoverDone
  BY <1>6, <1>t DEF RecoverDone
<1>7. CASE RecoverErr
  BY <1>7, <1>t DEF RecoverErr
<1>8. CASE Crash
  BY <1>8, <1>e DEF Crash
<1>9. CASE ReserveStart
  BY <1>9, <1>t DEF ReserveStart
<1>10. CASE ReserveSeek
  BY <1>10, <1>t DEF ReserveSeek
<1>11. CASE ReserveNone
  BY <1>11, <1>t DEF ReserveNone
<1>12. CASE ReserveSkip
  BY <1>12, <1>t DEF ReserveSkip
<1>13. CASE ReserveTake
  BY <1>13, <1>t DEF ReserveTake, HandOut
<1>14. ASSUME NEW p \in Producers, Push(p) PROVE AuthorInv'
  BY <1>14, PushForms, PushLockedAuthor
<1>15. ASSUME NEW p \in Producers, PushRetry(p) PROVE AuthorInv'
  BY <1>15, PushForms, PushLockedAuthor
<1>16. ASSUME NEW p \in Producers, TryPush(p) PROVE AuthorInv'
  BY <1>16, PushForms, PushLockedAuthor
<1>17. ASSUME NEW p \in Producers, SpuriousWake(p) PROVE AuthorInv'
  BY <1>17, <1>t DEF SpuriousWake
<1>18. ASSUME NEW p \in Producers, Close(p) PROVE AuthorInv'
  BY <1>18, <1>t DEF Close
<1>19. ASSUME NEW p \in Producers, WriteApply(p) PROVE AuthorInv'
  BY <1>19, <1>t DEF WriteApply
<1>20. ASSUME NEW p \in Producers, WriteOk(p) PROVE AuthorInv'
  BY <1>20, <1>t DEF WriteOk
<1>21. ASSUME NEW p \in Producers, WriteErr(p) PROVE AuthorInv'
  BY <1>21, <1>t DEF WriteErr
<1>22. ASSUME NEW p \in Producers, GiveBack(p) PROVE AuthorInv'
  BY <1>22, <1>t DEF GiveBack
<1>23. ASSUME NEW p \in Producers, WriteNotify(p) PROVE AuthorInv'
  <2>1. \A q \in Producers : ppc'[q] = "apply" => ppc[q] = "apply"
    BY <1>i, <1>23, WriteNotifyEffect, Zenon
  <2> QED
    BY <1>23, <1>t, <2>1 DEF WriteNotify
<1>24. ASSUME NEW p \in Producers, CloseNotify(p) PROVE AuthorInv'
  BY <1>24, <1>t DEF CloseNotify
<1>25. ASSUME NEW g \in Guards, Nack(g) PROVE AuthorInv'
  BY <1>25, <1>t DEF Nack
<1>26. ASSUME NEW g \in Guards, AckApply(g) PROVE AuthorInv'
  BY <1>26, <1>t DEF AckApply
<1>27. ASSUME NEW g \in Guards, AckOk(g) PROVE AuthorInv'
  BY <1>27, <1>t DEF AckOk
<1>28. ASSUME NEW g \in Guards, AckErr(g) PROVE AuthorInv'
  BY <1>28, <1>t DEF AckErr
<1>29. ASSUME NEW g \in Guards, AckSettle(g) PROVE AuthorInv'
  BY <1>29, <1>t DEF AckSettle
<1>30. ASSUME NEW g \in Guards, AckNotify(g) PROVE AuthorInv'
  <2>1. \A q \in Producers : ppc'[q] = "apply" => ppc[q] = "apply"
    BY <1>i, <1>30, AckNotifyEffect, Zenon
  <2> QED
    BY <1>30, <1>t, <2>1 DEF AckNotify
<1> QED
  BY <1>2, <1>3, <1>4, <1>5, <1>6, <1>7, <1>8, <1>9, <1>10, <1>11, <1>12, <1>13, <1>14, <1>15, <1>16, <1>17, <1>18, <1>19, <1>20, <1>21, <1>22, <1>23, <1>24, <1>25, <1>26, <1>27, <1>28, <1>29, <1>30
     DEF Next, ProducerStep, GuardStep

(* No scan is under way before the first open.                             *)
LEMMA OrderInit == Init => OrderInv
  BY DEF Init, OrderInv, OnLoan

(* A commit that becomes visible below an entry of which its producer's    *)
(* is the oldest is of another producer.                                   *)
LEMMA StoredLater ==
  ASSUME CoreInv, AuthorInv, NEW p \in Producers, WriteApply(p), NEW n \in Seqs, NEW i \in Items,
         n < tail, owner[n] = i, n # pseq[p], NoneBefore(n, i)
  PROVE  NoneBefore(n, i)'
<1>1. /\ ppc[p] = "apply" /\ pseq[p] \in Seqs /\ Author[pitem[p]] = p
      /\ live' = [live EXCEPT ![pseq[p]] = pitem[p]]
  BY DEF WriteApply, Apply, CoreInv, TypeInv, InCall, IdentityInv, ItemInv
<1>2. live \in [Seqs -> Values]
  BY DEF CoreInv, TypeInv, TypeOK, StoreTypeOK
<1>3. pseq[p] < n => Author[i] # p
  BY <1>1 DEF AuthorInv
<1> QED
  BY <1>1, <1>2, <1>3 DEF NoneBefore

(* With one guard every step keeps to the order of the log.                *)
LEMMA OrderStep == CoreInv /\ AuthorInv /\ OrderInv /\ [Next]_vars => OrderInv'
<1> SUFFICES ASSUME CoreInv, AuthorInv, OrderInv, [Next]_vars, OneGuard PROVE OrderInv'
  BY DEF OrderInv
<1>1. TypeInv /\ SafeInv /\ ReservedExact /\ ItemInv
  BY DEF CoreInv, IdentityInv
<1>i. StoreTypeOK /\ InnerOK /\ ThreadsOK /\ InCall
  BY <1>1 DEF TypeInv, TypeOK
<1>d. ~Up => \A g \in Guards : gpc[g] = "free"
  BY <1>1 DEF SafeInv, DownInv
<1>o. /\ cpc \in {"seek", "check"} => cursor = head /\ \A g \in Guards : gpc[g] = "free"
      /\ cpc = "check" => NoneBefore(found, fitem)
      /\ \A g \in OnLoan : NoneBefore(gseq[g], gitem[g])
  BY DEF OrderInv
<1>f. \A g \in Guards : gpc[g] # "free" => cpc \notin {"seek", "check"}
  BY <1>o
<1>t. ASSUME UNCHANGED <<live, head, consVars, guardVars>> PROVE OrderInv'
  BY <1>t DEF OrderInv, OnLoan, NoneBefore, consVars, guardVars
<1>z. ASSUME \A g \in Guards : gpc'[g] = "free", cpc' \notin {"seek", "check"} PROVE OrderInv'
  BY <1>z DEF OrderInv, OnLoan
<1> USE <1>1, <1>i DEF storeVars, innerVars, prodVars, consVars, guardVars, histVars
<1>2. CASE UNCHANGED vars
  BY <1>2, <1>t DEF vars
<1>3. CASE OpenStart
  BY <1>3, <1>d, <1>z DEF OpenStart, Up
<1>4. CASE OpenErr
  BY <1>4, <1>d, <1>z DEF OpenErr, Up
<1>5. CASE RecoverEntry
  BY <1>5, <1>d, <1>z DEF RecoverEntry, Up
<1>6. CASE RecoverDone
  BY <1>6, <1>d, <1>z DEF RecoverDone, Up
<1>7. CASE RecoverErr
  BY <1>7, <1>d, <1>z DEF RecoverErr, Up
<1>8. CASE Crash
  BY <1>8, <1>z DEF Crash
<1>9. CASE ReserveStart
  <2>1. \A g \in Guards : gpc'[g] = "free"
    BY <1>9 DEF ReserveStart, OneGuard
  <2>2. cpc' = "seek" /\ cursor' = head'
    BY <1>9 DEF ReserveStart
  <2> QED
    BY <2>1, <2>2 DEF OrderInv, OnLoan
<1>10. CASE ReserveSeek
  <2>1. PICK s \in Seek(cursor) : found' = s /\ fitem' = live[s]
    BY <1>10 DEF ReserveSeek
  <2>2. cpc = "seek" /\ cursor = head /\ (\A g \in Guards : gpc[g] = "free") /\ UNCHANGED <<live, head, cursor, gpc>>
    BY <1>10, <1>o DEF ReserveSeek
  <2>3. \A t \in Seqs : t < s => live[t] = NoItem
    BY <2>1, <2>2 DEF Seek, Stored, SafeInv, LogInv, Dead, Up, InnerOK
  <2>4. NoneBefore(found, fitem)'
    BY <2>1, <2>2, <2>3 DEF NoneBefore
  <2> QED
    BY <2>2, <2>4 DEF OrderInv, OnLoan
<1>11. CASE ReserveNone
  BY <1>11, <1>o, <1>z DEF ReserveNone
<1>12. CASE ReserveSkip
  <2>1. reserved = {}
    BY <1>12, <1>o DEF ReserveSkip, ReservedExact, OnLoan
  <2> QED
    BY <1>12, <2>1 DEF ReserveSkip
<1>13. CASE ReserveTake
  <2>1. PICK g \in Guards : gpc' = [gpc EXCEPT ![g] = "held"] /\ gseq' = [gseq EXCEPT ![g] = found]
                            /\ gitem' = [gitem EXCEPT ![g] = fitem]
    BY <1>13 DEF ReserveTake, HandOut
  <2>2. \A h \in Guards : h = g
    BY DEF OneGuard
  <2>3. cpc = "check" /\ cpc' = "idle" /\ UNCHANGED live
    BY <1>13 DEF ReserveTake, HandOut
  <2>4. gseq'[g] = found /\ gitem'[g] = fitem
    BY <2>1 DEF ThreadsOK
  <2>5. NoneBefore(gseq[g], gitem[g])'
    BY <1>o, <2>3, <2>4 DEF NoneBefore
  <2> QED
    BY <2>2, <2>3, <2>5 DEF OrderInv, OnLoan
<1>14. ASSUME NEW p \in Producers, Push(p) PROVE OrderInv'
  BY <1>14, <1>t DEF Push, PushLocked, Claim
<1>15. ASSUME NEW p \in Producers, PushRetry(p) PROVE OrderInv'
  BY <1>15, <1>t DEF PushRetry, PushLocked, Claim
<1>16. ASSUME NEW p \in Producers, TryPush(p) PROVE OrderInv'
  BY <1>16, <1>t DEF TryPush, Claim
<1>17. ASSUME NEW p \in Producers, SpuriousWake(p) PROVE OrderInv'
  BY <1>17, <1>t DEF SpuriousWake
<1>18. ASSUME NEW p \in Producers, Close(p) PROVE OrderInv'
  BY <1>18, <1>t DEF Close
<1>19. ASSUME NEW p \in Producers, WriteApply(p) PROVE OrderInv'
  <2>1. UNCHANGED <<head, consVars, guardVars>> /\ ppc[p] = "apply"
    BY <1>19 DEF WriteApply
  <2>2. \A g \in OnLoan : gseq[g] \in Seqs /\ gitem[g] \in Items /\ gseq[g] < tail /\ owner[gseq[g]] = gitem[g] /\ gseq[g] # pseq[p]
    BY <2>1 DEF OnLoan, InCall, ItemInv, SafeInv, LogInv, Committed
  <2>3. cpc = "check" => found \in Seqs /\ fitem \in Items /\ found < tail /\ owner[found] = fitem /\ found # pseq[p]
    BY <2>1 DEF InCall, ItemInv, SafeInv, LogInv, Committed
  <2>4. \A g \in OnLoan : NoneBefore(gseq[g], gitem[g])'
    <3> TAKE g \in OnLoan
    <3>1. \A n \in Seqs : \A i \in Items : n < tail /\ owner[n] = i /\ n # pseq[p] /\ NoneBefore(n, i) => NoneBefore(n, i)'
      BY <1>19, StoredLater
    <3>2. NoneBefore(gseq[g], gitem[g])
      BY <1>o
    <3>3. \A s \in Seqs : s < gseq[g] /\ live'[s] \in Items => Author[live'[s]] # Author[gitem[g]]
      BY <2>2, <3>1, <3>2 DEF NoneBefore
    <3> QED
      BY <2>1, <3>3 DEF NoneBefore
  <2>5. cpc = "check" => NoneBefore(found, fitem)'
    <3> HAVE cpc = "check"
    <3>1. \A n \in Seqs : \A i \in Items : n < tail /\ owner[n] = i /\ n # pseq[p] /\ NoneBefore(n, i) => NoneBefore(n, i)'
      BY <1>19, StoredLater
    <3>2. NoneBefore(found, fitem)
      BY <1>o
    <3>3. \A s \in Seqs : s < found /\ live'[s] \in Items => Author[live'[s]] # Author[fitem]
      BY <2>3, <3>1, <3>2 DEF NoneBefore
    <3> QED
      BY <2>1, <3>3 DEF NoneBefore
  <2>6. OnLoan' = OnLoan
    BY <2>1 DEF OnLoan
  <2> QED
    BY <1>o, <2>1, <2>4, <2>5, <2>6 DEF OrderInv
<1>20. ASSUME NEW p \in Producers, WriteOk(p) PROVE OrderInv'
  BY <1>20, <1>t DEF WriteOk
<1>21. ASSUME NEW p \in Producers, WriteErr(p) PROVE OrderInv'
  BY <1>21, <1>t DEF WriteErr
<1>22. ASSUME NEW p \in Producers, GiveBack(p) PROVE OrderInv'
  BY <1>22, <1>t DEF GiveBack
<1>23. ASSUME NEW p \in Producers, WriteNotify(p) PROVE OrderInv'
  BY <1>23, <1>t DEF WriteNotify
<1>24. ASSUME NEW p \in Producers, CloseNotify(p) PROVE OrderInv'
  BY <1>24, <1>t DEF CloseNotify
<1>25. ASSUME NEW g \in Guards, Nack(g) PROVE OrderInv'
  <2>1. gpc[g] # "free" /\ UNCHANGED <<live, cpc>>
        /\ \A h \in Guards : gpc'[h] \in {"held", "flush", "settle"} => h \in OnLoan /\ gseq'[h] = gseq[h] /\ gitem'[h] = gitem[h]
    BY <1>25 DEF Nack, Release, CanCall, OnLoan, ThreadsOK
  <2>2. cpc' \notin {"seek", "check"}
    BY <1>f, <2>1
  <2> QED
    BY <1>o, <2>1, <2>2 DEF OrderInv, OnLoan, NoneBefore
<1>26. ASSUME NEW g \in Guards, AckApply(g) PROVE OrderInv'
  <2>1. gpc[g] = "held" /\ UNCHANGED <<cpc, gseq, gitem>> /\ gpc' = [gpc EXCEPT ![g] = "flush"]
        /\ live' = [live EXCEPT ![gseq[g]] = NoItem]
    BY <1>26 DEF AckApply, Apply, CanCall
  <2>2. cpc' \notin {"seek", "check"} /\ OnLoan' = OnLoan
    BY <1>f, <2>1 DEF OnLoan, ThreadsOK
  <2>3. \A s \in Seqs : live'[s] \in Items => live'[s] = live[s]
    BY <2>1 DEF StoreTypeOK
  <2> QED
    BY <1>o, <2>1, <2>2, <2>3 DEF OrderInv, NoneBefore
<1>27. ASSUME NEW g \in Guards, AckOk(g) PROVE OrderInv'
  <2>1. gpc[g] # "free" /\ UNCHANGED <<live, cpc>>
        /\ \A h \in Guards : gpc'[h] \in {"held", "flush", "settle"} => h \in OnLoan /\ gseq'[h] = gseq[h] /\ gitem'[h] = gitem[h]
    BY <1>27 DEF AckOk, OnLoan, ThreadsOK
  <2>2. cpc' \notin {"seek", "check"}
    BY <1>f, <2>1
  <2> QED
    BY <1>o, <2>1, <2>2 DEF OrderInv, OnLoan, NoneBefore
<1>28. ASSUME NEW g \in Guards, AckErr(g) PROVE OrderInv'
  <2>1. gpc[g] # "free" /\ UNCHANGED <<live, cpc>>
        /\ \A h \in Guards : gpc'[h] \in {"held", "flush", "settle"} => h \in OnLoan /\ gseq'[h] = gseq[h] /\ gitem'[h] = gitem[h]
    BY <1>28 DEF AckErr, Release, CanCall, OnLoan, ThreadsOK
  <2>2. cpc' \notin {"seek", "check"}
    BY <1>f, <2>1
  <2> QED
    BY <1>o, <2>1, <2>2 DEF OrderInv, OnLoan, NoneBefore
<1>29. ASSUME NEW g \in Guards, AckSettle(g) PROVE OrderInv'
  <2>1. gpc[g] # "free" /\ UNCHANGED <<live, cpc>>
        /\ \A h \in Guards : gpc'[h] \in {"held", "flush", "settle"} => h \in OnLoan /\ gseq'[h] = gseq[h] /\ gitem'[h] = gitem[h]
    BY <1>29 DEF AckSettle, OnLoan, ThreadsOK
  <2>2. cpc' \notin {"seek", "check"}
    BY <1>f, <2>1
  <2> QED
    BY <1>o, <2>1, <2>2 DEF OrderInv, OnLoan, NoneBefore
<1>30. ASSUME NEW g \in Guards, AckNotify(g) PROVE OrderInv'
  <2>1. gpc[g] # "free" /\ UNCHANGED <<live, cpc>>
        /\ \A h \in Guards : gpc'[h] \in {"held", "flush", "settle"} => h \in OnLoan /\ gseq'[h] = gseq[h] /\ gitem'[h] = gitem[h]
    BY <1>30 DEF AckNotify, OnLoan, ThreadsOK
  <2>2. cpc' \notin {"seek", "check"}
    BY <1>f, <2>1
  <2> QED
    BY <1>o, <2>1, <2>2 DEF OrderInv, OnLoan, NoneBefore
<1> QED
  BY <1>2, <1>3, <1>4, <1>5, <1>6, <1>7, <1>8, <1>9, <1>10, <1>11, <1>12, <1>13, <1>14, <1>15, <1>16, <1>17, <1>18, <1>19, <1>20, <1>21, <1>22, <1>23, <1>24, <1>25, <1>26, <1>27, <1>28, <1>29, <1>30
     DEF Next, ProducerStep, GuardStep

(* The layers of the ordering argument hold in every reachable state.      *)
LEMMA OrderAlways == Spec => [](CoreInv /\ AuthorInv /\ OrderInv)
  BY CoreInit, CoreKept, AuthorInit, AuthorStep, OrderInit, OrderStep, PTL DEF Spec

(* A consumer that holds one guard at a time gets the items of every       *)
(* producer in the order they were pushed, whatever fails or crashes and   *)
(* whoever else pushes.  (With a second guard the scan can step over an    *)
(* entry that is committed late.)                                          *)
THEOREM OneGuardInOrder == Spec => [](OneGuard => ProducerFIFO)
<1>1. CoreInv /\ OrderInv => (OneGuard => ProducerFIFO)
  <2> SUFFICES ASSUME CoreInv, OrderInv, OneGuard, NEW g \in OnLoan, NEW s \in Seqs, s < gseq[g],
                      live[s] \in accepted, Author[live[s]] = Author[gitem[g]]
               PROVE  FALSE
    BY DEF ProducerFIFO
  <2>1. live[s] \in Items
    BY DEF CoreInv, TypeInv, TypeOK, HistoryOK
  <2> QED
    BY <2>1 DEF OrderInv, NoneBefore
<1> QED
  BY <1>1, OrderAlways, PTL

=============================================================================
