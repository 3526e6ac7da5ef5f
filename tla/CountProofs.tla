---------------------------- MODULE CountProofs ----------------------------
(***************************************************************************)
(* Proofs about the counters: len counts every unacked item exactly once,  *)
(* and every free slot has a wake-up under way while a producer sleeps.    *)
(***************************************************************************)
EXTENDS IdentityProofs, FiniteSetTheorems

USE StoreAssumption, QueueAssumption DEF StoreAssumption, QueueAssumption, Seqs, Values, Versions, Usize

-----------------------------------------------------------------------------
(* Failed pushes.                                                          *)

(* No push has failed before the first open.                               *)
LEMMA FailedInit == Init => FailedInv
  BY DEF Init, FailedInv

(* A claim leaves failed pushes alone.                                     *)
LEMMA PushLockedFailed ==
  ASSUME TypeInv, FailedInv, NEW p \in Producers, NEW i \in Items, ppc[p] \in {"idle", "woken"},
         PushLocked(p, i), UNCHANGED <<storeVars, consVars, guardVars, restarts>>
  PROVE  FailedInv'
<1>1. ThreadsOK
  BY DEF TypeInv, TypeOK
<1>2. \A q \in Producers : ppc'[q] = "giveback" => ppc[q] = "giveback" /\ pseq'[q] = pseq[q]
  BY <1>1 DEF PushLocked, Claim, ThreadsOK
<1> QED
  BY <1>2 DEF FailedInv, storeVars, consVars, guardVars

(* When a failed commit leaves nothing behind, nobody finds the entry of a *)
(* failed push before its slot is given back.                              *)
LEMMA FailedStep == CoreInv /\ FailedInv /\ [Next]_vars => FailedInv'
<1> SUFFICES ASSUME CoreInv, FailedInv, [Next]_vars, CleanFailures PROVE FailedInv'
  BY DEF FailedInv
<1>1. TypeInv /\ SafeInv /\ ItemInv
  BY DEF CoreInv, IdentityInv
<1>i. StoreTypeOK /\ InnerOK /\ ThreadsOK /\ HistoryOK /\ InCall
  BY <1>1 DEF TypeInv, TypeOK
<1>p. ASSUME NEW p \in Producers, Push(p) \/ PushRetry(p) \/ TryPush(p) PROVE FailedInv'
  BY <1>1, <1>p, PushForms, PushLockedFailed
<1> USE <1>1, <1>i DEF FailedInv, StoreTypeOK, ThreadsOK, InCall, ProducerPC, GuardPC, ConsumerPC,
      storeVars, innerVars, prodVars, consVars, guardVars, histVars
<1>2. CASE UNCHANGED vars
  BY <1>2 DEF vars
<1>3. CASE OpenStart
  BY <1>3 DEF OpenStart
<1>4. CASE OpenErr
  BY <1>4 DEF OpenErr
<1>5. CASE RecoverEntry
  BY <1>5 DEF RecoverEntry
<1>6. CASE RecoverDone
  BY <1>6 DEF RecoverDone
<1>7. CASE RecoverErr
  BY <1>7 DEF RecoverErr
<1>8. CASE Crash
  BY <1>8 DEF Crash, PowerLoss
<1>9. CASE ReserveStart
  BY <1>9 DEF ReserveStart
<1>10. CASE ReserveSeek
  <2>1. found' \in Seqs /\ live[found'] # NoItem /\ UNCHANGED <<live, ppc, pseq, guardVars>>
    BY <1>10 DEF ReserveSeek, Seek, Stored
  <2> QED
    BY <2>1
<1>11. CASE ReserveNone
  BY <1>11 DEF ReserveNone
<1>12. CASE ReserveSkip
  BY <1>12 DEF ReserveSkip
<1>13. CASE ReserveTake
  BY <1>13 DEF ReserveTake, HandOut
<1>14. ASSUME NEW p \in Producers, Push(p) PROVE FailedInv'
  BY <1>14, <1>p
<1>15. ASSUME NEW p \in Producers, PushRetry(p) PROVE FailedInv'
  BY <1>15, <1>p
<1>16. ASSUME NEW p \in Producers, TryPush(p) PROVE FailedInv'
  BY <1>16, <1>p
<1>17. ASSUME NEW p \in Producers, SpuriousWake(p) PROVE FailedInv'
  BY <1>17 DEF SpuriousWake
<1>18. ASSUME NEW p \in Producers, Close(p) PROVE FailedInv'
  BY <1>18 DEF Close
<1>19. ASSUME NEW p \in Producers, WriteApply(p) PROVE FailedInv'
  <2>1. /\ live' = [live EXCEPT ![pseq[p]] = pitem[p]] /\ ppc' = [ppc EXCEPT ![p] = "flush"]
        /\ UNCHANGED <<pseq, consVars, guardVars>>
    BY <1>19 DEF WriteApply, Apply
  <2>2. \A q \in Producers : ppc[q] = "giveback" => pseq[q] # pseq[p] /\ q # p
    BY <1>19 DEF WriteApply, ItemInv
  <2> QED
    BY <1>19, <2>1, <2>2
<1>20. ASSUME NEW p \in Producers, WriteOk(p) PROVE FailedInv'
  BY <1>20 DEF WriteOk, Settle
<1>21. ASSUME NEW p \in Producers, WriteErr(p) PROVE FailedInv'
  <2>1. ppc[p] = "apply" /\ ppc' = [ppc EXCEPT ![p] = "giveback"]
        /\ UNCHANGED <<live, pseq, consVars, guardVars>>
    BY <1>21 DEF WriteErr, CleanFailures
  <2>2. /\ live[pseq[p]] = NoItem
        /\ \A g \in Guards : gpc[g] # "free" => gseq[g] # pseq[p]
        /\ cpc = "check" => found # pseq[p]
    BY <2>1 DEF SafeInv, LogInv, Committed
  <2> QED
    BY <2>1, <2>2
<1>22. ASSUME NEW p \in Producers, GiveBack(p) PROVE FailedInv'
  BY <1>22 DEF GiveBack
<1>23. ASSUME NEW p \in Producers, WriteNotify(p) PROVE FailedInv'
  <2>1. \A q \in Producers : ppc'[q] = "giveback" => ppc[q] = "giveback"
    BY <1>i, <1>23, WriteNotifyEffect, Zenon
  <2> QED
    BY <1>23, <2>1 DEF WriteNotify
<1>24. ASSUME NEW p \in Producers, CloseNotify(p) PROVE FailedInv'
  BY <1>24 DEF CloseNotify
<1>25. ASSUME NEW g \in Guards, Nack(g) PROVE FailedInv'
  BY <1>25 DEF Nack, Release, CanCall
<1>26. ASSUME NEW g \in Guards, AckApply(g) PROVE FailedInv'
  BY <1>26 DEF AckApply, CanCall, Apply
<1>27. ASSUME NEW g \in Guards, AckOk(g) PROVE FailedInv'
  BY <1>27 DEF AckOk, Settle
<1>28. ASSUME NEW g \in Guards, AckErr(g) PROVE FailedInv'
  BY <1>28 DEF AckErr, Release, CanCall
<1>29. ASSUME NEW g \in Guards, AckSettle(g) PROVE FailedInv'
  BY <1>29 DEF AckSettle
<1>30. ASSUME NEW g \in Guards, AckNotify(g) PROVE FailedInv'
  <2>1. \A q \in Producers : ppc'[q] = "giveback" => ppc[q] = "giveback"
    BY <1>i, <1>30, AckNotifyEffect, Zenon
  <2> QED
    BY <1>30, <2>1 DEF AckNotify
<1> QED
  BY <1>2, <1>3, <1>4, <1>5, <1>6, <1>7, <1>8, <1>9, <1>10, <1>11, <1>12, <1>13, <1>14, <1>15, <1>16, <1>17, <1>18, <1>19, <1>20, <1>21, <1>22, <1>23, <1>24, <1>25, <1>26, <1>27, <1>28, <1>29, <1>30
     DEF Next, ProducerStep, GuardStep

-----------------------------------------------------------------------------
(* The recovery scan.                                                      *)

(* A set of sequence numbers is finite, and has at most MaxSeq of them.    *)
LEMMA SeqSetFinite ==
  ASSUME NEW S \in SUBSET Seqs
  PROVE  /\ IsFiniteSet(S) /\ Cardinality(S) \in Nat /\ Cardinality(S) <= MaxSeq
         /\ Cardinality(S) < UsizeMod
<1>1. IsFiniteSet(Seqs) /\ Cardinality(Seqs) <= MaxSeq
  <2>1. 0 \in Int /\ MaxSeq - 1 \in Int
    OBVIOUS
  <2>2. /\ IsFiniteSet(0 .. (MaxSeq - 1))
        /\ Cardinality(0 .. (MaxSeq - 1)) = IF 0 > MaxSeq - 1 THEN 0 ELSE (MaxSeq - 1) - 0 + 1
    BY <2>1, FS_Interval
  <2> QED
    BY <2>2 DEF Seqs
<1>2. IsFiniteSet(S) /\ Cardinality(S) <= Cardinality(Seqs)
  BY <1>1, FS_Subset
<1>3. Cardinality(S) \in Nat /\ Cardinality(Seqs) \in Nat
  BY <1>1, <1>2, FS_CardinalityType
<1> QED
  BY <1>1, <1>2, <1>3

(* Counting one more entry in does not wrap.                               *)
LEMMA CountIn ==
  ASSUME NEW S \in SUBSET Seqs, NEW s \in Seqs \ S
  PROVE  Cardinality(S \cup {s}) = Add(Cardinality(S), 1)
<1>1. IsFiniteSet(S) /\ Cardinality(S) \in Nat
  BY SeqSetFinite
<1>2. Cardinality(S \cup {s}) = Cardinality(S) + 1
  BY <1>1, FS_AddElement
<1>3. S \cup {s} \in SUBSET Seqs
  OBVIOUS
<1>4. Cardinality(S \cup {s}) < UsizeMod
  BY <1>3, SeqSetFinite
<1> QED
  BY <1>1, <1>2, <1>4 DEF Add

(* Counting an entry out does not wrap.                                    *)
LEMMA CountOut ==
  ASSUME NEW S \in SUBSET Seqs, NEW s \in S
  PROVE  Cardinality(S \ {s}) = Sub(Cardinality(S), 1)
<1>1. IsFiniteSet(S) /\ Cardinality(S) \in Nat
  BY SeqSetFinite
<1>2. Cardinality(S \ {s}) = Cardinality(S) - 1
  BY <1>1, FS_RemoveElement
<1>3. S \ {s} \in SUBSET Seqs
  OBVIOUS
<1>4. Cardinality(S \ {s}) \in Nat
  BY <1>3, SeqSetFinite
<1> QED
  BY <1>1, <1>2, <1>4 DEF Sub

(* The entries the recovery scan has passed.                               *)
Passed == {s \in Stored : s < cursor}

(* One step of the recovery scan starts it, counts the entry it finds, or  *)
(* leaves it where it is.                                                  *)
LEMMA ScanForms ==
  ASSUME CoreInv, [Next]_vars, cpc' = "recover"
  PROVE  \/ len' = 0 /\ bytes' = 0 /\ Passed' = {}
         \/ /\ cpc = "recover" /\ owner' = owner
            /\ \E s \in Seqs \ Passed :
                 /\ Passed' = Passed \cup {s}
                 /\ len' = Add(len, 1) /\ bytes' = Add(bytes, Size[live[s]])
                 /\ live[s] = owner[s] /\ owner[s] \in Items
         \/ cpc = "recover" /\ Passed' = Passed /\ UNCHANGED <<len, bytes, owner>>
<1>1. TypeInv /\ SafeInv /\ DiskInv
  BY DEF CoreInv, IdentityInv
<1>i. InnerOK /\ ThreadsOK /\ StoreTypeOK
  BY <1>1 DEF TypeInv, TypeOK
<1>2. CASE OpenStart
  <2>1. len' = 0 /\ bytes' = 0 /\ cursor' = 0
    BY <1>2 DEF OpenStart
  <2>2. Passed' = {}
    BY <2>1 DEF Passed, Stored
  <2> QED
    BY <2>1, <2>2
<1>3. CASE RecoverEntry
  <2>1. PICK s \in Seek(cursor) : cursor' = s + 1 /\ len' = Add(len, 1) /\ bytes' = Add(bytes, Size[live[s]])
    BY <1>3 DEF RecoverEntry
  <2>2. Stored' = Stored /\ cpc = "recover" /\ cursor \in Nat /\ owner' = owner
    BY <1>3, <1>i DEF RecoverEntry, Stored, storeVars, histVars, ThreadsOK
  <2>3. s \in Stored /\ s >= cursor /\ \A t \in Stored : t >= cursor => s <= t
    BY <2>1 DEF Seek
  <2>4. s \in Seqs \ Passed
    BY <2>3, <2>2 DEF Stored, Passed
  <2>5. Passed' = Passed \cup {s}
    BY <2>1, <2>2, <2>3 DEF Stored, Passed
  <2>6. live[s] = owner[s] /\ owner[s] \in Items
    BY <1>1, <1>i, <2>3 DEF DiskInv, StoreTypeOK, Stored
  <2> QED
    BY <2>1, <2>2, <2>4, <2>5, <2>6
<1>4. CASE ~(OpenStart \/ RecoverEntry)
  <2>1. cpc = "recover" => \A p \in Producers : ppc[p] = "idle"
    BY <1>1 DEF SafeInv, DownInv, Up
  <2>2. cpc = "recover" => \A g \in Guards : gpc[g] = "free"
    BY <1>1 DEF SafeInv, DownInv, Up
  <2>3. UNCHANGED <<live, len, bytes, cursor, cpc, owner>>
    <3> USE <2>1, <2>2 DEF storeVars, innerVars, consVars, histVars
    <3>1. CASE OpenErr \/ RecoverDone \/ RecoverErr \/ Crash
      BY <3>1 DEF OpenErr, RecoverDone, RecoverErr, Crash
    <3>2. ASSUME NEW p \in Producers,
                 Push(p) \/ TryPush(p) \/ SpuriousWake(p) \/ Close(p) \/ ProducerStep(p)
          PROVE  UNCHANGED <<live, len, bytes, cursor, cpc, owner>>
      <4>1. cpc # "recover" => cpc' # "recover"
        BY <3>2 DEF Push, TryPush, SpuriousWake, Close, ProducerStep, PushRetry, WriteApply,
                    WriteOk, WriteErr, GiveBack, WriteNotify, CloseNotify
      <4> QED
        BY <3>2, <4>1 DEF Push, TryPush, SpuriousWake, Close, ProducerStep, PushRetry, WriteApply,
                    WriteOk, WriteErr, GiveBack, WriteNotify, CloseNotify, Up
    <3>3. CASE ReserveStart \/ ReserveSeek \/ ReserveNone \/ ReserveSkip \/ ReserveTake
      BY <3>3 DEF ReserveStart, ReserveSeek, ReserveNone, ReserveSkip, ReserveTake, HandOut
    <3>4. ASSUME NEW g \in Guards, Nack(g) \/ AckApply(g) \/ GuardStep(g)
          PROVE  UNCHANGED <<live, len, bytes, cursor, cpc, owner>>
      <4>1. cpc # "recover" => cpc' # "recover"
        BY <3>4 DEF Nack, AckApply, GuardStep, AckOk, AckErr, AckSettle, AckNotify
      <4> QED
        BY <3>4, <4>1 DEF Nack, AckApply, GuardStep, AckOk, AckErr, AckSettle, AckNotify, CanCall
    <3>5. CASE UNCHANGED vars
      BY <3>5 DEF vars
    <3> QED
      BY <1>4, <3>1, <3>2, <3>3, <3>4, <3>5 DEF Next
  <2> QED
    BY <2>3 DEF Passed, Stored
<1> QED
  BY <1>2, <1>3, <1>4

(* No scan is under way before the first open.                             *)
LEMMA ScanInit == Init => ScanExact
  BY DEF Init, ScanExact

(* Every iteration of the recovery loop counts the one entry it finds.     *)
LEMMA ScanStep == CoreInv /\ ScanExact /\ [Next]_vars => ScanExact'
<1> SUFFICES ASSUME CoreInv, ScanExact, [Next]_vars, cpc' = "recover"
             PROVE  len' = Cardinality(Passed')
  BY DEF ScanExact, Passed
<1>1. Passed \in SUBSET Seqs
  BY DEF Passed, Stored
<1>2. cpc = "recover" => len = Cardinality(Passed)
  BY DEF ScanExact, Passed
<1> QED
  BY <1>1, <1>2, ScanForms, CountIn, FS_EmptySet

-----------------------------------------------------------------------------
(* len.                                                                    *)

(* Sequence number s is one that len must count.                           *)
CountedAt(s) ==
  \/ live[s] # NoItem
  \/ \E p \in Producers : ppc[p] \in {"apply", "giveback"} /\ pseq[p] = s
  \/ \E g \in Guards : gpc[g] \in {"flush", "settle"} /\ gseq[g] = s

(* Counted, number by number.                                              *)
LEMMA CountedIff ==
  /\ TypeInv => Counted = {s \in Seqs : CountedAt(s)}
  /\ TypeInv' => Counted' = {s \in Seqs : CountedAt(s)'}
<1>1. ASSUME TypeInv PROVE Counted = {s \in Seqs : CountedAt(s)}
  BY <1>1 DEF TypeInv, InCall, Counted, CountedAt, Stored
<1>2. ASSUME TypeInv' PROVE Counted' = {s \in Seqs : CountedAt(s)'}
  BY <1>2 DEF TypeInv, InCall, Counted, CountedAt, Stored
<1> QED
  BY <1>1, <1>2

(* The three things a step may do to the entries counted and to the two    *)
(* counters: leave them, count one entry in, count one entry out.          *)
Alike ==
  /\ Counted' = Counted /\ UNCHANGED <<len, bytes>>
  /\ \A s \in Counted : owner'[s] = owner[s]
Enters(s) ==
  /\ s \notin Counted /\ Counted' = Counted \cup {s}
  /\ len' = Add(len, 1) /\ bytes' = Add(bytes, Size[owner'[s]])
  /\ owner'[s] \in Items /\ \A t \in Counted : owner'[t] = owner[t]
Exits(s) ==
  /\ s \in Counted /\ Counted' = Counted \ {s}
  /\ len' = Sub(len, 1) /\ bytes' = Sub(bytes, Size[owner[s]])
  /\ owner[s] \in Items /\ UNCHANGED owner
Tally == Alike \/ \E s \in Seqs : Enters(s) \/ Exits(s)

(* A step that changes neither the counters nor any entry leaves them.     *)
LEMMA SameCount ==
  ASSUME TypeInv, TypeInv', UNCHANGED <<len, bytes, owner>>, \A s \in Seqs : CountedAt(s)' <=> CountedAt(s)
  PROVE  Tally
<1>1. Counted' = Counted
  BY CountedIff
<1> QED
  BY <1>1 DEF Tally, Alike

(* A claim counts the number at tail in.                                   *)
LEMMA ClaimCounts ==
  ASSUME CoreInv, CoreInv', Up, NEW p \in Producers, NEW i \in Items \ pushed, ppc[p] \in {"idle", "woken"},
         PushLocked(p, i), UNCHANGED <<storeVars, consVars, guardVars, restarts>>
  PROVE  Tally
<1>1. TypeInv /\ SafeInv /\ ItemInv /\ DiskInv /\ TypeInv'
  BY DEF CoreInv, IdentityInv
<1>2. StoreTypeOK /\ InnerOK /\ ThreadsOK /\ InCall
  BY <1>1 DEF TypeInv, TypeOK
<1>3. CASE Claim(p, i)
  <2>1. /\ tail \in Seqs /\ len' = Add(len, 1) /\ bytes' = Add(bytes, Size[i])
        /\ owner' = [owner EXCEPT ![tail] = i] /\ owner \in [Seqs -> Values]
        /\ ppc' = [ppc EXCEPT ![p] = "apply"] /\ pseq' = [pseq EXCEPT ![p] = tail]
        /\ UNCHANGED <<live, gpc, gseq>>
    BY <1>1, <1>2, <1>3 DEF Claim, InnerOK, storeVars, guardVars, TypeInv, TypeOK, HistoryOK
  <2>2. live[tail] = NoItem
    BY <1>1, <2>1 DEF SafeInv, LogInv, Stored, Up, DiskInv
  <2>3. /\ \A q \in Producers : ppc[q] \in {"apply", "giveback"} => pseq[q] # tail
        /\ \A g \in Guards : gpc[g] \in {"flush", "settle"} => gseq[g] # tail
    BY <1>1, <1>2 DEF SafeInv, LogInv, ItemInv, Committed, InnerOK
  <2>4. ~CountedAt(tail)
    BY <2>2, <2>3 DEF CountedAt
  <2>5. \A s \in Seqs : CountedAt(s)' <=> CountedAt(s) \/ s = tail
    <3> TAKE s \in Seqs
    <3>1. (\E q \in Producers : ppc'[q] \in {"apply", "giveback"} /\ pseq'[q] = s)
          <=> (\E q \in Producers : ppc[q] \in {"apply", "giveback"} /\ pseq[q] = s) \/ s = tail
      BY <1>2, <2>1 DEF ThreadsOK
    <3> QED
      BY <2>1, <3>1 DEF CountedAt
  <2>6. Counted \in SUBSET Seqs /\ tail \in Seqs \ Counted /\ Counted' = Counted \cup {tail}
    BY <1>1, <2>1, <2>4, <2>5, CountedIff
  <2>7. Enters(tail)
    BY <2>1, <2>6 DEF Enters
  <2> QED
    BY <2>1, <2>7 DEF Tally
<1>4. CASE ~Claim(p, i)
  <2>1. /\ UNCHANGED <<len, bytes, owner, pseq, live, gpc, gseq>>
        /\ \E c \in {"idle", "waiting"} : ppc' = [ppc EXCEPT ![p] = c]
    BY <1>4 DEF PushLocked, innerVars, storeVars, guardVars, histVars
  <2>2. \A s \in Seqs : CountedAt(s)' <=> CountedAt(s)
    BY <1>2, <2>1 DEF CountedAt, ThreadsOK
  <2> QED
    BY <1>1, <2>1, <2>2, SameCount
<1> QED
  BY <1>3, <1>4

(* With one consumer thread, over a store whose failed commits leave       *)
(* nothing behind, every step of an open queue is one of the three.        *)
LEMMA TallyStep ==
  ASSUME CoreInv, CoreInv', SoloInv, FailedInv, [Next]_vars, ~Threaded, CleanFailures, Up, Up'
  PROVE  Tally
<1>1. TypeInv /\ TypeInv' /\ SafeInv /\ ReservedExact /\ ItemInv /\ DiskInv /\ HistoryInv
  BY DEF CoreInv, IdentityInv
<1>i. StoreTypeOK /\ InnerOK /\ ThreadsOK /\ InCall
  BY <1>1 DEF TypeInv, TypeOK
<1>s. ASSUME UNCHANGED <<len, bytes, owner>>, \A s \in Seqs : CountedAt(s)' <=> CountedAt(s) PROVE Tally
  BY <1>1, <1>s, SameCount
<1>t. ASSUME UNCHANGED <<len, bytes, owner, live, ppc, pseq, gpc, gseq>> PROVE Tally
  BY <1>t, <1>s DEF CountedAt
<1> USE <1>1, <1>i DEF storeVars, innerVars, prodVars, consVars, guardVars, histVars
<1>2. CASE UNCHANGED vars
  BY <1>2, <1>t DEF vars, Up
<1>3. CASE OpenStart
  BY <1>3 DEF OpenStart, Up
<1>4. CASE OpenErr
  BY <1>4 DEF OpenErr, Up
<1>5. CASE RecoverEntry
  BY <1>5 DEF RecoverEntry, Up
<1>6. CASE RecoverDone
  BY <1>6 DEF RecoverDone, Up
<1>7. CASE RecoverErr
  BY <1>7 DEF RecoverErr, Up
<1>8. CASE Crash
  BY <1>8 DEF Crash, Up
<1>9. CASE ReserveStart
  BY <1>9, <1>t DEF ReserveStart, Up
<1>10. CASE ReserveSeek
  BY <1>10, <1>t DEF ReserveSeek, Up
<1>11. CASE ReserveNone
  BY <1>11, <1>t DEF ReserveNone, Up
<1>12. CASE ReserveSkip
  BY <1>12, <1>t DEF ReserveSkip, Up
<1>13. CASE ReserveTake
  <2>1. PICK g \in Guards : gpc[g] = "free" /\ gpc' = [gpc EXCEPT ![g] = "held"] /\ gseq' = [gseq EXCEPT ![g] = found]
    BY <1>13 DEF ReserveTake, HandOut
  <2>2. Up /\ UNCHANGED <<len, bytes, owner, live, ppc, pseq>>
    BY <1>13 DEF ReserveTake, HandOut, Up
  <2> QED
    BY <1>s, <2>1, <2>2 DEF CountedAt, ThreadsOK
<1>14. ASSUME NEW p \in Producers, Push(p) PROVE Tally
  BY <1>14, PushForms, ClaimCounts
<1>15. ASSUME NEW p \in Producers, PushRetry(p) PROVE Tally
  BY <1>15, PushForms, ClaimCounts
<1>16. ASSUME NEW p \in Producers, TryPush(p) PROVE Tally
  BY <1>16, PushForms, ClaimCounts
<1>17. ASSUME NEW p \in Producers, SpuriousWake(p) PROVE Tally
  <2>1. Up /\ ppc[p] = "waiting" /\ ppc' = [ppc EXCEPT ![p] = "woken"] /\ UNCHANGED <<len, bytes, owner, live, pseq, gpc, gseq>>
    BY <1>17 DEF SpuriousWake, SafeInv, DownInv
  <2> QED
    BY <1>s, <2>1 DEF CountedAt, ThreadsOK
<1>18. ASSUME NEW p \in Producers, Close(p) PROVE Tally
  <2>1. Up /\ ppc[p] = "idle" /\ ppc' = [ppc EXCEPT ![p] = "closing"] /\ UNCHANGED <<len, bytes, owner, live, pseq, gpc, gseq>>
    BY <1>18 DEF Close
  <2> QED
    BY <1>s, <2>1 DEF CountedAt, ThreadsOK
<1>19. ASSUME NEW p \in Producers, WriteApply(p) PROVE Tally
  <2>1. /\ Up /\ ppc[p] = "apply" /\ ppc' = [ppc EXCEPT ![p] = "flush"] /\ pseq[p] \in Seqs
        /\ live' = [live EXCEPT ![pseq[p]] = pitem[p]] /\ pitem[p] # NoItem
        /\ UNCHANGED <<len, bytes, owner, pseq, gpc, gseq>>
    BY <1>19 DEF WriteApply, Apply, SafeInv, DownInv, InCall
  <2>2. \A s \in Seqs : CountedAt(s)' <=> CountedAt(s)
    <3> TAKE s \in Seqs
    <3>1. CASE s = pseq[p]
      BY <2>1, <3>1 DEF CountedAt, StoreTypeOK
    <3>2. CASE s # pseq[p]
      BY <2>1, <3>2 DEF CountedAt, StoreTypeOK, ThreadsOK
    <3> QED
      BY <3>1, <3>2
  <2> QED
    BY <1>s, <2>1, <2>2
<1>20. ASSUME NEW p \in Producers, WriteOk(p) PROVE Tally
  <2>1. Up /\ ppc[p] = "flush" /\ ppc' = [ppc EXCEPT ![p] = "idle"] /\ UNCHANGED <<len, bytes, owner, live, pseq, gpc, gseq>>
    BY <1>20 DEF WriteOk, SafeInv, DownInv
  <2> QED
    BY <1>s, <2>1 DEF CountedAt, ThreadsOK
<1>21. ASSUME NEW p \in Producers, WriteErr(p) PROVE Tally
  <2>1. Up /\ ppc[p] = "apply" /\ ppc' = [ppc EXCEPT ![p] = "giveback"] /\ UNCHANGED <<len, bytes, owner, live, pseq, gpc, gseq>>
    BY <1>21 DEF WriteErr, CleanFailures, SafeInv, DownInv
  <2> QED
    BY <1>s, <2>1 DEF CountedAt, ThreadsOK
<1>22. ASSUME NEW p \in Producers, GiveBack(p) PROVE Tally
  <2>1. /\ Up /\ ppc[p] = "giveback" /\ ppc' = [ppc EXCEPT ![p] = "notify"]
        /\ len' = Sub(len, 1) /\ bytes' = Sub(bytes, Size[pitem[p]])
        /\ UNCHANGED <<live, pseq, gpc, gseq, owner>>
    BY <1>22 DEF GiveBack, SafeInv, DownInv
  <2>2. /\ pseq[p] \in Seqs /\ live[pseq[p]] = NoItem
        /\ \A g \in Guards : gpc[g] # "free" => gseq[g] # pseq[p]
        /\ \A q \in Producers : ppc[q] \in {"apply", "giveback"} /\ pseq[q] = pseq[p] => q = p
    BY <2>1 DEF FailedInv, ItemInv, InCall
  <2>3. CountedAt(pseq[p])
    BY <2>1 DEF CountedAt
  <2>4. \A s \in Seqs : CountedAt(s)' <=> CountedAt(s) /\ s # pseq[p]
    <3> TAKE s \in Seqs
    <3>1. CASE s = pseq[p]
      BY <2>1, <2>2, <3>1 DEF CountedAt, ThreadsOK
    <3>2. CASE s # pseq[p]
      BY <2>1, <3>2 DEF CountedAt, ThreadsOK
    <3> QED
      BY <3>1, <3>2
  <2>5. Counted \in SUBSET Seqs /\ pseq[p] \in Counted /\ Counted' = Counted \ {pseq[p]}
    BY <2>2, <2>3, <2>4, CountedIff
  <2>6. owner[pseq[p]] = pitem[p] /\ pitem[p] \in Items
    BY <2>1 DEF ItemInv, InCall
  <2>7. Exits(pseq[p])
    BY <2>1, <2>5, <2>6 DEF Exits
  <2> QED
    BY <2>2, <2>7 DEF Tally
<1>23. ASSUME NEW p \in Producers, WriteNotify(p) PROVE Tally
  <2>1. \A q \in Producers : ppc'[q] # ppc[q] => q = p \/ (ppc[q] = "waiting" /\ ppc'[q] = "woken")
    BY <1>i, <1>23, WriteNotifyEffect, Zenon
  <2>2. ppc[p] = "notify" /\ ppc'[p] = "idle"
    BY <1>23, WriteNotifyEffect DEF WriteNotify
  <2>3. \A q \in Producers : ppc'[q] \in {"apply", "giveback"} <=> ppc[q] \in {"apply", "giveback"}
    BY <2>1, <2>2
  <2>4. Up /\ UNCHANGED <<len, bytes, owner, live, pseq, gpc, gseq>>
    BY <1>23 DEF WriteNotify, SafeInv, DownInv
  <2> QED
    BY <1>s, <2>3, <2>4 DEF CountedAt
<1>24. ASSUME NEW p \in Producers, CloseNotify(p) PROVE Tally
  <2>1. \A q \in Producers : ppc'[q] \in {"apply", "giveback"} <=> ppc[q] \in {"apply", "giveback"}
    BY <1>24 DEF CloseNotify
  <2>2. Up /\ UNCHANGED <<len, bytes, owner, live, pseq, gpc, gseq>>
    BY <1>24 DEF CloseNotify, SafeInv, DownInv
  <2> QED
    BY <1>s, <2>1, <2>2 DEF CountedAt
<1>25. ASSUME NEW g \in Guards, Nack(g) PROVE Tally
  <2>1. /\ Up /\ gpc[g] = "held" /\ gpc' = [gpc EXCEPT ![g] = "free"] /\ gseq' = [gseq EXCEPT ![g] = 0]
        /\ UNCHANGED <<len, bytes, owner, live, ppc, pseq>>
    BY <1>25 DEF Nack, Release, CanCall, SafeInv, DownInv
  <2> QED
    BY <1>s, <2>1 DEF CountedAt, ThreadsOK
<1>26. ASSUME NEW g \in Guards, AckApply(g) PROVE Tally
  <2>1. /\ Up /\ gpc[g] = "held" /\ gpc' = [gpc EXCEPT ![g] = "flush"]
        /\ live' = [live EXCEPT ![gseq[g]] = NoItem] /\ UNCHANGED <<len, bytes, owner, gseq, ppc, pseq>>
    BY <1>26 DEF AckApply, Apply, CanCall, SafeInv, DownInv
  <2>2. gseq[g] \in Seqs /\ live[gseq[g]] # NoItem
    BY <2>1 DEF SoloInv, InCall
  <2>3. \A s \in Seqs : CountedAt(s)' <=> CountedAt(s)
    <3> TAKE s \in Seqs
    <3>1. CASE s = gseq[g]
      BY <2>1, <2>2, <3>1 DEF CountedAt, ThreadsOK
    <3>2. CASE s # gseq[g]
      BY <2>1, <2>2, <3>2 DEF CountedAt, StoreTypeOK, ThreadsOK
    <3> QED
      BY <3>1, <3>2
  <2> QED
    BY <1>s, <2>1, <2>3
<1>27. ASSUME NEW g \in Guards, AckOk(g) PROVE Tally
  <2>1. Up /\ gpc[g] = "flush" /\ gpc' = [gpc EXCEPT ![g] = "settle"] /\ UNCHANGED <<len, bytes, owner, live, gseq, ppc, pseq>>
    BY <1>27 DEF AckOk, SafeInv, DownInv
  <2> QED
    BY <1>s, <2>1 DEF CountedAt, ThreadsOK
<1>28. ASSUME NEW g \in Guards, AckErr(g) PROVE Tally
  <2>1. /\ Up /\ gpc[g] = "held" /\ gpc' = [gpc EXCEPT ![g] = "free"] /\ gseq' = [gseq EXCEPT ![g] = 0]
        /\ UNCHANGED <<len, bytes, owner, live, ppc, pseq>>
    BY <1>28 DEF AckErr, Release, CanCall, CleanFailures, ack_durable, SafeInv, DownInv
  <2> QED
    BY <1>s, <2>1 DEF CountedAt, ThreadsOK
<1>29. ASSUME NEW g \in Guards, AckSettle(g) PROVE Tally
  <2>1. /\ Up /\ gpc[g] = "settle" /\ gpc' = [gpc EXCEPT ![g] = "notify"]
        /\ len' = Sub(len, 1) /\ bytes' = Sub(bytes, Size[gitem[g]])
        /\ UNCHANGED <<live, gseq, ppc, pseq, owner>>
    BY <1>29 DEF AckSettle, SafeInv, DownInv
  <2>2. gseq[g] \in Seqs /\ live[gseq[g]] = NoItem
    BY <2>1 DEF InCall, SafeInv, LogInv
  <2>3. \A q \in Producers : ppc[q] \in {"apply", "giveback"} => pseq[q] # gseq[g]
    BY <2>1 DEF SafeInv, LogInv, Committed, FailedInv
  <2>4. \A h \in Guards : gpc[h] \in {"flush", "settle"} /\ gseq[h] = gseq[g] => h = g
    BY <2>1 DEF ReservedExact, OnLoan
  <2>5. CountedAt(gseq[g])
    BY <2>1 DEF CountedAt
  <2>6. \A s \in Seqs : CountedAt(s)' <=> CountedAt(s) /\ s # gseq[g]
    <3> TAKE s \in Seqs
    <3>1. CASE s = gseq[g]
      BY <2>1, <2>2, <2>3, <2>4, <3>1 DEF CountedAt, ThreadsOK
    <3>2. CASE s # gseq[g]
      BY <2>1, <3>2 DEF CountedAt, ThreadsOK
    <3> QED
      BY <3>1, <3>2
  <2>7. Counted \in SUBSET Seqs /\ gseq[g] \in Counted /\ Counted' = Counted \ {gseq[g]}
    BY <2>2, <2>5, <2>6, CountedIff
  <2>8. owner[gseq[g]] = gitem[g] /\ gitem[g] \in Items
    BY <2>1 DEF ItemInv, InCall
  <2>9. Exits(gseq[g])
    BY <2>1, <2>7, <2>8 DEF Exits
  <2> QED
    BY <2>2, <2>9 DEF Tally
<1>30. ASSUME NEW g \in Guards, AckNotify(g) PROVE Tally
  <2>1. \A q \in Producers : ppc'[q] # ppc[q] => ppc[q] = "waiting" /\ ppc'[q] = "woken"
    BY <1>i, <1>30, AckNotifyEffect, Zenon
  <2>2. \A q \in Producers : ppc'[q] \in {"apply", "giveback"} <=> ppc[q] \in {"apply", "giveback"}
    BY <2>1
  <2>3. /\ Up /\ gpc[g] = "notify" /\ gpc' = [gpc EXCEPT ![g] = "free"] /\ gseq' = [gseq EXCEPT ![g] = 0]
        /\ UNCHANGED <<len, bytes, owner, live, pseq>>
    BY <1>30 DEF AckNotify, SafeInv, DownInv
  <2> QED
    BY <1>s, <2>2, <2>3 DEF CountedAt, ThreadsOK
<1> QED
  BY <1>2, <1>3, <1>4, <1>5, <1>6, <1>7, <1>8, <1>9, <1>10, <1>11, <1>12, <1>13, <1>14, <1>15, <1>16, <1>17, <1>18, <1>19, <1>20, <1>21, <1>22, <1>23, <1>24, <1>25, <1>26, <1>27, <1>28, <1>29, <1>30
     DEF Next, ProducerStep, GuardStep

(* Only the end of the recovery scan opens the queue: the scan has passed  *)
(* every stored entry, and no call has begun.                              *)
LEMMA OpenedStep ==
  ASSUME CoreInv, [Next]_vars, ~Up, Up'
  PROVE  cpc = "recover" /\ Passed = Counted' /\ UNCHANGED <<len, bytes, owner>>
<1>1. SafeInv /\ ThreadsOK
  BY DEF CoreInv, TypeInv, TypeOK
<1>2. /\ \A p \in Producers : ppc[p] = "idle"
      /\ \A g \in Guards : gpc[g] = "free"
  BY <1>1 DEF SafeInv, DownInv
<1>3. RecoverDone
  <2>1. ASSUME NEW p \in Producers, ProducerStep(p) \/ SpuriousWake(p) PROVE FALSE
    BY <1>2, <2>1 DEF ProducerStep, SpuriousWake, PushRetry, WriteApply, WriteOk, WriteErr, GiveBack, WriteNotify, CloseNotify
  <2>2. ASSUME NEW g \in Guards, Nack(g) \/ AckApply(g) \/ GuardStep(g) PROVE FALSE
    BY <1>2, <2>2 DEF Nack, AckApply, GuardStep, AckOk, AckErr, AckSettle, AckNotify, CanCall
  <2> QED
    BY <2>1, <2>2 DEF Next, vars, Up, OpenStart, OpenErr, RecoverEntry, RecoverErr, Crash, consVars, Push, TryPush, Close,
         ReserveStart, ReserveSeek, ReserveNone, ReserveSkip, ReserveTake
<1>4. /\ cpc = "recover" /\ Seek(cursor) = {} /\ cursor \in Nat
      /\ UNCHANGED <<len, bytes, owner, live, ppc, pseq, gpc, gseq>>
  BY <1>1, <1>3 DEF RecoverDone, ThreadsOK, storeVars, innerVars, prodVars, guardVars, histVars
<1>5. \A s \in Stored : s < cursor
  BY <1>4, SeekNothing
<1>6. Passed = Stored
  BY <1>5 DEF Passed
<1>7. Counted' = Stored
  BY <1>2, <1>4 DEF Counted, Stored
<1> QED
  BY <1>4, <1>6, <1>7

(* The queue's len and the entries it must count, before the first open.   *)
LEMMA LenInit == Init => LenExact
  BY DEF Init, LenExact, Up

(* len follows: what is counted in or out is counted once.                 *)
LEMMA TallyLen ==
  ASSUME TypeInv, Up, LenExact, Tally
  PROVE  LenExact'
<1>1. len = Cardinality(Counted)
  BY DEF LenExact
<1>2. Counted \in SUBSET Seqs
  BY CountedIff
<1> QED
  BY <1>1, <1>2, CountIn, CountOut DEF LenExact, Tally, Alike, Enters, Exits

(* Every step keeps len exact.                                             *)
LEMMA LenStep ==
  ASSUME CoreInv, CoreInv', SoloInv, FailedInv, ScanExact, LenExact, [Next]_vars, ~Threaded, CleanFailures
  PROVE  LenExact'
<1> SUFFICES ASSUME Up' PROVE LenExact'
  BY DEF LenExact
<1>1. CASE ~Up
  BY <1>1, OpenedStep DEF LenExact, ScanExact, Passed
<1>2. CASE Up
  BY <1>2, TallyStep, TallyLen DEF CoreInv
<1> QED
  BY <1>1, <1>2

(* len is exact for every queue with one consumer thread, any number of    *)
(* producers, any capacity, any crashes, over a store whose failed commits *)
(* leave nothing behind: no overlap of claims, give-backs and acks makes   *)
(* it drift or wrap.  (Guards acked on other threads, and sled's failing   *)
(* flush, are the two ways the code loses count.)                          *)
THEOREM LenCounts == Spec => [](~Threaded /\ CleanFailures => LenExact)
<1> DEFINE Exact == ~Threaded /\ CleanFailures => LenExact
           Inv == CoreInv /\ SoloInv /\ FailedInv /\ ScanExact
<1>1. Init => Inv /\ Exact
  BY CoreInit, SoloInit, FailedInit, ScanInit, LenInit
<1>2. Inv /\ [Next]_vars => Inv'
  BY CoreKept, SoloStep, FailedStep, ScanStep
<1>3. Inv /\ Exact /\ [Next]_vars => Exact'
  BY <1>2, LenStep
<1> HIDE DEF Inv, Exact
<1>4. Spec => []Exact
  BY <1>1, <1>2, <1>3, PTL DEF Spec
<1> QED
  BY <1>4 DEF Exact

(* Producer::len at rest: with no push and no ack under way it is the      *)
(* number of entries in the store.                                         *)
COROLLARY LenIsUnackedCount == Spec => [](~Threaded /\ CleanFailures => LenIsUnacked)
<1>1. LenExact => LenIsUnacked
  <2> SUFFICES ASSUME LenExact, Up, Quiet PROVE len = Cardinality(Stored)
    BY DEF LenIsUnacked
  <2>1. Counted = Stored
    BY DEF Counted, Quiet, GuardsAtRest
  <2> QED
    BY <2>1 DEF LenExact
<1>2. (~Threaded /\ CleanFailures => LenExact) => (~Threaded /\ CleanFailures => LenIsUnacked)
  BY <1>1
<1> QED
  BY <1>2, LenCounts, PTL

-----------------------------------------------------------------------------
(* bytes.                                                                  *)

(* The bytes entry n adds to the total over S, when own names the items.   *)
Weight(S, own, n) == IF n \in S THEN Size[own[n]] ELSE 0

(* f[n] is the total of the entries of S below n, in usize arithmetic.     *)
Sums(f, S, own) ==
  /\ f[0] = 0
  /\ \A n \in Seqs : f[n + 1] = Add(f[n], Weight(S, own, n))

(* b is the total length of the items of S, in usize arithmetic.           *)
Total(b, S, own) == \E f \in [0 .. MaxSeq -> Usize] : Sums(f, S, own) /\ f[MaxSeq] = b

(* Sums of usizes may be taken in any order, and subtraction undoes        *)
(* addition.                                                               *)
LEMMA UsizeGroup ==
  ASSUME NEW x \in Usize, NEW v \in Usize, NEW w \in Usize
  PROVE  /\ Add(x, v) \in Usize /\ Sub(x, v) \in Usize /\ Add(x, 0) = x
         /\ Add(Add(x, w), v) = Add(Add(x, v), w)
         /\ Sub(Add(x, w), v) = Add(Sub(x, v), w)
         /\ Sub(Add(x, v), v) = x
  BY DEF Add, Sub

(* Nothing adds up to nothing.                                             *)
LEMMA TotalNothing == ASSUME NEW own PROVE Total(0, {}, own)
<1> DEFINE f == [n \in 0 .. MaxSeq |-> 0]
<1>1. f \in [0 .. MaxSeq -> Usize] /\ f[MaxSeq] = 0
  OBVIOUS
<1>2. Sums(f, {}, own)
  BY DEF Sums, Weight, Add
<1> QED
  BY <1>1, <1>2 DEF Total

(* The total is that of the items, whoever names them.                     *)
LEMMA TotalSame ==
  ASSUME NEW S \in SUBSET Seqs, NEW own, NEW own2, NEW b, \A t \in S : own2[t] = own[t], Total(b, S, own)
  PROVE  Total(b, S, own2)
<1>1. \A n \in Seqs : Weight(S, own2, n) = Weight(S, own, n)
  BY DEF Weight
<1> QED
  BY <1>1 DEF Total, Sums

(* One more item adds its length to every sum above its number.            *)
LEMMA TotalIn ==
  ASSUME NEW S \in SUBSET Seqs, NEW s \in Seqs \ S, NEW own, NEW own2, NEW b,
         \A t \in S : own[t] \in Items /\ own2[t] = own[t], own2[s] \in Items, Total(b, S, own)
  PROVE  Total(Add(b, Size[own2[s]]), S \cup {s}, own2)
<1>1. PICK f \in [0 .. MaxSeq -> Usize] : Sums(f, S, own) /\ f[MaxSeq] = b
  BY DEF Total
<1> DEFINE v == Size[own2[s]]
           g == [n \in 0 .. MaxSeq |-> IF n <= s THEN f[n] ELSE Add(f[n], v)]
<1>2. v \in Usize
  OBVIOUS
<1> HIDE DEF v
<1>3. g \in [0 .. MaxSeq -> Usize] /\ g[MaxSeq] = Add(b, v)
  <2>0. \A x \in Usize : Add(x, v) \in Usize
    BY <1>2, UsizeGroup
  <2>1. \A n \in 0 .. MaxSeq : f[n] \in Usize /\ Add(f[n], v) \in Usize
    BY <2>0
  <2>2. MaxSeq \in 0 .. MaxSeq /\ ~(MaxSeq <= s)
    OBVIOUS
  <2> QED
    BY <1>1, <2>1, <2>2
<1>4. ASSUME NEW n \in Seqs PROVE g[n + 1] = Add(g[n], Weight(S \cup {s}, own2, n))
  <2>1. n \in 0 .. MaxSeq /\ n + 1 \in 0 .. MaxSeq /\ f[n] \in Usize /\ f[n + 1] \in Usize
    OBVIOUS
  <2>2. f[n + 1] = Add(f[n], Weight(S, own, n))
    BY <1>1 DEF Sums
  <2>3. Weight(S, own, n) \in Usize
    BY DEF Weight
  <2>4. CASE n = s
    <3>1. Weight(S, own, n) = 0 /\ Weight(S \cup {s}, own2, n) = v
      BY <2>4 DEF Weight, v
    <3>2. g[n] = f[n] /\ g[n + 1] = Add(f[n + 1], v)
      BY <2>1, <2>4
    <3>3. f[n + 1] = f[n]
      BY <2>1, <2>2, <3>1, <1>2, UsizeGroup
    <3> QED
      BY <3>1, <3>2, <3>3
  <2>5. CASE n # s
    <3>1. Weight(S \cup {s}, own2, n) = Weight(S, own, n)
      BY <2>5 DEF Weight
    <3>2. CASE n < s
      BY <2>1, <2>2, <3>1, <3>2
    <3>3. CASE n > s
      <4>1. g[n] = Add(f[n], v) /\ g[n + 1] = Add(f[n + 1], v)
        BY <2>1, <3>3
      <4>2. Add(Add(f[n], Weight(S, own, n)), v) = Add(Add(f[n], v), Weight(S, own, n))
        BY <1>2, <2>1, <2>3, UsizeGroup
      <4> QED
        BY <2>2, <3>1, <4>1, <4>2
    <3> QED
      BY <2>5, <3>2, <3>3
  <2> QED
    BY <2>4, <2>5
<1>5. g[0] = 0
  BY <1>1 DEF Sums
<1> HIDE DEF g
<1>6. Sums(g, S \cup {s}, own2)
  BY <1>4, <1>5 DEF Sums
<1> QED
  BY <1>3, <1>6 DEF Total, v

(* One item less takes its length from every sum above its number.         *)
LEMMA TotalOut ==
  ASSUME NEW S \in SUBSET Seqs, NEW s \in S, NEW own, NEW b,
         \A t \in S : own[t] \in Items, Total(b, S, own)
  PROVE  Total(Sub(b, Size[own[s]]), S \ {s}, own)
<1>1. PICK f \in [0 .. MaxSeq -> Usize] : Sums(f, S, own) /\ f[MaxSeq] = b
  BY DEF Total
<1> DEFINE v == Size[own[s]]
           g == [n \in 0 .. MaxSeq |-> IF n <= s THEN f[n] ELSE Sub(f[n], v)]
<1>2. v \in Usize
  OBVIOUS
<1> HIDE DEF v
<1>3. g \in [0 .. MaxSeq -> Usize] /\ g[MaxSeq] = Sub(b, v)
  <2>0. \A x \in Usize : Sub(x, v) \in Usize
    BY <1>2, UsizeGroup
  <2>1. \A n \in 0 .. MaxSeq : f[n] \in Usize /\ Sub(f[n], v) \in Usize
    BY <2>0
  <2>2. MaxSeq \in 0 .. MaxSeq /\ ~(MaxSeq <= s)
    OBVIOUS
  <2> QED
    BY <1>1, <2>1, <2>2
<1>4. /\ \A k \in 0 .. MaxSeq : k <= s => g[k] = f[k]
      /\ \A k \in 0 .. MaxSeq : k > s => g[k] = Sub(f[k], v)
  OBVIOUS
<1>5. g[0] = 0
  BY <1>1 DEF Sums
<1> HIDE DEF g
<1>6. ASSUME NEW n \in Seqs PROVE g[n + 1] = Add(g[n], Weight(S \ {s}, own, n))
  <2>1. n \in 0 .. MaxSeq /\ n + 1 \in 0 .. MaxSeq /\ f[n] \in Usize /\ f[n + 1] \in Usize
    OBVIOUS
  <2>2. f[n + 1] = Add(f[n], Weight(S, own, n))
    BY <1>1 DEF Sums
  <2>3. Weight(S, own, n) \in Usize
    BY DEF Weight
  <2>4. CASE n = s
    <3>1. Weight(S, own, n) = v /\ Weight(S \ {s}, own, n) = 0
      BY <2>4 DEF Weight, v
    <3>2. g[n] = f[n] /\ g[n + 1] = Sub(f[n + 1], v)
      <4>1. n <= s /\ n + 1 > s
        BY <2>4
      <4> QED
        BY <1>4, <2>1, <4>1
    <3>3. Sub(f[n + 1], v) = f[n] /\ Add(f[n], 0) = f[n]
      <4>1. Sub(Add(f[n], v), v) = f[n] /\ Add(f[n], 0) = f[n]
        BY <1>2, <2>1, UsizeGroup
      <4> QED
        BY <2>2, <3>1, <4>1
    <3> QED
      BY <3>1, <3>2, <3>3
  <2>5. CASE n # s
    <3>1. Weight(S \ {s}, own, n) = Weight(S, own, n)
      BY <2>5 DEF Weight
    <3>2. CASE n < s
      <4>1. n <= s /\ n + 1 <= s
        BY <3>2
      <4>2. g[n] = f[n] /\ g[n + 1] = f[n + 1]
        BY <1>4, <2>1, <4>1
      <4> QED
        BY <2>2, <3>1, <4>2
    <3>3. CASE n > s
      <4>1. g[n] = Sub(f[n], v) /\ g[n + 1] = Sub(f[n + 1], v)
        <5>1. n > s /\ n + 1 > s
          BY <3>3
        <5> QED
          BY <1>4, <2>1, <5>1
      <4>2. Sub(Add(f[n], Weight(S, own, n)), v) = Add(Sub(f[n], v), Weight(S, own, n))
        BY <1>2, <2>1, <2>3, UsizeGroup
      <4> QED
        BY <2>2, <3>1, <4>1, <4>2
    <3> QED
      BY <2>5, <3>2, <3>3
  <2> QED
    BY <2>4, <2>5
<1>7. Sums(g, S \ {s}, own)
  BY <1>5, <1>6 DEF Sums
<1> QED
  BY <1>3, <1>7 DEF Total, v

(* What len counts is what its number was last given to.                   *)
LEMMA CountedOwned == CoreInv => \A s \in Counted : owner[s] \in Items
<1> SUFFICES ASSUME CoreInv, NEW s \in Counted PROVE owner[s] \in Items
  OBVIOUS
<1>1. StoreTypeOK /\ ThreadsOK /\ InCall /\ ItemInv /\ DiskInv
  BY DEF CoreInv, TypeInv, TypeOK, IdentityInv
<1>2. CASE s \in Stored
  BY <1>1, <1>2 DEF Stored, DiskInv, StoreTypeOK
<1>3. CASE s \notin Stored
  BY <1>1, <1>3 DEF Counted, ItemInv, InCall
<1> QED
  BY <1>2, <1>3

(* The recovery scan adds up the bytes of what it has passed; an open      *)
(* queue's bytes are those of what it counts.                              *)
ScanBytes == cpc = "recover" => Total(bytes, Passed, owner)
OpenBytes == Up => Total(bytes, Counted, owner)

(* No byte is counted before the first open.                               *)
LEMMA BytesInit == Init => ScanBytes /\ OpenBytes
  BY DEF Init, ScanBytes, OpenBytes, Up

(* Every iteration of the recovery loop adds the length of its entry.      *)
LEMMA ScanBytesStep == CoreInv /\ ScanBytes /\ [Next]_vars => ScanBytes'
<1> SUFFICES ASSUME CoreInv, ScanBytes, [Next]_vars, cpc' = "recover"
             PROVE  Total(bytes', Passed', owner')
  BY DEF ScanBytes
<1>1. Passed \in SUBSET Seqs /\ \A s \in Passed : owner[s] \in Items
  BY CountedOwned DEF Passed, Stored, Counted
<1>2. CASE bytes' = 0 /\ Passed' = {}
  BY <1>2, TotalNothing
<1>3. CASE cpc = "recover" /\ Passed' = Passed /\ UNCHANGED <<bytes, owner>>
  BY <1>3 DEF ScanBytes
<1>4. ASSUME cpc = "recover", owner' = owner, NEW s \in Seqs \ Passed, Passed' = Passed \cup {s},
             bytes' = Add(bytes, Size[owner[s]]), owner[s] \in Items
      PROVE  Total(bytes', Passed', owner')
  <2>1. Total(bytes, Passed, owner)
    BY <1>4 DEF ScanBytes
  <2>2. Total(Add(bytes, Size[owner[s]]), Passed \cup {s}, owner)
    BY <1>1, <1>4, <2>1, TotalIn
  <2> QED
    BY <1>4, <2>2
<1> QED
  BY <1>2, <1>3, <1>4, ScanForms

(* bytes follows len: what is counted in or out adds or takes its length.  *)
LEMMA TallyBytes ==
  ASSUME CoreInv, Up, OpenBytes, Tally
  PROVE  OpenBytes'
<1> SUFFICES Total(bytes', Counted', owner')
  BY DEF OpenBytes
<1>1. Total(bytes, Counted, owner)
  BY DEF OpenBytes
<1>2. Counted \in SUBSET Seqs /\ \A s \in Counted : owner[s] \in Items
  BY CountedIff, CountedOwned DEF CoreInv
<1>3. CASE Alike
  BY <1>1, <1>2, <1>3, TotalSame DEF Alike
<1>4. ASSUME NEW s \in Seqs, Enters(s) PROVE Total(bytes', Counted', owner')
  <2>1. Total(Add(bytes, Size[owner'[s]]), Counted \cup {s}, owner')
    BY <1>1, <1>2, <1>4, TotalIn DEF Enters
  <2> QED
    BY <1>4, <2>1 DEF Enters
<1>5. ASSUME NEW s \in Seqs, Exits(s) PROVE Total(bytes', Counted', owner')
  <2>1. Total(Sub(bytes, Size[owner[s]]), Counted \ {s}, owner)
    BY <1>1, <1>2, <1>5, TotalOut DEF Exits
  <2> QED
    BY <1>5, <2>1 DEF Exits
<1> QED
  BY <1>3, <1>4, <1>5 DEF Tally

(* Every step keeps bytes exact.                                           *)
LEMMA BytesStep ==
  ASSUME CoreInv, CoreInv', SoloInv, FailedInv, ScanBytes, OpenBytes, [Next]_vars, ~Threaded, CleanFailures
  PROVE  OpenBytes'
<1> SUFFICES ASSUME Up' PROVE OpenBytes'
  BY DEF OpenBytes
<1>1. CASE ~Up
  BY <1>1, OpenedStep DEF ScanBytes, OpenBytes
<1>2. CASE Up
  BY <1>2, TallyStep, TallyBytes
<1> QED
  BY <1>1, <1>2

(* A remainder is what is left of a multiple.                              *)
LEMMA RemainderUnique ==
  ASSUME NEW q \in Int, NEW x \in Int, NEW r \in Usize, x = q * UsizeMod + r
  PROVE  x % UsizeMod = r
<1>1. UsizeMod \in Nat \ {0}
  OBVIOUS
<1> QED
  BY <1>1, SMT

(* Adding in usize arithmetic is adding modulo 2^w.                        *)
LEMMA AddModulo ==
  ASSUME NEW x \in Nat, NEW y \in Usize
  PROVE  Add(x % UsizeMod, y) = (x + y) % UsizeMod
<1> DEFINE q == x \div UsizeMod
           r == x % UsizeMod
<1>1. q \in Nat /\ r \in Usize /\ x = q * UsizeMod + r
  OBVIOUS
<1> HIDE DEF q, r
<1>2. CASE r + y < UsizeMod
  <2>1. x + y = q * UsizeMod + (r + y) /\ r + y \in Usize /\ q \in Int /\ x + y \in Int
    BY <1>1, <1>2
  <2>2. (x + y) % UsizeMod = r + y
    BY <2>1, RemainderUnique
  <2> QED
    BY <1>2, <2>2 DEF Add, r
<1>3. CASE ~(r + y < UsizeMod)
  <2>1. q * UsizeMod + UsizeMod = (q + 1) * UsizeMod
    BY <1>1
  <2>2. q * UsizeMod \in Int /\ (q + 1) * UsizeMod \in Int
    BY <1>1
  <2>3. x + y = (q + 1) * UsizeMod + (r + y - UsizeMod)
    BY <1>1, <2>1, <2>2
  <2>4. r + y - UsizeMod \in Usize /\ q + 1 \in Int /\ x + y \in Int
    BY <1>1, <1>3
  <2>5. (x + y) % UsizeMod = r + y - UsizeMod
    BY <2>3, <2>4, RemainderUnique
  <2> QED
    BY <1>3, <2>5 DEF Add, r
<1> QED
  BY <1>2, <1>3

(* Every sequence of lengths has its partial sums.                         *)
LEMMA PartialSums ==
  ASSUME NEW w \in [Seqs -> Nat]
  PROVE  \E f \in [0 .. MaxSeq -> Nat] : f[0] = 0 /\ \A n \in Seqs : f[n + 1] = f[n] + w[n]
<1> DEFINE Good(m) == \E f \in [0 .. m -> Nat] : f[0] = 0 /\ \A n \in 0 .. (m - 1) : f[n + 1] = f[n] + w[n]
           Bad == {m \in 0 .. MaxSeq : ~Good(m)}
<1>1. Bad = {}
  <2> SUFFICES ASSUME Bad # {} PROVE FALSE
    OBVIOUS
  <2>1. Bad \in SUBSET Nat
    OBVIOUS
  <2>2. PICK m \in Bad : \A n \in Bad : m <= n
    BY <2>1, LeastElement
  <2>3. Good(0)
    <3> DEFINE h == [k \in 0 .. 0 |-> 0]
    <3>1. h \in [0 .. 0 -> Nat] /\ h[0] = 0 /\ 0 .. (0 - 1) = {}
      OBVIOUS
    <3> HIDE DEF h
    <3> QED
      BY <3>1
  <2> HIDE DEF Good
  <2>4. m \in 0 .. MaxSeq /\ m # 0 /\ m - 1 \in 0 .. MaxSeq /\ ~(m <= m - 1)
    BY <2>2, <2>3
  <2>5. Good(m - 1)
    BY <2>2, <2>4
  <2> USE DEF Good
  <2>6. PICK f \in [0 .. (m - 1) -> Nat] : f[0] = 0 /\ \A n \in 0 .. ((m - 1) - 1) : f[n + 1] = f[n] + w[n]
    BY <2>5
  <2> DEFINE g == [n \in 0 .. m |-> IF n = m THEN f[m - 1] + w[m - 1] ELSE f[n]]
  <2>7. f[m - 1] \in Nat /\ w[m - 1] \in Nat
    BY <2>4
  <2>8. g \in [0 .. m -> Nat] /\ g[0] = 0
    BY <2>4, <2>6, <2>7
  <2>9. ASSUME NEW n \in 0 .. (m - 1) PROVE g[n + 1] = g[n] + w[n]
    <3>1. n \in 0 .. m /\ n + 1 \in 0 .. m /\ n # m
      BY <2>4
    <3>2. CASE n = m - 1
      BY <2>4, <3>1, <3>2
    <3>3. CASE n # m - 1
      <4>1. n \in 0 .. ((m - 1) - 1) /\ n + 1 # m
        BY <2>4, <3>3
      <4> QED
        BY <2>6, <3>1, <4>1
    <3> QED
      BY <3>2, <3>3
  <2>10. Good(m)
    <3> HIDE DEF g
    <3> QED
      BY <2>8, <2>9
  <2> HIDE DEF Good
  <2> QED
    BY <2>2, <2>10
<1> HIDE DEF Good
<1>2. Good(MaxSeq)
  BY <1>1
<1> USE DEF Good
<1> QED
  BY <1>2

(* BytesBelow is what its recursive definition says.                       *)
LEMMA BytesBelowSums ==
  ASSUME CoreInv
  PROVE  /\ BytesBelow \in [0 .. MaxSeq -> Nat] /\ BytesBelow[0] = 0
         /\ \A n \in Seqs : BytesBelow[n + 1] = BytesBelow[n] + Weight(Counted, owner, n)
<1> DEFINE w == [n \in Seqs |-> Weight(Counted, owner, n)]
           body(f) == [n \in 0 .. MaxSeq |->
                         IF n = 0 THEN 0
                         ELSE f[n - 1] + (IF n - 1 \in Counted THEN Size[owner[n - 1]] ELSE 0)]
<1>1. w \in [Seqs -> Nat]
  BY CountedOwned DEF Weight
<1>2. PICK f \in [0 .. MaxSeq -> Nat] : f[0] = 0 /\ \A n \in Seqs : f[n + 1] = f[n] + w[n]
  BY <1>1, PartialSums
<1>3. \A n \in 0 .. MaxSeq : n # 0 => f[n] = f[n - 1] + Weight(Counted, owner, n - 1)
  <2> SUFFICES ASSUME NEW n \in 0 .. MaxSeq, n # 0 PROVE f[n] = f[n - 1] + Weight(Counted, owner, n - 1)
    OBVIOUS
  <2>1. n - 1 \in Seqs /\ (n - 1) + 1 = n
    OBVIOUS
  <2>2. f[(n - 1) + 1] = f[n - 1] + w[n - 1]
    BY <1>2, <2>1
  <2> QED
    BY <2>1, <2>2
<1>4. f = body(f)
  BY <1>2, <1>3 DEF Weight
<1>5. BytesBelow = CHOOSE g : g = body(g)
  BY DEF BytesBelow
<1> HIDE DEF body
<1>6. BytesBelow = body(BytesBelow)
  BY <1>4, <1>5, Zenon
<1> USE DEF body
<1>7. /\ BytesBelow[0] = 0 /\ DOMAIN BytesBelow = 0 .. MaxSeq
      /\ BytesBelow = [n \in 0 .. MaxSeq |-> BytesBelow[n]]
  BY <1>6
<1>8. \A n \in Seqs : BytesBelow[n + 1] = BytesBelow[n] + Weight(Counted, owner, n)
  <2> SUFFICES ASSUME NEW n \in Seqs PROVE BytesBelow[n + 1] = BytesBelow[n] + Weight(Counted, owner, n)
    OBVIOUS
  <2>1. n + 1 \in 0 .. MaxSeq /\ n + 1 # 0 /\ (n + 1) - 1 = n
    OBVIOUS
  <2>2. body(BytesBelow)[n + 1] = BytesBelow[(n + 1) - 1] + (IF (n + 1) - 1 \in Counted THEN Size[owner[(n + 1) - 1]] ELSE 0)
    BY <2>1
  <2> HIDE DEF body
  <2> QED
    BY <1>6, <2>1, <2>2 DEF Weight
<1>9. \A n \in 0 .. MaxSeq : BytesBelow[n] = f[n]
  <2> DEFINE Bad == {n \in 0 .. MaxSeq : BytesBelow[n] # f[n]}
  <2> SUFFICES ASSUME Bad # {} PROVE FALSE
    OBVIOUS
  <2>1. Bad \in SUBSET Nat
    OBVIOUS
  <2>2. PICK m \in Bad : \A n \in Bad : m <= n
    BY <2>1, LeastElement
  <2>3. m # 0 /\ m - 1 \in Seqs /\ m - 1 \in 0 .. MaxSeq /\ ~(m <= m - 1) /\ (m - 1) + 1 = m
    BY <2>2, <1>2, <1>7
  <2>4. BytesBelow[m - 1] = f[m - 1]
    BY <2>2, <2>3
  <2>5. BytesBelow[(m - 1) + 1] = BytesBelow[m - 1] + Weight(Counted, owner, m - 1)
    BY <1>8, <2>3
  <2>6. f[m] = f[m - 1] + Weight(Counted, owner, m - 1)
    BY <1>3, <2>2, <2>3
  <2> QED
    BY <2>2, <2>3, <2>4, <2>5, <2>6
<1> QED
  BY <1>7, <1>8, <1>9

(* What bytes has been shown to be is what BytesExact says.                *)
LEMMA TotalExact == CoreInv /\ OpenBytes => BytesExact
<1> SUFFICES ASSUME CoreInv, OpenBytes, Up PROVE bytes = BytesBelow[MaxSeq] % UsizeMod
  BY DEF BytesExact
<1>1. PICK f \in [0 .. MaxSeq -> Usize] : Sums(f, Counted, owner) /\ f[MaxSeq] = bytes
  BY DEF OpenBytes, Total
<1>2. /\ \A n \in 0 .. MaxSeq : BytesBelow[n] \in Nat
      /\ BytesBelow[0] = 0
      /\ \A n \in Seqs : BytesBelow[n + 1] = BytesBelow[n] + Weight(Counted, owner, n)
  BY BytesBelowSums
<1>3. \A n \in Seqs : Weight(Counted, owner, n) \in Usize
  BY CountedOwned DEF Weight
<1> DEFINE Bad == {n \in 0 .. MaxSeq : f[n] # BytesBelow[n] % UsizeMod}
<1>4. Bad = {}
  <2> SUFFICES ASSUME Bad # {} PROVE FALSE
    OBVIOUS
  <2>1. Bad \in SUBSET Nat
    OBVIOUS
  <2>2. PICK m \in Bad : \A n \in Bad : m <= n
    BY <2>1, LeastElement
  <2>3. f[0] = 0 /\ 0 % UsizeMod = 0
    <3>1. 0 = 0 * UsizeMod + 0 /\ 0 \in Usize /\ 0 \in Int
      OBVIOUS
    <3> QED
      BY <1>1, <3>1, RemainderUnique DEF Sums
  <2>4. m # 0 /\ m - 1 \in Seqs /\ m - 1 \in 0 .. MaxSeq /\ ~(m <= m - 1) /\ (m - 1) + 1 = m
    BY <2>2, <2>3, <1>2
  <2>5. f[m - 1] = BytesBelow[m - 1] % UsizeMod
    BY <2>2, <2>4
  <2>6. f[m] = Add(f[m - 1], Weight(Counted, owner, m - 1))
    <3>1. f[(m - 1) + 1] = Add(f[m - 1], Weight(Counted, owner, m - 1))
      BY <1>1, <2>4 DEF Sums
    <3> QED
      BY <2>4, <3>1
  <2>7. BytesBelow[m] = BytesBelow[m - 1] + Weight(Counted, owner, m - 1)
    <3>1. BytesBelow[(m - 1) + 1] = BytesBelow[m - 1] + Weight(Counted, owner, m - 1)
      BY <1>2, <2>4
    <3> QED
      BY <2>4, <3>1
  <2>8. BytesBelow[m - 1] \in Nat /\ Weight(Counted, owner, m - 1) \in Usize
    BY <1>2, <1>3, <2>4
  <2>9. Add(BytesBelow[m - 1] % UsizeMod, Weight(Counted, owner, m - 1))
        = (BytesBelow[m - 1] + Weight(Counted, owner, m - 1)) % UsizeMod
    BY <2>8, AddModulo
  <2>10. f[m] = BytesBelow[m] % UsizeMod
    BY <2>5, <2>6, <2>7, <2>9, Zenon
  <2> QED
    BY <2>2, <2>10
<1>5. MaxSeq \in 0 .. MaxSeq
  OBVIOUS
<1> QED
  BY <1>1, <1>4, <1>5

(* bytes is exact where len is: claims, give-backs, acks and recovery that *)
(* overlap, fail or are cut off by a crash add and take the length of the  *)
(* same item, so the byte bound is never measured against a total that has *)
(* drifted.                                                                *)
THEOREM BytesCount == Spec => [](~Threaded /\ CleanFailures => BytesExact)
<1> DEFINE Open == ~Threaded /\ CleanFailures => OpenBytes
           Inv == CoreInv /\ SoloInv /\ FailedInv /\ ScanBytes
<1>1. Init => Inv /\ Open
  BY CoreInit, SoloInit, FailedInit, BytesInit
<1>2. Inv /\ [Next]_vars => Inv'
  BY CoreKept, SoloStep, FailedStep, ScanBytesStep
<1>3. Inv /\ Open /\ [Next]_vars => Open'
  BY <1>2, BytesStep
<1>4. Inv /\ Open => (~Threaded /\ CleanFailures => BytesExact)
  BY TotalExact
<1> HIDE DEF Inv, Open
<1> QED
  BY <1>1, <1>2, <1>3, <1>4, PTL DEF Spec

-----------------------------------------------------------------------------
(* Wake-ups.                                                               *)

(* Without a byte bound a value fits as soon as there is a free slot.      *)
LEMMA SlotAdmits ==
  ASSUME MaxBytes = UsizeMod - 1, NEW n \in Usize, NEW b \in Usize, NEW v \in Usize
  PROVE  Admits(n, b, v) <=> n < capacity
  BY DEF Admits, SaturatingAdd

(* The wake-ups under way are finitely many.                               *)
LEMMA AlertFinite ==
  ASSUME IsFiniteSet(Producers), IsFiniteSet(Guards)
  PROVE  /\ IsFiniteSet(Alert) /\ Cardinality(Alert) \in Nat
         /\ IsFiniteSet(Alert') /\ Cardinality(Alert') \in Nat
         /\ IsFiniteSet(Telling) /\ Cardinality(Telling) \in Nat
         /\ IsFiniteSet(Telling') /\ Cardinality(Telling') \in Nat
<1>1. Alert \in SUBSET Producers /\ Alert' \in SUBSET Producers
  BY DEF Alert
<1>2. Telling \in SUBSET Guards /\ Telling' \in SUBSET Guards
  BY DEF Telling
<1> QED
  BY <1>1, <1>2, FS_Subset, FS_CardinalityType

(* Nobody sleeps before the first open.                                    *)
LEMMA WakeInit == Init => WakeInv
  BY DEF Init, WakeInv, Waiting

(* The critical section of push: a claim fills the slot it was woken for,  *)
(* and a producer goes to sleep only when there is none.                   *)
LEMMA PushLockedWake ==
  ASSUME TypeInv, IsFiniteSet(Producers), IsFiniteSet(Guards), MaxBytes = UsizeMod - 1, WakeInv,
         NEW p \in Producers, NEW i \in Items, ppc[p] \in {"idle", "woken"},
         PushLocked(p, i), UNCHANGED <<storeVars, consVars, guardVars, restarts>>
  PROVE  WakeInv'
<1>1. InnerOK /\ ThreadsOK
  BY DEF TypeInv, TypeOK
<1> SUFFICES ASSUME ~closed', Waiting(ppc)' # {}
             PROVE  len' + Cardinality(Alert') + Cardinality(Telling') >= capacity'
  BY DEF WakeInv
<1>2. Size[i] \in Usize
  OBVIOUS
<1>3. UNCHANGED capacity /\ capacity \in Nat /\ len \in Nat /\ len' \in Nat /\ Telling' = Telling
  <2>1. len' \in Nat
    BY <1>1, UsizeArithmetic DEF PushLocked, Claim, innerVars, InnerOK
  <2> QED
    BY <1>1, <2>1 DEF PushLocked, Claim, innerVars, guardVars, Telling, InnerOK
<1>4. CASE Claim(p, i) /\ ~closed /\ Admits(len, bytes, Size[i])
  <2>1. len < capacity
    BY <1>1, <1>2, <1>4, SlotAdmits DEF InnerOK
  <2>2. len' = len + 1
    BY <1>1, <1>4, <2>1 DEF Claim, Add, InnerOK
  <2>3. Alert' = Alert \ {p} /\ Waiting(ppc)' \subseteq Waiting(ppc)
    BY <1>1, <1>4 DEF Claim, Alert, ThreadsOK, Waiting
  <2>4. Cardinality(Alert') >= Cardinality(Alert) - 1
    BY <2>3, AlertFinite, FS_RemoveElement
  <2>5. len + Cardinality(Alert) + Cardinality(Telling) >= capacity
    BY <1>4, <2>3 DEF WakeInv
  <2> QED
    BY <1>3, <2>2, <2>4, <2>5, AlertFinite
<1>5. CASE UNCHANGED innerVars /\ ~closed /\ ~Admits(len, bytes, Size[i])
  <2>1. ~(len < capacity)
    BY <1>1, <1>2, <1>5, SlotAdmits DEF InnerOK
  <2> QED
    BY <1>3, <1>5, <2>1, AlertFinite DEF innerVars
<1> QED
  BY <1>4, <1>5 DEF PushLocked, innerVars

(* Every step that frees a slot leaves a wake-up for it, and every wake-up *)
(* spent wakes a sleeper or fills a slot.                                  *)
LEMMA WakeStep ==
  ASSUME TypeInv, TypeInv', SafeInv, ItemInv, IsFiniteSet(Producers), IsFiniteSet(Guards), WakeInv, [Next]_vars
  PROVE  WakeInv'
<1> SUFFICES ASSUME MaxBytes = UsizeMod - 1 PROVE WakeInv'
  BY DEF WakeInv
<1>1. InnerOK /\ ThreadsOK /\ InnerOK' /\ ThreadsOK'
  BY DEF TypeInv, TypeOK
<1>n. /\ len \in Nat /\ len' \in Nat /\ capacity \in Nat
      /\ Cardinality(Alert) \in Nat /\ Cardinality(Alert') \in Nat
      /\ Cardinality(Telling) \in Nat /\ Cardinality(Telling') \in Nat
  BY <1>1, AlertFinite DEF InnerOK
<1>k. ASSUME UNCHANGED <<closed, capacity>>, Waiting(ppc)' # {} => Waiting(ppc) # {},
             Waiting(ppc)' # {} => len' + Cardinality(Alert') + Cardinality(Telling') >= len + Cardinality(Alert) + Cardinality(Telling)
      PROVE  WakeInv'
  BY <1>k, <1>n DEF WakeInv
<1>e. ASSUME \A p \in Producers : ppc'[p] # "waiting" PROVE WakeInv'
  BY <1>e DEF WakeInv, Waiting
<1>t. ASSUME UNCHANGED <<closed, capacity, len, ppc, gpc>> PROVE WakeInv'
  BY <1>t DEF WakeInv, Waiting, Alert, Telling
<1>u. ASSUME UNCHANGED <<closed, capacity, len, ppc>>, Telling' = Telling PROVE WakeInv'
  BY <1>u DEF WakeInv, Waiting, Alert
<1> USE <1>1 DEF ThreadsOK, storeVars, innerVars, prodVars, consVars, guardVars, histVars
<1>2. CASE UNCHANGED vars
  BY <1>2, <1>t DEF vars
<1>3. CASE OpenStart
  <2>1. \A p \in Producers : ppc'[p] = "idle"
    BY <1>3 DEF OpenStart, SafeInv, DownInv, Up
  <2> QED
    BY <1>e, <2>1
<1>4. CASE OpenErr
  BY <1>4, <1>t DEF OpenErr
<1>5. CASE RecoverEntry
  <2>1. \A p \in Producers : ppc'[p] = "idle"
    BY <1>5 DEF RecoverEntry, SafeInv, DownInv, Up
  <2> QED
    BY <1>e, <2>1
<1>6. CASE RecoverDone
  BY <1>6, <1>t DEF RecoverDone
<1>7. CASE RecoverErr
  BY <1>7, <1>t DEF RecoverErr
<1>8. CASE Crash
  BY <1>8, <1>e DEF Crash
<1>9. CASE ReserveStart
  BY <1>9, <1>t DEF ReserveStart
<1>10. CASE ReserveSeek
  BY <1>10, <1>t DEF ReserveSeek
<1>11. CASE ReserveNone
  BY <1>11, <1>t DEF ReserveNone
<1>12. CASE ReserveSkip
  BY <1>12, <1>t DEF ReserveSkip
<1>13. CASE ReserveTake
  <2>1. Telling' = Telling
    BY <1>13 DEF ReserveTake, HandOut, Telling
  <2> QED
    BY <1>13, <1>u, <2>1 DEF ReserveTake, HandOut
<1>14. ASSUME NEW p \in Producers, Push(p) PROVE WakeInv'
  BY <1>14, PushForms, PushLockedWake
<1>15. ASSUME NEW p \in Producers, PushRetry(p) PROVE WakeInv'
  BY <1>15, PushForms, PushLockedWake
<1>16. ASSUME NEW p \in Producers, TryPush(p) PROVE WakeInv'
  BY <1>16, PushForms, PushLockedWake
<1>17. ASSUME NEW p \in Producers, SpuriousWake(p) PROVE WakeInv'
  <2>1. Alert' = Alert \cup {p} /\ Telling' = Telling /\ Waiting(ppc)' \subseteq Waiting(ppc)
    BY <1>17 DEF SpuriousWake, Alert, Telling, Waiting
  <2>2. Cardinality(Alert') >= Cardinality(Alert)
    <3>1. IsFiniteSet(Alert)
      BY AlertFinite
    <3>2. Cardinality(Alert \cup {p}) = IF p \in Alert THEN Cardinality(Alert) ELSE Cardinality(Alert) + 1
      BY <3>1, FS_AddElement
    <3> QED
      BY <1>n, <2>1, <3>2
  <2>3. UNCHANGED <<closed, capacity, len>> /\ (Waiting(ppc)' # {} => Waiting(ppc) # {})
    BY <1>17, <2>1 DEF SpuriousWake
  <2>4. len' + Cardinality(Alert') + Cardinality(Telling') >= len + Cardinality(Alert) + Cardinality(Telling)
    BY <1>n, <2>1, <2>2, <2>3
  <2> QED
    BY <1>k, <2>3, <2>4
<1>18. ASSUME NEW p \in Producers, Close(p) PROVE WakeInv'
  BY <1>18 DEF Close, WakeInv
<1>19. ASSUME NEW p \in Producers, WriteApply(p) PROVE WakeInv'
  <2>1. Alert' = Alert /\ Telling' = Telling /\ Waiting(ppc)' = Waiting(ppc)
    BY <1>19 DEF WriteApply, Alert, Telling, Waiting
  <2> QED
    BY <1>19, <2>1 DEF WriteApply, WakeInv
<1>20. ASSUME NEW p \in Producers, WriteOk(p) PROVE WakeInv'
  <2>1. Alert' = Alert /\ Telling' = Telling /\ Waiting(ppc)' = Waiting(ppc)
    BY <1>20 DEF WriteOk, Alert, Telling, Waiting
  <2> QED
    BY <1>20, <2>1 DEF WriteOk, WakeInv
<1>21. ASSUME NEW p \in Producers, WriteErr(p) PROVE WakeInv'
  <2>1. Alert' = Alert /\ Telling' = Telling /\ Waiting(ppc)' = Waiting(ppc)
    BY <1>21 DEF WriteErr, Alert, Telling, Waiting
  <2> QED
    BY <1>21, <2>1 DEF WriteErr, WakeInv
<1>22. ASSUME NEW p \in Producers, GiveBack(p) PROVE WakeInv'
  <2>1. /\ Alert' = Alert \cup {p} /\ p \notin Alert /\ Telling' = Telling /\ Waiting(ppc)' = Waiting(ppc)
        /\ len' = Sub(len, 1) /\ UNCHANGED <<closed, capacity>>
    BY <1>22 DEF GiveBack, Alert, Telling, Waiting
  <2>2. Cardinality(Alert') = Cardinality(Alert) + 1
    BY <2>1, AlertFinite, FS_AddElement
  <2>3. CASE len = 0
    BY <1>n, <2>1, <2>3 DEF Sub, WakeInv, InnerOK
  <2>4. CASE len # 0
    <3>1. len' + Cardinality(Alert') + Cardinality(Telling') >= len + Cardinality(Alert) + Cardinality(Telling)
      BY <1>n, <2>1, <2>2, <2>4 DEF Sub
    <3> QED
      BY <1>k, <2>1, <3>1
  <2> QED
    BY <2>3, <2>4
<1>23. ASSUME NEW p \in Producers, WriteNotify(p) PROVE WakeInv'
  <2> DEFINE pc == [ppc EXCEPT ![p] = "idle"]
  <2>1. ppc' \in NotifyOne(pc) /\ pc \in [Producers -> ProducerPC] /\ ppc[p] = "notify"
    BY <1>23 DEF WriteNotify, ProducerPC
  <2>2. Waiting(pc) = Waiting(ppc)
    BY <2>1 DEF Waiting
  <2>3. UNCHANGED <<closed, capacity, len>> /\ Telling' = Telling
    BY <1>23 DEF WriteNotify, Telling
  <2>4. CASE Waiting(ppc) = {}
    <3>1. ppc' = pc
      BY <2>1, <2>2, <2>4 DEF NotifyOne
    <3> QED
      BY <2>2, <2>4, <3>1, <1>e DEF Waiting
  <2>5. CASE Waiting(ppc) # {}
    <3>0. Waiting(pc) # {} /\ ppc' \in NotifyOne(pc)
      BY <2>1, <2>2, <2>5
    <3>a. PICK q \in Waiting(pc) : ppc' = [pc EXCEPT ![q] = "woken"]
      <4> HIDE DEF pc
      <4> QED
        BY <3>0 DEF NotifyOne
    <3>1. q \in Waiting(ppc) /\ ppc' = [pc EXCEPT ![q] = "woken"]
      BY <2>2, <3>a
    <3>2. q \in Producers /\ q # p /\ ppc[q] = "waiting"
      BY <2>1 DEF Waiting
    <3>3. Alert' = (Alert \ {p}) \cup {q} /\ p \in Alert /\ q \notin Alert \ {p}
      BY <2>1, <3>1, <3>2 DEF Alert
    <3>4. IsFiniteSet(Alert \ {p}) /\ Cardinality(Alert \ {p}) = Cardinality(Alert) - 1
      BY <3>3, AlertFinite, FS_RemoveElement
    <3>5. Cardinality(Alert') = Cardinality(Alert)
      <4>1. Cardinality((Alert \ {p}) \cup {q}) = Cardinality(Alert \ {p}) + 1
        BY <3>3, <3>4, FS_AddElement
      <4> QED
        BY <1>n, <3>3, <3>4, <4>1
    <3> QED
      BY <2>3, <2>5, <3>5 DEF WakeInv
  <2> QED
    BY <2>4, <2>5
<1>24. ASSUME NEW p \in Producers, CloseNotify(p) PROVE WakeInv'
  BY <1>24, <1>e DEF CloseNotify
<1>25. ASSUME NEW g \in Guards, Nack(g) PROVE WakeInv'
  <2>1. Telling' = Telling
    BY <1>25 DEF Nack, Release, CanCall, Telling
  <2> QED
    BY <1>25, <1>u, <2>1 DEF Nack
<1>26. ASSUME NEW g \in Guards, AckApply(g) PROVE WakeInv'
  <2>1. Telling' = Telling
    BY <1>26 DEF AckApply, CanCall, Telling
  <2> QED
    BY <1>26, <1>u, <2>1 DEF AckApply
<1>27. ASSUME NEW g \in Guards, AckOk(g) PROVE WakeInv'
  <2>1. Telling' = Telling
    BY <1>27 DEF AckOk, Telling
  <2> QED
    BY <1>27, <1>u, <2>1 DEF AckOk
<1>28. ASSUME NEW g \in Guards, AckErr(g) PROVE WakeInv'
  <2>1. Telling' = Telling
    BY <1>28 DEF AckErr, Release, CanCall, Telling
  <2> QED
    BY <1>28, <1>u, <2>1 DEF AckErr
<1>29. ASSUME NEW g \in Guards, AckSettle(g) PROVE WakeInv'
  <2>1. /\ Telling' = Telling \cup {g} /\ g \notin Telling /\ Alert' = Alert /\ Waiting(ppc)' = Waiting(ppc)
        /\ len' = Sub(len, 1) /\ UNCHANGED <<closed, capacity>>
    BY <1>29 DEF AckSettle, Alert, Telling, Waiting
  <2>2. Cardinality(Telling') = Cardinality(Telling) + 1
    BY <2>1, AlertFinite, FS_AddElement
  <2>3. CASE len = 0
    BY <1>n, <2>1, <2>3 DEF Sub, WakeInv, InnerOK
  <2>4. CASE len # 0
    <3>1. len' + Cardinality(Alert') + Cardinality(Telling') >= len + Cardinality(Alert) + Cardinality(Telling)
      BY <1>n, <2>1, <2>2, <2>4 DEF Sub
    <3> QED
      BY <1>k, <2>1, <3>1
  <2> QED
    BY <2>3, <2>4
<1>30. ASSUME NEW g \in Guards, AckNotify(g) PROVE WakeInv'
  <2>1. ppc' \in NotifyOne(ppc) /\ gpc[g] = "notify" /\ UNCHANGED <<closed, capacity, len>>
    BY <1>30 DEF AckNotify
  <2>2. Telling' = Telling \ {g} /\ g \in Telling
    BY <1>30 DEF AckNotify, Telling
  <2>3. Cardinality(Telling') = Cardinality(Telling) - 1
    BY <2>2, AlertFinite, FS_RemoveElement
  <2>4. CASE Waiting(ppc) = {}
    <3>1. ppc' = ppc
      BY <2>1, <2>4 DEF NotifyOne
    <3> QED
      BY <2>4, <3>1, <1>e DEF Waiting
  <2>5. CASE Waiting(ppc) # {}
    <3>1. PICK q \in Waiting(ppc) : ppc' = [ppc EXCEPT ![q] = "woken"]
      BY <2>1, <2>5 DEF NotifyOne
    <3>2. Alert' = Alert \cup {q} /\ q \notin Alert
      BY <3>1 DEF Alert, Waiting
    <3>3. Cardinality(Alert') = Cardinality(Alert) + 1
      BY <3>2, AlertFinite, FS_AddElement
    <3>4. len' + Cardinality(Alert') + Cardinality(Telling') >= len + Cardinality(Alert) + Cardinality(Telling)
      BY <1>n, <2>1, <2>3, <3>3
    <3> QED
      BY <1>k, <2>1, <2>5, <3>4
  <2> QED
    BY <2>4, <2>5
<1> QED
  BY <1>2, <1>3, <1>4, <1>5, <1>6, <1>7, <1>8, <1>9, <1>10, <1>11, <1>12, <1>13, <1>14, <1>15, <1>16, <1>17, <1>18, <1>19, <1>20, <1>21, <1>22, <1>23, <1>24, <1>25, <1>26, <1>27, <1>28, <1>29, <1>30
     DEF Next, ProducerStep, GuardStep

(* A wake-up for each free slot is a wake-up for a sleeper that fits; a     *)
(* sleeper on a closed queue has that of close.                            *)
LEMMA WakesSuffice ==
  ASSUME IsFiniteSet(Producers), IsFiniteSet(Guards), MaxBytes = UsizeMod - 1,
         TypeInv, WakeInv, NoStall
  PROVE  NoLostWakeup
<1> SUFFICES ASSUME NEW p \in Waiting(ppc), Admits(len, bytes, Size[pitem[p]])
             PROVE  WakePending
  BY DEF NoLostWakeup
<1>1. CASE closed
  BY <1>1 DEF NoStall, WakePending
<1>2. CASE ~closed
  <2>1. len < capacity /\ len \in Nat /\ capacity \in Nat
    BY DEF Admits, TypeInv, TypeOK, InnerOK
  <2>2. Cardinality(Alert) + Cardinality(Telling) # 0
    BY <1>2, <2>1, AlertFinite DEF WakeInv
  <2>3. Alert # {} \/ Telling # {}
    <3>1. Alert = {} => Cardinality(Alert) = 0
      BY FS_EmptySet
    <3>2. Telling = {} => Cardinality(Telling) = 0
      BY FS_EmptySet
    <3> QED
      BY <2>2, <3>1, <3>2
  <2> QED
    BY <2>3 DEF Alert, Telling, WakePending
<1> QED
  BY <1>1, <1>2

(* Without a byte bound no producer sleeps beside a free slot that nobody  *)
(* is about to tell it of: whatever the backend, the policy, the number of *)
(* producers and of threads that ack, each free slot has its own wake-up.  *)
(* (With a byte bound one notification may free room for two values.)      *)
THEOREM NoWakeupIsLost ==
  ASSUME IsFiniteSet(Producers), IsFiniteSet(Guards)
  PROVE  Spec => [](MaxBytes = UsizeMod - 1 => NoLostWakeup)
<1> DEFINE Inv == CoreInv /\ WakeInv
<1>1. Init => Inv
  BY CoreInit, WakeInit
<1>2. Inv /\ [Next]_vars => Inv'
  <2> SUFFICES ASSUME CoreInv, WakeInv, [Next]_vars PROVE CoreInv' /\ WakeInv'
    OBVIOUS
  <2>1. CoreInv'
    BY CoreKept
  <2> QED
    BY <2>1, WakeStep DEF CoreInv, IdentityInv
<1>3. Inv /\ NoStall => (MaxBytes = UsizeMod - 1 => NoLostWakeup)
  BY WakesSuffice DEF CoreInv
<1> HIDE DEF Inv
<1>4. Spec => []Inv
  BY <1>1, <1>2, PTL DEF Spec
<1>5. Spec => []NoStall
  BY NobodyStalls
<1> QED
  BY <1>3, <1>4, <1>5, PTL

=============================================================================
