---------------------------- MODULE AsyncProofs ----------------------------
(***************************************************************************)
(* Proofs about the async facade: every step its tasks take on a blocking  *)
(* thread is one the core can take, and what reserve reports as the end of *)
(* a closed queue is the end.                                              *)
(***************************************************************************)
EXTENDS AsyncQueue, CountProofs, SequenceTheorems

USE StoreAssumption, QueueAssumption DEF StoreAssumption, QueueAssumption, Seqs, Values, Versions, Usize

-----------------------------------------------------------------------------
(* A release on any thread, at any time.                                   *)

(* What nack and drop do to the core: they need no turn on the consumer's  *)
(* thread.                                                                 *)
Releases(g) ==
  /\ gpc[g] = "held"
  /\ Release(g)
  /\ UNCHANGED <<storeVars, tail, head, acked_above, len, bytes, closed, capacity, prodVars,
                 consVars, restarts, histVars>>

(* All layers survive it, also in the middle of a scan.                    *)
LEMMA ReleaseKeeps ==
  ASSUME CoreInv, NEW g \in Guards, Releases(g)
  PROVE  /\ CoreInv' /\ (SoloInv => SoloInv') /\ (FailedInv => FailedInv')
         /\ (ScanExact => ScanExact') /\ (ScanBytes => ScanBytes')
<1>1. TypeInv /\ SafeInv /\ ValueInv /\ ReservedExact /\ ItemInv /\ DiskInv /\ HistoryInv
  BY DEF CoreInv, IdentityInv
<1>2. StoreTypeOK /\ InnerOK /\ closed \in BOOLEAN /\ ThreadsOK /\ HistoryOK /\ InCall
  BY <1>1 DEF TypeInv, TypeOK
<1>3. /\ gpc[g] = "held" /\ gpc' = [gpc EXCEPT ![g] = "free"] /\ gseq' = [gseq EXCEPT ![g] = 0]
      /\ gitem' = [gitem EXCEPT ![g] = NoItem] /\ reserved' = reserved \ {gseq[g]}
  BY DEF Releases, Release
<1>4. /\ UNCHANGED <<live, disk, meta, meta_disk, tail, head, acked_above, len, bytes, closed, capacity>>
      /\ UNCHANGED <<ppc, pitem, pseq, cpc, cursor, found, fitem, restarts>>
      /\ UNCHANGED <<pushed, owner, accepted, delivered, deleted, acked>>
  BY DEF Releases, storeVars, prodVars, consVars, histVars
<1>5. /\ gpc'[g] = "free" /\ gpc' \in [Guards -> GuardPC]
      /\ \A h \in Guards \ {g} : gpc'[h] = gpc[h] /\ gseq'[h] = gseq[h] /\ gitem'[h] = gitem[h]
  BY <1>2, <1>3 DEF ThreadsOK, GuardPC
<1>6. TypeInv'
  <2>1. StoreTypeOK' /\ HistoryOK' /\ closed' \in BOOLEAN
    BY <1>2, <1>4 DEF StoreTypeOK, HistoryOK
  <2>2. InnerOK'
    BY <1>2, <1>3, <1>4 DEF InnerOK
  <2>3. ThreadsOK'
    BY <1>2, <1>3, <1>4, <1>5 DEF ThreadsOK
  <2>4. InCall'
    BY <1>2, <1>4, <1>5 DEF InCall
  <2> QED
    BY <2>1, <2>2, <2>3, <2>4 DEF TypeInv, TypeOK
<1>7. SafeInv'
  <2>1. (\A s : Committed(s)' <=> Committed(s)) /\ \A s : Dead(s)' <=> Dead(s)
    BY <1>4 DEF Committed, Dead
  <2>2. DownInv' /\ RecoverInv'
    BY <1>1, <1>4, <1>5 DEF SafeInv, DownInv, RecoverInv, Up, Stored
  <2>3. LogInv'
    BY <1>1, <1>4, <1>5, <2>1 DEF SafeInv, LogInv, Up, Stored
  <2> QED
    BY <2>2, <2>3 DEF SafeInv
<1>8. ValueInv'
  BY <1>1, <1>4, <1>5 DEF ValueInv
<1>9. ReservedExact'
  <2>1. g \in OnLoan /\ OnLoan' = OnLoan \ {g}
    BY <1>3, <1>5 DEF OnLoan
  <2>2. \A h \in OnLoan' : h \in OnLoan /\ h # g /\ gseq'[h] = gseq[h] /\ gseq[h] # gseq[g]
    BY <1>1, <1>5, <2>1 DEF ReservedExact, OnLoan
  <2>3. reserved = {gseq[h] : h \in OnLoan} /\ \A x, y \in OnLoan : gseq[x] = gseq[y] => x = y
    BY <1>1 DEF ReservedExact
  <2>4. reserved' = {gseq'[h] : h \in OnLoan'}
    BY <1>3, <2>1, <2>2, <2>3
  <2> QED
    BY <2>2, <2>3, <2>4 DEF ReservedExact
<1>10. ItemInv'
  BY <1>1, <1>4, <1>5 DEF ItemInv
<1>11. DiskInv'
  BY <1>1, <1>4 DEF DiskInv, Up
<1>12. HistoryInv'
  BY <1>1, <1>4, <1>5 DEF HistoryInv
<1>13. SoloInv => SoloInv'
  BY <1>4, <1>5 DEF SoloInv, GuardsAtRest
<1>14. FailedInv => FailedInv'
  BY <1>4, <1>5 DEF FailedInv
<1>15. (ScanExact => ScanExact') /\ (ScanBytes => ScanBytes')
  BY <1>4 DEF ScanExact, ScanBytes, Passed, Stored
<1> QED
  BY <1>6, <1>7, <1>8, <1>9, <1>10, <1>11, <1>12, <1>13, <1>14, <1>15 DEF CoreInv, IdentityInv

(* A release does not change what len and bytes must count.                *)
LEMMA ReleaseCounts ==
  ASSUME TypeInv, TypeInv', SafeInv, NEW g \in Guards, Releases(g)
  PROVE  Up /\ Tally
<1>1. ThreadsOK
  BY DEF TypeInv, TypeOK
<1>2. /\ gpc[g] = "held" /\ UNCHANGED <<len, bytes, owner, live, ppc, pseq, cpc>> /\ gpc'[g] = "free"
      /\ \A h \in Guards \ {g} : gpc'[h] = gpc[h] /\ gseq'[h] = gseq[h]
  BY <1>1 DEF Releases, Release, storeVars, prodVars, consVars, histVars, ThreadsOK
<1>3. Up
  BY <1>2 DEF SafeInv, DownInv
<1>4. \A s \in Seqs : CountedAt(s)' <=> CountedAt(s)
  BY <1>2 DEF CountedAt
<1> QED
  BY <1>2, <1>3, <1>4, SameCount

-----------------------------------------------------------------------------
(* The tasks and the core.                                                 *)

(* A step of a task is a step of the core, none, or a release.             *)
LEMMA AsyncCases ==
  ASSUME TaskInv, [AsyncNext]_aqVars
  PROVE  [Next]_vars \/ \E g \in Guards : Releases(g)
<1>1. CASE UNCHANGED aqVars
  BY <1>1 DEF aqVars
<1>2. CASE OpenAsync
  BY <1>2 DEF OpenAsync, Next
<1>3. ASSUME NEW p \in Producers, AsyncPush(p) \/ PushReturn(p) \/ AwaitRoom(p) \/ AbandonPush(p) PROVE UNCHANGED vars
  BY <1>3 DEF AsyncPush, PushReturn, AwaitRoom, AbandonPush
<1>4. ASSUME NEW p \in Producers, AsyncTryPush(p) PROVE Next
  BY <1>4 DEF AsyncTryPush, Next
<1>5. ASSUME NEW p \in Producers, Attempt(p) PROVE TryPush(p) \/ UNCHANGED vars
  <2>1. Up /\ ppc[p] = "idle" /\ aitem[p] \in Fresh(p)
    BY <1>5 DEF TaskInv, Attempt
  <2> QED
    BY <1>5, <2>1 DEF Attempt, TryPush
<1>6. ASSUME NEW p \in Producers, AsyncWrite(p) PROVE Next
  BY <1>6 DEF AsyncWrite, Next, ProducerStep
<1>7. ASSUME NEW p \in Producers, AsyncClose(p) PROVE [Next]_vars
  BY <1>7 DEF AsyncClose, Next, ProducerStep
<1>8. CASE AsyncReserve \/ ReserveReturn \/ CheckDrained \/ AwaitItems \/ AbandonReserve \/ SignalRoom \/ SignalItems
  BY <1>8 DEF AsyncReserve, ReserveReturn, CheckDrained, AwaitItems, AbandonReserve, SignalRoom, SignalItems
<1>9. CASE AsyncScan
  BY <1>9 DEF AsyncScan, Next
<1>10. ASSUME NEW g \in Guards, AsyncAck(g) PROVE Next
  BY <1>10 DEF AsyncAck, Next, GuardStep
<1>11. ASSUME NEW g \in Guards, AsyncNack(g) PROVE Releases(g)
  BY <1>11 DEF AsyncNack, Releases
<1>12. ASSUME NEW p \in Producers, Attempt(p) PROVE [Next]_vars
  BY <1>5, <1>12 DEF Next
<1> QED
  BY <1>1, <1>2, <1>3, <1>4, <1>6, <1>7, <1>8, <1>9, <1>10, <1>11, <1>12 DEF AsyncNext, PushTask, ReserveTask

(* A queue that is open stays open: the facade has no step that closes the *)
(* store, and a crash ends its tasks too.                                  *)
LEMMA UpStays ==
  ASSUME Up, [AsyncNext]_aqVars
  PROVE  Up'
<1> USE DEF storeVars, innerVars, prodVars, consVars, guardVars, histVars, Up
<1>1. CASE UNCHANGED aqVars
  BY <1>1 DEF aqVars, vars
<1>2. CASE OpenAsync
  BY <1>2 DEF OpenAsync, OpenStart, OpenErr, RecoverEntry, RecoverDone, RecoverErr
<1>3. ASSUME NEW p \in Producers, AsyncPush(p) \/ PushReturn(p) \/ AwaitRoom(p) \/ AbandonPush(p) PROVE Up'
  BY <1>3 DEF AsyncPush, PushReturn, AwaitRoom, AbandonPush, vars
<1>4. ASSUME NEW p \in Producers, AsyncTryPush(p) \/ Attempt(p) PROVE Up'
  BY <1>4 DEF AsyncTryPush, TryPush, Attempt, vars
<1>5. ASSUME NEW p \in Producers, AsyncWrite(p) PROVE Up'
  BY <1>5 DEF AsyncWrite, WriteApply, WriteErr, WriteOk, GiveBack, WriteNotify
<1>6. ASSUME NEW p \in Producers, AsyncClose(p) PROVE Up'
  BY <1>6 DEF AsyncClose, Close, CloseNotify, vars
<1>7. CASE AsyncReserve \/ ReserveReturn \/ CheckDrained \/ AwaitItems \/ AbandonReserve \/ SignalRoom \/ SignalItems
  BY <1>7 DEF AsyncReserve, ReserveReturn, CheckDrained, AwaitItems, AbandonReserve, SignalRoom, SignalItems, vars
<1>8. CASE AsyncScan
  BY <1>8 DEF AsyncScan, ReserveStart, ReserveSeek, ReserveSkip, ReserveTake, ReserveNone, HandOut
<1>9. ASSUME NEW g \in Guards, AsyncAck(g) PROVE Up'
  BY <1>9 DEF AsyncAck, AckApply, AckOk, AckSettle, AckNotify, AckErr
<1>10. ASSUME NEW g \in Guards, AsyncNack(g) PROVE Up'
  BY <1>10 DEF AsyncNack
<1> QED
  BY <1>1, <1>2, <1>3, <1>4, <1>5, <1>6, <1>7, <1>8, <1>9, <1>10 DEF AsyncNext, PushTask, ReserveTask

(* An open queue with len 0 has nothing that len must count.               *)
LEMMA NothingCounted ==
  ASSUME TypeInv, LenExact, Up, len = 0
  PROVE  \A s \in Seqs : ~CountedAt(s)
<1>1. Counted = {s \in Seqs : CountedAt(s)}
  BY CountedIff
<1>2. Counted \in SUBSET Seqs
  BY <1>1
<1>3. IsFiniteSet(Counted)
  BY <1>2, SeqSetFinite
<1>4. Cardinality(Counted) = 0
  BY DEF LenExact
<1>5. Counted = {}
  BY <1>3, <1>4, FS_EmptySet
<1> QED
  BY <1>1, <1>5

(* A drained queue stays drained: nobody may claim, and nothing that would *)
(* lower len is under way.                                                 *)
LEMMA DrainedStays ==
  ASSUME TypeInv, LenExact, Up, closed, len = 0, [AsyncNext]_aqVars
  PROVE  closed' /\ len' = 0
<1> USE DEF storeVars, innerVars, prodVars, consVars, guardVars, histVars
<1>1. InCall /\ \A s \in Seqs : ~CountedAt(s)
  BY NothingCounted DEF TypeInv
<1>2. /\ \A p \in Producers : ppc[p] # "giveback"
      /\ \A g \in Guards : gpc[g] # "settle"
  BY <1>1 DEF CountedAt, InCall
<1>3. CASE UNCHANGED aqVars
  BY <1>3 DEF aqVars, vars
<1>4. CASE OpenAsync
  BY <1>4 DEF OpenAsync, OpenStart, OpenErr, RecoverEntry, RecoverDone, RecoverErr, Up
<1>5. ASSUME NEW p \in Producers, AsyncPush(p) \/ PushReturn(p) \/ AwaitRoom(p) \/ AbandonPush(p) PROVE closed' /\ len' = 0
  BY <1>5 DEF AsyncPush, PushReturn, AwaitRoom, AbandonPush, vars
<1>6. ASSUME NEW p \in Producers, AsyncTryPush(p) \/ Attempt(p) PROVE closed' /\ len' = 0
  BY <1>6 DEF AsyncTryPush, TryPush, Attempt, vars
<1>7. ASSUME NEW p \in Producers, AsyncWrite(p) PROVE closed' /\ len' = 0
  BY <1>2, <1>7 DEF AsyncWrite, WriteApply, WriteErr, WriteOk, GiveBack, WriteNotify
<1>8. ASSUME NEW p \in Producers, AsyncClose(p) PROVE closed' /\ len' = 0
  BY <1>8 DEF AsyncClose, Close, CloseNotify, vars
<1>9. CASE AsyncReserve \/ ReserveReturn \/ CheckDrained \/ AwaitItems \/ AbandonReserve \/ SignalRoom \/ SignalItems
  BY <1>9 DEF AsyncReserve, ReserveReturn, CheckDrained, AwaitItems, AbandonReserve, SignalRoom, SignalItems, vars
<1>10. CASE AsyncScan
  BY <1>10 DEF AsyncScan, ReserveStart, ReserveSeek, ReserveSkip, ReserveTake, ReserveNone, HandOut
<1>11. ASSUME NEW g \in Guards, AsyncAck(g) PROVE closed' /\ len' = 0
  BY <1>2, <1>11 DEF AsyncAck, AckApply, AckOk, AckSettle, AckNotify, AckErr
<1>12. ASSUME NEW g \in Guards, AsyncNack(g) PROVE closed' /\ len' = 0
  BY <1>12 DEF AsyncNack
<1> QED
  BY <1>3, <1>4, <1>5, <1>6, <1>7, <1>8, <1>9, <1>10, <1>11, <1>12 DEF AsyncNext, PushTask, ReserveTask

(* A step of p's task or thread moves p's task as it moves p's thread, and *)
(* leaves what the others are about to push.                               *)
Moves(p) ==
  /\ apc' \in [Producers -> TaskPC] /\ aitem' \in [Producers -> Values]
  /\ \A q \in Producers \ {p} :
       /\ apc'[q] = apc[q] /\ aitem'[q] = aitem[q]
       /\ ppc[q] = "idle" => ppc'[q] = "idle"
       /\ \A i \in Fresh(q) : i \notin pushed'
  /\ apc'[p] \notin {"write", "close"} => ppc'[p] = "idle"
  /\ apc'[p] \in {"try", "full"} => Up /\ aitem'[p] \in Fresh(p)'

(* Every step of a task is such a move.                                    *)
LEMMA TaskMoves ==
  ASSUME TypeInv, TaskInv, NEW p \in Producers,
         AsyncPush(p) \/ AsyncTryPush(p) \/ PushTask(p) \/ AbandonPush(p) \/ AsyncClose(p)
  PROVE  Moves(p)
<1>1. ThreadsOK /\ HistoryOK /\ InCall
  BY DEF TypeInv, TypeOK
<1>2. /\ apc \in [Producers -> TaskPC] /\ aitem \in [Producers -> Values]
      /\ \A q \in Producers :
           /\ apc[q] \notin {"write", "close"} => ppc[q] = "idle"
           /\ apc[q] \in {"try", "full"} => Up /\ aitem[q] \in Fresh(q)
  BY DEF TaskInv
<1>3. \A q : Fresh(q) \subseteq Items /\ \A i \in Fresh(q) : Author[i] = q /\ i \notin pushed
  BY DEF Fresh
<1> USE DEF storeVars, innerVars, prodVars, consVars, guardVars, histVars
<1>4. ASSUME UNCHANGED vars, NEW a \in TaskPC, apc' = [apc EXCEPT ![p] = a], NEW v \in Values,
             aitem' = [aitem EXCEPT ![p] = v],
             a \notin {"write", "close"} => ppc[p] = "idle",
             a \in {"try", "full"} => Up /\ v \in Fresh(p)
      PROVE  Moves(p)
  <2>1. ppc' = ppc /\ pushed' = pushed /\ Fresh(p)' = Fresh(p)
    BY <1>4 DEF vars, Fresh
  <2> QED
    BY <1>2, <1>3, <1>4, <2>1 DEF Moves
<1>5. CASE AsyncPush(p)
  <2>1. PICK i \in Fresh(p) : aitem' = [aitem EXCEPT ![p] = i]
    BY <1>5 DEF AsyncPush
  <2>2. UNCHANGED vars /\ apc' = [apc EXCEPT ![p] = "try"] /\ apc[p] = "idle" /\ Up
    BY <1>5 DEF AsyncPush
  <2> QED
    BY <1>2, <1>3, <1>4, <2>1, <2>2 DEF TaskPC
<1>6. CASE PushReturn(p)
  <2>1. UNCHANGED vars /\ apc' = [apc EXCEPT ![p] = "idle"] /\ aitem' = [aitem EXCEPT ![p] = NoItem]
        /\ apc[p] \notin {"write", "close"}
    BY <1>6 DEF PushReturn
  <2> QED
    BY <1>2, <1>4, <2>1 DEF TaskPC
<1>7. CASE AwaitRoom(p)
  <2>1. UNCHANGED vars /\ apc' = [apc EXCEPT ![p] = "try"] /\ UNCHANGED aitem /\ apc[p] = "full"
    BY <1>7 DEF AwaitRoom
  <2>2. aitem' = [aitem EXCEPT ![p] = aitem[p]]
    BY <1>2, <2>1
  <2> QED
    BY <1>2, <1>4, <2>1, <2>2 DEF TaskPC
<1>8. CASE AbandonPush(p)
  <2>1. UNCHANGED <<vars, apc, aitem>>
    BY <1>8 DEF AbandonPush
  <2>2. apc' = [apc EXCEPT ![p] = apc[p]] /\ aitem' = [aitem EXCEPT ![p] = aitem[p]]
    BY <1>2, <2>1
  <2> QED
    BY <1>2, <1>4, <2>1, <2>2
<1>9. ASSUME NEW i \in Fresh(p), ppc[p] = "idle", Claim(p, i), apc' = [apc EXCEPT ![p] = "write"], UNCHANGED aitem
      PROVE  Moves(p)
  <2>1. ppc' = [ppc EXCEPT ![p] = "apply"] /\ pushed' = pushed \cup {i}
    BY <1>9 DEF Claim
  <2>2. \A q \in Producers \ {p} : \A j \in Fresh(q) : j \notin pushed'
    BY <1>3, <1>9, <2>1
  <2> QED
    BY <1>1, <1>2, <1>9, <2>1, <2>2 DEF Moves, TaskPC, ThreadsOK
<1>10. CASE AsyncTryPush(p)
  BY <1>9, <1>10 DEF AsyncTryPush, TryPush
<1>11. CASE Attempt(p)
  <2>1. apc[p] = "try" /\ UNCHANGED aitem /\ aitem[p] \in Fresh(p) /\ ppc[p] = "idle" /\ Up
    BY <1>2, <1>11 DEF Attempt
  <2>2. aitem' = [aitem EXCEPT ![p] = aitem[p]] /\ aitem[p] \in Values
    BY <1>2, <2>1
  <2>3. CASE UNCHANGED vars /\ apc' = [apc EXCEPT ![p] = "closed"]
    BY <1>4, <2>1, <2>2, <2>3 DEF TaskPC
  <2>4. CASE UNCHANGED vars /\ apc' = [apc EXCEPT ![p] = "full"]
    BY <1>4, <2>1, <2>2, <2>4 DEF TaskPC
  <2>5. CASE Claim(p, aitem[p]) /\ apc' = [apc EXCEPT ![p] = "write"]
    BY <1>9, <2>1, <2>5
  <2> QED
    BY <1>11, <2>3, <2>4, <2>5 DEF Attempt
<1>12. ASSUME NEW a \in TaskPC \ {"try", "full"}, apc' = [apc EXCEPT ![p] = a], UNCHANGED <<aitem, pushed>>,
              \A q \in Producers \ {p} : ppc[q] = "idle" => ppc'[q] = "idle",
              a \notin {"write", "close"} => ppc'[p] = "idle"
       PROVE  Moves(p)
  BY <1>2, <1>3, <1>12 DEF Moves
<1>13. CASE AsyncWrite(p)
  <2>1. apc[p] = "write" /\ UNCHANGED aitem /\ apc = [apc EXCEPT ![p] = "write"]
    BY <1>2, <1>13 DEF AsyncWrite
  <2>2. CASE WriteNotify(p) /\ apc' = [apc EXCEPT ![p] = "err"]
    <3>1. ppc'[p] = "idle" /\ \A q \in Producers \ {p} : ppc[q] = "idle" => ppc'[q] = "idle"
      BY <1>1, <2>2, WriteNotifyEffect, Zenon
    <3>2. pushed' = pushed
      BY <2>2 DEF WriteNotify
    <3> QED
      BY <1>12, <2>1, <2>2, <3>1, <3>2 DEF TaskPC
  <2>3. CASE WriteOk(p) /\ apc' = [apc EXCEPT ![p] = "ok"]
    <3>1. ppc' = [ppc EXCEPT ![p] = "idle"] /\ pushed' = pushed
      BY <2>3 DEF WriteOk
    <3>2. ppc'[p] = "idle" /\ \A q \in Producers \ {p} : ppc'[q] = ppc[q]
      BY <1>1, <3>1 DEF ThreadsOK
    <3> QED
      BY <1>12, <2>1, <2>3, <3>1, <3>2 DEF TaskPC
  <2>4. CASE (WriteApply(p) \/ WriteErr(p) \/ GiveBack(p)) /\ UNCHANGED apc
    <3>1. (\E c : ppc' = [ppc EXCEPT ![p] = c]) /\ pushed' = pushed
      BY <2>4 DEF WriteApply, WriteErr, GiveBack
    <3>2. \A q \in Producers \ {p} : ppc'[q] = ppc[q]
      BY <1>1, <3>1 DEF ThreadsOK
    <3> QED
      BY <1>12, <2>1, <2>4, <3>1, <3>2 DEF TaskPC
  <2> QED
    BY <1>13, <2>2, <2>3, <2>4 DEF AsyncWrite
<1>14. CASE AsyncClose(p)
  <2>1. UNCHANGED aitem
    BY <1>14 DEF AsyncClose
  <2>2. CASE Close(p) /\ apc' = [apc EXCEPT ![p] = "close"]
    <3>1. ppc' = [ppc EXCEPT ![p] = "closing"] /\ pushed' = pushed
      BY <2>2 DEF Close
    <3>2. \A q \in Producers \ {p} : ppc'[q] = ppc[q]
      BY <1>1, <3>1 DEF ThreadsOK
    <3> QED
      BY <1>12, <2>1, <2>2, <3>1, <3>2 DEF TaskPC
  <2>3. CASE CloseNotify(p) /\ apc' = [apc EXCEPT ![p] = "wakeroom"]
    <3>1. pushed' = pushed /\ ppc'[p] = "idle" /\ \A q \in Producers \ {p} : ppc[q] = "idle" => ppc'[q] = "idle"
      BY <1>1, <2>3 DEF CloseNotify, ThreadsOK
    <3> QED
      BY <1>12, <2>1, <2>3, <3>1 DEF TaskPC
  <2>4. CASE apc[p] \in {"wakeroom", "wakeitems"} /\ UNCHANGED vars
             /\ \E a \in {"wakeitems", "idle"} : apc' = [apc EXCEPT ![p] = a]
    <3>1. ppc' = ppc /\ pushed' = pushed /\ ppc[p] = "idle"
      BY <1>2, <2>4 DEF vars
    <3> QED
      BY <1>12, <2>1, <2>4, <3>1 DEF TaskPC
  <2> QED
    BY <1>14, <2>2, <2>3, <2>4 DEF AsyncClose
<1> QED
  BY <1>5, <1>6, <1>7, <1>8, <1>10, <1>11, <1>13, <1>14 DEF PushTask

(* The consumer side and the signals leave the push tasks as they are.     *)
LEMMA TasksLeft ==
  ASSUME TypeInv,
         \/ OpenAsync \/ AsyncReserve \/ ReserveTask \/ AbandonReserve \/ SignalRoom \/ SignalItems
         \/ UNCHANGED aqVars
         \/ \E g \in Guards : AsyncAck(g) \/ AsyncNack(g)
  PROVE  UNCHANGED <<apc, aitem, pushed>> /\ \A q \in Producers : ppc[q] = "idle" => ppc'[q] = "idle"
<1>1. ThreadsOK
  BY DEF TypeInv, TypeOK
<1> USE DEF storeVars, innerVars, prodVars, consVars, guardVars, histVars
<1>2. CASE OpenAsync
  BY <1>2 DEF OpenAsync, asyncVars, OpenStart, OpenErr, RecoverEntry, RecoverDone, RecoverErr
<1>3. CASE AsyncReserve \/ ReserveReturn \/ CheckDrained \/ AwaitItems \/ AbandonReserve \/ SignalRoom \/ SignalItems
  BY <1>3 DEF AsyncReserve, ReserveReturn, CheckDrained, AwaitItems, AbandonReserve, SignalRoom, SignalItems, vars
<1>4. CASE AsyncScan
  BY <1>4 DEF AsyncScan, ReserveStart, ReserveSeek, ReserveSkip, ReserveTake, ReserveNone, HandOut
<1>5. CASE UNCHANGED aqVars
  BY <1>5 DEF aqVars, asyncVars, vars
<1>6. ASSUME NEW g \in Guards, AckApply(g) \/ AckOk(g) \/ AckSettle(g) \/ AckErr(g) \/ AsyncNack(g)
      PROVE  UNCHANGED <<pushed, ppc>>
  BY <1>6 DEF AckApply, AckOk, AckSettle, AckErr, AsyncNack
<1>7. ASSUME NEW g \in Guards, AckNotify(g)
      PROVE  UNCHANGED pushed /\ \A q \in Producers : ppc[q] = "idle" => ppc'[q] = "idle"
  <2>1. \A q \in Producers : ppc[q] = "idle" => ppc'[q] = "idle"
    BY <1>1, <1>7, AckNotifyEffect, Zenon
  <2> QED
    BY <1>7, <2>1 DEF AckNotify
<1>8. ASSUME NEW g \in Guards, AsyncAck(g) \/ AsyncNack(g)
      PROVE  UNCHANGED <<apc, aitem, pushed>> /\ \A q \in Producers : ppc[q] = "idle" => ppc'[q] = "idle"
  <2>1. UNCHANGED <<apc, aitem>>
    BY <1>8 DEF AsyncAck, AsyncNack
  <2>2. AckApply(g) \/ AckOk(g) \/ AckSettle(g) \/ AckErr(g) \/ AsyncNack(g) \/ AckNotify(g)
    BY <1>8 DEF AsyncAck
  <2> QED
    BY <1>6, <1>7, <2>1, <2>2
<1> QED
  BY <1>2, <1>3, <1>4, <1>5, <1>8 DEF ReserveTask

(* reserve begins on an open queue, and ends for good on a drained one.    *)
LEMMA ReserveEnds ==
  ASSUME [AsyncNext]_aqVars
  PROVE  /\ rpc = "idle" /\ rpc' # "idle" => Up
         /\ ended' = ended \/ (ended' = TRUE /\ rpc = "none" /\ is_drained /\ UNCHANGED vars)
<1>1. CASE UNCHANGED aqVars
  BY <1>1 DEF aqVars, asyncVars
<1>2. CASE OpenAsync
  BY <1>2 DEF OpenAsync, asyncVars
<1>3. ASSUME NEW p \in Producers, AsyncPush(p) \/ AsyncTryPush(p) \/ PushTask(p) \/ AbandonPush(p) \/ AsyncClose(p)
      PROVE  UNCHANGED <<rpc, ended>>
  BY <1>3 DEF AsyncPush, AsyncTryPush, PushTask, Attempt, AsyncWrite, PushReturn, AwaitRoom, AbandonPush, AsyncClose
<1>4. CASE AsyncReserve \/ ReserveReturn \/ CheckDrained \/ AwaitItems \/ AbandonReserve \/ SignalRoom \/ SignalItems
  BY <1>4 DEF AsyncReserve, ReserveReturn, CheckDrained, AwaitItems, AbandonReserve, SignalRoom, SignalItems
<1>5. CASE AsyncScan
  BY <1>5 DEF AsyncScan
<1>6. ASSUME NEW g \in Guards, AsyncAck(g) \/ AsyncNack(g) PROVE UNCHANGED <<rpc, ended>>
  BY <1>6 DEF AsyncAck, AsyncNack
<1> QED
  BY <1>1, <1>2, <1>3, <1>4, <1>5, <1>6 DEF AsyncNext, ReserveTask

(* Every step keeps the tasks and the core together.                       *)
LEMMA TaskStep ==
  ASSUME TypeInv, TaskInv, [AsyncNext]_aqVars
  PROVE  TaskInv'
<1>1. /\ apc \in [Producers -> TaskPC] /\ aitem \in [Producers -> Values]
      /\ \A q \in Producers :
           /\ apc[q] \notin {"write", "close"} => ppc[q] = "idle"
           /\ apc[q] \in {"try", "full"} => Up /\ aitem[q] \in Fresh(q)
  BY DEF TaskInv
<1>2. rpc' # "idle" => Up'
  BY ReserveEnds, UpStays DEF TaskInv
<1>4. /\ apc' \in [Producers -> TaskPC] /\ aitem' \in [Producers -> Values]
      /\ \A q \in Producers :
           /\ apc'[q] \notin {"write", "close"} => ppc'[q] = "idle"
           /\ apc'[q] \in {"try", "full"} => Up' /\ aitem'[q] \in Fresh(q)'
  <2>1. ASSUME NEW p \in Producers, Moves(p)
        PROVE  /\ apc' \in [Producers -> TaskPC] /\ aitem' \in [Producers -> Values]
               /\ \A q \in Producers :
                    /\ apc'[q] \notin {"write", "close"} => ppc'[q] = "idle"
                    /\ apc'[q] \in {"try", "full"} => Up' /\ aitem'[q] \in Fresh(q)'
    BY <1>1, <2>1, UpStays DEF Moves, Fresh
  <2>2. CASE UNCHANGED <<apc, aitem, pushed>> /\ \A q \in Producers : ppc[q] = "idle" => ppc'[q] = "idle"
    BY <1>1, <2>2, UpStays DEF Fresh
  <2> QED
    BY <2>1, <2>2, TaskMoves, TasksLeft DEF AsyncNext
<1> QED
  BY <1>2, <1>4 DEF TaskInv

(* The core's invariant and that of the tasks, whatever the store and      *)
(* whoever acks.                                                           *)
LEMMA AsyncCoreStep ==
  ASSUME CoreInv, TaskInv, [AsyncNext]_aqVars
  PROVE  CoreInv' /\ TaskInv'
<1>1. TaskInv'
  BY TaskStep DEF CoreInv
<1>2. CoreInv'
  BY AsyncCases, CoreKept, ReleaseKeeps
<1> QED
  BY <1>1, <1>2

(* They hold before the first open.                                        *)
LEMMA AsyncCoreInit == Init /\ AsyncInit => CoreInv /\ TaskInv
<1>1. Init /\ AsyncInit => TaskInv
  BY DEF Init, AsyncInit, TaskInv, TaskPC
<1> QED
  BY <1>1, CoreInit

-----------------------------------------------------------------------------
(* The end of the queue.                                                   *)

(* A queue that has ended stays so.                                        *)
LEMMA EndStep ==
  ASSUME TypeInv, LenExact, TaskInv, EndInv, [AsyncNext]_aqVars
  PROVE  EndInv'
<1> SUFFICES ASSUME ended' PROVE Up' /\ closed' /\ len' = 0
  BY DEF EndInv
<1>1. CASE ended
  BY <1>1, DrainedStays, UpStays DEF EndInv
<1>2. CASE ~ended
  <2>1. rpc = "none" /\ is_drained /\ UNCHANGED vars
    BY <1>2, ReserveEnds
  <2>2. Up /\ closed /\ len = 0 /\ UNCHANGED <<closed, len>>
    BY <2>1 DEF TaskInv, is_drained, vars, innerVars
  <2> QED
    BY <2>2, UpStays
<1> QED
  BY <1>1, <1>2

(* What holds of a queue with one consumer and clean failures whose calls  *)
(* are made by tasks.                                                      *)
AsyncInv ==
  CoreInv /\ SoloInv /\ FailedInv /\ ScanExact /\ ScanBytes /\ LenExact /\ OpenBytes /\ TaskInv /\ EndInv

(* It holds before the first open.                                         *)
LEMMA AsyncInvInit == Init /\ AsyncInit => AsyncInv
<1>1. Init /\ AsyncInit => EndInv
  BY DEF AsyncInit, EndInv
<1> QED
  BY <1>1, AsyncCoreInit, SoloInit, FailedInit, ScanInit, LenInit, BytesInit DEF AsyncInv

(* Every step of the tasks keeps it.                                       *)
LEMMA AsyncInvStep ==
  ASSUME ~Threaded, CleanFailures, AsyncInv, [AsyncNext]_aqVars
  PROVE  AsyncInv'
<1>1. /\ CoreInv /\ SoloInv /\ FailedInv /\ ScanExact /\ ScanBytes /\ LenExact /\ OpenBytes /\ TaskInv /\ EndInv
      /\ TypeInv /\ SafeInv
  BY DEF AsyncInv, CoreInv
<1>2. TaskInv' /\ EndInv'
  BY <1>1, TaskStep, EndStep
<1>3. CASE [Next]_vars
  <2>1. CoreInv' /\ SoloInv' /\ FailedInv' /\ ScanExact' /\ ScanBytes'
    BY <1>1, <1>3, CoreKept, SoloStep, FailedStep, ScanStep, ScanBytesStep
  <2>2. LenExact' /\ OpenBytes'
    BY <1>1, <1>3, <2>1, LenStep, BytesStep
  <2> QED
    BY <1>2, <2>1, <2>2 DEF AsyncInv
<1>4. ASSUME NEW g \in Guards, Releases(g) PROVE AsyncInv'
  <2>1. CoreInv' /\ SoloInv' /\ FailedInv' /\ ScanExact' /\ ScanBytes'
    BY <1>1, <1>4, ReleaseKeeps
  <2>2. Up /\ Tally
    BY <1>1, <1>4, <2>1, ReleaseCounts DEF CoreInv
  <2>3. LenExact' /\ OpenBytes'
    BY <1>1, <2>2, TallyLen, TallyBytes
  <2> QED
    BY <1>2, <2>1, <2>3 DEF AsyncInv
<1> QED
  BY <1>1, <1>3, <1>4, AsyncCases

(* It is an invariant of the facade.                                       *)
LEMMA AsyncInvAlways == ASSUME ~Threaded, CleanFailures PROVE AsyncSpec => []AsyncInv
<1>1. AsyncInv /\ [AsyncNext]_aqVars => AsyncInv'
  BY AsyncInvStep
<1> QED
  BY <1>1, AsyncInvInit, PTL DEF AsyncSpec

(* With any number of push tasks, abandoned at any await or not, guards    *)
(* dropped in the middle of a scan and failing commits that leave nothing  *)
(* behind: once reserve has returned Ok(None), nothing is stored and       *)
(* nothing will be.                                                        *)
THEOREM EndIsForGood == ASSUME ~Threaded, CleanFailures PROVE AsyncSpec => []DrainedForGood
<1>1. AsyncInv => DrainedForGood
  <2> SUFFICES ASSUME AsyncInv, ended PROVE Stored = {} /\ \A p \in Producers : ppc[p] # "apply"
    BY DEF DrainedForGood
  <2>1. TypeInv /\ LenExact /\ Up /\ len = 0
    BY DEF AsyncInv, CoreInv, EndInv
  <2>2. \A s \in Seqs : ~CountedAt(s)
    BY <2>1, NothingCounted
  <2> QED
    BY <2>1, <2>2 DEF CountedAt, Stored, TypeInv, InCall
<1> QED
  BY <1>1, AsyncInvAlways, PTL

(* The facade keeps what the core promises: len and bytes are exact, no    *)
(* entry is reserved twice and no acked item is handed out again, also     *)
(* when guards are dropped on other tasks while a scan runs.               *)
COROLLARY AsyncKeepsCore ==
  ASSUME ~Threaded, CleanFailures
  PROVE  AsyncSpec => [](LenExact /\ BytesExact /\ ReservedExact /\ AckedStaysGone)
<1>1. AsyncInv => LenExact /\ BytesExact /\ ReservedExact
  BY TotalExact DEF AsyncInv, CoreInv
<1>2. AsyncInv => AckedStaysGone
  <2> SUFFICES ASSUME AsyncInv, restarts = 0 \/ ack_durable, NEW g \in Guards, gpc[g] = "held", gitem[g] \in acked
               PROVE  FALSE
    BY DEF AckedStaysGone
  <2>1. /\ gseq[g] \in Seqs /\ live[gseq[g]] = gitem[g] /\ gitem[g] \in deleted /\ live[gseq[g]] \in disk[gseq[g]]
        /\ ack_durable => gitem[g] \notin disk[gseq[g]]
        /\ live[gseq[g]] \in deleted => restarts # 0
    BY DEF AsyncInv, CoreInv, SoloInv, TypeInv, InCall, IdentityInv, DiskInv, HistoryInv
  <2> QED
    BY <2>1
<1> QED
  BY <1>1, <1>2, AsyncInvAlways, PTL

-----------------------------------------------------------------------------
(* tokio's Notify.                                                         *)

(* Nobody is in the line of a new object.                                  *)
LEMMA QuiescentOK == ASSUME NEW T PROVE NotifyOK(Quiescent(T), T)
<1>1. <<>> \in Seq(T) /\ DOMAIN <<>> = {}
  BY EmptySeq
<1> QED
  BY <1>1 DEF NotifyOK, Quiescent

(* The fields of an object.                                                *)
LEMMA NotifyFields ==
  ASSUME NEW T, NEW n, NotifyOK(n, T)
  PROVE  /\ n.permit \in BOOLEAN /\ n.line \in Seq(T) /\ n.tok \in [T -> {"none", "wait", "one", "done"}]
         /\ Len(n.line) \in Nat /\ DOMAIN n.line = 1 .. Len(n.line) /\ n.line \in [1 .. Len(n.line) -> T]
         /\ n = [permit |-> n.permit, line |-> n.line, tok |-> n.tok]
<1>1. n \in [permit : BOOLEAN, line : Seq(T), tok : [T -> {"none", "wait", "one", "done"}]]
  BY DEF NotifyOK
<1>2. n.permit \in BOOLEAN /\ n.line \in Seq(T) /\ n.tok \in [T -> {"none", "wait", "one", "done"}]
      /\ n = [permit |-> n.permit, line |-> n.line, tok |-> n.tok]
  BY <1>1
<1> QED
  BY <1>2, LenProperties

(* A registration takes the permit or joins the line.                      *)
LEMMA EnableOK ==
  ASSUME NEW T, NEW t \in T, NEW n, NotifyOK(n, T), n.tok[t] # "wait"
  PROVE  /\ NotifyOK(Enable(n, t), T)
         /\ Enable(n, t).tok = [n.tok EXCEPT ![t] = IF n.permit THEN "done" ELSE "wait"]
<1> DEFINE old == n.line
           m == Len(old)
<1>0. n.permit \in BOOLEAN /\ n = [permit |-> n.permit, line |-> n.line, tok |-> n.tok]
  BY NotifyFields
<1>1. /\ old \in Seq(T) /\ n.tok \in [T -> {"none", "wait", "one", "done"}]
      /\ m \in Nat /\ DOMAIN old = 1 .. m
  BY NotifyFields
<1>2. /\ \A u \in T : n.tok[u] = "wait" <=> \E k \in DOMAIN old : old[k] = u
      /\ \A j, k \in DOMAIN old : old[j] = old[k] => j = k
  BY DEF NotifyOK
<1>3. CASE n.permit
  <2> DEFINE tok == [n.tok EXCEPT ![t] = "done"]
  <2>1. Enable(n, t) = [permit |-> FALSE, line |-> old, tok |-> tok] /\ Enable(n, t).tok = tok
    BY <1>0, <1>1, <1>3 DEF Enable
  <2>2. tok \in [T -> {"none", "wait", "one", "done"}] /\ \A u \in T : tok[u] = "wait" <=> n.tok[u] = "wait"
    BY <1>1
  <2> HIDE DEF tok, old
  <2>3. \A u \in T : tok[u] = "wait" <=> \E k \in DOMAIN old : old[k] = u
    BY <1>2, <2>2
  <2>4. NotifyOK([permit |-> FALSE, line |-> old, tok |-> tok], T)
    BY <1>1, <1>2, <2>2, <2>3 DEF NotifyOK
  <2> QED
    BY <1>3, <2>1, <2>4 DEF tok
<1>4. CASE ~n.permit
  <2> DEFINE tok == [n.tok EXCEPT ![t] = "wait"]
             line == Append(old, t)
  <2>1. Enable(n, t) = [permit |-> FALSE, line |-> line, tok |-> tok] /\ Enable(n, t).tok = tok
    BY <1>0, <1>1, <1>4 DEF Enable
  <2>3. tok \in [T -> {"none", "wait", "one", "done"}] /\ tok[t] = "wait" /\ \A u \in T \ {t} : tok[u] = n.tok[u]
    BY <1>1
  <2>4. /\ line \in Seq(T) /\ DOMAIN line = 1 .. (m + 1)
        /\ \A k \in 1 .. m : line[k] = old[k]
        /\ line[m + 1] = t
    BY <1>1
  <2> HIDE DEF tok, line, old, m
  <2>5. \A k \in 1 .. m : old[k] # t
    BY <1>1, <1>2
  <2>6. \A u \in T : tok[u] = "wait" <=> \E k \in DOMAIN line : line[k] = u
    <3> TAKE u \in T
    <3>1. CASE u = t
      <4>1. m + 1 \in DOMAIN line
        BY <1>1, <2>4
      <4> QED
        BY <2>3, <2>4, <3>1, <4>1
    <3>2. CASE u # t
      <4>1. \A k \in DOMAIN line : k \in DOMAIN old \/ k = m + 1
        BY <1>1, <2>4
      <4>2. \A k \in DOMAIN old : k \in DOMAIN line /\ line[k] = old[k]
        BY <1>1, <2>4
      <4>3. (\E k \in DOMAIN line : line[k] = u) <=> \E k \in DOMAIN old : old[k] = u
        BY <2>4, <3>2, <4>1, <4>2
      <4> QED
        BY <1>2, <2>3, <3>2, <4>3
    <3> QED
      BY <3>1, <3>2
  <2>7. \A j, k \in DOMAIN line : line[j] = line[k] => j = k
    <3> TAKE j, k \in DOMAIN line
    <3>1. (j \in 1 .. m \/ j = m + 1) /\ (k \in 1 .. m \/ k = m + 1)
      BY <1>1, <2>4
    <3> QED
      BY <1>1, <1>2, <2>4, <2>5, <3>1
  <2>8. NotifyOK([permit |-> FALSE, line |-> line, tok |-> tok], T)
    BY <2>3, <2>4, <2>6, <2>7 DEF NotifyOK
  <2> QED
    BY <1>4, <2>1, <2>8 DEF tok
<1> QED
  BY <1>0, <1>3, <1>4

(* notify_one() chooses one that waits, or nobody waits.                   *)
LEMMA NotifyOneOK ==
  ASSUME NEW T, NEW n, NotifyOK(n, T)
  PROVE  /\ NotifyOK(Notify(n), T)
         /\ \/ Notify(n).tok = n.tok /\ \A u \in T : n.tok[u] # "wait"
            \/ \E u \in T : n.tok[u] = "wait" /\ Notify(n).tok = [n.tok EXCEPT ![u] = "one"]
<1> DEFINE old == n.line
           m == Len(old)
<1>0. n.permit \in BOOLEAN /\ n = [permit |-> n.permit, line |-> n.line, tok |-> n.tok]
  BY NotifyFields
<1>1. /\ old \in Seq(T) /\ n.tok \in [T -> {"none", "wait", "one", "done"}]
      /\ m \in Nat /\ DOMAIN old = 1 .. m
  BY NotifyFields
<1>2. /\ \A u \in T : n.tok[u] = "wait" <=> \E k \in DOMAIN old : old[k] = u
      /\ \A j, k \in DOMAIN old : old[j] = old[k] => j = k
      /\ n.permit => old = <<>>
  BY DEF NotifyOK
<1>3. CASE old = <<>>
  <2>1. Notify(n) = [permit |-> TRUE, line |-> old, tok |-> n.tok] /\ Notify(n).tok = n.tok
    BY <1>0, <1>3 DEF Notify
  <2>2. NotifyOK([permit |-> TRUE, line |-> old, tok |-> n.tok], T)
    <3> HIDE DEF old
    <3> QED
      BY <1>1, <1>2, <1>3 DEF NotifyOK
  <2>3. DOMAIN old = {}
    BY <1>3
  <2>4. \A u \in T : n.tok[u] # "wait"
    <3> HIDE DEF old
    <3> QED
      BY <1>2, <2>3
  <2> QED
    BY <2>1, <2>2, <2>4
<1>4. CASE old # <<>>
  <2> DEFINE h == Head(old)
             line == Tail(old)
             tok == [n.tok EXCEPT ![h] = "one"]
  <2>1. Notify(n) = [permit |-> n.permit, line |-> line, tok |-> tok] /\ Notify(n).tok = tok
    BY <1>0, <1>1, <1>4 DEF Notify
  <2>2. /\ h = old[1] /\ 1 \in DOMAIN old /\ h \in T
        /\ line \in Seq(T) /\ DOMAIN line = 1 .. (m - 1)
        /\ \A k \in 1 .. (m - 1) : line[k] = old[k + 1]
    BY <1>1, <1>4
  <2>3. n.tok[h] = "wait" /\ ~n.permit
    BY <1>2, <1>4, <2>2
  <2>4. tok \in [T -> {"none", "wait", "one", "done"}] /\ tok[h] = "one" /\ \A u \in T \ {h} : tok[u] = n.tok[u]
    BY <1>1, <2>2
  <2> HIDE DEF h, line, tok, old, m
  <2>5. \A k \in DOMAIN line : k + 1 \in DOMAIN old /\ k + 1 # 1 /\ line[k] = old[k + 1]
    BY <1>1, <2>2
  <2>6. \A k \in DOMAIN old : k # 1 => k - 1 \in DOMAIN line /\ line[k - 1] = old[k]
    <3> SUFFICES ASSUME NEW k \in 1 .. m, k # 1 PROVE k - 1 \in 1 .. (m - 1) /\ line[k - 1] = old[k]
      BY <1>1, <2>2
    <3>1. k - 1 \in 1 .. (m - 1) /\ (k - 1) + 1 = k
      BY <1>1
    <3>2. line[k - 1] = old[(k - 1) + 1]
      BY <2>2, <3>1
    <3> QED
      BY <3>1, <3>2
  <2>7. \A u \in T : tok[u] = "wait" <=> \E k \in DOMAIN line : line[k] = u
    <3> TAKE u \in T
    <3>1. CASE u = h
      BY <1>2, <2>2, <2>4, <2>5, <3>1
    <3>2. CASE u # h
      <4>1. (\E k \in DOMAIN line : line[k] = u) <=> \E k \in DOMAIN old : old[k] = u
        BY <2>2, <2>5, <2>6, <3>2
      <4> QED
        BY <1>2, <2>4, <3>2, <4>1
    <3> QED
      BY <3>1, <3>2
  <2>8. \A j, k \in DOMAIN line : line[j] = line[k] => j = k
    <3> TAKE j, k \in DOMAIN line
    <3>1. j \in Int /\ k \in Int
      BY <1>1, <2>2
    <3> QED
      BY <1>2, <2>5, <3>1
  <2>9. NotifyOK([permit |-> n.permit, line |-> line, tok |-> tok], T)
    BY <1>0, <2>2, <2>3, <2>4, <2>7, <2>8 DEF NotifyOK
  <2> QED
    BY <2>1, <2>2, <2>3, <2>9 DEF tok
<1> QED
  BY <1>3, <1>4

(* notify_waiters() completes all that wait.                               *)
LEMMA NotifyWaitersOK ==
  ASSUME NEW T, NEW n, NotifyOK(n, T)
  PROVE  /\ NotifyOK(NotifyWaiters(n), T)
         /\ NotifyWaiters(n).tok \in [T -> {"none", "one", "done"}]
         /\ \A u \in T : n.tok[u] # "wait" => NotifyWaiters(n).tok[u] = n.tok[u]
<1>1. /\ n.permit \in BOOLEAN /\ n.tok \in [T -> {"none", "wait", "one", "done"}]
      /\ n = [permit |-> n.permit, line |-> n.line, tok |-> n.tok]
  BY NotifyFields
<1> DEFINE tok == [u \in T |-> IF n.tok[u] = "wait" THEN "done" ELSE n.tok[u]]
<1>2. [u \in DOMAIN n.tok |-> IF n.tok[u] = "wait" THEN "done" ELSE n.tok[u]] = tok
  BY <1>1
<1>3. tok \in [T -> {"none", "one", "done"}] /\ tok \in [T -> {"none", "wait", "one", "done"}]
  BY <1>1
<1>4. <<>> \in Seq(T) /\ DOMAIN <<>> = {}
  BY EmptySeq
<1>5. NotifyWaiters(n) = [n EXCEPT !.line = <<>>, !.tok = tok]
  BY <1>2 DEF NotifyWaiters
<1> HIDE DEF tok
<1>6. NotifyWaiters(n) = [permit |-> n.permit, line |-> <<>>, tok |-> tok] /\ NotifyWaiters(n).tok = tok
  BY <1>1, <1>5
<1>7. \A u \in T : tok[u] # "wait"
  BY <1>3
<1>8. NotifyOK([permit |-> n.permit, line |-> <<>>, tok |-> tok], T)
  BY <1>1, <1>3, <1>4, <1>7 DEF NotifyOK
<1>9. \A u \in T : n.tok[u] # "wait" => tok[u] = n.tok[u]
  BY DEF tok
<1> QED
  BY <1>3, <1>6, <1>8, <1>9

(* Leaving the line leaves the others in it, in their order.               *)
LEMMA WithoutOK ==
  ASSUME NEW T, NEW t \in T, NEW line \in Seq(T), \A j, k \in DOMAIN line : line[j] = line[k] => j = k
  PROVE  /\ Without(line, t) \in Seq(T)
         /\ \A j, k \in DOMAIN Without(line, t) : Without(line, t)[j] = Without(line, t)[k] => j = k
         /\ \A u \in T : (\E k \in DOMAIN Without(line, t) : Without(line, t)[k] = u)
                         <=> u # t /\ \E k \in DOMAIN line : line[k] = u
         /\ line = <<>> => Without(line, t) = <<>>
<1> DEFINE m == Len(line)
<1>1. m \in Nat /\ DOMAIN line = 1 .. m /\ \A k \in 1 .. m : line[k] \in T
  BY LenProperties
<1>2. CASE ~\E j \in DOMAIN line : line[j] = t
  <2>1. Without(line, t) = line
    BY <1>2 DEF Without
  <2> QED
    BY <1>2, <2>1
<1>3. CASE \E j \in DOMAIN line : line[j] = t
  <2> DEFINE k == CHOOSE j \in DOMAIN line : line[j] = t
             a == SubSeq(line, 1, k - 1)
             b == SubSeq(line, k + 1, m)
             w == a \o b
  <2>1. k \in DOMAIN line /\ line[k] = t
    BY <1>3
  <2>2. Without(line, t) = w
    BY <1>3 DEF Without
  <2> HIDE DEF k
  <2>3. k \in 1 .. m /\ k - 1 \in Int /\ k + 1 \in Int /\ m \in Int
    BY <1>1, <2>1
  <2>4. a \in Seq(T) /\ Len(a) = k - 1 /\ \A j \in 1 .. (k - 1) : a[j] = line[j]
    <3>1. \A j \in 1 .. (k - 1) : line[j] \in T
      BY <1>1, <2>3
    <3>2. /\ a \in Seq(T) /\ Len(a) = (IF 1 <= k - 1 THEN (k - 1) - 1 + 1 ELSE 0)
          /\ \A j \in 1 .. ((k - 1) - 1 + 1) : a[j] = line[1 + j - 1]
      BY <2>3, <3>1, SubSeqProperties
    <3> HIDE DEF a
    <3> QED
      BY <2>3, <3>2
  <2>5. b \in Seq(T) /\ Len(b) = m - k /\ \A j \in 1 .. (m - k) : b[j] = line[k + j]
    <3>1. \A j \in (k + 1) .. m : line[j] \in T
      BY <1>1, <2>3
    <3>2. /\ b \in Seq(T) /\ Len(b) = (IF k + 1 <= m THEN m - (k + 1) + 1 ELSE 0)
          /\ \A j \in 1 .. (m - (k + 1) + 1) : b[j] = line[(k + 1) + j - 1]
      BY <2>3, <3>1, SubSeqProperties
    <3> HIDE DEF b
    <3>3. \A j \in 1 .. (m - k) : b[j] = line[k + j]
      <4> TAKE j \in 1 .. (m - k)
      <4>1. j \in 1 .. (m - (k + 1) + 1) /\ (k + 1) + j - 1 = k + j
        BY <2>3
      <4> QED
        BY <3>2, <4>1
    <3> QED
      BY <2>3, <3>2, <3>3
  <2> HIDE DEF a, b
  <2>6. /\ w \in Seq(T) /\ Len(w) = Len(a) + Len(b)
        /\ \A j \in 1 .. (Len(a) + Len(b)) : w[j] = IF j <= Len(a) THEN a[j] ELSE b[j - Len(a)]
    <3>1. a \in Seq(T) /\ b \in Seq(T)
      BY <2>4, <2>5
    <3> QED
      BY <3>1, ConcatProperties
  <2>7. DOMAIN w = 1 .. (m - 1)
    <3>1. Len(w) = m - 1 /\ DOMAIN w = 1 .. Len(w)
      BY <2>3, <2>4, <2>5, <2>6, LenProperties
    <3> QED
      BY <3>1
  <2> HIDE DEF w, m
  <2>8. \A j \in 1 .. (m - 1) : j < k => w[j] = line[j]
    <3> SUFFICES ASSUME NEW j \in 1 .. (m - 1), j < k PROVE w[j] = line[j]
      OBVIOUS
    <3>1. j \in 1 .. (k - 1) /\ j \in 1 .. (Len(a) + Len(b)) /\ j <= Len(a)
      BY <2>3, <2>4, <2>5
    <3> QED
      BY <2>4, <2>6, <3>1
  <2>9. \A j \in 1 .. (m - 1) : j >= k => w[j] = line[j + 1]
    <3> SUFFICES ASSUME NEW j \in 1 .. (m - 1), j >= k PROVE w[j] = line[j + 1]
      OBVIOUS
    <3>1. /\ j - (k - 1) \in 1 .. (m - k) /\ j \in 1 .. (Len(a) + Len(b)) /\ ~(j <= Len(a))
          /\ k + (j - (k - 1)) = j + 1
      BY <2>3, <2>4, <2>5
    <3>2. w[j] = b[j - (k - 1)]
      BY <2>4, <2>6, <3>1
    <3> QED
      BY <2>5, <3>1, <3>2
  <2> DEFINE up(j) == IF j < k THEN j ELSE j + 1
  <2>10. \A j \in DOMAIN w : up(j) \in DOMAIN line /\ up(j) # k /\ w[j] = line[up(j)]
    BY <1>1, <2>3, <2>7, <2>8, <2>9
  <2>11. \A i, j \in DOMAIN w : up(i) = up(j) => i = j
    BY <2>3, <2>7
  <2>12. \A i \in DOMAIN line : i # k => \E j \in DOMAIN w : up(j) = i
    <3> SUFFICES ASSUME NEW i \in 1 .. m, i # k PROVE \E j \in 1 .. (m - 1) : up(j) = i
      BY <1>1, <2>7
    <3>1. CASE i < k
      <4>1. i \in 1 .. (m - 1) /\ up(i) = i
        BY <1>1, <2>3, <3>1
      <4> QED
        BY <4>1
    <3>2. CASE i > k
      <4>1. i - 1 \in 1 .. (m - 1) /\ up(i - 1) = i
        BY <1>1, <2>3, <3>2
      <4> QED
        BY <4>1
    <3> QED
      BY <2>3, <3>1, <3>2
  <2> HIDE DEF up
  <2>13. \A i, j \in DOMAIN w : w[i] = w[j] => i = j
    BY <2>10, <2>11
  <2>14. \A u \in T : (\E j \in DOMAIN w : w[j] = u) <=> u # t /\ \E i \in DOMAIN line : line[i] = u
    <3> TAKE u \in T
    <3>1. ASSUME NEW j \in DOMAIN w, w[j] = u PROVE u # t /\ \E i \in DOMAIN line : line[i] = u
      BY <2>1, <2>10, <3>1
    <3>2. ASSUME u # t, NEW i \in DOMAIN line, line[i] = u PROVE \E j \in DOMAIN w : w[j] = u
      BY <2>1, <2>10, <2>12, <3>2
    <3> QED
      BY <3>1, <3>2
  <2>15. line # <<>>
    BY <2>1
  <2> QED
    BY <2>2, <2>6, <2>13, <2>14, <2>15
<1> QED
  BY <1>2, <1>3

(* The futures once t's is dropped, and once its notification is u's.      *)
Dropped(tok, t) == [tok EXCEPT ![t] = "none"]
PassedOn(tok, t, u) == [Dropped(tok, t) EXCEPT ![u] = "one"]

(* A dropped future is out of the line, and what it alone had been told    *)
(* another one is told, if there is one.                                   *)
LEMMA ForgetOK ==
  ASSUME NEW T, NEW t \in T, NEW n, NotifyOK(n, T)
  PROVE  /\ NotifyOK(Forget(n, t), T)
         /\ \/ /\ Forget(n, t).tok = Dropped(n.tok, t)
               /\ n.tok[t] = "one" => \A u \in T : n.tok[u] # "wait"
            \/ /\ n.tok[t] = "one"
               /\ \E u \in T \ {t} : n.tok[u] = "wait" /\ Forget(n, t).tok = PassedOn(n.tok, t, u)
<1> DEFINE old == n.line
           line == Without(old, t)
           tok == [n.tok EXCEPT ![t] = "none"]
           gone == [n EXCEPT !.tok[t] = "none", !.line = Without(@, t)]
<1>0. n.permit \in BOOLEAN /\ n = [permit |-> n.permit, line |-> n.line, tok |-> n.tok]
  BY NotifyFields
<1>1. old \in Seq(T) /\ n.tok \in [T -> {"none", "wait", "one", "done"}]
  BY NotifyFields
<1>2. /\ \A u \in T : n.tok[u] = "wait" <=> \E k \in DOMAIN old : old[k] = u
      /\ \A j, k \in DOMAIN old : old[j] = old[k] => j = k
      /\ n.permit => old = <<>>
  BY DEF NotifyOK
<1>3. gone = [permit |-> n.permit, line |-> line, tok |-> tok] /\ gone.tok = tok
  <2>1. gone = [[n EXCEPT !.tok = tok] EXCEPT !.line = line]
    BY <1>0
  <2> HIDE DEF line, tok, gone
  <2>2. [n EXCEPT !.tok = tok] = [permit |-> n.permit, line |-> n.line, tok |-> tok]
    BY <1>0
  <2> QED
    BY <2>1, <2>2
<1>4. tok \in [T -> {"none", "wait", "one", "done"}] /\ tok[t] = "none" /\ \A u \in T \ {t} : tok[u] = n.tok[u]
  BY <1>1
<1>5. /\ line \in Seq(T) /\ \A j, k \in DOMAIN line : line[j] = line[k] => j = k
      /\ \A u \in T : (\E k \in DOMAIN line : line[k] = u) <=> u # t /\ \E k \in DOMAIN old : old[k] = u
      /\ old = <<>> => line = <<>>
  <2> HIDE DEF old
  <2> QED
    BY <1>1, <1>2, WithoutOK
<1>6. Forget(n, t) = IF n.tok[t] = "one" THEN Notify(gone) ELSE gone
  BY DEF Forget
<1> HIDE DEF old, line, tok
<1>7. \A u \in T : tok[u] = "wait" <=> \E k \in DOMAIN line : line[k] = u
  <2> TAKE u \in T
  <2>1. CASE u = t
    BY <1>4, <1>5, <2>1
  <2>2. CASE u # t
    BY <1>2, <1>4, <1>5, <2>2
  <2> QED
    BY <2>1, <2>2
<1>8. NotifyOK([permit |-> n.permit, line |-> line, tok |-> tok], T)
  BY <1>0, <1>2, <1>4, <1>5, <1>7 DEF NotifyOK
<1> HIDE DEF gone
<1>9. NotifyOK(gone, T) /\ gone.tok = tok
  BY <1>3, <1>8
<1>10. CASE n.tok[t] # "one"
  BY <1>6, <1>9, <1>10 DEF tok, Dropped, PassedOn
<1>11. CASE n.tok[t] = "one"
  <2>1. Forget(n, t) = Notify(gone)
    BY <1>6, <1>11
  <2>2. /\ NotifyOK(Notify(gone), T)
        /\ \/ Notify(gone).tok = tok /\ \A u \in T : tok[u] # "wait"
           \/ \E u \in T : tok[u] = "wait" /\ Notify(gone).tok = [tok EXCEPT ![u] = "one"]
    <3>1. /\ NotifyOK(Notify(gone), T)
          /\ \/ Notify(gone).tok = gone.tok /\ \A u \in T : gone.tok[u] # "wait"
             \/ \E u \in T : gone.tok[u] = "wait" /\ Notify(gone).tok = [gone.tok EXCEPT ![u] = "one"]
      BY <1>9, NotifyOneOK
    <3> QED
      BY <1>9, <3>1
  <2>3. CASE Notify(gone).tok = tok /\ \A u \in T : tok[u] # "wait"
    BY <1>4, <1>11, <2>1, <2>2, <2>3 DEF tok, Dropped, PassedOn
  <2>4. ASSUME NEW u \in T, tok[u] = "wait", Notify(gone).tok = [tok EXCEPT ![u] = "one"]
        PROVE  u \in T \ {t} /\ n.tok[u] = "wait" /\ Notify(gone).tok = PassedOn(n.tok, t, u)
    BY <1>4, <2>4 DEF tok, Dropped, PassedOn
  <2>5. CASE \E u \in T : tok[u] = "wait" /\ Notify(gone).tok = [tok EXCEPT ![u] = "one"]
    BY <1>11, <2>1, <2>2, <2>4, <2>5, Zenon
  <2> QED
    BY <2>2, <2>3, <2>5
<1> QED
  BY <1>10, <1>11

(* A future that has fired leaves no trace when it is taken.               *)
LEMMA TakenOK ==
  ASSUME NEW T, NEW t \in T, NEW n, NotifyOK(n, T), Fired(n, t)
  PROVE  /\ NotifyOK([n EXCEPT !.tok[t] = "none"], T)
         /\ [n EXCEPT !.tok[t] = "none"].tok = [n.tok EXCEPT ![t] = "none"]
<1> DEFINE tok == [n.tok EXCEPT ![t] = "none"]
<1>1. /\ n.permit \in BOOLEAN /\ n.line \in Seq(T) /\ n.tok \in [T -> {"none", "wait", "one", "done"}]
      /\ n = [permit |-> n.permit, line |-> n.line, tok |-> n.tok]
  BY NotifyFields
<1>2. /\ \A u \in T : n.tok[u] = "wait" <=> \E k \in DOMAIN n.line : n.line[k] = u
      /\ \A j, k \in DOMAIN n.line : n.line[j] = n.line[k] => j = k
      /\ n.permit => n.line = <<>>
  BY DEF NotifyOK
<1>3. tok \in [T -> {"none", "wait", "one", "done"}] /\ \A u \in T : tok[u] = "wait" <=> n.tok[u] = "wait"
  BY <1>1 DEF Fired
<1>4. [n EXCEPT !.tok[t] = "none"] = [n EXCEPT !.tok = tok]
  BY <1>1
<1> HIDE DEF tok
<1>5. [n EXCEPT !.tok = tok] = [permit |-> n.permit, line |-> n.line, tok |-> tok]
  BY <1>1
<1>6. NotifyOK([permit |-> n.permit, line |-> n.line, tok |-> tok], T)
  BY <1>1, <1>2, <1>3 DEF NotifyOK
<1> QED
  BY <1>4, <1>5, <1>6 DEF tok

(* Awaiting it and registering a new one changes nobody else's.            *)
LEMMA RenewOK ==
  ASSUME NEW T, NEW t \in T, NEW n, NotifyOK(n, T), Fired(n, t)
  PROVE  /\ NotifyOK(Enable([n EXCEPT !.tok[t] = "none"], t), T)
         /\ \A u \in T \ {t} : Enable([n EXCEPT !.tok[t] = "none"], t).tok[u] = n.tok[u]
         /\ Enable([n EXCEPT !.tok[t] = "none"], t).tok[t] \in {"wait", "done"}
<1> DEFINE m == [n EXCEPT !.tok[t] = "none"]
<1>1. NotifyOK(m, T) /\ m.tok = [n.tok EXCEPT ![t] = "none"]
  BY TakenOK
<1>2. n.tok \in [T -> {"none", "wait", "one", "done"}]
  BY NotifyFields
<1> HIDE DEF m
<1>3. m.tok[t] = "none" /\ m.tok \in [T -> {"none", "wait", "one", "done"}] /\ \A u \in T \ {t} : m.tok[u] = n.tok[u]
  BY <1>1, <1>2
<1>4. NotifyOK(Enable(m, t), T) /\ Enable(m, t).tok = [m.tok EXCEPT ![t] = IF m.permit THEN "done" ELSE "wait"]
  BY <1>1, <1>3, EnableOK
<1>5. Enable(m, t).tok[t] \in {"wait", "done"} /\ \A u \in T \ {t} : Enable(m, t).tok[u] = n.tok[u]
  BY <1>3, <1>4
<1> QED
  BY <1>4, <1>5 DEF m

(* What notify_one() and a dropped future change, task by task.            *)
LEMMA NotifyOneTok ==
  ASSUME NEW T, NEW n, NotifyOK(n, T)
  PROVE  \A u \in T : Notify(n).tok[u] = n.tok[u] \/ (n.tok[u] = "wait" /\ Notify(n).tok[u] = "one")
<1> DEFINE old == n.tok
           new == Notify(n).tok
<1>1. old \in [T -> {"none", "wait", "one", "done"}]
  BY NotifyFields
<1>2. new = old \/ \E v \in T : old[v] = "wait" /\ new = [old EXCEPT ![v] = "one"]
  BY NotifyOneOK
<1> SUFFICES \A u \in T : new[u] = old[u] \/ (old[u] = "wait" /\ new[u] = "one")
  OBVIOUS
<1> HIDE DEF old, new
<1> QED
  BY <1>1, <1>2

(* The one that is dropped has no future any more.                         *)
LEMMA ForgetTok ==
  ASSUME NEW T, NEW t \in T, NEW n, NotifyOK(n, T)
  PROVE  /\ Forget(n, t).tok[t] = "none"
         /\ \A u \in T \ {t} : Forget(n, t).tok[u] = n.tok[u] \/ (n.tok[u] = "wait" /\ Forget(n, t).tok[u] = "one")
<1> DEFINE old == n.tok
           new == Forget(n, t).tok
<1>1. old \in [T -> {"none", "wait", "one", "done"}]
  BY NotifyFields
<1>2. \/ new = Dropped(old, t)
      \/ \E v \in T \ {t} : old[v] = "wait" /\ new = PassedOn(old, t, v)
  BY ForgetOK
<1> SUFFICES new[t] = "none" /\ \A u \in T \ {t} : new[u] = old[u] \/ (old[u] = "wait" /\ new[u] = "one")
  OBVIOUS
<1> HIDE DEF old, new
<1> QED
  BY <1>1, <1>2 DEF Dropped, PassedOn

-----------------------------------------------------------------------------
(* The two signals and the tasks that wait on them.                        *)

(* Tasks outside push have no future of room.                              *)
Outside == {"idle", "close", "wakeroom", "wakeitems"}

(* Before the first open nobody waits.                                     *)
LEMMA SignalsInit == Init /\ AsyncInit => SignalsOK
<1> SUFFICES ASSUME AsyncInit PROVE SignalsOK
  OBVIOUS
<1>1. NotifyOK(room, Producers) /\ NotifyOK(items, {"rx"})
  BY QuiescentOK DEF AsyncInit
<1>2. (\A p \in Producers : room.tok[p] = "none") /\ items.tok["rx"] = "none"
  BY DEF AsyncInit, Quiescent
<1>3. owed \in [room : Nat, items : Nat]
  BY DEF AsyncInit
<1> QED
  BY <1>1, <1>2, <1>3 DEF SignalsOK

(* What the push tasks do to room.                                         *)
LEMMA RoomStep ==
  ASSUME TaskInv, TaskInv', SignalsOK, NEW p \in Producers,
         AsyncPush(p) \/ AsyncTryPush(p) \/ PushTask(p) \/ AbandonPush(p) \/ AsyncClose(p)
  PROVE  /\ NotifyOK(room', Producers)
         /\ \A q \in Producers : apc'[q] \in Outside => room'.tok[q] = "none"
<1>1. /\ NotifyOK(room, Producers) /\ apc \in [Producers -> TaskPC]
      /\ \A q \in Producers : apc[q] \in Outside => room.tok[q] = "none"
  BY DEF SignalsOK, TaskInv, Outside
<1>2. room.tok \in [Producers -> {"none", "wait", "one", "done"}]
  BY <1>1, NotifyFields
<1>3. ASSUME NotifyOK(room', Producers), NEW a, apc' = [apc EXCEPT ![p] = a],
             \A u \in Producers \ {p} : room'.tok[u] = room.tok[u] \/ room.tok[u] # "none",
             a \in Outside => room'.tok[p] = "none"
      PROVE  /\ NotifyOK(room', Producers)
             /\ \A q \in Producers : apc'[q] \in Outside => room'.tok[q] = "none"
  <2>1. apc'[p] = a /\ \A q \in Producers \ {p} : apc'[q] = apc[q]
    BY <1>1, <1>3
  <2> QED
    BY <1>1, <1>3, <2>1
<1>4. CASE AsyncPush(p)
  <2>1. room' = Enable(room, p) /\ apc' = [apc EXCEPT ![p] = "try"] /\ room.tok[p] # "wait"
    BY <1>1, <1>4 DEF AsyncPush, Outside
  <2>2. /\ NotifyOK(Enable(room, p), Producers)
        /\ Enable(room, p).tok = [room.tok EXCEPT ![p] = IF room.permit THEN "done" ELSE "wait"]
    BY <1>1, <2>1, EnableOK
  <2>3. \A u \in Producers \ {p} : room'.tok[u] = room.tok[u]
    BY <1>2, <2>1, <2>2
  <2> QED
    BY <1>3, <2>1, <2>2, <2>3 DEF Outside
<1>5. CASE AsyncTryPush(p) \/ AsyncWrite(p) \/ Attempt(p)
  <2>1. UNCHANGED room
    BY <1>5 DEF AsyncTryPush, AsyncWrite, Attempt
  <2>2. \E a \in {"write", "ok", "err", "closed", "full"} : apc' = [apc EXCEPT ![p] = a]
    <3>1. CASE AsyncTryPush(p) \/ Attempt(p)
      BY <3>1 DEF AsyncTryPush, Attempt
    <3>2. CASE AsyncWrite(p)
      <4>1. apc = [apc EXCEPT ![p] = "write"]
        BY <1>1, <3>2 DEF AsyncWrite
      <4> QED
        BY <3>2, <4>1 DEF AsyncWrite
    <3> QED
      BY <1>5, <3>1, <3>2
  <2> QED
    BY <1>1, <1>3, <2>1, <2>2 DEF Outside
<1>6. CASE PushReturn(p) \/ AbandonPush(p)
  <2>1. /\ room' = Forget(room, p)
        /\ apc' = [apc EXCEPT ![p] = "idle"] \/ apc' = apc
    BY <1>6 DEF PushReturn, AbandonPush
  <2>2. \E a : apc' = [apc EXCEPT ![p] = a]
    <3>1. apc = [apc EXCEPT ![p] = apc[p]]
      BY <1>1
    <3> QED
      BY <2>1, <3>1
  <2>3. NotifyOK(room', Producers)
    BY <1>1, <2>1, ForgetOK
  <2>4. /\ Forget(room, p).tok[p] = "none"
        /\ \A u \in Producers \ {p} : Forget(room, p).tok[u] = room.tok[u] \/ (room.tok[u] = "wait" /\ Forget(room, p).tok[u] = "one")
    BY <1>1, ForgetTok
  <2> QED
    BY <1>3, <2>1, <2>2, <2>3, <2>4
<1>7. CASE AwaitRoom(p)
  <2>1. Fired(room, p) /\ room' = Enable([room EXCEPT !.tok[p] = "none"], p) /\ apc' = [apc EXCEPT ![p] = "try"]
    BY <1>7 DEF AwaitRoom
  <2>2. NotifyOK(room', Producers) /\ \A u \in Producers \ {p} : room'.tok[u] = room.tok[u]
    BY <1>1, <2>1, RenewOK
  <2> QED
    BY <1>3, <2>1, <2>2 DEF Outside
<1>8. CASE AsyncClose(p)
  <2>1. PICK a \in Outside : apc' = [apc EXCEPT ![p] = a]
    BY <1>8 DEF AsyncClose, Outside
  <2>2. apc[p] \in Outside /\ room.tok[p] = "none"
    BY <1>1, <1>8 DEF AsyncClose, Outside
  <2>3. CASE UNCHANGED room
    BY <1>1, <1>3, <2>1, <2>2, <2>3
  <2>4. CASE room' = NotifyWaiters(room)
    <3>1. /\ NotifyOK(room', Producers)
          /\ \A u \in Producers : room.tok[u] # "wait" => room'.tok[u] = room.tok[u]
      BY <1>1, <2>4, NotifyWaitersOK
    <3> QED
      BY <1>3, <2>1, <2>2, <3>1
  <2> QED
    BY <1>8, <2>3, <2>4 DEF AsyncClose
<1> QED
  BY <1>4, <1>5, <1>6, <1>7, <1>8 DEF PushTask

(* What every step does to items: a signal is heard.                       *)
LEMMA ItemsStep ==
  ASSUME SignalsOK, [AsyncNext]_aqVars
  PROVE  /\ NotifyOK(items', {"rx"}) /\ owed' \in [room : Nat, items : Nat]
         /\ rpc' = "idle" => items'.tok["rx"] = "none"
<1> DEFINE rx == "rx"
           T == {rx}
<1>1. NotifyOK(items, T) /\ owed \in [room : Nat, items : Nat] /\ (rpc = "idle" => items.tok[rx] = "none") /\ rx \in T
  BY DEF SignalsOK
<1> HIDE DEF rx, T
<1> DEFINE Goal == NotifyOK(items', T) /\ owed' \in [room : Nat, items : Nat] /\ (rpc' = "idle" => items'.tok[rx] = "none")
<1> SUFFICES Goal
  BY DEF rx, T
<1>2. ASSUME UNCHANGED <<items, owed>>, rpc' = "idle" => rpc = "idle" PROVE Goal
  BY <1>1, <1>2
<1>3. ASSUME items' = Notify(items), UNCHANGED rpc, owed' \in [room : Nat, items : Nat] PROVE Goal
  <2>1. NotifyOK(Notify(items), T)
    BY <1>1, NotifyOneOK
  <2>2. Notify(items).tok[rx] = items.tok[rx] \/ items.tok[rx] = "wait"
    BY <1>1, NotifyOneTok
  <2> QED
    BY <1>1, <1>3, <2>1, <2>2
<1>4. ASSUME items' = Forget(items, rx), UNCHANGED owed PROVE Goal
  <2>1. NotifyOK(Forget(items, rx), T)
    BY <1>1, ForgetOK
  <2>2. Forget(items, rx).tok[rx] = "none"
    BY <1>1, ForgetTok
  <2> QED
    BY <1>1, <1>4, <2>1, <2>2
<1>5. CASE UNCHANGED aqVars \/ OpenAsync
  BY <1>2, <1>5 DEF aqVars, asyncVars, OpenAsync
<1>6. ASSUME NEW p \in Producers,
             AsyncPush(p) \/ AsyncTryPush(p) \/ Attempt(p) \/ AsyncWrite(p) \/ AwaitRoom(p) \/ AbandonPush(p)
      PROVE  Goal
  BY <1>2, <1>6 DEF AsyncPush, AsyncTryPush, Attempt, AsyncWrite, AwaitRoom, AbandonPush
<1>7. ASSUME NEW p \in Producers, PushReturn(p) PROVE Goal
  <2>1. UNCHANGED <<rpc, owed>> /\ (items' = Notify(items) \/ items' = items)
    BY <1>7 DEF PushReturn
  <2> QED
    BY <1>1, <1>2, <1>3, <2>1
<1>8. ASSUME NEW p \in Producers, AsyncClose(p) PROVE Goal
  <2>1. UNCHANGED <<rpc, owed>> /\ (items' = NotifyWaiters(items) \/ items' = items)
    BY <1>8 DEF AsyncClose
  <2>2. CASE items' = NotifyWaiters(items)
    <3>1. /\ NotifyOK(items', T)
          /\ \A u \in T : items.tok[u] # "wait" => items'.tok[u] = items.tok[u]
      BY <1>1, <2>2, NotifyWaitersOK
    <3> QED
      BY <1>1, <2>1, <3>1
  <2> QED
    BY <1>1, <2>1, <2>2
<1>9. CASE AsyncReserve
  <2>1. items' = Enable(items, rx) /\ rpc' = "try" /\ UNCHANGED owed /\ items.tok[rx] # "wait"
    BY <1>1, <1>9 DEF AsyncReserve, rx
  <2>2. NotifyOK(Enable(items, rx), T)
    BY <1>1, <2>1, EnableOK
  <2> QED
    BY <1>1, <2>1, <2>2
<1>10. CASE AsyncScan
  BY <1>2, <1>10 DEF AsyncScan
<1>11. CASE ReserveReturn \/ AbandonReserve
  BY <1>4, <1>11 DEF ReserveReturn, AbandonReserve, rx
<1>12. CASE CheckDrained
  <2>1. UNCHANGED owed /\ (items' = Forget(items, rx) \/ (UNCHANGED items /\ rpc' = "await"))
    BY <1>12 DEF CheckDrained, rx
  <2> QED
    BY <1>2, <1>4, <2>1
<1>13. CASE AwaitItems
  <2>1. Fired(items, rx) /\ items' = Enable([items EXCEPT !.tok[rx] = "none"], rx) /\ rpc' = "try" /\ UNCHANGED owed
    BY <1>13 DEF AwaitItems, rx
  <2>2. NotifyOK(items', T)
    BY <1>1, <2>1, RenewOK
  <2> QED
    BY <1>1, <2>1, <2>2
<1>14. ASSUME NEW g \in Guards, AsyncAck(g) \/ AsyncNack(g) PROVE Goal
  <2>1. owed' = owed \/ owed' = [owed EXCEPT !.room = @ + 1] \/ owed' = [owed EXCEPT !.items = @ + 1]
    BY <1>14 DEF AsyncAck, AsyncNack
  <2>2. owed' \in [room : Nat, items : Nat]
    BY <1>1, <2>1
  <2>3. UNCHANGED <<items, rpc>>
    BY <1>14 DEF AsyncAck, AsyncNack
  <2> QED
    BY <1>1, <2>2, <2>3
<1>15. CASE SignalRoom
  <2>1. owed.room \in Nat /\ owed.room > 0 /\ owed.items \in Nat /\ UNCHANGED <<items, rpc>>
    BY <1>1, <1>15 DEF SignalRoom
  <2>2. owed' = [room |-> owed.room - 1, items |-> owed.items + 1]
    <3>1. owed' = [owed EXCEPT !.room = @ - 1, !.items = @ + 1]
      BY <1>15 DEF SignalRoom
    <3>2. owed = [room |-> owed.room, items |-> owed.items]
      BY <1>1
    <3> QED
      BY <3>1, <3>2, Zenon
  <2>3. owed' \in [room : Nat, items : Nat]
    BY <2>1, <2>2
  <2> QED
    BY <1>1, <2>1, <2>3
<1>16. CASE SignalItems
  <2>1. owed' \in [room : Nat, items : Nat] /\ UNCHANGED rpc /\ items' = Notify(items)
    BY <1>1, <1>16 DEF SignalItems
  <2> QED
    BY <1>3, <2>1
<1> QED
  BY <1>5, <1>6, <1>7, <1>8, <1>9, <1>10, <1>11, <1>12, <1>13, <1>14, <1>15, <1>16 DEF AsyncNext, PushTask, ReserveTask

(* Every step keeps the signals in order.                                  *)
LEMMA SignalsStep ==
  ASSUME TaskInv, TaskInv', SignalsOK, [AsyncNext]_aqVars
  PROVE  SignalsOK'
<1>1. /\ NotifyOK(room, Producers) /\ apc \in [Producers -> TaskPC]
      /\ \A q \in Producers : apc[q] \in Outside => room.tok[q] = "none"
  BY DEF SignalsOK, TaskInv, Outside
<1>2. SUFFICES /\ NotifyOK(room', Producers)
               /\ \A q \in Producers : apc'[q] \in Outside => room'.tok[q] = "none"
  BY ItemsStep DEF SignalsOK, Outside
<1>3. ASSUME NEW p \in Producers, AsyncPush(p) \/ AsyncTryPush(p) \/ PushTask(p) \/ AbandonPush(p) \/ AsyncClose(p)
      PROVE  /\ NotifyOK(room', Producers)
             /\ \A q \in Producers : apc'[q] \in Outside => room'.tok[q] = "none"
  BY <1>3, RoomStep
<1>4. CASE UNCHANGED <<room, apc>>
  BY <1>1, <1>4
<1>5. CASE SignalRoom
  <2>1. room' = Notify(room) /\ UNCHANGED apc
    BY <1>5 DEF SignalRoom
  <2>2. NotifyOK(Notify(room), Producers)
    BY <1>1, NotifyOneOK
  <2>3. \A u \in Producers : Notify(room).tok[u] = room.tok[u] \/ (room.tok[u] = "wait" /\ Notify(room).tok[u] = "one")
    BY <1>1, NotifyOneTok
  <2> QED
    BY <1>1, <2>1, <2>2, <2>3
<1>6. CASE UNCHANGED aqVars \/ OpenAsync
  BY <1>4, <1>6 DEF aqVars, asyncVars, OpenAsync
<1>7. CASE AsyncReserve \/ ReserveTask \/ AbandonReserve \/ SignalItems
  BY <1>4, <1>7 DEF AsyncReserve, ReserveTask, AsyncScan, ReserveReturn, CheckDrained, AwaitItems, AbandonReserve, SignalItems
<1>8. ASSUME NEW g \in Guards, AsyncAck(g) \/ AsyncNack(g) PROVE UNCHANGED <<room, apc>>
  BY <1>8 DEF AsyncAck, AsyncNack
<1> QED
  BY <1>3, <1>4, <1>5, <1>6, <1>7, <1>8 DEF AsyncNext

-----------------------------------------------------------------------------
(* Nothing to hand out.                                                    *)

(* A step that takes no signal off its way, and leaves what the scan sees  *)
(* and has seen.                                                           *)
LEMMA ScanFrame ==
  ASSUME ScanInv, UNCHANGED <<cpc, cursor, found, rpc, items, itemsMissed, live, reserved>>,
         ItemsPending => ItemsPending',
         UNCHANGED <<closed, len>> \/ (~closed /\ UNCHANGED closed)
  PROVE  ScanInv'
<1>1. Stored' = Stored
  BY DEF Stored
<1>2. Unheard' => Unheard
  BY DEF Unheard
<1>3. Seen => Seen'
  BY <1>1 DEF Seen, is_drained
<1> QED
  BY <1>2, <1>3 DEF ScanInv

(* A step after which a signal is on its way, reserve has been told, or    *)
(* something has gone unsignalled.                                         *)
LEMMA ScanHeard ==
  ASSUME ScanInv, ~Unheard', UNCHANGED <<cpc, rpc>>
  PROVE  ScanInv'
  BY DEF ScanInv

(* After notify_one() on items, reserve does not wait unheard.             *)
LEMMA Heard ==
  ASSUME NEW n, NotifyOK(n, {"rx"})
  PROVE  Notify(n).tok["rx"] # "wait" /\ NotifyWaiters(n).tok["rx"] # "wait"
<1> DEFINE rx == "rx"
           T == {rx}
           old == n.tok
           new == Notify(n).tok
<1>1. NotifyOK(n, T) /\ rx \in T /\ \A u \in T : u = rx
  OBVIOUS
<1> HIDE DEF rx, T
<1>2. old \in [T -> {"none", "wait", "one", "done"}]
  BY <1>1, NotifyFields
<1>3. \/ new = old /\ \A u \in T : old[u] # "wait"
      \/ \E u \in T : old[u] = "wait" /\ new = [old EXCEPT ![u] = "one"]
  BY <1>1, NotifyOneOK
<1>4. NotifyWaiters(n).tok \in [T -> {"none", "one", "done"}]
  BY <1>1, NotifyWaitersOK
<1> HIDE DEF old, new
<1>5. new[rx] # "wait"
  BY <1>1, <1>2, <1>3
<1> QED
  BY <1>1, <1>4, <1>5 DEF rx, new

(* A push task moves on: the signals under way stay so.                    *)
LEMMA PushPending ==
  ASSUME TypeInv, NEW p \in Producers, NEW a, NEW c,
         apc \in [Producers -> TaskPC], apc' = [apc EXCEPT ![p] = a], ppc' = [ppc EXCEPT ![p] = c],
         apc[p] \notin {"ok", "close", "wakeroom", "wakeitems"}, ppc[p] # "flush", UNCHANGED <<owed, gpc>>
  PROVE  ItemsPending => ItemsPending'
<1>1. ThreadsOK
  BY DEF TypeInv, TypeOK
<1>2. \A q \in Producers \ {p} : apc'[q] = apc[q] /\ ppc'[q] = ppc[q]
  BY <1>1 DEF ThreadsOK
<1> QED
  BY <1>2 DEF ItemsPending

(* What a push task does while reserve may be waiting.                     *)
LEMMA ScanPush ==
  ASSUME TypeInv, TaskInv, SignalsOK, ScanInv, NEW p \in Producers,
         AsyncPush(p) \/ AsyncTryPush(p) \/ PushTask(p) \/ AbandonPush(p)
  PROVE  ScanInv'
<1>1. /\ ThreadsOK /\ apc \in [Producers -> TaskPC]
      /\ \A q \in Producers : apc[q] \notin {"write", "close"} => ppc[q] = "idle"
  BY DEF TypeInv, TypeOK, TaskInv
<1>2. apc = [apc EXCEPT ![p] = apc[p]] /\ ppc = [ppc EXCEPT ![p] = ppc[p]]
  BY <1>1 DEF ThreadsOK
<1> USE DEF storeVars, innerVars, prodVars, consVars, guardVars, histVars
<1>3. ASSUME UNCHANGED vars, UNCHANGED <<rpc, items, itemsMissed, owed>>, NEW a, apc' = [apc EXCEPT ![p] = a],
             apc[p] \notin {"ok", "write", "close", "wakeroom", "wakeitems"}
      PROVE  ScanInv'
  <2>1. ppc[p] = "idle" /\ UNCHANGED <<cpc, cursor, found, live, reserved, closed, len, gpc, ppc>>
    BY <1>1, <1>3 DEF vars
  <2>2. ItemsPending => ItemsPending'
    BY <1>1, <1>2, <1>3, <2>1, PushPending
  <2> QED
    BY <1>3, <2>1, <2>2, ScanFrame
<1>4. ASSUME ~closed, NEW i, Claim(p, i), ppc[p] = "idle", UNCHANGED <<storeVars, consVars, guardVars>>,
             UNCHANGED <<rpc, items, itemsMissed, owed>>, NEW a, apc' = [apc EXCEPT ![p] = a],
             apc[p] \notin {"ok", "close", "wakeroom", "wakeitems"}
      PROVE  ScanInv'
  <2>1. ppc' = [ppc EXCEPT ![p] = "apply"] /\ UNCHANGED <<cpc, cursor, found, live, reserved, closed, gpc>>
    BY <1>4 DEF Claim
  <2>2. ItemsPending => ItemsPending'
    BY <1>1, <1>4, <2>1, PushPending
  <2> QED
    BY <1>4, <2>1, <2>2, ScanFrame
<1>5. CASE AsyncPush(p) \/ AwaitRoom(p)
  BY <1>3, <1>5 DEF AsyncPush, AwaitRoom
<1>6. CASE AsyncTryPush(p)
  BY <1>4, <1>6 DEF AsyncTryPush, TryPush
<1>7. CASE Attempt(p)
  <2>1. apc[p] = "try" /\ ppc[p] = "idle" /\ UNCHANGED <<rpc, items, itemsMissed, owed>>
    BY <1>1, <1>7 DEF Attempt
  <2>2. CASE UNCHANGED vars /\ \E a : apc' = [apc EXCEPT ![p] = a]
    BY <1>3, <2>1, <2>2
  <2>3. CASE /\ ~closed /\ Claim(p, aitem[p]) /\ apc' = [apc EXCEPT ![p] = "write"]
             /\ UNCHANGED <<storeVars, consVars, guardVars, restarts>>
    BY <1>4, <2>1, <2>3
  <2> QED
    BY <1>7, <2>2, <2>3 DEF Attempt
<1>8. CASE AbandonPush(p)
  <2>1. UNCHANGED vars /\ UNCHANGED <<rpc, items, itemsMissed, owed, apc>>
    BY <1>8 DEF AbandonPush
  <2>2. UNCHANGED <<cpc, cursor, found, live, reserved, closed, len, gpc, ppc>>
    BY <2>1 DEF vars
  <2>3. ItemsPending => ItemsPending'
    BY <2>1, <2>2 DEF ItemsPending
  <2> QED
    BY <2>1, <2>2, <2>3, ScanFrame
<1>9. CASE PushReturn(p)
  <2>1. UNCHANGED vars /\ UNCHANGED <<rpc, owed>> /\ apc' = [apc EXCEPT ![p] = "idle"]
    BY <1>9 DEF PushReturn
  <2>2. UNCHANGED cpc
    BY <2>1 DEF vars
  <2>3. CASE apc[p] = "ok" /\ p \in left
    BY <1>9, <2>1, <2>2, <2>3, ScanHeard DEF PushReturn, Unheard
  <2>4. CASE apc[p] = "ok" /\ p \notin left
    <3>1. items' = Notify(items) /\ NotifyOK(items, {"rx"})
      BY <1>9, <2>4 DEF PushReturn, SignalsOK
    <3>2. items'.tok["rx"] # "wait"
      BY <3>1, Heard
    <3> QED
      BY <2>1, <2>2, <3>2, ScanHeard DEF Unheard
  <2>5. CASE apc[p] # "ok"
    <3>1. UNCHANGED items /\ itemsMissed' = (itemsMissed \/ FALSE) /\ apc[p] \in {"err", "closed", "full"}
      BY <1>9, <2>5 DEF PushReturn
    <3>2. UNCHANGED <<cpc, cursor, found, live, reserved, closed, len, gpc, ppc>>
      BY <2>1 DEF vars
    <3>3. ItemsPending => ItemsPending'
      BY <1>1, <1>2, <2>1, <3>1, <3>2, PushPending
    <3>4. Unheard' => Unheard
      BY <3>1, <3>3 DEF Unheard
    <3>5. Seen => Seen'
      BY <2>1, <3>2 DEF Seen, is_drained, Stored
    <3> QED
      BY <2>1, <2>2, <3>4, <3>5 DEF ScanInv
  <2> QED
    BY <2>3, <2>4, <2>5
<1>10. CASE AsyncWrite(p)
  <2>1. apc[p] = "write" /\ UNCHANGED <<rpc, items, owed>>
    BY <1>10 DEF AsyncWrite
  <2>2. CASE WriteApply(p) /\ UNCHANGED <<apc, itemsMissed>>
    <3>1. ppc'[p] = "flush" /\ UNCHANGED cpc
      BY <1>1, <2>2 DEF WriteApply, ThreadsOK
    <3> QED
      BY <2>1, <3>1, ScanHeard DEF Unheard, ItemsPending
  <2>3. CASE WriteErr(p) /\ itemsMissed' = (itemsMissed \/ ppc[p] = "flush") /\ UNCHANGED apc
    <3>1. CASE ppc[p] = "flush"
      BY <2>1, <2>3, <3>1, ScanHeard DEF WriteErr, Unheard
    <3>2. CASE ppc[p] # "flush"
      <4>1. ppc' = [ppc EXCEPT ![p] = "giveback"] /\ UNCHANGED <<cpc, cursor, found, live, reserved, closed, len, gpc>>
        BY <2>3 DEF WriteErr
      <4>2. ItemsPending => ItemsPending'
        BY <1>1, <1>2, <2>1, <2>3, <3>2, <4>1, PushPending
      <4>3. Unheard' => Unheard
        BY <2>1, <2>3, <4>2 DEF Unheard
      <4>4. Seen => Seen'
        BY <2>1, <4>1 DEF Seen, is_drained, Stored
      <4> QED
        BY <2>1, <4>1, <4>3, <4>4 DEF ScanInv
    <3> QED
      BY <3>1, <3>2
  <2>4. CASE WriteOk(p) /\ apc' = [apc EXCEPT ![p] = "ok"] /\ UNCHANGED itemsMissed
    <3>1. apc'[p] = "ok" /\ UNCHANGED cpc
      BY <1>1, <2>4 DEF WriteOk
    <3> QED
      BY <2>1, <3>1, ScanHeard DEF Unheard, ItemsPending
  <2>5. CASE GiveBack(p) /\ itemsMissed'
    BY <2>1, <2>5, ScanHeard DEF GiveBack, Unheard
  <2>6. CASE WriteNotify(p) /\ apc' = [apc EXCEPT ![p] = "err"] /\ UNCHANGED itemsMissed
    <3>1. ppc[p] = "notify" /\ UNCHANGED <<cpc, cursor, found, live, reserved, closed, len, gpc>>
      BY <2>6 DEF WriteNotify
    <3>2. \A q \in Producers : ppc[q] = "flush" => ppc'[q] = "flush"
      <4>1. \A q \in Producers : ppc'[q] # ppc[q] => q = p \/ (ppc[q] = "waiting" /\ ppc'[q] = "woken")
        BY <1>1, <2>6, WriteNotifyEffect
      <4> QED
        BY <3>1, <4>1
    <3>3. \A q \in Producers \ {p} : apc'[q] = apc[q]
      BY <1>1, <2>6
    <3>4. ItemsPending => ItemsPending'
      BY <2>1, <3>1, <3>2, <3>3 DEF ItemsPending
    <3> QED
      BY <2>1, <2>6, <3>1, <3>4, ScanFrame
  <2> QED
    BY <1>10, <2>2, <2>3, <2>4, <2>5, <2>6 DEF AsyncWrite
<1> QED
  BY <1>5, <1>6, <1>7, <1>8, <1>9, <1>10 DEF PushTask

(* What close does while reserve may be waiting.                           *)
LEMMA ScanClose ==
  ASSUME TaskInv, SignalsOK, ScanInv, NEW p \in Producers, AsyncClose(p)
  PROVE  ScanInv'
<1>1. apc \in [Producers -> TaskPC] /\ NotifyOK(items, {"rx"}) /\ UNCHANGED rpc
  BY DEF TaskInv, SignalsOK, AsyncClose
<1>2. UNCHANGED cpc
  BY DEF AsyncClose, Close, CloseNotify, vars, consVars
<1>3. CASE \E a \in {"close", "wakeroom", "wakeitems"} : apc' = [apc EXCEPT ![p] = a]
  <2>1. apc'[p] \in {"close", "wakeroom", "wakeitems"}
    BY <1>1, <1>3
  <2> QED
    BY <1>1, <1>2, <2>1, ScanHeard DEF Unheard, ItemsPending
<1>4. CASE items' = NotifyWaiters(items)
  BY <1>1, <1>2, <1>4, Heard, ScanHeard DEF Unheard
<1> QED
  BY <1>3, <1>4 DEF AsyncClose

(* The scan itself: it starts at head, below which nothing is stored, and  *)
(* steps over reserved entries only.                                       *)
LEMMA ScanScan ==
  ASSUME TypeInv, HeadSafe, ScanInv, AsyncScan
  PROVE  ScanInv'
<1>1. /\ cursor \in Nat /\ found \in Nat /\ head \in Nat /\ \A s \in Stored : s \in Nat
  BY DEF TypeInv, TypeOK, ThreadsOK, InnerOK, Stored
<1>2. UNCHANGED <<items, apc, owed>> /\ cpc \in {"idle", "seek", "check"}
  BY DEF AsyncScan, ReserveStart, ReserveSeek, ReserveSkip, ReserveTake, ReserveNone
<1> USE DEF storeVars, innerVars, prodVars, consVars, guardVars, histVars
<1>3. CASE rpc = "try" /\ ReserveStart /\ rpc' = "scan"
  <2>1. cpc' = "seek" /\ cursor' = head /\ UNCHANGED <<live, reserved>> /\ Up
    BY <1>3 DEF ReserveStart, Up
  <2>2. Seen'
    BY <1>1, <1>3, <2>1 DEF Seen, HeadSafe, Stored
  <2> QED
    BY <1>3, <2>1, <2>2 DEF ScanInv
<1>4. CASE rpc = "scan" /\ UNCHANGED itemsMissed
           /\ (((ReserveSeek \/ ReserveSkip) /\ UNCHANGED rpc) \/ (Seek(cursor) = {} /\ ReserveNone /\ rpc' = "none"))
  <2>1. UNCHANGED <<live, reserved, ppc, gpc>>
    BY <1>4 DEF ReserveSeek, ReserveSkip, ReserveNone
  <2>2. Unheard' => Unheard
    BY <1>2, <1>4, <2>1 DEF Unheard, ItemsPending
  <2>3. Stored' = Stored
    BY <2>1 DEF Stored
  <2>4. CASE ReserveSeek /\ UNCHANGED rpc
    <3>1. cpc = "seek" /\ cpc' = "check" /\ found' \in Stored /\ \A t \in Stored : t >= cursor => found' <= t
      BY <2>4 DEF ReserveSeek, Seek
    <3>2. Seen => \A t \in Stored : t < found' => t \in reserved
      BY <1>1, <3>1 DEF Seen
    <3>3. Seen => Seen'
      BY <1>4, <2>1, <2>3, <2>4, <3>1, <3>2 DEF Seen
    <3> QED
      BY <1>4, <2>2, <2>4, <3>1, <3>3 DEF ScanInv
  <2>5. CASE ReserveSkip /\ UNCHANGED rpc
    <3>1. cpc = "check" /\ cpc' = "seek" /\ cursor' = found + 1 /\ found \in reserved
      BY <2>5 DEF ReserveSkip
    <3>2. Seen => \A t \in Stored : t < found + 1 => t \in reserved
      BY <1>1, <3>1 DEF Seen
    <3>3. Seen => Seen'
      BY <1>4, <2>1, <2>3, <2>5, <3>1, <3>2 DEF Seen
    <3> QED
      BY <1>4, <2>2, <2>5, <3>1, <3>3 DEF ScanInv
  <2>6. CASE Seek(cursor) = {} /\ ReserveNone /\ rpc' = "none"
    <3>1. cpc = "seek" /\ cpc' = "idle" /\ \A t \in Stored : t < cursor
      BY <1>1, <2>6, SeekNothing DEF ReserveNone
    <3>2. Seen => Seen'
      BY <2>1, <2>3, <2>6, <3>1 DEF Seen
    <3> QED
      BY <2>2, <2>6, <3>1, <3>2 DEF ScanInv
  <2> QED
    BY <1>4, <2>4, <2>5, <2>6
<1>5. CASE (ReserveTake /\ rpc' = "got") \/ (ReserveNone /\ rpc' = "err")
  <2>1. cpc' = "idle" /\ rpc' \in {"got", "err"}
    BY <1>5 DEF ReserveTake, HandOut, ReserveNone
  <2> QED
    BY <2>1 DEF ScanInv, Seen
<1> QED
  BY <1>3, <1>4, <1>5 DEF AsyncScan

(* What acks, nacks and drops do while reserve may be waiting.             *)
LEMMA ScanGuard ==
  ASSUME TypeInv, SignalsOK, ScanInv, NEW g \in Guards, AsyncAck(g) \/ AsyncNack(g)
  PROVE  ScanInv'
<1>1. ThreadsOK /\ owed \in [room : Nat, items : Nat] /\ live \in [Seqs -> Values]
  BY DEF TypeInv, TypeOK, StoreTypeOK, SignalsOK
<1>2. UNCHANGED <<rpc, items, apc>>
  BY DEF AsyncAck, AsyncNack
<1> USE DEF storeVars, innerVars, prodVars, consVars, guardVars, histVars
<1>3. CASE AckApply(g) /\ UNCHANGED <<owed, itemsMissed>>
  <2>1. /\ live' = [live EXCEPT ![gseq[g]] = NoItem] /\ gpc[g] = "held" /\ gpc' = [gpc EXCEPT ![g] = "flush"]
        /\ UNCHANGED <<cpc, cursor, found, reserved, closed, len, ppc>>
    BY <1>3 DEF AckApply, CanCall, Apply
  <2>2. Stored' \subseteq Stored
    BY <1>1, <2>1 DEF Stored
  <2>3. \A h \in Guards : gpc[h] = "notify" => gpc'[h] = "notify"
    BY <1>1, <2>1 DEF ThreadsOK
  <2>4. Unheard' => Unheard
    BY <1>2, <1>3, <2>1, <2>3 DEF Unheard, ItemsPending
  <2>5. Seen => Seen'
    BY <1>2, <2>1, <2>2 DEF Seen, is_drained
  <2> QED
    BY <1>2, <2>1, <2>4, <2>5 DEF ScanInv
<1>4. CASE AckOk(g) /\ UNCHANGED <<owed, itemsMissed>>
  <2>1. /\ gpc[g] = "flush" /\ gpc' = [gpc EXCEPT ![g] = "settle"]
        /\ UNCHANGED <<cpc, cursor, found, live, reserved, closed, len, ppc>>
    BY <1>4 DEF AckOk
  <2>2. \A h \in Guards : gpc[h] = "notify" => gpc'[h] = "notify"
    BY <1>1, <2>1 DEF ThreadsOK
  <2>3. ItemsPending => ItemsPending'
    BY <1>2, <1>4, <2>1, <2>2 DEF ItemsPending
  <2> QED
    BY <1>2, <1>4, <2>1, <2>3, ScanFrame
<1>5. CASE AckSettle(g)
  <2>1. gpc'[g] = "notify" /\ UNCHANGED cpc
    BY <1>1, <1>5 DEF AckSettle, ThreadsOK
  <2> QED
    BY <1>2, <2>1, ScanHeard DEF Unheard, ItemsPending
<1>6. CASE AckNotify(g) /\ owed' = [owed EXCEPT !.room = @ + 1]
  <2>1. owed'.room > 0 /\ UNCHANGED cpc
    BY <1>1, <1>6 DEF AckNotify
  <2> QED
    BY <1>2, <2>1, ScanHeard DEF Unheard, ItemsPending
<1>7. CASE AckErr(g) /\ itemsMissed'
  BY <1>2, <1>7, ScanHeard DEF AckErr, Unheard
<1>8. CASE AckNotify(g) /\ itemsMissed'
  BY <1>2, <1>8, ScanHeard DEF AckNotify, Unheard
<1>9. CASE AsyncNack(g)
  <2>1. owed'.items > 0 /\ UNCHANGED cpc
    BY <1>1, <1>9 DEF AsyncNack
  <2> QED
    BY <1>2, <2>1, ScanHeard DEF Unheard, ItemsPending
<1> QED
  BY <1>3, <1>4, <1>5, <1>6, <1>7, <1>8, <1>9 DEF AsyncAck

(* Every step keeps it.                                                    *)
LEMMA ScanInvStep ==
  ASSUME TypeInv, HeadSafe, TaskInv, SignalsOK, ScanInv, [AsyncNext]_aqVars
  PROVE  ScanInv'
<1>1. owed \in [room : Nat, items : Nat] /\ NotifyOK(items, {"rx"})
  BY DEF SignalsOK
<1> USE DEF storeVars, innerVars, prodVars, consVars, guardVars, histVars
<1>2. CASE UNCHANGED aqVars
  <2>1. UNCHANGED <<cpc, cursor, found, rpc, items, itemsMissed, live, reserved, closed, len>>
    BY <1>2 DEF aqVars, asyncVars, vars
  <2>2. ItemsPending => ItemsPending'
    BY <1>2 DEF ItemsPending, aqVars, asyncVars, vars
  <2> QED
    BY <2>1, <2>2, ScanFrame
<1>3. CASE OpenAsync
  <2>1. cpc \in {"down", "recover"} /\ cpc' \in {"down", "recover", "idle"} /\ UNCHANGED rpc
    BY <1>3 DEF OpenAsync, asyncVars, OpenStart, OpenErr, RecoverEntry, RecoverDone, RecoverErr
  <2>2. rpc = "idle"
    BY <2>1 DEF TaskInv, Up
  <2> QED
    BY <2>1, <2>2 DEF ScanInv, Seen
<1>4. ASSUME NEW p \in Producers, AsyncPush(p) \/ AsyncTryPush(p) \/ PushTask(p) \/ AbandonPush(p) \/ AsyncClose(p)
      PROVE  ScanInv'
  BY <1>4, ScanPush, ScanClose
<1>5. CASE AsyncReserve \/ ReserveReturn \/ AwaitItems \/ AbandonReserve
  <2>1. rpc # "scan" /\ rpc' \in {"idle", "try"} /\ UNCHANGED vars
    BY <1>5 DEF AsyncReserve, ReserveReturn, AwaitItems, AbandonReserve
  <2>2. UNCHANGED cpc
    BY <2>1 DEF vars
  <2> QED
    BY <2>1, <2>2 DEF ScanInv, Seen
<1>6. CASE CheckDrained
  <2>1. rpc = "none" /\ UNCHANGED <<cpc, cursor, found, live, reserved, closed, len, ppc, gpc, owed, apc, itemsMissed>>
    BY <1>6 DEF CheckDrained, vars
  <2>2. CASE rpc' = "idle"
    BY <2>1, <2>2 DEF ScanInv, Seen
  <2>3. CASE ~is_drained /\ rpc' = "await" /\ UNCHANGED items
    <3>1. Unheard' => Unheard
      BY <2>1, <2>3 DEF Unheard, ItemsPending
    <3>2. Seen => Seen'
      BY <2>1, <2>3 DEF Seen, is_drained, Stored
    <3> QED
      BY <2>1, <2>3, <3>1, <3>2 DEF ScanInv
  <2> QED
    BY <1>6, <2>2, <2>3 DEF CheckDrained
<1>7. CASE AsyncScan
  BY <1>7, ScanScan
<1>8. ASSUME NEW g \in Guards, AsyncAck(g) \/ AsyncNack(g) PROVE ScanInv'
  BY <1>8, ScanGuard
<1>9. CASE SignalRoom
  <2>1. owed'.items > 0 /\ UNCHANGED vars /\ UNCHANGED rpc
    BY <1>1, <1>9 DEF SignalRoom
  <2>2. UNCHANGED cpc
    BY <2>1 DEF vars
  <2> QED
    BY <2>1, <2>2, ScanHeard DEF Unheard, ItemsPending
<1>10. CASE SignalItems
  <2>1. items' = Notify(items) /\ UNCHANGED vars /\ UNCHANGED rpc
    BY <1>10 DEF SignalItems
  <2>2. UNCHANGED cpc
    BY <2>1 DEF vars
  <2> QED
    BY <1>1, <2>1, <2>2, Heard, ScanHeard DEF Unheard
<1> QED
  BY <1>2, <1>3, <1>4, <1>5, <1>6, <1>7, <1>8, <1>9, <1>10 DEF AsyncNext, ReserveTask

(* The core, the tasks and the signals together.                           *)
FacadeInv == CoreInv /\ TaskInv /\ SignalsOK /\ ScanInv

(* It holds before the first open ...                                      *)
LEMMA FacadeInit == Init /\ AsyncInit => FacadeInv
<1>1. Init /\ AsyncInit => ScanInv
  BY DEF Init, AsyncInit, ScanInv, Seen
<1> QED
  BY <1>1, AsyncCoreInit, SignalsInit DEF FacadeInv

(* ... and every step keeps it.                                            *)
LEMMA FacadeStep == FacadeInv /\ [AsyncNext]_aqVars => FacadeInv'
<1> SUFFICES ASSUME FacadeInv, [AsyncNext]_aqVars PROVE FacadeInv'
  OBVIOUS
<1>1. CoreInv /\ TaskInv /\ SignalsOK /\ ScanInv /\ TypeInv
  BY DEF FacadeInv, CoreInv
<1>2. HeadSafe
  BY <1>1, NothingBelowHead DEF CoreInv
<1>3. CoreInv' /\ TaskInv'
  BY <1>1, AsyncCoreStep
<1>4. SignalsOK' /\ ScanInv'
  BY <1>1, <1>2, <1>3, SignalsStep, ScanInvStep
<1> QED
  BY <1>3, <1>4 DEF FacadeInv

(* Whatever the store, whichever commits fail, with any number of push     *)
(* tasks abandoned at any await and acks from any thread: while reserve    *)
(* waits, and nothing has gone unsignalled since its scan began, either    *)
(* there is nothing to hand out and more may come, or the signal that      *)
(* wakes it is on its way.                                                 *)
THEOREM ReserveIsSignalled == AsyncSpec => []ItemsSignalled
<1>1. FacadeInv => ItemsSignalled
  BY DEF FacadeInv, ScanInv, Seen, Unheard, ItemsSignalled
<1> QED
  BY <1>1, FacadeInit, FacadeStep, PTL DEF AsyncSpec

-----------------------------------------------------------------------------
(* Room for a push.                                                        *)

(* A push task that falls asleep has found a queue that is open, and full. *)
LEMMA AsleepGrows ==
  ASSUME TypeInv, TaskInv, SignalsOK, [AsyncNext]_aqVars, NEW p \in Producers, p \in Asleep', p \notin Asleep
  PROVE  Attempt(p) /\ ~closed /\ UNCHANGED <<vars, room, owed>> /\ ~Admits(len, bytes, Size[aitem[p]])
<1>1. /\ NotifyOK(room, Producers) /\ apc \in [Producers -> TaskPC]
      /\ apc'[p] = "full" /\ room'.tok[p] = "wait" /\ ~(apc[p] = "full" /\ room.tok[p] = "wait")
  BY DEF SignalsOK, TaskInv, Asleep
<1>2. room.tok \in [Producers -> {"none", "wait", "one", "done"}]
  BY <1>1, NotifyFields
<1>3. ~UNCHANGED <<room, apc>>
  BY <1>1
<1>4. CASE UNCHANGED aqVars \/ OpenAsync \/ AsyncReserve \/ ReserveTask \/ AbandonReserve \/ SignalItems
  BY <1>3, <1>4 DEF aqVars, asyncVars, OpenAsync, AsyncReserve, ReserveTask, AsyncScan, ReserveReturn, CheckDrained,
                    AwaitItems, AbandonReserve, SignalItems
<1>5. ASSUME NEW g \in Guards, AsyncAck(g) \/ AsyncNack(g) PROVE UNCHANGED <<room, apc>>
  BY <1>5 DEF AsyncAck, AsyncNack
<1>6. CASE SignalRoom
  <2>1. room' = Notify(room) /\ UNCHANGED apc
    BY <1>6 DEF SignalRoom
  <2>2. Notify(room).tok[p] = room.tok[p] \/ Notify(room).tok[p] = "one"
    BY <1>1, NotifyOneTok
  <2> QED
    BY <1>1, <2>1, <2>2
<1>7. ASSUME NEW q \in Producers, AsyncPush(q) \/ AsyncTryPush(q) \/ AsyncWrite(q) \/ AwaitRoom(q)
      PROVE  FALSE
  <2>1. \E a \in TaskPC \ {"full"} : apc' = [apc EXCEPT ![q] = a]
    <3>1. CASE AsyncWrite(q)
      <4>1. apc = [apc EXCEPT ![q] = "write"]
        BY <1>1, <3>1 DEF AsyncWrite
      <4> QED
        BY <3>1, <4>1 DEF AsyncWrite, TaskPC
    <3> QED
      BY <1>7, <3>1 DEF AsyncPush, AsyncTryPush, AwaitRoom, TaskPC
  <2>2. p # q /\ apc[p] = "full"
    BY <1>1, <2>1
  <2>3. CASE AsyncPush(q)
    <3>1. room' = Enable(room, q) /\ room.tok[q] # "wait"
      BY <2>3 DEF AsyncPush, SignalsOK
    <3>2. Enable(room, q).tok = [room.tok EXCEPT ![q] = IF room.permit THEN "done" ELSE "wait"]
      BY <1>1, <3>1, EnableOK
    <3>3. room'.tok[p] = room.tok[p]
      BY <1>2, <2>2, <3>1, <3>2
    <3> QED
      BY <1>1, <2>2, <3>3
  <2>4. CASE AwaitRoom(q)
    <3>1. Fired(room, q) /\ room' = Enable([room EXCEPT !.tok[q] = "none"], q)
      BY <2>4 DEF AwaitRoom
    <3>2. room'.tok[p] = room.tok[p]
      BY <1>1, <2>2, <3>1, RenewOK
    <3> QED
      BY <1>1, <2>2, <3>2
  <2>5. CASE AsyncTryPush(q) \/ AsyncWrite(q)
    BY <1>1, <2>2, <2>5 DEF AsyncTryPush, AsyncWrite
  <2> QED
    BY <1>7, <2>3, <2>4, <2>5
<1>8. ASSUME NEW q \in Producers, PushReturn(q) \/ AbandonPush(q) PROVE FALSE
  <2>1. room' = Forget(room, q) /\ (apc' = [apc EXCEPT ![q] = "idle"] \/ apc' = apc)
    BY <1>8 DEF PushReturn, AbandonPush
  <2>2. /\ Forget(room, q).tok[q] = "none"
        /\ \A u \in Producers \ {q} : Forget(room, q).tok[u] = room.tok[u] \/ (room.tok[u] = "wait" /\ Forget(room, q).tok[u] = "one")
    BY <1>1, ForgetTok
  <2>3. p # q
    BY <1>1, <2>1, <2>2
  <2>4. apc'[p] = apc[p]
    BY <1>1, <2>1, <2>3
  <2> QED
    BY <1>1, <2>1, <2>2, <2>3, <2>4
<1>9. ASSUME NEW q \in Producers, AsyncClose(q) PROVE FALSE
  <2>1. \E a \in TaskPC \ {"full"} : apc' = [apc EXCEPT ![q] = a]
    BY <1>9 DEF AsyncClose, TaskPC
  <2>2. p # q /\ apc[p] = "full"
    BY <1>1, <2>1
  <2>3. room' = room \/ room' = NotifyWaiters(room)
    BY <1>9 DEF AsyncClose
  <2>4. NotifyWaiters(room).tok \in [Producers -> {"none", "one", "done"}]
    BY <1>1, NotifyWaitersOK
  <2> QED
    BY <1>1, <2>2, <2>3, <2>4
<1>10. ASSUME NEW q \in Producers, Attempt(q)
       PROVE  p = q /\ ~closed /\ UNCHANGED <<vars, room, owed>> /\ ~Admits(len, bytes, Size[aitem[p]])
  <2>1. UNCHANGED <<room, owed>> /\ \E a \in TaskPC : apc' = [apc EXCEPT ![q] = a]
    BY <1>10 DEF Attempt, TaskPC
  <2>2. p = q
    BY <1>1, <2>1
  <2>3. apc' # [apc EXCEPT ![p] = "closed"] /\ apc' # [apc EXCEPT ![p] = "write"]
    BY <1>1
  <2> QED
    BY <1>10, <2>1, <2>2, <2>3 DEF Attempt
<1> QED
  BY <1>3, <1>4, <1>5, <1>6, <1>7, <1>8, <1>9, <1>10 DEF AsyncNext, PushTask

(* The tasks and guards that are counted are finitely many.                *)
LEMMA CoverFinite ==
  ASSUME IsFiniteSet(Producers), IsFiniteSet(Guards)
  PROVE  /\ IsFiniteSet(Telling) /\ IsFiniteSet(Notified) /\ IsFiniteSet(Trying)
         /\ Cardinality(Telling) \in Nat /\ Cardinality(Notified) \in Nat /\ Cardinality(Trying) \in Nat
         /\ IsFiniteSet(Telling') /\ IsFiniteSet(Notified') /\ IsFiniteSet(Trying')
         /\ Cardinality(Telling') \in Nat /\ Cardinality(Notified') \in Nat /\ Cardinality(Trying') \in Nat
<1>1. /\ Telling \subseteq Guards /\ Notified \subseteq Producers /\ Trying \subseteq Producers
      /\ Telling' \subseteq Guards /\ Notified' \subseteq Producers /\ Trying' \subseteq Producers
  BY DEF Telling, Notified, Trying
<1> QED
  BY <1>1, FS_Subset, FS_CardinalityType

(* One more in a finite set, and one less.                                 *)
LEMMA OneMore ==
  ASSUME NEW S, IsFiniteSet(S), NEW x, x \notin S
  PROVE  Cardinality(S \cup {x}) = Cardinality(S) + 1
  BY FS_AddElement

(* The other way round.                                                    *)
LEMMA OneLess ==
  ASSUME NEW S, IsFiniteSet(S), NEW x \in S
  PROVE  Cardinality(S \ {x}) = Cardinality(S) - 1
  BY FS_RemoveElement

(* A future that is dropped, or the end of its push: what it alone had     *)
(* been told is told to another one, or nobody waits.                      *)
LEMMA ForgetCovers ==
  ASSUME SignalsOK, IsFiniteSet(Producers), IsFiniteSet(Guards), NEW p \in Producers, room' = Forget(room, p), Asleep' # {}
  PROVE  Cardinality(Notified') = Cardinality(Notified)
<1> DEFINE old == room.tok
           new == Forget(room, p).tok
<1>1. NotifyOK(room, Producers) /\ old \in [Producers -> {"none", "wait", "one", "done"}]
  BY NotifyFields DEF SignalsOK
<1>2. \/ new = Dropped(old, p) /\ (old[p] = "one" => \A u \in Producers : old[u] # "wait")
      \/ old[p] = "one" /\ \E u \in Producers \ {p} : old[u] = "wait" /\ new = PassedOn(old, p, u)
  BY <1>1, ForgetOK
<1>3. /\ Notified = {q \in Producers : old[q] = "one"} /\ Notified' = {q \in Producers : new[q] = "one"}
      /\ \E q \in Producers : new[q] = "wait"
  BY DEF Notified, Asleep
<1> HIDE DEF old, new
<1>4. CASE new = Dropped(old, p) /\ old[p] # "one"
  BY <1>1, <1>3, <1>4 DEF Dropped
<1>5. CASE new = Dropped(old, p) /\ \A u \in Producers : old[u] # "wait"
  BY <1>1, <1>3, <1>5 DEF Dropped
<1>6. ASSUME old[p] = "one", NEW u \in Producers \ {p}, old[u] = "wait", new = PassedOn(old, p, u)
      PROVE  Cardinality(Notified') = Cardinality(Notified)
  <2>1. p \in Notified /\ u \notin Notified /\ Notified' = (Notified \ {p}) \cup {u}
    BY <1>1, <1>3, <1>6 DEF PassedOn, Dropped
  <2>2. IsFiniteSet(Notified) /\ Cardinality(Notified) \in Nat
    BY CoverFinite
  <2>3. IsFiniteSet(Notified \ {p}) /\ Cardinality(Notified \ {p}) = Cardinality(Notified) - 1
    BY <2>1, <2>2, FS_RemoveElement
  <2>4. Cardinality((Notified \ {p}) \cup {u}) = Cardinality(Notified \ {p}) + 1
    BY <2>1, <2>3, OneMore
  <2> QED
    BY <2>1, <2>2, <2>3, <2>4
<1> QED
  BY <1>2, <1>4, <1>5, <1>6

(* An ack's signal finds somebody, or nobody waits.                        *)
LEMMA NotifyCovers ==
  ASSUME SignalsOK, IsFiniteSet(Producers), IsFiniteSet(Guards), room' = Notify(room), Asleep' # {}
  PROVE  Cardinality(Notified') = Cardinality(Notified) + 1
<1> DEFINE old == room.tok
           new == Notify(room).tok
<1>1. NotifyOK(room, Producers) /\ old \in [Producers -> {"none", "wait", "one", "done"}]
  BY NotifyFields DEF SignalsOK
<1>2. \/ new = old /\ \A u \in Producers : old[u] # "wait"
      \/ \E u \in Producers : old[u] = "wait" /\ new = [old EXCEPT ![u] = "one"]
  BY <1>1, NotifyOneOK
<1>3. /\ Notified = {q \in Producers : old[q] = "one"} /\ Notified' = {q \in Producers : new[q] = "one"}
      /\ \E q \in Producers : new[q] = "wait"
  BY DEF Notified, Asleep
<1> HIDE DEF old, new
<1>4. PICK u \in Producers : old[u] = "wait" /\ new = [old EXCEPT ![u] = "one"]
  BY <1>2, <1>3
<1>5. u \notin Notified /\ Notified' = Notified \cup {u}
  BY <1>1, <1>3, <1>4
<1>6. IsFiniteSet(Notified)
  BY CoverFinite
<1> QED
  BY <1>5, <1>6, OneMore

(* A step that wakes or keeps the sleepers leaves every free slot that had *)
(* a signal of its own on the way with one.                                *)
LEMMA CoverStep ==
  ASSUME TypeInv, TypeInv', TaskInv, SignalsOK, SignalsOK', IsFiniteSet(Producers), IsFiniteSet(Guards), [AsyncNext]_aqVars,
         ~closed', Asleep' # {}, Asleep' \subseteq Asleep, Asleep' \ roomMissed' # {}, \A p \in Producers : ~Attempt(p)
  PROVE  /\ UNCHANGED <<capacity, closed>> /\ Cover' >= Cover
         /\ \A q \in Asleep' : q \in roomMissed => q \in roomMissed'
<1>1. /\ ThreadsOK /\ apc \in [Producers -> TaskPC]
      /\ \A q \in Producers : apc[q] \in Outside => room.tok[q] = "none"
      /\ len \in Usize /\ len' \in Usize /\ capacity \in Usize
      /\ owed \in [room : Nat, items : Nat] /\ owed' \in [room : Nat, items : Nat]
      /\ room.tok \in [Producers -> {"none", "wait", "one", "done"}]
  BY NotifyFields DEF TypeInv, TypeOK, InnerOK, TaskInv, SignalsOK, Outside
<1>n. /\ len \in Nat /\ len' \in Nat /\ owed.room \in Nat /\ owed'.room \in Nat
      /\ IsFiniteSet(Telling) /\ IsFiniteSet(Notified) /\ IsFiniteSet(Trying)
      /\ Cardinality(Telling) \in Nat /\ Cardinality(Notified) \in Nat /\ Cardinality(Trying) \in Nat
      /\ IsFiniteSet(Telling') /\ IsFiniteSet(Notified') /\ IsFiniteSet(Trying')
      /\ Cardinality(Telling') \in Nat /\ Cardinality(Notified') \in Nat /\ Cardinality(Trying') \in Nat
  BY <1>1, CoverFinite
<1> DEFINE Goal == /\ UNCHANGED <<capacity, closed>> /\ Cover' >= Cover
                   /\ \A q \in Asleep' : q \in roomMissed => q \in roomMissed'
<1> SUFFICES Goal
  OBVIOUS
<1>s. PICK z \in Producers : z \in Asleep' /\ z \in Asleep /\ z \notin roomMissed' /\ apc[z] = "full" /\ apc'[z] = "full"
  BY DEF Asleep
<1> USE DEF storeVars, innerVars, prodVars, consVars, guardVars, histVars
<1>k. ASSUME UNCHANGED <<capacity, closed, len, owed, gpc, roomMissed>>,
             Cardinality(Notified') + Cardinality(Trying') >= Cardinality(Notified) + Cardinality(Trying)
      PROVE  Goal
  <2>1. Telling' = Telling
    BY <1>k DEF Telling
  <2> QED
    BY <1>n, <1>k, <2>1 DEF Cover
<1>2. CASE UNCHANGED aqVars \/ SignalItems \/ AsyncReserve \/ ReserveReturn \/ CheckDrained \/ AwaitItems \/ AbandonReserve
  <2>1. UNCHANGED vars /\ UNCHANGED <<room, apc, roomMissed>> /\ owed'.room = owed.room
    BY <1>1, <1>2 DEF aqVars, asyncVars, SignalItems, AsyncReserve, ReserveReturn, CheckDrained, AwaitItems, AbandonReserve
  <2>2. UNCHANGED <<capacity, closed, len, gpc>>
    BY <2>1 DEF vars
  <2>3. Telling' = Telling /\ Notified' = Notified /\ Trying' = Trying
    BY <2>1, <2>2 DEF Telling, Notified, Trying
  <2> QED
    BY <1>n, <2>1, <2>2, <2>3 DEF Cover
<1>3. CASE OpenAsync
  <2>1. ~Up
    BY <1>3 DEF OpenAsync, OpenStart, OpenErr, RecoverEntry, RecoverDone, RecoverErr, Up
  <2> QED
    BY <1>s, <2>1 DEF TaskInv
<1>4. ASSUME NEW p \in Producers, AsyncPush(p) PROVE Goal
  <2>1. /\ UNCHANGED vars /\ UNCHANGED <<owed, roomMissed>>
        /\ apc[p] = "idle" /\ apc' = [apc EXCEPT ![p] = "try"] /\ room' = Enable(room, p)
        /\ room.tok[p] = "none"
    BY <1>1, <1>4 DEF AsyncPush, Outside
  <2>2. UNCHANGED <<capacity, closed, len, gpc>>
    BY <2>1 DEF vars
  <2>3. Enable(room, p).tok = [room.tok EXCEPT ![p] = IF room.permit THEN "done" ELSE "wait"]
    BY <2>1, EnableOK DEF SignalsOK
  <2>4. Notified' = Notified
    BY <1>1, <2>1, <2>3 DEF Notified
  <2>5. p \notin Trying /\ Trying' = Trying \cup {p}
    BY <1>1, <2>1 DEF Trying
  <2> QED
    BY <1>n, <1>k, <2>1, <2>2, <2>4, <2>5, OneMore
<1>5. ASSUME NEW p \in Producers, AsyncTryPush(p) PROVE Goal
  <2>1. /\ ~closed /\ (\E i \in Fresh(p) : Admits(len, bytes, Size[i]) /\ Claim(p, i))
        /\ apc[p] = "idle" /\ apc' = [apc EXCEPT ![p] = "write"] /\ UNCHANGED <<room, owed, roomMissed, gpc>>
    BY <1>5 DEF AsyncTryPush, TryPush
  <2>2. len < capacity /\ len' = Add(len, 1) /\ UNCHANGED <<capacity, closed>>
    BY <2>1 DEF Admits, Claim
  <2>3. len' = len + 1
    BY <1>1, <2>2 DEF Add
  <2>4. Notified' = Notified /\ Trying' = Trying /\ Telling' = Telling
    BY <1>1, <2>1 DEF Notified, Trying, Telling
  <2> QED
    BY <1>n, <2>1, <2>2, <2>3, <2>4 DEF Cover
<1>6. ASSUME NEW p \in Producers, AsyncWrite(p) PROVE Goal
  <2>1. apc[p] = "write" /\ UNCHANGED <<room, owed>> /\ apc = [apc EXCEPT ![p] = "write"]
    BY <1>1, <1>6 DEF AsyncWrite
  <2>2. \E a \in {"write", "ok", "err"} : apc' = [apc EXCEPT ![p] = a]
    BY <1>6, <2>1 DEF AsyncWrite
  <2>3. Notified' = Notified /\ Trying' = Trying
    BY <1>1, <2>1, <2>2 DEF Notified, Trying
  <2>4. roomMissed' # Producers
    BY <1>s
  <2>5. UNCHANGED <<capacity, closed, len, gpc, roomMissed>>
    BY <1>6, <2>4 DEF AsyncWrite, WriteApply, WriteErr, WriteOk, WriteNotify
  <2> QED
    BY <1>n, <1>k, <2>1, <2>3, <2>5
<1>7. ASSUME NEW p \in Producers, PushReturn(p) \/ AbandonPush(p) PROVE Goal
  <2>1. /\ UNCHANGED vars /\ UNCHANGED <<owed, roomMissed>> /\ room' = Forget(room, p)
        /\ UNCHANGED apc \/ (apc[p] # "try" /\ apc' = [apc EXCEPT ![p] = "idle"])
    BY <1>7 DEF PushReturn, AbandonPush
  <2>2. UNCHANGED <<capacity, closed, len, gpc>>
    BY <2>1 DEF vars
  <2>3. Trying' = Trying
    BY <1>1, <2>1 DEF Trying
  <2>4. Cardinality(Notified') = Cardinality(Notified)
    BY <2>1, ForgetCovers
  <2> QED
    BY <1>n, <1>k, <2>1, <2>2, <2>3, <2>4
<1>8. ASSUME NEW p \in Producers, AwaitRoom(p) PROVE Goal
  <2>1. /\ UNCHANGED vars /\ UNCHANGED <<owed, roomMissed>> /\ Fired(room, p) /\ apc[p] = "full"
        /\ apc' = [apc EXCEPT ![p] = "try"] /\ room' = Enable([room EXCEPT !.tok[p] = "none"], p)
    BY <1>8 DEF AwaitRoom
  <2>2. UNCHANGED <<capacity, closed, len, gpc>>
    BY <2>1 DEF vars
  <2>3. p \notin Trying /\ Trying' = Trying \cup {p}
    BY <1>1, <2>1 DEF Trying
  <2>4. (\A u \in Producers \ {p} : room'.tok[u] = room.tok[u]) /\ room'.tok[p] \in {"wait", "done"}
    BY <2>1, RenewOK DEF SignalsOK
  <2>5. Notified' = Notified \ {p}
    BY <2>4 DEF Notified
  <2>6. Cardinality(Notified') >= Cardinality(Notified) - 1
    <3>1. CASE p \in Notified
      BY <1>n, <2>5, <3>1, OneLess
    <3>2. CASE p \notin Notified
      <4>1. Notified' = Notified
        BY <2>5, <3>2
      <4> QED
        BY <1>n, <4>1
    <3> QED
      BY <3>1, <3>2
  <2>7. Cardinality(Trying') = Cardinality(Trying) + 1
    BY <1>n, <2>3, OneMore
  <2> QED
    BY <1>n, <1>k, <2>1, <2>2, <2>6, <2>7
<1>9. ASSUME NEW p \in Producers, AsyncClose(p) PROVE Goal
  <2>1. UNCHANGED <<owed, roomMissed>>
    BY <1>9 DEF AsyncClose
  <2>2. room' # NotifyWaiters(room)
    <3>1. NotifyWaiters(room).tok \in [Producers -> {"none", "one", "done"}]
      BY NotifyWaitersOK DEF SignalsOK
    <3> QED
      BY <1>s, <3>1 DEF Asleep
  <2>3. UNCHANGED <<capacity, closed, len, gpc, room>>
    BY <1>9, <2>2 DEF AsyncClose, Close, CloseNotify, vars
  <2>4. apc[p] # "try" /\ \E a \in {"close", "wakeroom", "wakeitems", "idle"} : apc' = [apc EXCEPT ![p] = a]
    BY <1>9 DEF AsyncClose
  <2>5. Notified' = Notified /\ Trying' = Trying
    BY <1>1, <2>3, <2>4 DEF Notified, Trying
  <2> QED
    BY <1>n, <1>k, <2>1, <2>3, <2>5
<1>10. CASE AsyncScan
  <2>1. UNCHANGED <<capacity, closed, len, room, apc, owed, roomMissed>>
    BY <1>10 DEF AsyncScan, ReserveStart, ReserveSeek, ReserveSkip, ReserveTake, HandOut, ReserveNone
  <2>2. Telling' = Telling
    <3>1. CASE UNCHANGED gpc
      BY <3>1 DEF Telling
    <3>2. CASE ReserveTake
      BY <1>1, <3>2 DEF ReserveTake, HandOut, ThreadsOK, Telling
    <3> QED
      BY <1>10, <3>1, <3>2 DEF AsyncScan, ReserveStart, ReserveSeek, ReserveSkip, ReserveNone
  <2>3. Notified' = Notified /\ Trying' = Trying
    BY <2>1 DEF Notified, Trying
  <2> QED
    BY <1>n, <2>1, <2>2, <2>3 DEF Cover
<1>11. ASSUME NEW g \in Guards, AsyncAck(g) \/ AsyncNack(g) PROVE Goal
  <2>1. roomMissed' # Producers
    BY <1>s
  <2>2. UNCHANGED <<capacity, closed, room, apc, roomMissed>>
    BY <1>11, <2>1 DEF AsyncAck, AsyncNack, AckApply, AckOk, AckSettle, AckNotify, AckErr
  <2>3. Notified' = Notified /\ Trying' = Trying
    BY <2>2 DEF Notified, Trying
  <2>4. CASE AckSettle(g) /\ UNCHANGED owed
    <3>1. gpc[g] = "settle" /\ gpc' = [gpc EXCEPT ![g] = "notify"] /\ len' = Sub(len, 1)
      BY <2>4 DEF AckSettle
    <3>2. g \notin Telling /\ Telling' = Telling \cup {g}
      BY <1>1, <3>1 DEF ThreadsOK, Telling
    <3>3. len' >= len - 1
      BY <1>1, <3>1 DEF Sub
    <3>4. Cardinality(Telling') = Cardinality(Telling) + 1
      BY <1>n, <3>2, OneMore
    <3> QED
      BY <1>n, <2>2, <2>3, <2>4, <3>3, <3>4 DEF Cover
  <2>5. CASE AckNotify(g) /\ owed' = [owed EXCEPT !.room = @ + 1]
    <3>1. gpc[g] = "notify" /\ gpc' = [gpc EXCEPT ![g] = "free"] /\ len' = len /\ owed'.room = owed.room + 1
      BY <1>1, <2>5 DEF AckNotify
    <3>2. g \in Telling /\ Telling' = Telling \ {g}
      BY <1>1, <3>1 DEF ThreadsOK, Telling
    <3>3. Cardinality(Telling') = Cardinality(Telling) - 1
      BY <1>n, <3>2, OneLess
    <3> QED
      BY <1>n, <2>2, <2>3, <3>1, <3>3 DEF Cover
  <2>6. CASE (AckApply(g) /\ UNCHANGED owed) \/ (AckOk(g) /\ UNCHANGED owed) \/ (AckErr(g) /\ UNCHANGED owed) \/ AsyncNack(g)
    <3>1. gpc[g] \in {"held", "flush"} /\ (\E c \in {"flush", "settle", "free"} : gpc' = [gpc EXCEPT ![g] = c]) /\ len' = len
      BY <2>6 DEF AckApply, AckOk, AckErr, AsyncNack, CanCall, Release
    <3>2. Telling' = Telling
      BY <1>1, <3>1 DEF ThreadsOK, Telling
    <3>3. owed'.room = owed.room
      BY <1>1, <2>6 DEF AsyncNack
    <3> QED
      BY <1>n, <2>2, <2>3, <3>1, <3>2, <3>3 DEF Cover
  <2> QED
    BY <1>11, <2>1, <2>4, <2>5, <2>6 DEF AsyncAck
<1>12. CASE SignalRoom
  <2>1. UNCHANGED vars /\ UNCHANGED <<apc, roomMissed>> /\ room' = Notify(room) /\ owed'.room = owed.room - 1
    BY <1>1, <1>12 DEF SignalRoom
  <2>2. UNCHANGED <<capacity, closed, len, gpc>>
    BY <2>1 DEF vars
  <2>3. Trying' = Trying /\ Telling' = Telling
    BY <2>1, <2>2 DEF Trying, Telling
  <2>4. Cardinality(Notified') = Cardinality(Notified) + 1
    BY <2>1, NotifyCovers
  <2> QED
    BY <1>n, <2>1, <2>2, <2>3, <2>4 DEF Cover
<1> QED
  BY <1>2, <1>3, <1>4, <1>5, <1>6, <1>7, <1>8, <1>9, <1>10, <1>11, <1>12 DEF AsyncNext, PushTask, ReserveTask

(* An attempt trades the task's own try for a slot, or has found none.     *)
LEMMA AttemptCovers ==
  ASSUME TypeInv, TypeInv', TaskInv, SignalsOK, IsFiniteSet(Producers), IsFiniteSet(Guards), RoomCovered,
         NEW p \in Producers, Attempt(p)
  PROVE  RoomCovered'
<1> SUFFICES ASSUME MaxBytes = UsizeMod - 1, ~closed', Asleep' \ roomMissed' # {} PROVE Cover' >= capacity'
  BY DEF RoomCovered
<1>1. /\ apc \in [Producers -> TaskPC] /\ len \in Usize /\ bytes \in Usize /\ capacity \in Usize
      /\ owed.room \in Nat /\ UNCHANGED <<room, owed>> /\ roomMissed' = roomMissed \ {p} /\ apc[p] = "try"
  BY DEF TypeInv, TypeOK, InnerOK, TaskInv, SignalsOK, Attempt
<1>n. /\ IsFiniteSet(Trying)
      /\ Cardinality(Telling) \in Nat /\ Cardinality(Notified) \in Nat /\ Cardinality(Trying) \in Nat
      /\ Cardinality(Telling') \in Nat /\ Cardinality(Notified') \in Nat /\ Cardinality(Trying') \in Nat
  BY CoverFinite
<1>2. aitem[p] \in Items /\ Size[aitem[p]] \in Usize
  BY <1>1 DEF TaskInv, Fresh
<1> USE DEF storeVars, innerVars, prodVars, consVars, guardVars, histVars
<1>3. CASE ~Admits(len, bytes, Size[aitem[p]]) /\ UNCHANGED vars
  <2>1. len >= capacity /\ UNCHANGED <<len, capacity>>
    BY <1>1, <1>2, <1>3, SlotAdmits DEF vars
  <2> QED
    BY <1>1, <1>n, <2>1 DEF Cover
<1>4. CASE /\ ~closed /\ Admits(len, bytes, Size[aitem[p]]) /\ Claim(p, aitem[p]) /\ apc' = [apc EXCEPT ![p] = "write"]
           /\ UNCHANGED <<storeVars, consVars, guardVars, restarts>>
  <2>1. len < capacity /\ len' = Add(len, 1) /\ UNCHANGED <<capacity, closed, gpc>>
    BY <1>4 DEF Admits, Claim
  <2>2. len' = len + 1
    BY <1>1, <2>1 DEF Add
  <2>3. Notified' = Notified /\ Telling' = Telling
    BY <1>1, <2>1 DEF Notified, Telling
  <2>4. p \in Trying /\ Trying' = Trying \ {p}
    BY <1>1, <1>4 DEF Trying
  <2>5. Cardinality(Trying') = Cardinality(Trying) - 1
    BY <1>n, <2>4, OneLess
  <2>6. Asleep \ roomMissed # {}
    BY <1>1, <1>4 DEF Asleep
  <2>7. Cover >= capacity
    BY <1>4, <2>6 DEF RoomCovered
  <2> QED
    BY <1>1, <1>n, <2>1, <2>2, <2>3, <2>5, <2>7 DEF Cover
<1> QED
  BY <1>3, <1>4 DEF Attempt, vars

(* Every step keeps every free slot covered ...                            *)
LEMMA RoomCoveredStep ==
  ASSUME TypeInv, TypeInv', TaskInv, SignalsOK, SignalsOK', IsFiniteSet(Producers), IsFiniteSet(Guards), RoomCovered,
         [AsyncNext]_aqVars
  PROVE  RoomCovered'
<1>1. ASSUME NEW p \in Producers, Attempt(p) PROVE RoomCovered'
  BY <1>1, AttemptCovers
<1>2. CASE \A p \in Producers : ~Attempt(p)
  <2> SUFFICES ASSUME MaxBytes = UsizeMod - 1, ~closed', Asleep' \ roomMissed' # {} PROVE Cover' >= capacity'
    BY DEF RoomCovered
  <2>1. Asleep' \subseteq Asleep
    BY <1>2, AsleepGrows DEF Asleep
  <2>2. /\ UNCHANGED <<capacity, closed>> /\ Cover' >= Cover
        /\ \A q \in Asleep' : q \in roomMissed => q \in roomMissed'
    BY <1>2, <2>1, CoverStep
  <2>3. Cover >= capacity
    BY <2>1, <2>2 DEF RoomCovered
  <2>4. Cover \in Int /\ Cover' \in Int /\ capacity \in Int
    <3>1. /\ len \in Nat /\ len' \in Nat /\ capacity \in Nat /\ owed.room \in Nat /\ owed'.room \in Nat
      BY DEF TypeInv, TypeOK, InnerOK, SignalsOK
    <3> QED
      BY <3>1, CoverFinite DEF Cover
  <2> QED
    BY <2>2, <2>3, <2>4
<1> QED
  BY <1>1, <1>2

(* ... and nobody asleep after close has woken them.                       *)
LEMMA CloseWakesStep ==
  ASSUME TypeInv, TaskInv, SignalsOK, CloseWakes, [AsyncNext]_aqVars
  PROVE  CloseWakes'
<1> SUFFICES ASSUME closed', NEW z \in Producers, z \in Asleep' PROVE \E p \in Producers : apc'[p] \in {"close", "wakeroom"}
  BY DEF CloseWakes, Asleep
<1>1. apc \in [Producers -> TaskPC] /\ apc'[z] = "full" /\ room'.tok[z] = "wait"
  BY DEF TaskInv, Asleep
<1> USE DEF storeVars, innerVars, prodVars, consVars, guardVars, histVars
<1>2. CASE ~closed
  <2>1. PICK p \in Producers : AsyncClose(p)
    <3>1. ASSUME NEW p \in Producers, AsyncPush(p) \/ AsyncTryPush(p) \/ PushTask(p) \/ AbandonPush(p) PROVE UNCHANGED closed
      BY <3>1 DEF AsyncPush, AsyncTryPush, TryPush, Claim, PushTask, Attempt, AsyncWrite, WriteApply, WriteErr, WriteOk,
                  GiveBack, WriteNotify, PushReturn, AwaitRoom, AbandonPush, vars
    <3>2. ASSUME NEW g \in Guards, AsyncAck(g) \/ AsyncNack(g) PROVE UNCHANGED closed
      BY <3>2 DEF AsyncAck, AsyncNack, AckApply, AckOk, AckSettle, AckNotify, AckErr
    <3>3. CASE OpenAsync
      BY <1>2, <3>3 DEF OpenAsync, OpenStart, OpenErr, RecoverEntry, RecoverDone, RecoverErr
    <3>4. CASE UNCHANGED aqVars \/ AsyncReserve \/ ReserveTask \/ AbandonReserve \/ SignalRoom \/ SignalItems
      BY <1>2, <3>4 DEF aqVars, vars, AsyncReserve, ReserveTask, AsyncScan, ReserveStart, ReserveSeek, ReserveSkip, ReserveTake,
                        HandOut, ReserveNone, ReserveReturn, CheckDrained, AwaitItems, AbandonReserve, SignalRoom, SignalItems
    <3> QED
      BY <1>2, <3>1, <3>2, <3>3, <3>4 DEF AsyncNext
  <2>2. apc' = [apc EXCEPT ![p] = "close"]
    BY <1>2, <2>1 DEF AsyncClose, CloseNotify, vars
  <2> QED
    BY <1>1, <2>2
<1>3. CASE closed
  <2>1. z \in Asleep
    BY <1>3, AsleepGrows
  <2>2. PICK p \in Producers : apc[p] \in {"close", "wakeroom"}
    BY <1>3, <2>1 DEF CloseWakes
  <2>3. CASE apc'[p] = apc[p]
    BY <2>2, <2>3
  <2>4. CASE AsyncClose(p)
    <3>1. room' # NotifyWaiters(room)
      <4>1. NotifyWaiters(room).tok \in [Producers -> {"none", "one", "done"}]
        BY NotifyWaitersOK DEF SignalsOK
      <4> QED
        BY <1>1, <4>1
    <3>2. apc' = [apc EXCEPT ![p] = "wakeroom"] \/ apc' = [apc EXCEPT ![p] = "close"]
      BY <2>2, <2>4, <3>1 DEF AsyncClose
    <3> QED
      BY <1>1, <3>2
  <2>5. apc'[p] = apc[p] \/ AsyncClose(p)
    <3>1. ASSUME NEW q \in Producers, AsyncPush(q) \/ AsyncTryPush(q) \/ PushTask(q) \/ AbandonPush(q)
          PROVE  UNCHANGED apc \/ (q # p /\ \E a : apc' = [apc EXCEPT ![q] = a])
      BY <2>2, <3>1 DEF AsyncPush, AsyncTryPush, PushTask, Attempt, AsyncWrite, PushReturn, AwaitRoom, AbandonPush
    <3>2. ASSUME NEW q \in Producers, AsyncClose(q) PROVE q = p \/ \E a : apc' = [apc EXCEPT ![q] = a]
      BY <3>2 DEF AsyncClose
    <3>3. ASSUME NEW q \in Producers, q # p, \E a : apc' = [apc EXCEPT ![q] = a] PROVE apc'[p] = apc[p]
      BY <1>1, <3>3
    <3>4. ASSUME NEW q \in Producers, AsyncPush(q) \/ AsyncTryPush(q) \/ PushTask(q) \/ AbandonPush(q) \/ AsyncClose(q)
          PROVE  apc'[p] = apc[p] \/ AsyncClose(p)
      BY <3>1, <3>2, <3>3, <3>4
    <3> QED
      BY <3>4, TasksLeft DEF AsyncNext
  <2> QED
    BY <2>3, <2>4, <2>5
<1> QED
  BY <1>2, <1>3

(* Without a byte bound, whatever the store, whichever commits fail, with  *)
(* pushes abandoned at any await and barging: while a push task that has   *)
(* tried since the last failed push and abandoned ack sleeps, the queue is *)
(* full and open, or a signal on room is on its way.                       *)
THEOREM PushIsSignalled ==
  ASSUME IsFiniteSet(Producers), IsFiniteSet(Guards), MaxBytes = UsizeMod - 1
  PROVE  AsyncSpec => []RoomSignalled
<1>1. Init /\ AsyncInit => RoomInv
  BY DEF AsyncInit, RoomInv, RoomCovered, CloseWakes, Asleep
<1>2. FacadeInv /\ RoomInv /\ [AsyncNext]_aqVars => RoomInv'
  <2> SUFFICES ASSUME FacadeInv, RoomInv, [AsyncNext]_aqVars PROVE RoomInv'
    OBVIOUS
  <2>1. FacadeInv'
    BY FacadeStep
  <2>2. TypeInv /\ TypeInv' /\ TaskInv /\ SignalsOK /\ SignalsOK' /\ RoomCovered /\ CloseWakes
    BY <2>1 DEF FacadeInv, CoreInv, RoomInv
  <2> QED
    BY <2>2, RoomCoveredStep, CloseWakesStep DEF RoomInv
<1>3. FacadeInv /\ RoomInv => RoomSignalled
  <2> SUFFICES ASSUME FacadeInv, RoomInv, NEW p \in Asleep \ roomMissed, CouldGoOn(p) PROVE RoomPending
    BY DEF RoomSignalled
  <2>1. CASE closed
    BY <2>1 DEF RoomInv, CloseWakes, RoomPending, Asleep
  <2>2. CASE ~closed
    <3>1. len < capacity /\ Cover >= capacity
      BY <2>2 DEF CouldGoOn, Admits, RoomInv, RoomCovered
    <3>2. len \in Nat /\ capacity \in Nat /\ owed.room \in Nat
      BY DEF FacadeInv, CoreInv, TypeInv, TypeOK, InnerOK, SignalsOK
    <3>3. owed.room > 0 \/ Cardinality(Telling) > 0 \/ Cardinality(Notified) > 0 \/ Cardinality(Trying) > 0
      BY <3>1, <3>2, CoverFinite DEF Cover
    <3>4. owed.room > 0 \/ Telling # {} \/ Notified # {} \/ Trying # {}
      <4>1. ASSUME NEW S, S = {} PROVE ~(Cardinality(S) > 0)
        <5>1. Cardinality(S) = 0
          BY <4>1, FS_EmptySet, Zenon
        <5> QED
          BY <5>1
      <4> QED
        BY <3>3, <4>1, Zenon
    <3> QED
      BY <3>4 DEF Telling, Notified, Trying, RoomPending
  <2> QED
    BY <2>1, <2>2
<1> QED
  BY <1>1, <1>2, <1>3, FacadeInit, FacadeStep, PTL DEF AsyncSpec

=============================================================================
