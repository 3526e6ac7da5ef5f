---------------------------- MODULE TypedProofs ----------------------------
(***************************************************************************)
(* Proofs about the typed and archived queues: encoding and decoding add   *)
(* nothing to what the queue does, so what holds of it holds of them.      *)
(***************************************************************************)
EXTENDS TypedQueue, OrderProofs

USE StoreAssumption, QueueAssumption DEF StoreAssumption, QueueAssumption, Seqs, Values, Versions, Usize

-----------------------------------------------------------------------------
(* Simulation.                                                             *)

(* An item that does not decode is nacked: the error return of a typed     *)
(* reserve drops a guard that could have been nacked just as well.         *)
LEMMA RefusedIsNack ==
  ASSUME DecodingInv, NEW g \in Guards, NEW results, Refused(g, results)
  PROVE  Nack(g)
<1>1. gpc[g] = "held" /\ (Threaded \/ (cpc = "idle" /\ GuardsAtRest))
  BY DEF Refused, DecodingInv
<1> QED
  BY <1>1 DEF Refused, Nack, CanCall

(* Every step of a typed queue is a step of the queue, or none.            *)
LEMMA TypedIsQueueStep ==
  ASSUME DecodingInv, [TypedNext]_tqVars
  PROVE  [Next]_vars
<1>1. CASE UNCHANGED tqVars
  BY <1>1 DEF tqVars
<1>2. CASE CoreStep
  BY <1>2 DEF CoreStep, Next
<1>3. CASE OpenTyped \/ OpenArchived \/ Crash \/ TypedTake
  BY <1>3 DEF OpenTyped, OpenArchived, TypedTake, Next
<1>4. ASSUME NEW p \in Producers, TypedPush(p) \/ ArchivedPush(p) PROVE Next
  <2>1. Push(p)
    BY <1>4 DEF TypedPush, ArchivedPush, EncodeAndPush, Push
  <2> QED
    BY <2>1 DEF Next
<1>5. ASSUME NEW g \in Guards, DecodeOk(g) \/ DecodeErr(g) \/ Access(g) PROVE [Next]_vars
  <2>1. UNCHANGED vars \/ \E results : Refused(g, results)
    BY <1>5 DEF DecodeOk, DecodeErr, Access, Decoded
  <2>2. UNCHANGED vars \/ Nack(g)
    BY <2>1, RefusedIsNack
  <2> QED
    BY <2>2 DEF Next
<1>6. ASSUME NEW g \in Guards, TypedNack(g) \/ TypedAck(g) PROVE Next
  BY <1>6 DEF TypedNack, TypedAck, Next
<1> QED
  BY <1>1, <1>2, <1>3, <1>4, <1>5, <1>6 DEF TypedNext

(* Nothing is being decoded before the first open.                         *)
LEMMA DecodingInit == TypedInit => DecodingInv
  BY DEF TypedInit, DecodingInv

(* A guard inside a typed reserve is left alone by every other call.       *)
LEMMA DecodingStep ==
  ASSUME CoreInv, SoloInv, DecodingInv, [TypedNext]_tqVars
  PROVE  DecodingInv'
<1>1. ThreadsOK /\ DownInv
  BY DEF CoreInv, TypeInv, TypeOK, SafeInv
<1>u. ~Up => decoding = {}
  BY <1>1 DEF DownInv, DecodingInv
<1>e. ASSUME decoding' = {} PROVE DecodingInv'
  BY <1>e DEF DecodingInv
<1>s. ASSUME decoding' \subseteq decoding, UNCHANGED <<cpc, gpc>> PROVE DecodingInv'
  BY <1>s DEF DecodingInv, GuardsAtRest
<1> USE <1>1 DEF ThreadsOK, typedVars
<1>2. CASE UNCHANGED tqVars
  BY <1>2, <1>s DEF tqVars, vars, consVars, guardVars
<1>3. CASE CoreStep /\ UNCHANGED typedVars
  <2>1. CASE OpenErr \/ RecoverEntry \/ RecoverDone \/ RecoverErr
    BY <1>3, <2>1, <1>u, <1>e DEF OpenErr, RecoverEntry, RecoverDone, RecoverErr, Up, consVars
  <2>2. ASSUME NEW p \in Producers, SpuriousWake(p) \/ Close(p) \/ ProducerStep(p) PROVE DecodingInv'
    <3>1. UNCHANGED <<cpc, gpc>>
      BY <2>2 DEF SpuriousWake, Close, ProducerStep, PushRetry, WriteApply, WriteOk, WriteErr, GiveBack,
                  WriteNotify, CloseNotify, consVars, guardVars
    <3> QED
      BY <1>3, <1>s, <3>1
  <2>3. CASE NotDecoding /\ ReserveStart
    BY <1>3, <2>3 DEF NotDecoding, ReserveStart, guardVars, DecodingInv
  <2>4. CASE ReserveSeek \/ ReserveNone \/ ReserveSkip
    <3>1. cpc # "idle" /\ UNCHANGED gpc
      BY <2>4 DEF ReserveSeek, ReserveNone, ReserveSkip, guardVars
    <3> QED
      BY <1>3, <3>1 DEF DecodingInv
  <2> QED
    BY <1>3, <2>1, <2>2, <2>3, <2>4 DEF CoreStep
<1>4. CASE OpenTyped \/ OpenArchived
  BY <1>4, <1>u, <1>e DEF OpenTyped, OpenArchived, OpenStart, Up
<1>5. CASE Crash /\ decoding' = {}
  BY <1>5, <1>e
<1>6. ASSUME NEW p \in Producers, TypedPush(p) \/ ArchivedPush(p) PROVE DecodingInv'
  BY <1>6, <1>s DEF TypedPush, ArchivedPush, EncodeAndPush, consVars, guardVars
<1>7. CASE TypedTake
  <2>1. PICK g \in Guards : gpc[g] = "free" /\ gpc' = [gpc EXCEPT ![g] = "held"]
    BY <1>7 DEF TypedTake, ReserveTake, HandOut
  <2>2. cpc = "check" /\ cpc' = "idle"
    BY <1>7 DEF TypedTake, ReserveTake, HandOut
  <2>3. \A h \in decoding' : h \in Guards /\ gpc'[h] = "held"
    BY <1>7, <2>1 DEF TypedTake, DecodingInv
  <2>4. ~Threaded => GuardsAtRest'
    BY <2>1, <2>2 DEF SoloInv, GuardsAtRest
  <2> QED
    BY <2>2, <2>3, <2>4 DEF DecodingInv
<1>8. ASSUME NEW g \in Guards, DecodeOk(g) \/ DecodeErr(g) \/ Access(g) PROVE DecodingInv'
  <2>1. PICK results : Decoded(g, results) \/ Refused(g, results)
    BY <1>8 DEF DecodeOk, DecodeErr, Access
  <2>2. CASE Decoded(g, results)
    BY <2>2, <1>s DEF Decoded, vars, consVars, guardVars
  <2>3. CASE Refused(g, results)
    <3>1. gpc' = [gpc EXCEPT ![g] = "free"] /\ decoding' = decoding \ {g} /\ UNCHANGED cpc
      BY <2>3 DEF Refused, Release, consVars
    <3> QED
      BY <3>1 DEF DecodingInv, GuardsAtRest
  <2> QED
    BY <2>1, <2>2, <2>3
<1>9. ASSUME NEW g \in Guards, TypedNack(g) \/ TypedAck(g) PROVE DecodingInv'
  <2>1. g \notin decoding /\ UNCHANGED <<decoding, cpc>>
    BY <1>9 DEF TypedNack, TypedAck, Nack, AckApply, GuardStep, AckOk, AckErr, AckSettle, AckNotify, consVars
  <2>2. \A h \in Guards : h # g => gpc'[h] = gpc[h]
    BY <1>9 DEF TypedNack, TypedAck, Nack, Release, AckApply, GuardStep, AckOk, AckErr, AckSettle, AckNotify
  <2>3. gpc[g] = "held" => NotDecoding
    BY <1>9 DEF TypedNack, TypedAck
  <2>4. gpc[g] # "free"
    BY <1>9 DEF TypedNack, TypedAck, Nack, CanCall, AckApply, GuardStep, AckOk, AckErr, AckSettle, AckNotify
  <2>5. ~Threaded => decoding = {}
    BY <2>3, <2>4 DEF DecodingInv, NotDecoding, GuardsAtRest, GuardPC
  <2> QED
    BY <2>1, <2>2, <2>5 DEF DecodingInv
<1> QED
  BY <1>2, <1>3, <1>4, <1>5, <1>6, <1>7, <1>8, <1>9 DEF TypedNext

(* The typed and archived queues are implementations of the queue, for any *)
(* codecs chosen at each open: a refused item is a nacked one.             *)
THEOREM TypedIsQueue == TypedSpec => Spec
<1> DEFINE Inv == CoreInv /\ SoloInv /\ DecodingInv
<1>1. Init /\ TypedInit => Inv
  BY CoreInit, SoloInit, DecodingInit
<1>2. Inv /\ [TypedNext]_tqVars => [Next]_vars
  BY TypedIsQueueStep
<1>3. Inv /\ [TypedNext]_tqVars => Inv'
  BY <1>2, CoreKept, SoloStep, DecodingStep
<1> HIDE DEF Inv
<1> QED
  BY <1>1, <1>2, <1>3, PTL DEF TypedSpec, Spec

-----------------------------------------------------------------------------
(* What follows from the queue's theorems.                                 *)

(* A decoding error loses nothing: an accepted item stays stored until it  *)
(* is acked, over reopenings with any codec.                               *)
COROLLARY TypedKeepsItems == TypedSpec => []NoLoss
  BY TypedIsQueue, AcceptedIsKept, PTL

(* With one guard a producer's items reach the application in order, and   *)
(* one that does not decode is never stepped over.                         *)
THEOREM TypedOrder == TypedSpec => [](OneGuard => TypedInOrder)
<1>1. CoreInv /\ AuthorInv /\ OrderInv => (OneGuard => TypedInOrder)
  <2> SUFFICES ASSUME CoreInv, OrderInv, OneGuard, NEW g \in OnLoan \ decoding, NEW s \in Seqs,
                      s < gseq[g], live[s] \in accepted
               PROVE  Author[live[s]] # Author[gitem[g]]
    BY DEF TypedInOrder
  <2>1. live[s] \in Items
    BY DEF CoreInv, TypeInv, TypeOK, HistoryOK
  <2> QED
    BY <2>1 DEF OrderInv, NoneBefore
<1> QED
  BY <1>1, TypedIsQueue, OrderAlways, PTL

(* The at-least-once guarantee holds of typed and archived queues.         *)
COROLLARY TypedImplements == ASSUME ~Threaded PROVE TypedSpec => Implements
  BY TypedIsQueue, QueueImplements, PTL

=============================================================================
