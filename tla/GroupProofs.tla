---------------------------- MODULE GroupProofs ----------------------------
(***************************************************************************)
(* Proofs about group commit: no follower is forgotten, for any number of  *)
(* producers and over any backend; and over a store whose failed commits   *)
(* leave nothing behind, the queue's promises survive it.                  *)
(***************************************************************************)
EXTENDS GroupQueue, CountProofs

USE StoreAssumption, QueueAssumption DEF StoreAssumption, QueueAssumption, Seqs, Values, Versions, Usize

-----------------------------------------------------------------------------
(* What the other steps of the queue leave alone.                          *)

(* A step outside the commit claims a number for one producer, or leaves   *)
(* the pushes in their commit as they are.                                 *)
ClaimsOne(p) ==
  /\ ppc[p] \in {"idle", "woken"} /\ tail \in Seqs
  /\ ppc' = [ppc EXCEPT ![p] = "apply"] /\ pseq' = [pseq EXCEPT ![p] = tail]
  /\ tail' = tail + 1
LeavesCommits ==
  /\ \A q \in Producers : ppc[q] \in {"apply", "flush"} => ppc'[q] = ppc[q]
  /\ \A q \in Producers : ppc'[q] \in {"apply", "flush"} => ppc[q] \in {"apply", "flush"}
  /\ pseq' = pseq
  /\ tail' = tail \/ \A q \in Producers : ppc'[q] = "idle"

(* Every such step does one or the other.                                  *)
LEMMA OtherEffect ==
  ASSUME TypeInv, DownInv, OtherStep
  PROVE  LeavesCommits \/ \E p \in Producers : ClaimsOne(p)
<1>1. InnerOK /\ ThreadsOK
  BY DEF TypeInv, TypeOK
<1> USE <1>1 DEF storeVars, innerVars, prodVars, consVars, guardVars, histVars
<1>2. CASE OpenStart
  BY <1>2 DEF OpenStart, DownInv, Up, LeavesCommits
<1>3. CASE OpenErr \/ RecoverEntry \/ RecoverDone \/ RecoverErr
  BY <1>3 DEF OpenErr, RecoverEntry, RecoverDone, RecoverErr, LeavesCommits
<1>4. ASSUME NEW p \in Producers, Push(p) \/ TryPush(p) \/ PushRetry(p)
      PROVE  LeavesCommits \/ ClaimsOne(p)
  <2>1. PICK i : ppc[p] \in {"idle", "woken"} /\ (PushLocked(p, i) \/ Claim(p, i))
    BY <1>4 DEF Push, TryPush, PushRetry
  <2>2. CASE Claim(p, i)
    BY <2>1, <2>2 DEF Claim, ClaimsOne, InnerOK
  <2>3. CASE ~Claim(p, i)
    BY <2>1, <2>3 DEF PushLocked, LeavesCommits, ThreadsOK
  <2> QED
    BY <2>2, <2>3
<1>5. ASSUME NEW p \in Producers, SpuriousWake(p) \/ Close(p) \/ GiveBack(p) \/ CloseNotify(p)
      PROVE  LeavesCommits
  BY <1>5 DEF SpuriousWake, Close, GiveBack, CloseNotify, LeavesCommits, ThreadsOK
<1>6. ASSUME NEW p \in Producers, WriteNotify(p) PROVE LeavesCommits
  <2>1. \A q \in Producers : ppc'[q] # ppc[q] => q = p \/ (ppc[q] = "waiting" /\ ppc'[q] = "woken")
    BY <1>1, <1>6, WriteNotifyEffect, Zenon
  <2>2. ppc[p] = "notify" /\ ppc'[p] = "idle" /\ UNCHANGED <<pseq, tail>>
    BY <1>6, WriteNotifyEffect DEF WriteNotify
  <2> QED
    BY <2>1, <2>2 DEF LeavesCommits
<1>7. CASE ReserveStart \/ ReserveSeek \/ ReserveNone \/ ReserveSkip \/ ReserveTake
  BY <1>7 DEF ReserveStart, ReserveSeek, ReserveNone, ReserveSkip, ReserveTake, HandOut, LeavesCommits
<1>8. ASSUME NEW g \in Guards, Nack(g) \/ AckApply(g) \/ AckOk(g) \/ AckErr(g) \/ AckSettle(g)
      PROVE  LeavesCommits
  BY <1>8 DEF Nack, AckApply, AckOk, AckErr, AckSettle, LeavesCommits
<1>9. ASSUME NEW g \in Guards, AckNotify(g) PROVE LeavesCommits
  <2>1. \A q \in Producers : ppc'[q] # ppc[q] => ppc[q] = "waiting" /\ ppc'[q] = "woken"
    BY <1>1, <1>9, AckNotifyEffect, Zenon
  <2>2. UNCHANGED <<pseq, tail>>
    BY <1>9 DEF AckNotify
  <2> QED
    BY <2>1, <2>2 DEF LeavesCommits
<1> QED
  BY <1>2, <1>3, <1>4, <1>5, <1>6, <1>7, <1>8, <1>9 DEF OtherStep, GuardStep

(* Nobody is in a call while the queue is not open, and nobody can begin   *)
(* one.                                                                    *)
LEMMA DownStep == TypeInv /\ DownInv /\ [Next]_vars => DownInv'
<1> SUFFICES ASSUME TypeInv, DownInv, [Next]_vars, ~Up' PROVE DownInv'
  BY DEF DownInv
<1> USE DEF storeVars, innerVars, prodVars, consVars, guardVars, histVars
<1>1. CASE Crash
  BY <1>1 DEF Crash, DownInv
<1>2. CASE OpenStart \/ OpenErr \/ RecoverEntry \/ RecoverDone \/ RecoverErr
  BY <1>2 DEF OpenStart, OpenErr, RecoverEntry, RecoverDone, RecoverErr, DownInv, Up
<1>3. ASSUME NEW p \in Producers, Push(p) \/ TryPush(p) \/ SpuriousWake(p) \/ Close(p) \/ ProducerStep(p)
      PROVE  FALSE
  <2>1. cpc' = cpc
    BY <1>3 DEF Push, TryPush, SpuriousWake, Close, ProducerStep, PushRetry, WriteApply, WriteOk, WriteErr,
                GiveBack, WriteNotify, CloseNotify
  <2>2. ~Up
    BY <2>1 DEF Up
  <2> QED
    BY <1>3, <2>2 DEF Push, TryPush, SpuriousWake, Close, ProducerStep, PushRetry, WriteApply, WriteOk,
                WriteErr, GiveBack, WriteNotify, CloseNotify, DownInv
<1>4. CASE ReserveStart \/ ReserveSeek \/ ReserveNone \/ ReserveSkip \/ ReserveTake
  BY <1>4 DEF ReserveStart, ReserveSeek, ReserveNone, ReserveSkip, ReserveTake, HandOut, Up
<1>5. ASSUME NEW g \in Guards, Nack(g) \/ AckApply(g) \/ GuardStep(g) PROVE FALSE
  <2>1. cpc' = cpc
    BY <1>5 DEF Nack, AckApply, GuardStep, AckOk, AckErr, AckSettle, AckNotify
  <2>2. ~Up
    BY <2>1 DEF Up
  <2> QED
    BY <1>5, <2>2 DEF Nack, AckApply, GuardStep, AckOk, AckErr, AckSettle, AckNotify, CanCall, DownInv
<1>6. CASE UNCHANGED vars
  BY <1>6 DEF vars, DownInv, Up
<1> QED
  BY <1>1, <1>2, <1>3, <1>4, <1>5, <1>6 DEF Next

-----------------------------------------------------------------------------
(* Types.                                                                  *)

(* What every step of group_commit leaves alone.                           *)
commitFrame == <<meta, meta_disk, innerVars, pseq, consVars, guardVars, restarts,
                 pushed, owner, delivered, deleted, acked>>

(* The types survive a step that changes the store, the producers and the  *)
(* accepted items within theirs.                                           *)
LEMMA CommitTypes ==
  ASSUME TypeInv, UNCHANGED commitFrame,
         live' \in [Seqs -> Values], disk' \in [Seqs -> SUBSET Values],
         ppc' \in [Producers -> ProducerPC], pitem' \in [Producers -> Values], accepted' \in SUBSET Items,
         \A q \in Producers : ppc'[q] # ppc[q] =>
            ppc'[q] = "idle" \/ (ppc'[q] \in {"apply", "flush"} /\ ppc[q] \in {"apply", "flush"}),
         \A q \in Producers : ppc'[q] # "idle" => pitem'[q] = pitem[q]
  PROVE  TypeInv'
<1>1. StoreTypeOK /\ InnerOK /\ closed \in BOOLEAN /\ ThreadsOK /\ HistoryOK /\ InCall
  BY DEF TypeInv, TypeOK
<1> USE DEF commitFrame, innerVars, consVars, guardVars
<1>2. StoreTypeOK'
  BY <1>1 DEF StoreTypeOK
<1>3. InnerOK' /\ closed' \in BOOLEAN
  BY <1>1 DEF InnerOK
<1>4. ThreadsOK'
  BY <1>1 DEF ThreadsOK
<1>5. HistoryOK'
  BY <1>1 DEF HistoryOK
<1>6. InCall'
  <2>1. \A q \in Producers : ppc'[q] # "idle" =>
          /\ ppc'[q] \in {"apply", "flush", "giveback"} => ppc[q] \in {"apply", "flush", "giveback"}
          /\ ppc'[q] \in {"waiting", "woken"} => ppc[q] \in {"waiting", "woken"}
    OBVIOUS
  <2> QED
    BY <1>1, <2>1 DEF InCall
<1> QED
  BY <1>2, <1>3, <1>4, <1>5, <1>6 DEF TypeInv, TypeOK

(* The end of a call of group_commit.                                      *)
LEMMA OutcomeEffect ==
  ASSUME TypeInv, NEW p \in Producers, ppc[p] \in {"apply", "flush"}, NEW result, Outcome(p, result)
  PROVE  /\ ppc' = [ppc EXCEPT ![p] = IF result = "ok" THEN "idle" ELSE "apply"]
         /\ pitem' \in [Producers -> Values] /\ accepted' \in SUBSET Items
         /\ \A q \in Producers : ppc'[q] # "idle" => pitem'[q] = pitem[q]
<1>1. ThreadsOK /\ HistoryOK /\ InCall
  BY DEF TypeInv, TypeOK
<1>2. CASE result = "ok"
  <2>1. /\ accepted' = accepted \cup {pitem[p]} /\ ppc' = [ppc EXCEPT ![p] = "idle"]
        /\ pitem' = [pitem EXCEPT ![p] = NoItem]
    BY <1>2 DEF Outcome
  <2> QED
    BY <1>1, <1>2, <2>1 DEF ThreadsOK, HistoryOK, InCall
<1>3. CASE result # "ok"
  <2>1. ppc' = [ppc EXCEPT ![p] = "apply"] /\ UNCHANGED <<accepted, pitem>>
    BY <1>3 DEF Outcome
  <2> QED
    BY <1>1, <1>3, <2>1 DEF ThreadsOK, HistoryOK
<1> QED
  BY <1>2, <1>3

(* Every step of a queue with group commit keeps the types.                *)
LEMMA GroupTypeStep ==
  ASSUME TypeInv, DownInv, GroupOK, WriterInv, [GroupNext]_gqVars
  PROVE  TypeInv' /\ DownInv'
<1>1. StoreTypeOK /\ InnerOK /\ ThreadsOK /\ HistoryOK /\ InCall
  BY DEF TypeInv, TypeOK
<1>n. ASSUME [Next]_vars PROVE TypeInv' /\ DownInv'
  BY <1>n, TypeStep, DownStep
<1>2. ASSUME UNCHANGED commitFrame, TypeInv', NEW p \in Producers, ppc[p] \in {"apply", "flush"} PROVE DownInv'
  BY <1>2 DEF DownInv, commitFrame, innerVars, consVars, guardVars, Up
<1>3. ASSUME OtherStep \/ Crash PROVE TypeInv' /\ DownInv'
  BY <1>3, <1>n DEF OtherStep, Next, ProducerStep
<1>4. ASSUME NEW p \in Producers, GroupEnter(p) \/ SpuriousFollow(p) PROVE TypeInv' /\ DownInv'
  BY <1>4, <1>n DEF GroupEnter, SpuriousFollow
<1>5. ASSUME NEW p \in Producers, Alone(p) PROVE TypeInv' /\ DownInv'
  BY <1>5, <1>n DEF Alone, Next, ProducerStep
<1>6. ASSUME NEW p \in Producers, BatchApply(p) PROVE TypeInv' /\ DownInv'
  <2>1. UNCHANGED commitFrame /\ UNCHANGED <<pitem, accepted>> /\ ppc[p] \in {"apply", "flush"}
    BY <1>6 DEF BatchApply, commitFrame, histVars, WriterInv
  <2>2. live' \in [Seqs -> Values] /\ disk' \in [Seqs -> SUBSET Values]
    BY <1>1, <1>6 DEF BatchApply, StoreTypeOK, HistoryOK
  <2>3. ppc' = [q \in Producers |-> IF q \in batch THEN "flush" ELSE ppc[q]]
    BY <1>6 DEF BatchApply
  <2>4. \A q \in batch : q \in Producers /\ ppc[q] \in {"apply", "flush"}
    BY DEF WriterInv, GroupOK
  <2>5. ppc' \in [Producers -> ProducerPC]
    BY <1>1, <2>3 DEF ThreadsOK, ProducerPC
  <2>6. pitem' \in [Producers -> Values] /\ accepted' \in SUBSET Items
    BY <1>1, <2>1 DEF ThreadsOK, HistoryOK
  <2>7. TypeInv'
    BY <2>1, <2>2, <2>3, <2>4, <2>5, <2>6, CommitTypes
  <2> QED
    BY <1>2, <2>1, <2>7
<1>7. ASSUME NEW p \in Producers, NEW result, ppc[p] \in {"apply", "flush"}, UNCHANGED commitFrame, UNCHANGED live,
             disk' \in [Seqs -> SUBSET Values], Outcome(p, result) \/ UNCHANGED <<ppc, pitem, accepted>>
      PROVE  TypeInv' /\ DownInv'
  <2>1. live' \in [Seqs -> Values]
    BY <1>1, <1>7 DEF StoreTypeOK
  <2>2. CASE Outcome(p, result)
    <3>1. /\ ppc' = [ppc EXCEPT ![p] = IF result = "ok" THEN "idle" ELSE "apply"]
          /\ pitem' \in [Producers -> Values] /\ accepted' \in SUBSET Items
          /\ \A q \in Producers : ppc'[q] # "idle" => pitem'[q] = pitem[q]
      BY <1>7, <2>2, OutcomeEffect
    <3>2. ppc' \in [Producers -> ProducerPC]
      BY <1>1, <3>1 DEF ThreadsOK, ProducerPC
    <3>3. \A q \in Producers : ppc'[q] # ppc[q] =>
            ppc'[q] = "idle" \/ (ppc'[q] \in {"apply", "flush"} /\ ppc[q] \in {"apply", "flush"})
      BY <1>1, <1>7, <3>1 DEF ThreadsOK
    <3>4. TypeInv'
      BY <1>7, <2>1, <3>1, <3>2, <3>3, CommitTypes
    <3> QED
      BY <1>2, <1>7, <3>4
  <2>3. CASE UNCHANGED <<ppc, pitem, accepted>>
    <3>1. ppc' \in [Producers -> ProducerPC] /\ pitem' \in [Producers -> Values] /\ accepted' \in SUBSET Items
      BY <1>1, <2>3 DEF ThreadsOK, HistoryOK
    <3>2. TypeInv'
      BY <1>7, <2>1, <2>3, <3>1, CommitTypes
    <3> QED
      BY <1>2, <1>7, <3>2
  <2> QED
    BY <1>7, <2>2, <2>3
<1>8. ASSUME NEW p \in Producers, BatchOk(p) \/ BatchErr(p) PROVE TypeInv' /\ DownInv'
  <2>1. PICK result : Record(p, result)
    BY <1>8 DEF BatchOk, BatchErr
  <2>2. (\E r : Outcome(p, r)) \/ UNCHANGED <<ppc, pitem, accepted>>
    BY <2>1 DEF Record
  <2>3. UNCHANGED commitFrame /\ UNCHANGED live /\ ppc[p] \in {"apply", "flush"}
    BY <1>8 DEF BatchOk, BatchErr, commitFrame, storeVars, WriterInv
  <2>4. disk' \in [Seqs -> SUBSET Values]
    BY <1>1, <1>8 DEF BatchOk, BatchErr, storeVars, StoreTypeOK
  <2> QED
    BY <1>7, <2>2, <2>3, <2>4
<1>9. ASSUME NEW p \in Producers, Follow(p) PROVE TypeInv' /\ DownInv'
  <2>1. CASE UNCHANGED vars
    BY <2>1, <1>n
  <2>2. CASE ~UNCHANGED vars
    <3>1. (\E r : Outcome(p, r)) /\ UNCHANGED commitFrame /\ UNCHANGED <<live, disk>> /\ ppc[p] \in {"apply", "flush"}
      BY <1>9, <2>2 DEF Follow, commitFrame, storeVars, WriterInv
    <3>2. disk' \in [Seqs -> SUBSET Values]
      BY <1>1, <3>1 DEF StoreTypeOK
    <3> QED
      BY <1>7, <3>1, <3>2
  <2> QED
    BY <2>1, <2>2
<1>10. CASE UNCHANGED gqVars
  BY <1>10, <1>n DEF gqVars
<1> QED
  BY <1>3, <1>4, <1>5, <1>6, <1>8, <1>9, <1>10 DEF GroupNext, GroupCommitStep

-----------------------------------------------------------------------------
(* Followers.                                                              *)

(* Everything about the group state that holds over any backend.           *)
ServeInv == GroupOK /\ ClaimInv /\ WriterInv /\ FollowersServed

(* The leader is the only one.                                             *)
LEMMA OneLeader ==
  ASSUME ServeInv, NEW p \in Leaders
  PROVE  flushing /\ \A q \in Leaders : q = p
  BY DEF ServeInv, FollowersServed

(* Steps outside the commit do not touch those inside.                     *)
LEMMA OtherServes ==
  ASSUME TypeInv, DownInv, ServeInv, OtherStep, UNCHANGED groupVars
  PROVE  ServeInv'
<1>1. ThreadsOK /\ InnerOK /\ InCall
  BY DEF TypeInv, TypeOK
<1>2. GroupOK /\ ClaimInv /\ WriterInv /\ FollowersServed
  BY DEF ServeInv
<1>3. UNCHANGED <<pending, flushing, done, batch, wpc>>
  BY DEF groupVars
<1>4. GroupOK' /\ Leaders' = Leaders
  BY <1>2, <1>3 DEF GroupOK, Leaders
<1>5. CASE LeavesCommits
  <2>1. /\ \A q \in Producers : ppc[q] \in {"apply", "flush"} => ppc'[q] = ppc[q]
        /\ \A q \in Producers : ppc'[q] \in {"apply", "flush"} => ppc[q] = ppc'[q]
        /\ pseq' = pseq
    BY <1>5 DEF LeavesCommits
  <2>2. ClaimInv'
    BY <1>2, <1>5 DEF ClaimInv, LeavesCommits
  <2>3. WriterInv'
    <3>1. /\ \A q \in Producers : wpc[q] # "out" => ppc'[q] \in {"apply", "flush"} /\ ppc'[q] = ppc[q]
          /\ \A q \in Producers : ppc'[q] = "flush" => wpc[q] # "out"
      BY <1>2, <2>1 DEF WriterInv
    <3>2. /\ \A q \in pending : ppc'[q] = ppc[q]
          /\ \A q \in batch : ppc'[q] = ppc[q]
      BY <1>2, <3>1 DEF WriterInv, GroupOK
    <3> QED
      BY <1>2, <1>3, <1>4, <2>1, <3>1, <3>2 DEF WriterInv
  <2>4. FollowersServed'
    BY <1>2, <1>3, <1>4, <2>1 DEF FollowersServed
  <2> QED
    BY <1>4, <2>2, <2>3, <2>4 DEF ServeInv
<1>6. ASSUME NEW p \in Producers, ClaimsOne(p) PROVE ServeInv'
  <2>1. /\ ppc[p] \in {"idle", "woken"} /\ tail \in Seqs /\ tail' = tail + 1
        /\ ppc' = [ppc EXCEPT ![p] = "apply"] /\ pseq' = [pseq EXCEPT ![p] = tail]
    BY <1>6 DEF ClaimsOne
  <2>2. wpc[p] = "out" /\ p \notin pending /\ p \notin batch /\ p \notin Leaders
    BY <1>2, <2>1 DEF WriterInv, Leaders
  <2>3. \A q \in Producers \ {p} : ppc'[q] = ppc[q] /\ pseq'[q] = pseq[q]
    BY <1>1, <2>1 DEF ThreadsOK
  <2>4. ppc'[p] = "apply" /\ pseq'[p] = tail
    BY <1>1, <2>1 DEF ThreadsOK
  <2>5. ClaimInv'
    BY <1>1, <1>2, <2>1, <2>3, <2>4 DEF ClaimInv, InCall
  <2>6. WriterInv'
    BY <1>2, <1>3, <1>4, <2>2, <2>3, <2>4 DEF WriterInv, GroupOK
  <2>7. FollowersServed'
    <3>1. \A q \in Producers : wpc[q] # "out" => pseq'[q] = pseq[q]
      BY <2>2, <2>3
    <3> QED
      BY <1>2, <1>3, <1>4, <3>1 DEF FollowersServed
  <2> QED
    BY <1>4, <2>5, <2>6, <2>7 DEF ServeInv
<1> QED
  BY <1>5, <1>6, OtherEffect

(* A crash clears the group state.                                         *)
LEMMA CrashServes ==
  ASSUME Crash, pending' = {}, batch' = {}, flushing' = FALSE, done' = [s \in Seqs |-> "none"],
         wpc' = [p \in Producers |-> "out"]
  PROVE  ServeInv'
<1>1. \A p \in Producers : ppc'[p] = "idle" /\ wpc'[p] = "out"
  BY DEF Crash
<1> QED
  BY <1>1 DEF ServeInv, GroupOK, ClaimInv, WriterInv, FollowersServed, Leaders, WriterPC

(* Entering: behind a leader, or as the leader.                            *)
LEMMA EnterServes ==
  ASSUME TypeInv, ServeInv, NEW p \in Producers, GroupEnter(p)
  PROVE  ServeInv'
<1>1. ThreadsOK /\ InCall
  BY DEF TypeInv, TypeOK
<1>2. GroupOK /\ ClaimInv /\ WriterInv /\ FollowersServed
  BY DEF ServeInv
<1>3. /\ ppc[p] = "apply" /\ wpc[p] = "out" /\ pseq[p] \in Seqs /\ UNCHANGED <<ppc, pseq, tail, done>>
      /\ p \notin pending /\ p \notin batch /\ p \notin Leaders
  BY <1>1, <1>2 DEF GroupEnter, vars, prodVars, innerVars, InCall, WriterInv, Leaders
<1>4. done[pseq[p]] = "none"
  BY <1>2, <1>3 DEF FollowersServed, ClaimInv, WriterInv
<1>5. ClaimInv'
  BY <1>2, <1>3 DEF ClaimInv
<1>6. CASE flushing
  <2>1. wpc' = [wpc EXCEPT ![p] = "wait"] /\ pending' = pending \cup {p} /\ UNCHANGED <<flushing, batch>>
    BY <1>6 DEF GroupEnter
  <2>2. GroupOK' /\ Leaders' = Leaders
    BY <1>2, <1>3, <2>1 DEF GroupOK, WriterPC, Leaders
  <2>3. WriterInv'
    BY <1>2, <1>3, <1>4, <2>1, <2>2 DEF WriterInv, GroupOK, Leaders
  <2>4. FollowersServed'
    BY <1>2, <1>3, <1>4, <1>6, <2>1, <2>2 DEF FollowersServed, GroupOK
  <2> QED
    BY <1>5, <2>2, <2>3, <2>4 DEF ServeInv
<1>7. CASE ~flushing
  <2>1. Leaders = {} /\ pending = {} /\ batch = {}
    BY <1>2, <1>7 DEF FollowersServed
  <2>2. wpc' = [wpc EXCEPT ![p] = "commit"] /\ flushing' = TRUE /\ batch' = {p} /\ pending' = {}
    BY <1>7, <2>1 DEF GroupEnter
  <2>3. GroupOK' /\ Leaders' = {p}
    <3>1. wpc' \in [Producers -> WriterPC] /\ wpc'[p] = "commit" /\ \A q \in Producers \ {p} : wpc'[q] = wpc[q]
      BY <1>2, <2>2 DEF GroupOK, WriterPC
    <3>2. \A q \in Producers : wpc[q] \notin {"commit", "flush"}
      BY <2>1 DEF Leaders
    <3>3. Leaders' = {p}
      BY <3>1, <3>2 DEF Leaders
    <3> QED
      BY <1>2, <1>3, <2>2, <3>1, <3>3 DEF GroupOK
  <2>4. WriterInv'
    BY <1>2, <1>3, <1>4, <2>1, <2>2, <2>3 DEF WriterInv, GroupOK, Leaders
  <2>5. FollowersServed'
    <3>1. \A q \in Producers : wpc'[q] # "wait"
      BY <1>2, <2>1, <2>2 DEF FollowersServed, GroupOK
    <3>2. \A q \in Producers : wpc[q] \in {"woken", "commit", "flush"} => wpc'[q] = wpc[q]
      BY <1>2, <1>3, <2>2 DEF GroupOK
    <3> QED
      BY <1>2, <1>3, <2>2, <2>3, <3>1, <3>2 DEF FollowersServed
  <2> QED
    BY <1>5, <2>3, <2>4, <2>5 DEF ServeInv
<1> QED
  BY <1>6, <1>7

(* The batch becomes visible.                                              *)
LEMMA ApplyServes ==
  ASSUME TypeInv, ServeInv, NEW p \in Producers, BatchApply(p)
  PROVE  ServeInv'
<1>1. ThreadsOK
  BY DEF TypeInv, TypeOK
<1>2. GroupOK /\ ClaimInv /\ WriterInv /\ FollowersServed
  BY DEF ServeInv
<1>3. /\ wpc[p] = "commit" /\ wpc' = [wpc EXCEPT ![p] = "flush"]
      /\ ppc' = [q \in Producers |-> IF q \in batch THEN "flush" ELSE ppc[q]]
      /\ UNCHANGED <<pending, flushing, done, batch, pseq, tail>>
  BY DEF BatchApply, innerVars
<1>4. p \in Leaders /\ \A q \in Leaders : q = p
  BY <1>3, OneLeader DEF Leaders
<1>5. GroupOK' /\ Leaders' = {p}
  BY <1>2, <1>3, <1>4 DEF GroupOK, WriterPC, Leaders
<1>6. \A q \in Producers : ppc'[q] \in {"apply", "flush"} <=> ppc[q] \in {"apply", "flush"}
  BY <1>2, <1>3 DEF WriterInv
<1>7. ClaimInv'
  BY <1>2, <1>3, <1>6 DEF ClaimInv
<1>8. WriterInv'
  BY <1>2, <1>3, <1>4, <1>5, <1>6 DEF WriterInv, GroupOK
<1>9. FollowersServed'
  <2>1. \A q \in Producers :
          /\ wpc'[q] = "wait" => wpc[q] = "wait"
          /\ wpc[q] \in {"woken", "commit", "flush"} => wpc'[q] \in {"woken", "commit", "flush"}
    BY <1>2, <1>3 DEF GroupOK
  <2>2. flushing
    BY <1>4, OneLeader
  <2> QED
    BY <1>2, <1>3, <1>5, <2>1, <2>2 DEF FollowersServed
<1> QED
  BY <1>5, <1>7, <1>8, <1>9 DEF ServeInv

(* The leader records the outcome, wakes the followers, and goes on or     *)
(* leaves.                                                                 *)
LEMMA RecordServes ==
  ASSUME TypeInv, ServeInv, NEW p \in Producers, wpc[p] \in {"commit", "flush"}, NEW result \in {"ok", "err"},
         Record(p, result), UNCHANGED <<pseq, tail>>
  PROVE  ServeInv'
<1>1. ThreadsOK /\ InCall
  BY DEF TypeInv, TypeOK
<1>2. GroupOK /\ ClaimInv /\ WriterInv /\ FollowersServed
  BY DEF ServeInv
<1>3. p \in Leaders /\ (\A q \in Leaders : q = p) /\ flushing
  BY OneLeader DEF Leaders
<1>4. /\ ppc[p] \in {"apply", "flush"} /\ pseq[p] \in Seqs
      /\ \A q \in pending \cup batch : q \in Producers /\ ppc[q] \in {"apply", "flush"} /\ pseq[q] \in Seqs
      /\ \A q \in Producers : wpc[q] \in {"wait", "woken"} => ppc[q] \in {"apply", "flush"} /\ pseq[q] \in Seqs
  BY <1>1, <1>2 DEF WriterInv, GroupOK, InCall
<1>5. \A q, r \in Producers :
        ppc[q] \in {"apply", "flush"} /\ ppc[r] \in {"apply", "flush"} /\ pseq[q] = pseq[r] => q = r
  BY <1>2 DEF ClaimInv
<1> DEFINE recorded == [s \in Seqs |-> IF s \in SeqsOf(batch) THEN result ELSE done[s]]
<1>6. /\ recorded \in [Seqs -> {"none", "ok", "err"}]
      /\ \A q \in batch : recorded[pseq[q]] = result
      /\ \A q \in Producers : ppc[q] \in {"apply", "flush"} /\ pseq[q] \in Seqs /\ q \notin batch => recorded[pseq[q]] = done[pseq[q]]
      /\ \A s \in Seqs : recorded[s] # "none" => done[s] # "none" \/ \E q \in batch : pseq[q] = s
  <2>1. \A s : s \in SeqsOf(batch) <=> \E q \in batch : pseq[q] = s
    BY DEF SeqsOf
  <2>2. recorded \in [Seqs -> {"none", "ok", "err"}]
    BY <1>2 DEF GroupOK
  <2>3. ASSUME NEW q \in Producers, ppc[q] \in {"apply", "flush"}, pseq[q] \in Seqs, q \notin batch
        PROVE  recorded[pseq[q]] = done[pseq[q]]
    <3>1. pseq[q] \notin SeqsOf(batch)
      BY <1>4, <1>5, <2>1, <2>3
    <3> QED
      BY <2>3, <3>1
  <2>4. \A q \in batch : recorded[pseq[q]] = result
    BY <1>4, <2>1
  <2> QED
    BY <2>1, <2>2, <2>3, <2>4
<1>7. recorded[pseq[p]] # "none"
  BY <1>2, <1>3, <1>4, <1>6 DEF WriterInv
<1>8. CASE pending = {}
  <2> DEFINE r == recorded[pseq[p]]
  <2>1. /\ batch' = {} /\ flushing' = FALSE /\ pending' = {}
        /\ done' = [recorded EXCEPT ![pseq[p]] = "none"]
        /\ Outcome(p, r) /\ GroupNotify(p, AfterOutcome(r))
    BY <1>8 DEF Record
  <2> HIDE DEF recorded
  <2>2. ppc' = [ppc EXCEPT ![p] = IF r = "ok" THEN "idle" ELSE "apply"]
    BY <1>4, <2>1, OutcomeEffect
  <2> HIDE DEF r
  <2>3. /\ wpc'[p] = (IF r = "ok" THEN "out" ELSE "alone")
        /\ \A q \in Producers \ {p} : wpc'[q] = IF wpc[q] = "wait" THEN "woken" ELSE wpc[q]
        /\ wpc' \in [Producers -> WriterPC]
    BY <1>2, <2>1 DEF GroupNotify, AfterOutcome, GroupOK, WriterPC
  <2>4. GroupOK'
    BY <1>6, <2>1, <2>3 DEF GroupOK
  <2>5. Leaders' = {}
    BY <1>3, <2>3 DEF Leaders
  <2>6. \A q \in Producers : ppc'[q] \in {"apply", "flush"} => ppc[q] \in {"apply", "flush"}
    BY <1>1, <1>4, <2>2 DEF ThreadsOK
  <2>7. ClaimInv'
    BY <1>2, <2>6 DEF ClaimInv
  <2>8. WriterInv'
    <3>1. \A q \in Producers :
            /\ wpc'[q] # "out" => ppc'[q] \in {"apply", "flush"}
            /\ ppc'[q] = "flush" => wpc'[q] # "out"
      BY <1>1, <1>2, <2>2, <2>3 DEF WriterInv, ThreadsOK
    <3>2. \A q \in Producers : wpc'[q] \in {"woken", "commit", "flush"} => done'[pseq[q]] # "none"
      <4> SUFFICES ASSUME NEW q \in Producers, wpc'[q] \in {"woken", "commit", "flush"} PROVE done'[pseq[q]] # "none"
        OBVIOUS
      <4>1. q # p /\ wpc[q] \in {"wait", "woken"}
        BY <1>3, <2>3 DEF Leaders
      <4>2. ppc[q] \in {"apply", "flush"} /\ pseq[q] \in Seqs /\ pseq[q] # pseq[p]
        BY <1>4, <1>5, <4>1
      <4>3. q \in batch \/ done[pseq[q]] # "none"
        BY <1>2, <1>8, <4>1 DEF WriterInv, FollowersServed
      <4>4. recorded[pseq[q]] # "none"
        BY <1>6, <4>2, <4>3
      <4> QED
        BY <1>6, <2>1, <4>2, <4>4
    <3>3. \A q \in Producers : wpc'[q] \in {"woken", "commit", "flush"} =>
            q \in pending' \cup batch' \/ done'[pseq'[q]] # "none"
      BY <3>2
    <3>4. pending' = {} /\ batch' = {} /\ pending' \cup batch' = {}
      BY <2>1
    <3> QED
      BY <2>5, <3>1, <3>3, <3>4 DEF WriterInv
  <2>9. FollowersServed'
    <3>1. \A q \in Producers : wpc'[q] # "wait"
      BY <2>3
    <3>2. ASSUME NEW s \in Seqs, done'[s] # "none"
          PROVE  \E q \in Producers : pseq[q] = s /\ wpc'[q] \in {"woken", "commit", "flush"}
      <4>1. s # pseq[p] /\ recorded[s] # "none"
        BY <1>4, <1>6, <2>1, <3>2
      <4>2. CASE \E q \in batch : pseq[q] = s
        <5>1. PICK q \in batch : pseq[q] = s
          BY <4>2
        <5>2. q # p /\ wpc[q] \in {"wait", "woken"}
          BY <1>2, <1>3, <1>4, <4>1, <5>1 DEF WriterInv, Leaders
        <5> QED
          BY <1>4, <2>3, <5>1, <5>2
      <4>3. CASE done[s] # "none"
        <5>1. PICK q \in Producers : pseq[q] = s /\ wpc[q] \in {"woken", "commit", "flush"}
          BY <1>2, <4>3 DEF FollowersServed
        <5> QED
          BY <2>3, <4>1, <5>1
      <4> QED
        BY <1>6, <4>1, <4>2, <4>3
    <3> QED
      BY <2>1, <2>5, <3>1, <3>2 DEF FollowersServed
  <2> QED
    BY <2>4, <2>7, <2>8, <2>9 DEF ServeInv
<1>9. CASE pending # {}
  <2>1. /\ batch' = pending /\ pending' = {} /\ done' = recorded /\ GroupNotify(p, "commit")
        /\ UNCHANGED <<flushing, ppc>>
    BY <1>9 DEF Record
  <2> HIDE DEF recorded
  <2>2. /\ wpc'[p] = "commit"
        /\ \A q \in Producers \ {p} : wpc'[q] = IF wpc[q] = "wait" THEN "woken" ELSE wpc[q]
        /\ wpc' \in [Producers -> WriterPC]
    BY <1>2, <2>1 DEF GroupNotify, GroupOK, WriterPC
  <2>3. GroupOK'
    BY <1>2, <1>6, <2>1, <2>2 DEF GroupOK
  <2>4. Leaders' = {p}
    BY <1>3, <2>2 DEF Leaders
  <2>5. ClaimInv'
    BY <1>2, <2>1 DEF ClaimInv
  <2>6. WriterInv'
    <3>1. \A q \in Producers :
            /\ wpc'[q] # "out" => ppc'[q] \in {"apply", "flush"}
            /\ ppc'[q] = "flush" => wpc'[q] # "out"
      BY <1>2, <2>1, <2>2 DEF WriterInv
    <3>2. \A q \in Producers : wpc'[q] \in {"woken", "commit", "flush"} => q \in batch' \/ done'[pseq[q]] # "none"
      <4> SUFFICES ASSUME NEW q \in Producers, wpc'[q] \in {"woken", "commit", "flush"}
                   PROVE q \in pending \/ recorded[pseq[q]] # "none"
        BY <2>1
      <4>1. CASE q = p
        BY <1>7, <4>1
      <4>2. CASE q # p
        <5>1. wpc[q] \in {"wait", "woken"}
          BY <1>3, <2>2, <4>2 DEF Leaders
        <5>2. q \in pending \cup batch \/ done[pseq[q]] # "none"
          BY <1>2, <5>1 DEF WriterInv, FollowersServed
        <5> QED
          BY <1>4, <1>6, <5>1, <5>2
      <4> QED
        BY <4>1, <4>2
    <3>3. \A q \in batch' :
            /\ wpc'[q] \in {"wait", "woken", "commit", "flush"} /\ ppc'[q] = "apply"
            /\ done'[pseq[q]] = "none"
      <4> SUFFICES ASSUME NEW q \in pending
                   PROVE wpc'[q] \in {"wait", "woken", "commit", "flush"} /\ ppc[q] = "apply" /\ recorded[pseq[q]] = "none"
        BY <2>1
      <4>1. q \in Producers /\ wpc[q] \in {"wait", "woken"} /\ ppc[q] = "apply" /\ q \notin batch /\ done[pseq[q]] = "none"
        BY <1>2 DEF WriterInv, GroupOK
      <4> QED
        BY <1>4, <1>6, <2>2, <4>1
    <3>4. \A q \in Producers : wpc'[q] \in {"woken", "commit", "flush"} =>
            q \in pending' \cup batch' \/ done'[pseq'[q]] # "none"
      BY <3>2
    <3>5. \A q \in pending' \cup batch' : done'[pseq'[q]] = "none"
      BY <2>1, <3>3
    <3>6. \A l \in Leaders' : \A q \in batch' : ppc'[q] = IF wpc'[l] = "commit" THEN "apply" ELSE "flush"
      BY <2>2, <2>4, <3>3
    <3>7. pending' = {}
      BY <2>1
    <3>8. \A q \in batch' : wpc'[q] \in {"wait", "woken", "commit", "flush"}
      BY <3>3
    <3> QED
      BY <3>1, <3>4, <3>5, <3>6, <3>7, <3>8, Zenon DEF WriterInv
  <2>7. FollowersServed'
    <3>1. \A q \in Producers : wpc'[q] # "wait"
      BY <2>2
    <3>2. ASSUME NEW s \in Seqs, done'[s] # "none"
          PROVE  \E q \in Producers : pseq[q] = s /\ wpc'[q] \in {"woken", "commit", "flush"}
      <4>1. CASE \E q \in batch : pseq[q] = s
        <5>1. PICK q \in batch : pseq[q] = s
          BY <4>1
        <5>2. q \in Producers /\ wpc[q] \in {"wait", "woken", "commit", "flush"}
          BY <1>2 DEF WriterInv, GroupOK
        <5> QED
          BY <2>2, <5>1, <5>2
      <4>2. CASE done[s] # "none"
        <5>1. PICK q \in Producers : pseq[q] = s /\ wpc[q] \in {"woken", "commit", "flush"}
          BY <1>2, <4>2 DEF FollowersServed
        <5> QED
          BY <2>2, <5>1
      <4> QED
        BY <1>6, <2>1, <3>2, <4>1, <4>2
    <3> QED
      BY <1>3, <2>1, <2>4, <3>1, <3>2 DEF FollowersServed
  <2> QED
    BY <2>3, <2>5, <2>6, <2>7 DEF ServeInv
<1> QED
  BY <1>8, <1>9

(* A follower that is awake collects its outcome and leaves, or sleeps on. *)
LEMMA FollowServes ==
  ASSUME TypeInv, ServeInv, NEW p \in Producers, Follow(p)
  PROVE  ServeInv'
<1>1. ThreadsOK /\ InCall
  BY DEF TypeInv, TypeOK
<1>2. GroupOK /\ ClaimInv /\ WriterInv /\ FollowersServed
  BY DEF ServeInv
<1>3. wpc[p] = "woken" /\ ppc[p] \in {"apply", "flush"} /\ pseq[p] \in Seqs /\ p \notin Leaders
  BY <1>1, <1>2 DEF Follow, WriterInv, InCall, Leaders
<1>4. UNCHANGED <<pending, flushing, batch, pseq, tail>>
  BY DEF Follow, vars, innerVars, prodVars
<1>5. CASE done[pseq[p]] = "none"
  <2>1. wpc' = [wpc EXCEPT ![p] = "wait"] /\ UNCHANGED <<ppc, done>>
    BY <1>5 DEF Follow, vars, prodVars
  <2>2. wpc'[p] = "wait" /\ \A q \in Producers \ {p} : wpc'[q] = wpc[q]
    BY <1>2, <2>1 DEF GroupOK
  <2>3. p \in pending \cup batch
    BY <1>2, <1>3, <1>5 DEF WriterInv
  <2>4. GroupOK' /\ Leaders' = Leaders
    BY <1>2, <1>3, <1>4, <2>1, <2>2 DEF GroupOK, WriterPC, Leaders
  <2>5. ClaimInv'
    BY <1>2, <1>4, <2>1 DEF ClaimInv
  <2>6. WriterInv'
    BY <1>2, <1>3, <1>4, <2>1, <2>2, <2>4 DEF WriterInv, GroupOK, Leaders
  <2>7. FollowersServed'
    <3>1. \A s \in Seqs : done[s] # "none" =>
            \E q \in Producers : pseq[q] = s /\ wpc'[q] \in {"woken", "commit", "flush"}
      BY <1>2, <1>5, <2>2 DEF FollowersServed
    <3> QED
      BY <1>2, <1>4, <1>5, <2>1, <2>2, <2>3, <2>4, <3>1 DEF FollowersServed
  <2> QED
    BY <2>4, <2>5, <2>6, <2>7 DEF ServeInv
<1>6. CASE done[pseq[p]] # "none"
  <2> DEFINE r == done[pseq[p]]
  <2>1. /\ done' = [done EXCEPT ![pseq[p]] = "none"] /\ Outcome(p, r)
        /\ wpc' = [wpc EXCEPT ![p] = AfterOutcome(r)]
    BY <1>6 DEF Follow
  <2>2. ppc' = [ppc EXCEPT ![p] = IF r = "ok" THEN "idle" ELSE "apply"]
    BY <1>3, <2>1, OutcomeEffect
  <2> HIDE DEF r
  <2>3. /\ wpc'[p] = (IF r = "ok" THEN "out" ELSE "alone")
        /\ \A q \in Producers \ {p} : wpc'[q] = wpc[q]
        /\ wpc' \in [Producers -> WriterPC]
    BY <1>2, <2>1 DEF AfterOutcome, GroupOK, WriterPC
  <2>4. /\ ppc'[p] = (IF r = "ok" THEN "idle" ELSE "apply")
        /\ \A q \in Producers \ {p} : ppc'[q] = ppc[q]
    BY <1>1, <2>2 DEF ThreadsOK
  <2>5. p \notin pending /\ p \notin batch
    BY <1>2, <1>6 DEF WriterInv
  <2>6. GroupOK' /\ Leaders' = Leaders
    BY <1>2, <1>3, <1>4, <2>1, <2>3 DEF GroupOK, Leaders
  <2>7. ClaimInv'
    BY <1>2, <1>3, <1>4, <2>4 DEF ClaimInv
  <2>8. \A q \in Producers \ {p} : wpc[q] # "out" => done'[pseq[q]] = done[pseq[q]]
    BY <1>1, <1>2, <1>3, <2>1 DEF WriterInv, ClaimInv, InCall, GroupOK
  <2>9. WriterInv'
    <3>1. \A q \in pending \cup batch : q \in Producers /\ q # p /\ wpc[q] # "out"
      BY <1>2, <2>5 DEF WriterInv, GroupOK
    <3> QED
      BY <1>2, <1>3, <1>4, <2>3, <2>4, <2>6, <2>8, <3>1 DEF WriterInv, Leaders
  <2>10. FollowersServed'
    <3>1. ASSUME NEW s \in Seqs, done'[s] # "none"
          PROVE  \E q \in Producers : pseq[q] = s /\ wpc'[q] \in {"woken", "commit", "flush"}
      <4>1. s # pseq[p] /\ done[s] # "none"
        BY <1>2, <1>3, <2>1, <3>1 DEF GroupOK
      <4>2. PICK q \in Producers : pseq[q] = s /\ wpc[q] \in {"woken", "commit", "flush"}
        BY <1>2, <4>1 DEF FollowersServed
      <4> QED
        BY <2>3, <4>1, <4>2
    <3>2. \A q \in Producers : wpc'[q] = "wait" => done'[pseq[q]] = "none" /\ q \in pending \cup batch
      BY <1>2, <2>3, <2>8 DEF FollowersServed
    <3> QED
      BY <1>2, <1>4, <2>6, <3>1, <3>2 DEF FollowersServed
  <2> QED
    BY <2>6, <2>7, <2>9, <2>10 DEF ServeInv
<1> QED
  BY <1>5, <1>6

(* Waking for nothing changes nothing.                                     *)
LEMMA SpuriousServes ==
  ASSUME TypeInv, ServeInv, NEW p \in Producers, SpuriousFollow(p)
  PROVE  ServeInv'
<1>2. GroupOK /\ ClaimInv /\ WriterInv /\ FollowersServed
  BY DEF ServeInv
<1>3. /\ wpc[p] = "wait" /\ UNCHANGED <<pending, flushing, done, batch, ppc, pseq, tail>>
      /\ wpc' = [wpc EXCEPT ![p] = "woken"]
  BY DEF SpuriousFollow, vars, innerVars, prodVars
<1>4. wpc'[p] = "woken" /\ \A q \in Producers \ {p} : wpc'[q] = wpc[q]
  BY <1>2, <1>3 DEF GroupOK
<1>5. GroupOK' /\ Leaders' = Leaders
  BY <1>2, <1>3, <1>4 DEF GroupOK, WriterPC, Leaders
<1>6. ClaimInv'
  BY <1>2, <1>3 DEF ClaimInv
<1>7. WriterInv'
  BY <1>2, <1>3, <1>4, <1>5 DEF WriterInv, FollowersServed, GroupOK, Leaders
<1>8. FollowersServed'
  <2>1. \A q \in Producers : wpc[q] \in {"woken", "commit", "flush"} => wpc'[q] = wpc[q]
    BY <1>3, <1>4
  <2> QED
    BY <1>2, <1>3, <1>4, <1>5, <2>1 DEF FollowersServed
<1> QED
  BY <1>5, <1>6, <1>7, <1>8 DEF ServeInv

(* A caller committing its own entry is no longer the group's.             *)
LEMMA AloneServes ==
  ASSUME TypeInv, ServeInv, NEW p \in Producers, Alone(p)
  PROVE  ServeInv'
<1>1. ThreadsOK /\ InCall
  BY DEF TypeInv, TypeOK
<1>2. GroupOK /\ ClaimInv /\ WriterInv /\ FollowersServed
  BY DEF ServeInv
<1>3. /\ wpc[p] = "alone" /\ UNCHANGED <<pending, flushing, done, batch, pseq, tail>>
      /\ \/ ppc' = [ppc EXCEPT ![p] = "flush"] /\ wpc' = wpc
         \/ \E pc \in {"idle", "giveback"} : ppc' = [ppc EXCEPT ![p] = pc] /\ wpc' = [wpc EXCEPT ![p] = "out"]
  BY DEF Alone, WriteApply, WriteOk, WriteErr, innerVars
<1>4. ppc[p] \in {"apply", "flush"} /\ p \notin pending /\ p \notin batch /\ p \notin Leaders
  BY <1>2, <1>3 DEF WriterInv, Leaders
<1>5. /\ (ppc'[p] = "flush" /\ wpc'[p] = "alone") \/ (ppc'[p] \in {"idle", "giveback"} /\ wpc'[p] = "out")
      /\ \A q \in Producers \ {p} : ppc'[q] = ppc[q] /\ wpc'[q] = wpc[q]
      /\ wpc' \in [Producers -> WriterPC]
  <2>1. CASE ppc' = [ppc EXCEPT ![p] = "flush"] /\ wpc' = wpc
    BY <1>1, <1>2, <1>3, <2>1 DEF ThreadsOK, GroupOK
  <2>2. ASSUME NEW pc \in {"idle", "giveback"}, ppc' = [ppc EXCEPT ![p] = pc] /\ wpc' = [wpc EXCEPT ![p] = "out"]
        PROVE  /\ ppc'[p] = pc /\ wpc'[p] = "out"
               /\ \A q \in Producers \ {p} : ppc'[q] = ppc[q] /\ wpc'[q] = wpc[q]
               /\ wpc' \in [Producers -> WriterPC]
    BY <1>1, <1>2, <2>2 DEF ThreadsOK, GroupOK, WriterPC
  <2> QED
    BY <1>3, <2>1, <2>2
<1>6. GroupOK' /\ Leaders' = Leaders
  BY <1>2, <1>3, <1>4, <1>5 DEF GroupOK, Leaders
<1>7. ClaimInv'
  BY <1>2, <1>3, <1>4, <1>5 DEF ClaimInv
<1>8. WriterInv'
  <2>1. \A q \in pending \cup batch : q \in Producers \ {p}
    BY <1>2, <1>4 DEF GroupOK
  <2>2. \A q \in Leaders : q \in Producers \ {p}
    BY <1>4 DEF Leaders
  <2>3. \A q \in Producers :
          /\ wpc'[q] # "out" => ppc'[q] \in {"apply", "flush"}
          /\ ppc'[q] = "flush" => wpc'[q] # "out"
          /\ wpc'[q] \in {"woken", "commit", "flush"} => q \in pending \cup batch \/ done[pseq[q]] # "none"
    BY <1>2, <1>5 DEF WriterInv
  <2> QED
    BY <1>2, <1>3, <1>5, <1>6, <2>1, <2>2, <2>3 DEF WriterInv
<1>9. FollowersServed'
  <2>1. \A q \in Producers :
          /\ wpc[q] \in {"woken", "commit", "flush"} => wpc'[q] = wpc[q]
          /\ wpc'[q] = "wait" => wpc[q] = "wait"
    BY <1>3, <1>5
  <2> QED
    BY <1>2, <1>3, <1>6, <2>1 DEF FollowersServed
<1> QED
  BY <1>6, <1>7, <1>8, <1>9 DEF ServeInv

(* Nobody is in group_commit before the first open.                        *)
LEMMA ServeInit == Init /\ GroupInit => TypeInv /\ DownInv /\ ServeInv
<1> SUFFICES ASSUME Init, GroupInit PROVE DownInv /\ ServeInv
  BY TypeInit
<1>1. DownInv
  BY DEF Init, DownInv, Up
<1>2. \A p \in Producers : ppc[p] = "idle" /\ wpc[p] = "out"
  BY DEF Init, GroupInit
<1>3. pending = {} /\ batch = {} /\ flushing = FALSE /\ Leaders = {} /\ \A s \in Seqs : done[s] = "none"
  BY <1>2 DEF GroupInit, Leaders
<1>4. GroupOK
  BY DEF GroupInit, GroupOK, WriterPC
<1> QED
  BY <1>1, <1>2, <1>3, <1>4 DEF ServeInv, ClaimInv, WriterInv, FollowersServed

(* Every step keeps every caller of group_commit served.                   *)
LEMMA ServeStep == TypeInv /\ DownInv /\ ServeInv /\ [GroupNext]_gqVars => TypeInv' /\ DownInv' /\ ServeInv'
<1> SUFFICES ASSUME TypeInv, DownInv, ServeInv, [GroupNext]_gqVars PROVE TypeInv' /\ DownInv' /\ ServeInv'
  OBVIOUS
<1>1. TypeInv' /\ DownInv'
  BY GroupTypeStep DEF ServeInv
<1>2. CASE OtherStep /\ UNCHANGED groupVars
  BY <1>1, <1>2, OtherServes
<1>3. CASE Crash /\ pending' = {} /\ batch' = {} /\ flushing' = FALSE
           /\ done' = [s \in Seqs |-> "none"] /\ wpc' = [p \in Producers |-> "out"]
  BY <1>1, <1>3, CrashServes
<1>4. ASSUME NEW p \in Producers, GroupCommitStep(p) \/ SpuriousFollow(p) PROVE ServeInv'
  <2>1. CASE BatchOk(p) \/ BatchErr(p)
    <3>1. wpc[p] \in {"commit", "flush"} /\ (Record(p, "ok") \/ Record(p, "err")) /\ UNCHANGED <<pseq, tail>>
      BY <2>1 DEF BatchOk, BatchErr, innerVars
    <3> QED
      BY <3>1, RecordServes
  <2>2. CASE BatchApply(p)
    BY <2>2, ApplyServes
  <2>3. CASE GroupEnter(p)
    BY <2>3, EnterServes
  <2>4. CASE Follow(p)
    BY <2>4, FollowServes
  <2>5. CASE SpuriousFollow(p)
    BY <2>5, SpuriousServes
  <2>6. CASE Alone(p)
    BY <2>6, AloneServes
  <2> QED
    BY <1>4, <2>1, <2>2, <2>3, <2>4, <2>5, <2>6 DEF GroupCommitStep
<1>5. CASE UNCHANGED gqVars
  <2>1. UNCHANGED <<pending, flushing, done, batch, wpc, ppc, pseq, tail>>
    BY <1>5 DEF gqVars, groupVars, vars, innerVars, prodVars
  <2>2. Leaders' = Leaders
    BY <2>1 DEF Leaders
  <2> QED
    BY <1>1, <2>1, <2>2 DEF ServeInv, GroupOK, ClaimInv, WriterInv, FollowersServed
<1> QED
  BY <1>1, <1>2, <1>3, <1>4, <1>5 DEF GroupNext

(* The group's invariant holds throughout.                                 *)
LEMMA ServeAlways == GroupSpec => [](TypeInv /\ DownInv /\ ServeInv)
  BY ServeInit, ServeStep, PTL DEF GroupSpec

(* However many producers share a queue, over any backend, whatever fails, *)
(* wakes for nothing or crashes: no follower of a group commit is left     *)
(* asleep without a leader or with its outcome already recorded, there is  *)
(* one leader, and no outcome is left behind for nobody.                   *)
THEOREM NoFollowerForgotten == GroupSpec => []FollowersServed
  BY ServeAlways, PTL DEF ServeInv

-----------------------------------------------------------------------------
(* A batch over a store whose failed commits leave nothing behind.         *)

(* The entries of the producers in B become visible.                       *)
Entering(B) ==
  /\ \A q \in B : ppc[q] = "apply"
  /\ live' = [s \in Seqs |-> IF s \in SeqsOf(B) THEN owner[s] ELSE live[s]]
  /\ disk' = [s \in Seqs |-> IF s \in SeqsOf(B) THEN disk[s] \cup {owner[s]} ELSE disk[s]]
  /\ ppc' = [q \in Producers |-> IF q \in B THEN "flush" ELSE ppc[q]]
  /\ UNCHANGED <<commitFrame, pitem, accepted>>

(* What is known of the entries that enter.                                *)
LEMMA EnteringFacts ==
  ASSUME CoreInv, NEW B \in SUBSET Producers, Entering(B)
  PROVE  /\ \A q \in B : /\ pseq[q] \in Seqs /\ pitem[q] \in Items /\ owner[pseq[q]] = pitem[q]
                         /\ live[pseq[q]] = NoItem /\ pitem[q] \notin accepted \cup deleted /\ pseq[q] < tail
         /\ \A s \in SeqsOf(B) : \E q \in B : s = pseq[q]
         /\ \A s \in Seqs : s \notin SeqsOf(B) => live'[s] = live[s] /\ disk'[s] = disk[s]
         /\ \A s \in Seqs : s \in SeqsOf(B) => live'[s] = owner[s] /\ disk'[s] = disk[s] \cup {owner[s]}
         /\ \A s \in Seqs : Committed(s) => s \notin SeqsOf(B)
         /\ \A q \in Producers \ B : ppc[q] \in {"apply", "flush", "giveback"} => pseq[q] \notin SeqsOf(B)
         /\ B # {} => Up
<1>1. TypeInv /\ SafeInv /\ ItemInv /\ HistoryInv /\ InCall
  BY DEF CoreInv, IdentityInv, TypeInv
<1>2. \A q \in B : q \in Producers /\ ppc[q] = "apply"
  BY DEF Entering
<1>3. \A q \in B : /\ pseq[q] \in Seqs /\ pitem[q] \in Items /\ owner[pseq[q]] = pitem[q]
                   /\ live[pseq[q]] = NoItem /\ pitem[q] \notin accepted \cup deleted /\ pseq[q] < tail
  BY <1>1, <1>2 DEF InCall, SafeInv, LogInv, ItemInv, HistoryInv
<1>4. \A s \in SeqsOf(B) : \E q \in B : s = pseq[q]
  BY DEF SeqsOf
<1>5. \A s \in Seqs : Committed(s) => s \notin SeqsOf(B)
  BY <1>2, <1>4 DEF Committed
<1>6. \A q \in Producers \ B : ppc[q] \in {"apply", "flush", "giveback"} => pseq[q] \notin SeqsOf(B)
  BY <1>1, <1>2, <1>4 DEF ItemInv
<1>7. B # {} => Up
  BY <1>1, <1>2 DEF SafeInv, DownInv
<1> QED
  BY <1>3, <1>4, <1>5, <1>6, <1>7 DEF Entering

(* It keeps every layer, with any number of entries at once.               *)
LEMMA EnteringKeeps ==
  ASSUME CoreInv, SoloInv, NoLoss, NEW B \in SUBSET Producers, B # {}, Entering(B), TypeInv'
  PROVE  CoreInv' /\ SoloInv' /\ NoLoss'
<1>1. TypeInv /\ SafeInv /\ ValueInv /\ ReservedExact /\ ItemInv /\ DiskInv /\ HistoryInv
  BY DEF CoreInv, IdentityInv
<1>2. StoreTypeOK /\ InnerOK /\ ThreadsOK /\ HistoryOK /\ InCall
  BY <1>1 DEF TypeInv, TypeOK
<1>3. /\ \A q \in B : /\ pseq[q] \in Seqs /\ pitem[q] \in Items /\ owner[pseq[q]] = pitem[q]
                      /\ live[pseq[q]] = NoItem /\ pitem[q] \notin accepted \cup deleted /\ pseq[q] < tail
      /\ \A s \in SeqsOf(B) : \E q \in B : s = pseq[q]
  BY EnteringFacts
<1>4. /\ \A s \in Seqs : s \notin SeqsOf(B) => live'[s] = live[s] /\ disk'[s] = disk[s]
      /\ \A s \in Seqs : s \in SeqsOf(B) => live'[s] = owner[s] /\ disk'[s] = disk[s] \cup {owner[s]}
  BY EnteringFacts
<1>5. \A s \in Seqs : Committed(s) => live'[s] = live[s]
  BY <1>4, EnteringFacts
<1>6. \A q \in Producers \ B : ppc[q] \in {"apply", "flush", "giveback"} => pseq[q] \notin SeqsOf(B)
  BY EnteringFacts
<1>7. /\ \A q \in B : ppc[q] = "apply" /\ ppc'[q] = "flush" /\ pseq[q] \in SeqsOf(B)
      /\ \A q \in Producers \ B : ppc'[q] = ppc[q]
  BY DEF Entering, SeqsOf
<1>8. Up
  BY EnteringFacts
<1>9. /\ UNCHANGED <<tail, head, acked_above, len, bytes, reserved, closed, capacity, pseq, cpc, cursor, found, fitem>>
      /\ UNCHANGED <<gpc, gseq, gitem, restarts, pushed, owner, delivered, deleted, acked, pitem, accepted>>
  BY DEF Entering, commitFrame, innerVars, consVars, guardVars
<1>10. \A s \in Seqs : Committed(s) => Committed(s)'
  BY <1>7, <1>9 DEF Committed
<1>11. \A s \in Seqs : Dead(s) => Dead(s)'
  BY <1>5, <1>10 DEF Dead
<1>12. SafeInv'
  <2>1. cpc \notin {"down", "recover"} /\ Up'
    BY <1>8, <1>9 DEF Up
  <2>2. \A s \in Stored' : s < tail
    BY <1>1, <1>3, <1>4, <2>1 DEF SafeInv, LogInv, Stored
  <2>3. \A s \in Seqs : s < head => Dead(s)'
    BY <1>1, <1>8, <1>11 DEF SafeInv, LogInv
  <2>4. \A p \in Producers : ppc'[p] = "apply" => pseq[p] < tail /\ live'[pseq[p]] = NoItem
    BY <1>1, <1>2, <1>4, <1>6, <1>7 DEF SafeInv, LogInv, InCall
  <2>5. \A p, q \in Producers : ppc'[p] = "apply" /\ ppc'[q] = "apply" /\ pseq[p] = pseq[q] => p = q
    BY <1>1, <1>7 DEF SafeInv, LogInv
  <2>6. \A s \in acked_above : Dead(s)'
    BY <1>1, <1>2, <1>11 DEF SafeInv, LogInv, InnerOK
  <2>7. \A g \in Guards :
          /\ gpc[g] # "free" => Committed(gseq[g])'
          /\ gpc[g] \in {"flush", "settle"} => live'[gseq[g]] = NoItem
    BY <1>1, <1>2, <1>5, <1>9, <1>10 DEF SafeInv, LogInv, InCall
  <2>8. cpc = "check" => Committed(found)'
    BY <1>1, <1>2, <1>9, <1>10 DEF SafeInv, LogInv, InCall
  <2>9. LogInv'
    <3>1. head <= tail
      BY <1>1, <2>1 DEF SafeInv, LogInv
    <3> QED
      BY <1>9, <2>2, <2>3, <2>4, <2>5, <2>6, <2>7, <2>8, <3>1 DEF LogInv
  <2> QED
    BY <1>9, <2>1, <2>9 DEF SafeInv, DownInv, RecoverInv
<1>13. ValueInv'
  <2>1. \A g \in Guards : gpc[g] # "free" => live'[gseq[g]] = live[gseq[g]]
    BY <1>1, <1>2, <1>5 DEF SafeInv, LogInv, InCall
  <2>2. cpc = "check" => live'[found] = live[found]
    BY <1>1, <1>2, <1>5 DEF SafeInv, LogInv, InCall
  <2>3. \A p \in Producers : ppc'[p] = "flush" => live'[pseq[p]] = pitem[p] \/ pitem[p] \in deleted
    <3> SUFFICES ASSUME NEW p \in Producers, ppc'[p] = "flush" PROVE live'[pseq[p]] = pitem[p] \/ pitem[p] \in deleted
      OBVIOUS
    <3>1. CASE p \in B
      BY <1>3, <1>4, <1>7, <3>1
    <3>2. CASE p \notin B
      BY <1>1, <1>2, <1>4, <1>6, <1>7, <3>2 DEF ValueInv, InCall
    <3> QED
      BY <3>1, <3>2
  <2> QED
    BY <1>1, <1>9, <2>1, <2>2, <2>3 DEF ValueInv
<1>14. ReservedExact'
  BY <1>1, <1>9 DEF ReservedExact, OnLoan
<1>15. ItemInv'
  <2>1. \A q \in Producers :
          /\ ppc'[q] \in {"apply", "flush", "giveback"} <=> ppc[q] \in {"apply", "flush", "giveback"}
          /\ ppc'[q] \in {"waiting", "woken", "apply"} => ppc[q] = ppc'[q]
    BY <1>7
  <2> QED
    BY <1>1, <1>9, <2>1 DEF ItemInv
<1>16. DiskInv'
  <2>1. \A s \in Seqs : disk'[s] \subseteq {NoItem, owner[s]} /\ live'[s] \in disk'[s]
    BY <1>1, <1>4 DEF DiskInv
  <2>2. \A s \in Seqs : s >= tail => s \notin SeqsOf(B)
    BY <1>2, <1>3 DEF InnerOK
  <2>3. cpc # "down" => \A s \in Seqs : s >= tail => disk'[s] = {NoItem}
    BY <1>1, <1>4, <2>2 DEF DiskInv
  <2> QED
    BY <1>8, <1>9, <2>1, <2>3 DEF DiskInv, Up
<1>17. HistoryInv'
  <2>0. \A s \in SeqsOf(B) : owner[s] \in Items /\ owner[s] \notin deleted
    BY <1>3
  <2>1. \A p \in Producers : ppc'[p] = "apply" => pitem[p] \notin accepted \cup deleted
    BY <1>1, <1>7 DEF HistoryInv
  <2>2. \A g \in Guards : gpc[g] \in {"flush", "settle", "notify"} => gitem[g] \in deleted /\ live'[gseq[g]] = NoItem
    BY <1>1, <1>2, <1>5 DEF HistoryInv, SafeInv, LogInv, InCall
  <2>3. \A s \in Seqs : \A i \in disk'[s] : i = NoItem \/ i = live'[s] \/ i \in deleted
    <3> SUFFICES ASSUME NEW s \in Seqs, NEW i \in disk'[s] PROVE i = NoItem \/ i = live'[s] \/ i \in deleted
      OBVIOUS
    <3>1. CASE s \in SeqsOf(B)
      BY <1>1, <1>4, <3>1 DEF DiskInv
    <3>2. CASE s \notin SeqsOf(B)
      BY <1>1, <1>4, <3>2 DEF HistoryInv
    <3> QED
      BY <3>1, <3>2
  <2>4. \A s \in Seqs : live'[s] \in deleted => restarts # 0 /\ Backend # "mem" /\ disk'[s] = {live'[s]}
    <3> SUFFICES ASSUME NEW s \in Seqs, live'[s] \in deleted
                 PROVE  restarts # 0 /\ Backend # "mem" /\ disk'[s] = {live'[s]}
      OBVIOUS
    <3>1. s \notin SeqsOf(B)
      BY <1>4, <2>0
    <3> QED
      BY <1>1, <1>4, <3>1 DEF HistoryInv
  <2>5. \A s \in Seqs : \A i \in deleted : i \in disk'[s] => i \in disk[s]
    BY <1>4, <2>0
  <2>6. ack_durable => \A s \in Seqs :
          /\ \A i \in acked : i \notin disk'[s]
          /\ \A g \in Guards : gpc[g] \in {"settle", "notify"} => gitem[g] \notin disk'[s]
    BY <1>1, <2>5 DEF HistoryInv
  <2>7. accepted \subseteq pushed /\ deleted \subseteq pushed /\ acked \subseteq deleted
    BY <1>1 DEF HistoryInv
  <2> QED
    BY <1>9, <2>1, <2>2, <2>3, <2>4, <2>6, <2>7 DEF HistoryInv
<1>18. SoloInv'
  <2>1. \A g \in Guards : gpc[g] = "held" => live'[gseq[g]] = live[gseq[g]]
    BY <1>1, <1>2, <1>5 DEF SafeInv, LogInv, InCall
  <2>2. cpc = "check" => live'[found] = live[found]
    BY <1>1, <1>2, <1>5 DEF SafeInv, LogInv, InCall
  <2> QED
    BY <1>9, <2>1, <2>2 DEF SoloInv, GuardsAtRest
<1>19. NoLoss'
  <2>1. ASSUME NEW s \in Seqs, live[s] \in accepted PROVE live'[s] = live[s] /\ disk'[s] = disk[s]
    <3>1. live[s] # NoItem
      BY <1>2, <2>1, StoreAssumption DEF HistoryOK
    <3>2. s \notin SeqsOf(B)
      BY <1>3, <3>1
    <3> QED
      BY <1>4, <3>2
  <2> QED
    BY <1>9, <2>1 DEF NoLoss
<1> QED
  BY <1>12, <1>13, <1>14, <1>15, <1>16, <1>17, <1>18, <1>19 DEF CoreInv, IdentityInv

(* All of them enter the abstract queue in one step.                       *)
LEMMA EnteringEnters ==
  ASSUME CoreInv, NEW B \in SUBSET Producers, Entering(B)
  PROVE  Abstract!Enter
<1> DEFINE S == {pitem[q] : q \in B}
<1>1. /\ \A q \in B : /\ pseq[q] \in Seqs /\ pitem[q] \in Items /\ owner[pseq[q]] = pitem[q]
                      /\ live[pseq[q]] = NoItem /\ pitem[q] \notin accepted \cup deleted
      /\ \A s \in SeqsOf(B) : \E q \in B : s = pseq[q]
      /\ \A q \in B : pseq[q] \in SeqsOf(B)
  BY EnteringFacts DEF SeqsOf
<1>2. live \in [Seqs -> Values] /\ live' = [s \in Seqs |-> IF s \in SeqsOf(B) THEN owner[s] ELSE live[s]]
  BY DEF Entering, CoreInv, TypeInv, TypeOK, StoreTypeOK
<1>3. \A i \in S : i \in Items /\ i \notin InQueue /\ i \notin accepted /\ i \notin deleted
  BY <1>1, InQueueIff
<1>4. InQueue' = InQueue \cup S
  <2>1. \A s \in Seqs : s \in SeqsOf(B) => owner[s] \in S
    BY <1>1
  <2>2. live' \in [Seqs -> Values]
    BY <1>2, <1>3, <2>1
  <2>3. \A i : i \in InQueue' <=> i \in Items /\ \E s \in Seqs : live'[s] = i
    BY <2>2 DEF InQueue, Stored
  <2>4. \A i : i \in InQueue <=> i \in Items /\ \E s \in Seqs : live[s] = i
    BY InQueueIff
  <2>5. ASSUME NEW i \in InQueue' PROVE i \in InQueue \cup S
    BY <1>2, <2>1, <2>3, <2>4, <2>5
  <2>6. ASSUME NEW i \in InQueue PROVE i \in InQueue'
    <3>1. PICK s \in Seqs : live[s] = i /\ i \in Items
      BY <2>4
    <3>2. s \notin SeqsOf(B)
      BY <1>1, <3>1
    <3> QED
      BY <1>2, <2>3, <3>1, <3>2
  <2>7. ASSUME NEW q \in B PROVE pitem[q] \in InQueue'
    BY <1>1, <1>2, <2>3
  <2> QED
    BY <2>5, <2>6, <2>7
<1>5. UNCHANGED <<Loaned, accepted, deleted, acked>>
  BY DEF Entering, commitFrame, Loaned, OnLoan, guardVars
<1>6. deleted' \ InQueue' = deleted \ InQueue
  BY <1>3, <1>4, <1>5
<1>7. S \in SUBSET (Items \ (InQueue \cup (deleted \ InQueue) \cup accepted))
  BY <1>3
<1> QED
  BY <1>4, <1>5, <1>6, <1>7 DEF Abstract!Enter

(* Entries settle on disk as they are, and p may collect an Ok: then its   *)
(* entry is on disk while it is stored.                                    *)
Finishing(p) ==
  /\ UNCHANGED <<commitFrame, live>>
  /\ \A s \in Seqs : disk'[s] \in {disk[s], {live[s]}}
  /\ \/ UNCHANGED <<ppc, pitem, accepted>>
     \/ /\ ppc[p] = "flush" /\ Outcome(p, "ok")
        /\ live[pseq[p]] = pitem[p] => disk'[pseq[p]] = {pitem[p]}

(* It keeps every layer, and is an acceptance or nothing to a user.        *)
LEMMA FinishingKeeps ==
  ASSUME CoreInv, SoloInv, NoLoss, NEW p \in Producers, Finishing(p), TypeInv'
  PROVE  CoreInv' /\ SoloInv' /\ NoLoss' /\ (Abstract!Accept \/ UNCHANGED Abstract!vars)
<1>1. TypeInv /\ SafeInv /\ ValueInv /\ ReservedExact /\ ItemInv /\ DiskInv /\ HistoryInv
  BY DEF CoreInv, IdentityInv
<1>2. StoreTypeOK /\ InnerOK /\ ThreadsOK /\ HistoryOK /\ InCall
  BY <1>1 DEF TypeInv, TypeOK
<1>3. /\ UNCHANGED <<tail, head, acked_above, len, bytes, reserved, closed, capacity, pseq, cpc, cursor, found, fitem>>
      /\ UNCHANGED <<gpc, gseq, gitem, restarts, pushed, owner, delivered, deleted, acked, live>>
  BY DEF Finishing, commitFrame, innerVars, consVars, guardVars
<1>4. \A s \in Seqs : disk'[s] \in {disk[s], {live[s]}}
  BY DEF Finishing
<1>5. \/ UNCHANGED <<ppc, pitem, accepted>>
      \/ /\ ppc[p] = "flush" /\ pseq[p] \in Seqs /\ pitem[p] \in Items
         /\ accepted' = accepted \cup {pitem[p]} /\ ppc' = [ppc EXCEPT ![p] = "idle"]
         /\ pitem' = [pitem EXCEPT ![p] = NoItem]
         /\ live[pseq[p]] = pitem[p] => disk'[pseq[p]] = {pitem[p]}
  BY <1>2 DEF Finishing, Outcome, InCall
<1>6. \A q \in Producers : \/ ppc'[q] = ppc[q] /\ pitem'[q] = pitem[q]
                           \/ q = p /\ ppc[q] = "flush" /\ ppc'[q] = "idle"
  BY <1>2, <1>5 DEF ThreadsOK
<1>7. SafeInv'
  <2>1. /\ \A q \in Producers : ppc'[q] = "apply" <=> ppc[q] = "apply"
        /\ \A q \in Producers : ppc[q] = "idle" => ppc'[q] = "idle"
    BY <1>6
  <2>2. /\ \A s : Committed(s)' <=> Committed(s)
        /\ \A s : Dead(s)' <=> Dead(s)
    BY <1>3, <2>1 DEF Committed, Dead
  <2> QED
    BY <1>1, <1>3, <2>1, <2>2 DEF SafeInv, DownInv, LogInv, RecoverInv, Up, Stored
<1>8. ValueInv'
  BY <1>1, <1>3, <1>6 DEF ValueInv
<1>9. ReservedExact'
  BY <1>1, <1>3 DEF ReservedExact, OnLoan
<1>10. ItemInv'
  BY <1>1, <1>3, <1>6 DEF ItemInv
<1>11. DiskInv'
  <2>1. \A s \in Seqs : disk'[s] \subseteq {NoItem, owner[s]} /\ live[s] \in disk'[s]
    BY <1>1, <1>4 DEF DiskInv
  <2>2. ~Up => \A s \in Seqs : disk'[s] = {live[s]}
    BY <1>1, <1>4 DEF DiskInv
  <2>3. cpc # "down" => \A s \in Seqs : s >= tail => disk'[s] = {NoItem}
    BY <1>1, <1>4 DEF DiskInv
  <2> QED
    BY <1>3, <2>1, <2>2, <2>3 DEF DiskInv, Up
<1>12. HistoryInv'
  <2>1. \A q \in Producers : ppc'[q] = "apply" => pitem'[q] \notin accepted' \cup deleted
    <3> SUFFICES ASSUME NEW q \in Producers, ppc'[q] = "apply" PROVE pitem'[q] \notin accepted' \cup deleted
      OBVIOUS
    <3>1. ppc[q] = "apply" /\ pitem'[q] = pitem[q] /\ pitem[q] \notin accepted \cup deleted
      BY <1>1, <1>6 DEF HistoryInv
    <3>2. ppc[p] = "flush" => pitem[q] # pitem[p]
      BY <1>1, <1>2, <3>1 DEF ItemInv, InCall
    <3> QED
      BY <1>5, <3>1, <3>2
  <2>2. accepted' \subseteq pushed /\ deleted \subseteq pushed /\ acked \subseteq deleted
    <3>1. ppc[p] = "flush" => pitem[p] \in pushed
      BY <1>1, <1>2 DEF ItemInv, InCall
    <3> QED
      BY <1>1, <1>5, <3>1 DEF HistoryInv
  <2>3. \A s \in Seqs : \A i \in disk'[s] : i = NoItem \/ i = live[s] \/ i \in deleted
    BY <1>1, <1>4 DEF HistoryInv
  <2>4. \A s \in Seqs : live[s] \in deleted => restarts # 0 /\ Backend # "mem" /\ disk'[s] = {live[s]}
    BY <1>1, <1>4 DEF HistoryInv
  <2>5. \A s \in Seqs : disk'[s] \subseteq disk[s]
    BY <1>1, <1>4 DEF DiskInv
  <2>6. ack_durable => \A s \in Seqs :
          /\ \A i \in acked : i \notin disk'[s]
          /\ \A g \in Guards : gpc[g] \in {"settle", "notify"} => gitem[g] \notin disk'[s]
    BY <1>1, <2>5 DEF HistoryInv
  <2>7. \A g \in Guards : gpc[g] \in {"flush", "settle", "notify"} => gitem[g] \in deleted /\ live[gseq[g]] = NoItem
    BY <1>1 DEF HistoryInv
  <2> QED
    BY <1>3, <2>1, <2>2, <2>3, <2>4, <2>6, <2>7 DEF HistoryInv
<1>13. SoloInv'
  BY <1>3 DEF SoloInv, GuardsAtRest
<1>14. NoLoss'
  <2> SUFFICES ASSUME restarts = 0 \/ (durable /\ Backend # "mem"), NEW i \in accepted' \ deleted
               PROVE  \E s \in Seqs : live[s] = i /\ (durable => disk'[s] = {i})
    BY <1>3 DEF NoLoss
  <2>1. CASE i \in accepted
    <3>1. PICK s \in Seqs : live[s] = i /\ (durable => disk[s] = {i})
      BY <2>1 DEF NoLoss
    <3> QED
      BY <1>4, <3>1
  <2>2. CASE i \notin accepted
    <3>1. /\ i = pitem[p] /\ ppc[p] = "flush" /\ pseq[p] \in Seqs
          /\ live[pseq[p]] = pitem[p] => disk'[pseq[p]] = {pitem[p]}
      BY <1>5, <2>2
    <3>2. live[pseq[p]] = pitem[p]
      BY <1>1, <3>1 DEF ValueInv
    <3> QED
      BY <3>1, <3>2
  <2> QED
    BY <2>1, <2>2
<1>15. Abstract!Accept \/ UNCHANGED Abstract!vars
  <2>1. UNCHANGED <<InQueue, Loaned, deleted, acked>>
    BY <1>3 DEF InQueue, Stored, Loaned, OnLoan
  <2>2. CASE accepted' = accepted
    BY <2>1, <2>2 DEF Abstract!vars
  <2>3. CASE accepted' # accepted
    <3>1. accepted' = accepted \cup {pitem[p]} /\ ppc[p] = "flush" /\ pseq[p] \in Seqs /\ pitem[p] \in Items
      BY <1>5, <2>3
    <3>2. pitem[p] \in InQueue \cup (deleted \ InQueue)
      BY <1>1, <3>1, InQueueIff DEF ValueInv
    <3> QED
      BY <2>1, <3>1, <3>2 DEF Abstract!Accept
  <2> QED
    BY <2>2, <2>3
<1> QED
  BY <1>7, <1>8, <1>9, <1>10, <1>11, <1>12, <1>13, <1>14, <1>15 DEF CoreInv, IdentityInv

-----------------------------------------------------------------------------
(* Every step of the group is one of Queue's, an entering or a finishing.  *)

GroupInv == CoreInv /\ SoloInv /\ NoLoss /\ ServeInv /\ SettledInv

(* A producer whose own outcome is recorded leaves with an Ok for an entry *)
(* that is on disk, or with an Err for one still to be stored.             *)
LEMMA RecordFinishes ==
  ASSUME CleanFailures, GroupInv, NEW p \in Producers, BatchOk(p) \/ BatchErr(p)
  PROVE  Finishing(p)
<1>1. CoreInv /\ ServeInv /\ SettledInv /\ GroupOK /\ ClaimInv /\ WriterInv
  BY DEF GroupInv, ServeInv
<1>2. ThreadsOK /\ InCall /\ StoreTypeOK /\ ItemInv
  BY <1>1 DEF CoreInv, TypeInv, TypeOK, IdentityInv
<1>3. UNCHANGED <<commitFrame, live>>
  BY DEF BatchOk, BatchErr, commitFrame, storeVars
<1>4. PICK result \in {"ok", "err"} : /\ Record(p, result)
                                      /\ result = "ok" => BatchOk(p)
                                      /\ result = "err" => BatchErr(p)
  BY DEF BatchOk, BatchErr
<1>5. \/ result = "ok" /\ wpc[p] = "flush"
      \/ result = "err" /\ wpc[p] = "commit" /\ UNCHANGED disk
  BY <1>4, GroupAssumption DEF BatchOk, BatchErr, CleanFailures, GroupAssumption, storeVars
<1>6. \A s \in Seqs : disk'[s] \in {disk[s], {live[s]}}
  BY <1>4, <1>5 DEF BatchOk
<1>7. p \in Leaders /\ ppc[p] \in {"apply", "flush"} /\ pseq[p] \in Seqs
  BY <1>1, <1>2, <1>5 DEF Leaders, WriterInv, InCall
<1> DEFINE recorded == [s \in Seqs |-> IF s \in SeqsOf(batch) THEN result ELSE done[s]]
           r == recorded[pseq[p]]
<1>8. Outcome(p, r) \/ UNCHANGED <<ppc, pitem, accepted>>
  BY <1>4 DEF Record
<1>9. /\ r = "ok" => ppc[p] = "flush" /\ (live[pseq[p]] = pitem[p] => disk'[pseq[p]] = {pitem[p]})
      /\ r # "ok" => ppc[p] = "apply"
  <2>1. CASE p \in batch
    <3>1. r = result
      BY <1>7, <2>1 DEF SeqsOf
    <3>2. ppc[p] = IF wpc[p] = "commit" THEN "apply" ELSE "flush"
      BY <1>1, <1>7, <2>1 DEF WriterInv
    <3>3. CASE result = "ok"
      <4>1. disk' = [s \in Seqs |-> IF s \in SeqsOf(batch) /\ live[s] = owner[s] THEN {live[s]} ELSE disk[s]]
        BY <1>4, <3>3 DEF BatchOk
      <4>2. owner[pseq[p]] = pitem[p] /\ pseq[p] \in SeqsOf(batch)
        BY <1>2, <1>7, <2>1 DEF ItemInv, SeqsOf
      <4> QED
        BY <1>5, <1>7, <3>1, <3>2, <3>3, <4>1, <4>2
    <3>4. CASE result = "err"
      BY <1>5, <3>1, <3>2, <3>4
    <3> QED
      BY <3>3, <3>4
  <2>2. CASE p \notin batch
    <3>1. pseq[p] \notin SeqsOf(batch)
      BY <1>1, <1>7, <2>2 DEF SeqsOf, ClaimInv, WriterInv, GroupOK
    <3>2. r = done[pseq[p]]
      BY <1>7, <3>1
    <3>3. done[pseq[p]] \in {"ok", "err"}
      <4>1. p \notin pending
        BY <1>1, <1>5 DEF WriterInv
      <4>2. done[pseq[p]] # "none"
        BY <1>1, <1>5, <2>2, <4>1 DEF WriterInv
      <4> QED
        BY <1>1, <1>7, <4>2 DEF GroupOK
    <3>4. /\ done[pseq[p]] = "ok" =>
               ppc[p] = "flush" /\ (live[pseq[p]] = pitem[p] => disk[pseq[p]] = {pitem[p]})
          /\ done[pseq[p]] = "err" => ppc[p] = "apply"
      BY <1>1, <1>5 DEF SettledInv
    <3> QED
      BY <1>6, <1>7, <3>2, <3>3, <3>4
  <2> QED
    BY <2>1, <2>2
<1>10. CASE UNCHANGED <<ppc, pitem, accepted>>
  BY <1>3, <1>6, <1>10 DEF Finishing
<1>11. CASE Outcome(p, r)
  <2> HIDE DEF r
  <2>1. CASE r = "ok"
    BY <1>3, <1>6, <1>9, <1>11, <2>1 DEF Finishing
  <2>2. CASE r # "ok"
    <3>1. ppc' = [ppc EXCEPT ![p] = "apply"] /\ UNCHANGED <<pitem, accepted>>
      BY <1>11, <2>2 DEF Outcome
    <3>2. UNCHANGED <<ppc, pitem, accepted>>
      BY <1>2, <1>9, <2>2, <3>1 DEF ThreadsOK
    <3> QED
      BY <1>10, <3>2
  <2> QED
    BY <2>1, <2>2
<1> QED
  BY <1>8, <1>10, <1>11

(* A follower that collects its outcome does the same.                     *)
LEMMA FollowFinishes ==
  ASSUME CleanFailures, GroupInv, NEW p \in Producers, Follow(p)
  PROVE  Finishing(p)
<1>1. CoreInv /\ ServeInv /\ SettledInv /\ GroupOK /\ WriterInv
  BY DEF GroupInv, ServeInv
<1>2. ThreadsOK /\ InCall
  BY <1>1 DEF CoreInv, TypeInv, TypeOK
<1>3. /\ UNCHANGED <<commitFrame, live, disk>> /\ wpc[p] = "woken"
      /\ UNCHANGED <<ppc, pitem, accepted>> \/ (done[pseq[p]] # "none" /\ Outcome(p, done[pseq[p]]))
  BY DEF Follow, vars, commitFrame, storeVars, prodVars, histVars
<1>4. CASE UNCHANGED <<ppc, pitem, accepted>>
  BY <1>3, <1>4 DEF Finishing
<1>5. CASE done[pseq[p]] # "none" /\ Outcome(p, done[pseq[p]])
  <2>1. pseq[p] \in Seqs /\ done[pseq[p]] \in {"ok", "err"}
    BY <1>1, <1>2, <1>3, <1>5 DEF WriterInv, InCall, GroupOK
  <2>2. CASE done[pseq[p]] = "ok"
    <3>1. ppc[p] = "flush" /\ (live[pseq[p]] = pitem[p] => disk[pseq[p]] = {pitem[p]})
      BY <1>1, <1>3, <2>2 DEF SettledInv
    <3> QED
      BY <1>3, <1>5, <2>2, <3>1 DEF Finishing
  <2>3. CASE done[pseq[p]] = "err"
    <3>1. ppc[p] = "apply"
      BY <1>1, <1>3, <2>3 DEF SettledInv
    <3>2. UNCHANGED <<ppc, pitem, accepted>>
      BY <1>2, <1>5, <2>3, <3>1 DEF Outcome, ThreadsOK
    <3> QED
      BY <1>4, <3>2
  <2> QED
    BY <2>1, <2>2, <2>3
<1> QED
  BY <1>3, <1>4, <1>5

(* Every step of the group falls under one of the cases.                   *)
LEMMA GroupCases ==
  ASSUME CleanFailures, GroupInv, [GroupNext]_gqVars
  PROVE  \/ [Next]_vars
         \/ Entering(batch) /\ batch # {}
         \/ \E p \in Producers : Finishing(p)
<1>1. GroupOK /\ WriterInv /\ ServeInv
  BY DEF GroupInv, ServeInv
<1>2. CASE UNCHANGED gqVars
  BY <1>2 DEF gqVars
<1>3. CASE OtherStep \/ Crash
  BY <1>3 DEF OtherStep, Next, ProducerStep
<1>4. ASSUME NEW p \in Producers, GroupEnter(p) \/ SpuriousFollow(p) PROVE UNCHANGED vars
  BY <1>4 DEF GroupEnter, SpuriousFollow
<1>5. ASSUME NEW p \in Producers, Alone(p) PROVE Next
  BY <1>5 DEF Alone, Next, ProducerStep
<1>6. ASSUME NEW p \in Producers, BatchApply(p) PROVE Entering(batch)
  <2>1. wpc[p] = "commit" /\ p \in Leaders
    BY <1>6 DEF BatchApply, Leaders
  <2>2. \A q \in batch : ppc[q] = "apply"
    BY <1>1, <2>1 DEF WriterInv
  <2> QED
    BY <1>6, <2>2 DEF BatchApply, Entering, commitFrame, histVars
<1>7. ASSUME batch = {}, NEW p \in Producers, BatchApply(p) PROVE Finishing(p)
  <2>1. SeqsOf(batch) = {}
    BY <1>7 DEF SeqsOf
  <2>2. \A s \in Seqs : live'[s] = live[s] /\ disk'[s] = disk[s]
    BY <1>7, <2>1 DEF BatchApply
  <2>3. live' = live /\ ppc' = ppc
    <3>1. live \in [Seqs -> Values] /\ ppc \in [Producers -> ProducerPC]
      BY DEF GroupInv, CoreInv, TypeInv, TypeOK, StoreTypeOK, ThreadsOK
    <3> QED
      BY <1>7, <2>1, <3>1 DEF BatchApply
  <2> QED
    BY <1>7, <2>2, <2>3 DEF BatchApply, Finishing, commitFrame, histVars
<1> QED
  BY <1>2, <1>3, <1>4, <1>5, <1>6, <1>7, RecordFinishes, FollowFinishes DEF GroupNext, GroupCommitStep

-----------------------------------------------------------------------------
(* Outcomes.                                                               *)

(* A step outside the commit changes an entry only by deleting it.         *)
LEMMA OtherKeepsEntries ==
  ASSUME TypeInv, DownInv, OtherStep
  PROVE  /\ \A q \in Producers : ppc[q] \in {"apply", "flush"} => pitem'[q] = pitem[q]
         /\ \A s \in Seqs : live'[s] # NoItem => live'[s] = live[s] /\ disk'[s] = disk[s]
<1>1. StoreTypeOK /\ InnerOK /\ ThreadsOK /\ InCall
  BY DEF TypeInv, TypeOK
<1> DEFINE Goal == /\ \A q \in Producers : ppc[q] \in {"apply", "flush"} => pitem'[q] = pitem[q]
                   /\ \A s \in Seqs : live'[s] # NoItem => live'[s] = live[s] /\ disk'[s] = disk[s]
<1> USE DEF storeVars, innerVars, prodVars, consVars, guardVars, histVars
<1>2. CASE OpenStart \/ OpenErr \/ RecoverEntry \/ RecoverDone \/ RecoverErr
  BY <1>2 DEF OpenStart, OpenErr, RecoverEntry, RecoverDone, RecoverErr
<1>3. ASSUME NEW p \in Producers, Push(p) \/ TryPush(p) \/ PushRetry(p) PROVE Goal
  <2>1. PICK i : ppc[p] \in {"idle", "woken"} /\ (PushLocked(p, i) \/ Claim(p, i)) /\ UNCHANGED <<live, disk>>
    BY <1>3 DEF Push, TryPush, PushRetry
  <2>2. \A q \in Producers \ {p} : pitem'[q] = pitem[q]
    BY <1>1, <2>1 DEF PushLocked, Claim, ThreadsOK
  <2> QED
    BY <2>1, <2>2
<1>4. ASSUME NEW p \in Producers, SpuriousWake(p) \/ Close(p) \/ GiveBack(p) \/ WriteNotify(p) \/ CloseNotify(p)
      PROVE  Goal
  BY <1>1, <1>4 DEF SpuriousWake, Close, GiveBack, WriteNotify, CloseNotify, ThreadsOK
<1>5. CASE ReserveStart \/ ReserveSeek \/ ReserveNone \/ ReserveSkip \/ ReserveTake
  BY <1>5 DEF ReserveStart, ReserveSeek, ReserveNone, ReserveSkip, ReserveTake, HandOut
<1>6. ASSUME NEW g \in Guards, Nack(g) \/ AckErr(g) \/ AckSettle(g) \/ AckNotify(g) PROVE Goal
  BY <1>6 DEF Nack, AckErr, AckSettle, AckNotify
<1>7. ASSUME NEW g \in Guards, AckApply(g) \/ AckOk(g) PROVE Goal
  BY <1>1, <1>7 DEF AckApply, AckOk, Apply, Settle, StoreTypeOK
<1> QED
  BY <1>2, <1>3, <1>4, <1>5, <1>6, <1>7 DEF OtherStep, GuardStep

(* What an entry of p needs, given its outcome.                            *)
Settled(p) ==
  /\ done[pseq[p]] = "ok" =>
       ppc[p] = "flush" /\ (live[pseq[p]] = pitem[p] => disk[pseq[p]] = {pitem[p]})
  /\ done[pseq[p]] = "err" => ppc[p] = "apply"

(* Every step keeps an outcome and its entry together.                     *)
LEMMA SettledStep ==
  ASSUME GroupInv, ServeInv', [GroupNext]_gqVars
  PROVE  SettledInv'
<1> SUFFICES ASSUME CleanFailures, NEW q \in Producers, wpc'[q] \in {"woken", "commit", "flush"} PROVE Settled(q)'
  BY DEF SettledInv, Settled
<1>1. CoreInv /\ SettledInv /\ GroupOK /\ ClaimInv /\ WriterInv /\ FollowersServed
  BY DEF GroupInv, ServeInv
<1>2. StoreTypeOK /\ InnerOK /\ ThreadsOK /\ InCall /\ ItemInv /\ DownInv /\ TypeInv
  BY <1>1 DEF CoreInv, TypeInv, TypeOK, IdentityInv, SafeInv
<1>3. GroupOK' /\ WriterInv' /\ FollowersServed'
  BY DEF ServeInv
<1>4. wpc[q] \in {"woken", "commit", "flush"} =>
        Settled(q) /\ ppc[q] \in {"apply", "flush"} /\ pseq[q] \in Seqs /\ pitem[q] \in Items
  BY <1>1, <1>2 DEF SettledInv, Settled, WriterInv, InCall
<1>5. ASSUME wpc[q] \in {"woken", "commit", "flush"}, UNCHANGED pseq, done'[pseq[q]] = done[pseq[q]],
             ppc'[q] = ppc[q], pitem'[q] = pitem[q],
             live'[pseq[q]] # NoItem => live'[pseq[q]] = live[pseq[q]] /\ disk'[pseq[q]] = disk[pseq[q]]
      PROVE  Settled(q)'
  BY <1>4, <1>5 DEF Settled
<1>6. ASSUME done'[pseq'[q]] = "none" PROVE Settled(q)'
  BY <1>6 DEF Settled
<1>7. CASE OtherStep /\ UNCHANGED groupVars
  <2>1. UNCHANGED <<pending, flushing, done, batch, wpc>>
    BY <1>7 DEF groupVars
  <2>2. ppc[q] \in {"apply", "flush"} /\ pseq[q] \in Seqs /\ pitem[q] \in Items /\ Settled(q)
    BY <1>4, <2>1
  <2>3. ppc'[q] = ppc[q] /\ pseq'[q] = pseq[q]
    <3>1. CASE LeavesCommits
      BY <2>2, <3>1 DEF LeavesCommits
    <3>2. ASSUME NEW p \in Producers, ClaimsOne(p) PROVE ppc'[q] = ppc[q] /\ pseq'[q] = pseq[q]
      BY <1>2, <2>2, <3>2 DEF ClaimsOne, ThreadsOK
    <3> QED
      BY <1>2, <1>7, <3>1, <3>2, OtherEffect
  <2>4. /\ pitem'[q] = pitem[q]
        /\ live'[pseq[q]] # NoItem => live'[pseq[q]] = live[pseq[q]] /\ disk'[pseq[q]] = disk[pseq[q]]
    BY <1>2, <1>7, <2>2, OtherKeepsEntries
  <2> QED
    BY <2>1, <2>2, <2>3, <2>4 DEF Settled
<1>8. CASE wpc' = [p \in Producers |-> "out"]
  BY <1>8
<1>9. ASSUME NEW p \in Producers, GroupEnter(p) PROVE Settled(q)'
  <2>1. UNCHANGED <<vars, done>> /\ wpc[p] = "out"
    BY <1>9 DEF GroupEnter
  <2>2. UNCHANGED <<pseq, ppc, pitem, live, disk>>
    BY <2>1 DEF vars, prodVars, storeVars
  <2>3. CASE q = p
    <3>1. q \in batch' \cup pending'
      BY <1>9, <2>3 DEF GroupEnter
    <3> QED
      BY <1>3, <1>6, <3>1 DEF WriterInv
  <2>4. CASE q # p
    <3>1. wpc'[q] = wpc[q]
      BY <1>1, <1>9, <2>4 DEF GroupEnter, GroupOK
    <3> QED
      BY <1>5, <2>1, <2>2, <3>1
  <2> QED
    BY <2>3, <2>4
<1>10. ASSUME NEW p \in Producers, SpuriousFollow(p) PROVE Settled(q)'
  <2>1. UNCHANGED <<pseq, ppc, pitem, live, disk, done>> /\ wpc[p] = "wait" /\ wpc' = [wpc EXCEPT ![p] = "woken"]
    BY <1>10 DEF SpuriousFollow, vars, prodVars, storeVars
  <2>2. CASE q = p
    BY <1>1, <1>6, <2>1, <2>2 DEF FollowersServed
  <2>3. CASE q # p
    <3>1. wpc'[q] = wpc[q]
      BY <1>1, <2>1, <2>3 DEF GroupOK
    <3> QED
      BY <1>5, <2>1, <3>1
  <2> QED
    BY <2>2, <2>3
<1>11. ASSUME NEW p \in Producers, BatchApply(p) PROVE Settled(q)'
  <2>1. UNCHANGED <<pseq, pitem, done, batch>> /\ wpc[p] = "commit" /\ wpc' = [wpc EXCEPT ![p] = "flush"]
    BY <1>11 DEF BatchApply
  <2>2. wpc[q] \in {"woken", "commit", "flush"}
    BY <1>1, <2>1 DEF GroupOK
  <2>3. CASE q \in batch
    BY <1>1, <1>6, <2>1, <2>3 DEF WriterInv
  <2>4. CASE q \notin batch
    <3>1. pseq[q] \notin SeqsOf(batch)
      BY <1>1, <1>4, <2>2, <2>4 DEF SeqsOf, ClaimInv, WriterInv, GroupOK
    <3>2. ppc'[q] = ppc[q] /\ live'[pseq[q]] = live[pseq[q]] /\ disk'[pseq[q]] = disk[pseq[q]]
      BY <1>4, <1>11, <2>2, <2>4, <3>1 DEF BatchApply
    <3> QED
      BY <1>5, <2>1, <2>2, <3>2
  <2> QED
    BY <2>3, <2>4
<1>12. ASSUME NEW p \in Producers, Alone(p) PROVE Settled(q)'
  <2>1. wpc[p] = "alone" /\ UNCHANGED <<pseq, done>> /\ (wpc' = wpc \/ wpc' = [wpc EXCEPT ![p] = "out"])
    BY <1>12 DEF Alone, WriteApply, WriteOk, WriteErr
  <2>2. q # p /\ wpc[q] \in {"woken", "commit", "flush"}
    BY <1>1, <2>1 DEF GroupOK
  <2>3. ppc[p] \in {"apply", "flush"} /\ pseq[p] # pseq[q]
    BY <1>1, <1>4, <2>1, <2>2 DEF WriterInv, ClaimInv
  <2>4. ppc'[q] = ppc[q] /\ pitem'[q] = pitem[q] /\ live'[pseq[q]] = live[pseq[q]] /\ disk'[pseq[q]] = disk[pseq[q]]
    BY <1>2, <1>4, <1>12, <2>2, <2>3
       DEF Alone, WriteApply, WriteOk, WriteErr, Apply, Settle, ThreadsOK, StoreTypeOK, storeVars
  <2> QED
    BY <1>5, <2>1, <2>2, <2>4
<1>13. ASSUME NEW p \in Producers, Follow(p) PROVE Settled(q)'
  <2>1. UNCHANGED <<pseq, live, disk>> /\ wpc[p] = "woken"
    BY <1>13 DEF Follow, vars, prodVars, storeVars
  <2>2. ppc[p] \in {"apply", "flush"} /\ pseq[p] \in Seqs
    BY <1>1, <1>2, <2>1 DEF WriterInv, InCall
  <2>3. q # p /\ wpc'[q] = wpc[q]
    <3>1. \E w \in {"wait", "out", "alone"} : wpc' = [wpc EXCEPT ![p] = w]
      BY <1>13 DEF Follow, AfterOutcome
    <3> QED
      BY <1>1, <3>1 DEF GroupOK
  <2>4. pseq[q] # pseq[p]
    BY <1>1, <1>4, <2>2, <2>3 DEF ClaimInv
  <2>5. done'[pseq[q]] = done[pseq[q]]
    BY <1>1, <1>4, <1>13, <2>2, <2>3, <2>4 DEF Follow, GroupOK
  <2>6. ppc'[q] = ppc[q] /\ pitem'[q] = pitem[q]
    BY <1>2, <1>13, <2>3 DEF Follow, Outcome, vars, prodVars, ThreadsOK
  <2> QED
    BY <1>5, <2>1, <2>3, <2>5, <2>6
<1>14. ASSUME NEW p \in Producers, BatchOk(p) \/ BatchErr(p) PROVE Settled(q)'
  <2>1. PICK result \in {"ok", "err"} : /\ Record(p, result)
                                        /\ result = "ok" => BatchOk(p)
                                        /\ result = "err" => BatchErr(p)
    BY <1>14 DEF BatchOk, BatchErr
  <2>2. \/ result = "ok" /\ wpc[p] = "flush"
        \/ result = "err" /\ wpc[p] = "commit" /\ UNCHANGED disk
    BY <2>1, GroupAssumption DEF BatchOk, BatchErr, CleanFailures, GroupAssumption, storeVars
  <2>3. UNCHANGED <<pseq, live>> /\ p \in Leaders
    BY <2>2, <1>14 DEF BatchOk, BatchErr, storeVars, Leaders
  <2> DEFINE recorded == [s \in Seqs |-> IF s \in SeqsOf(batch) THEN result ELSE done[s]]
  <2>4. /\ q # p => ppc'[q] = ppc[q] /\ pitem'[q] = pitem[q]
        /\ q = p => UNCHANGED <<ppc, pitem>>
        /\ done'[pseq[q]] \in {"none", recorded[pseq[q]]}
        /\ wpc[q] \in {"wait", "woken", "commit", "flush"}
    <3>1. CASE pending = {}
      <4>1. /\ done' = [recorded EXCEPT ![pseq[p]] = "none"] /\ Outcome(p, recorded[pseq[p]])
            /\ GroupNotify(p, AfterOutcome(recorded[pseq[p]]))
        BY <2>1, <3>1 DEF Record
      <4> HIDE DEF recorded
      <4>2. q # p /\ wpc[q] \in {"wait", "woken", "commit", "flush"}
        BY <1>1, <4>1 DEF GroupNotify, AfterOutcome, GroupOK
      <4>3. ppc'[q] = ppc[q] /\ pitem'[q] = pitem[q]
        BY <1>2, <4>1, <4>2 DEF Outcome, ThreadsOK
      <4>4. pseq[q] \in Seqs
        BY <1>1, <1>2, <4>2 DEF WriterInv, InCall
      <4>5. done'[pseq[q]] \in {"none", recorded[pseq[q]]}
        BY <4>1, <4>4 DEF recorded
      <4> QED
        BY <4>2, <4>3, <4>5
    <3>2. CASE pending # {}
      <4>1. done' = recorded /\ GroupNotify(p, "commit") /\ UNCHANGED <<ppc, pitem>>
        BY <2>1, <3>2 DEF Record
      <4>2. wpc[q] \in {"wait", "woken", "commit", "flush"}
        BY <1>1, <2>2, <4>1 DEF GroupNotify, GroupOK
      <4> QED
        BY <4>1, <4>2
    <3> QED
      BY <3>1, <3>2
  <2>5. ppc'[q] = ppc[q] /\ pitem'[q] = pitem[q] /\ ppc[q] \in {"apply", "flush"} /\ pseq[q] \in Seqs
    BY <1>1, <1>2, <2>4 DEF WriterInv, InCall
  <2>6. CASE q \in batch
    <3>1. recorded[pseq[q]] = result
      BY <2>5, <2>6 DEF SeqsOf
    <3>2. ppc[q] = IF wpc[p] = "commit" THEN "apply" ELSE "flush"
      BY <1>1, <2>3, <2>6 DEF WriterInv
    <3>3. result = "ok" => (live[pseq[q]] = pitem[q] => disk'[pseq[q]] = {pitem[q]})
      <4>1. pseq[q] \in SeqsOf(batch) /\ owner[pseq[q]] = pitem[q]
        BY <1>2, <2>5, <2>6 DEF SeqsOf, ItemInv
      <4>2. result = "ok" => disk'[pseq[q]] =
              IF pseq[q] \in SeqsOf(batch) /\ live[pseq[q]] = owner[pseq[q]] THEN {live[pseq[q]]} ELSE disk[pseq[q]]
        BY <2>1, <2>5 DEF BatchOk
      <4> QED
        BY <4>1, <4>2
    <3> QED
      BY <2>2, <2>3, <2>4, <2>5, <3>1, <3>2, <3>3 DEF Settled
  <2>7. CASE q \notin batch
    <3>1. pseq[q] \notin SeqsOf(batch)
      <4> SUFFICES ASSUME NEW r \in batch, pseq[r] = pseq[q] PROVE FALSE
        BY DEF SeqsOf
      <4>1. r \in Producers /\ ppc[r] \in {"apply", "flush"}
        BY <1>1 DEF WriterInv, GroupOK
      <4> QED
        BY <1>1, <2>5, <2>7, <4>1 DEF ClaimInv
    <3>2. recorded[pseq[q]] = done[pseq[q]]
      BY <2>5, <3>1
    <3>3. disk'[pseq[q]] = disk[pseq[q]]
      BY <2>1, <2>2, <2>5, <3>1 DEF BatchOk
    <3>4. CASE wpc[q] = "wait"
      BY <1>1, <2>3, <2>4, <3>2, <3>4, <1>6 DEF FollowersServed
    <3>5. CASE wpc[q] # "wait"
      <4>1. Settled(q)
        BY <1>4, <2>4, <3>5
      <4> QED
        BY <2>3, <2>4, <2>5, <3>2, <3>3, <4>1 DEF Settled
    <3> QED
      BY <3>4, <3>5
  <2> QED
    BY <2>6, <2>7
<1>15. CASE UNCHANGED gqVars
  <2>1. UNCHANGED <<pseq, ppc, pitem, live, disk, done, wpc>>
    BY <1>15 DEF gqVars, groupVars, vars, prodVars, storeVars
  <2> QED
    BY <1>5, <2>1
<1> QED
  BY <1>7, <1>8, <1>9, <1>10, <1>11, <1>12, <1>13, <1>14, <1>15 DEF GroupNext, GroupCommitStep

-----------------------------------------------------------------------------
(* The queue's promises under group commit.                                *)

(* All layers hold at the start.                                           *)
LEMMA GroupInvInit == Init /\ GroupInit => GroupInv
<1>1. Init /\ GroupInit => SettledInv
  BY DEF GroupInit, SettledInv
<1> QED
  BY <1>1, CoreInit, SoloInit, ValueInit, ServeInit DEF GroupInv

(* Every step keeps them, and is a step of the abstract queue or none.     *)
LEMMA GroupInvStep ==
  ASSUME CleanFailures, GroupInv, [GroupNext]_gqVars
  PROVE  /\ GroupInv'
         /\ ~Threaded => [Abstract!Next]_(Abstract!vars)
<1>1. CoreInv /\ SoloInv /\ NoLoss /\ ServeInv /\ TypeInv /\ DownInv /\ SafeInv /\ ValueInv
  BY DEF GroupInv, CoreInv, SafeInv
<1>2. TypeInv' /\ ServeInv'
  BY <1>1, ServeStep
<1>3. SettledInv'
  BY <1>2, SettledStep
<1>4. /\ CoreInv' /\ SoloInv' /\ NoLoss'
      /\ ~Threaded => [Abstract!Next]_(Abstract!vars)
  <2>1. CASE [Next]_vars
    <3>1. CoreInv' /\ SoloInv' /\ NoLoss'
      BY <1>1, <2>1, CoreKept, SoloStep, NoLossStep
    <3>2. ~Threaded => [Abstract!Next]_(Abstract!vars)
      BY <1>1, <2>1, <3>1, RefineStep
    <3> QED
      BY <3>1, <3>2
  <2>2. CASE Entering(batch) /\ batch # {}
    <3>1. batch \in SUBSET Producers
      BY <1>1 DEF ServeInv, GroupOK
    <3>2. CoreInv' /\ SoloInv' /\ NoLoss'
      BY <1>1, <1>2, <2>2, <3>1, EnteringKeeps
    <3>3. Abstract!Next
      BY <1>1, <2>2, <3>1, EnteringEnters DEF Abstract!Next
    <3> QED
      BY <3>2, <3>3
  <2>3. ASSUME NEW p \in Producers, Finishing(p)
        PROVE  CoreInv' /\ SoloInv' /\ NoLoss' /\ [Abstract!Next]_(Abstract!vars)
    BY <1>1, <1>2, <2>3, FinishingKeeps DEF Abstract!Next
  <2> QED
    BY <2>1, <2>2, <2>3, GroupCases
<1> QED
  BY <1>2, <1>3, <1>4 DEF GroupInv

(* They hold throughout.                                                   *)
LEMMA GroupInvAlways == ASSUME CleanFailures PROVE GroupSpec => []GroupInv
<1>1. GroupInv /\ [GroupNext]_gqVars => GroupInv'
  BY GroupInvStep
<1> QED
  BY <1>1, GroupInvInit, PTL DEF GroupSpec

(* Under group commit too, over a store whose failed commits leave nothing *)
(* behind, reserve never starts its scan above an entry that is stored or  *)
(* about to be: a retry alone never stores an entry a second time.  Over   *)
(* sled it does, which a violation run shows.                              *)
THEOREM GroupHeadNeverSkips == ASSUME CleanFailures PROVE GroupSpec => []HeadSafe
<1>1. TypeInv /\ SafeInv => HeadSafe
  <2> SUFFICES ASSUME TypeInv, SafeInv, Up
               PROVE  /\ \A s \in Stored : s >= head
                      /\ \A p \in Producers : ppc[p] = "apply" => pseq[p] >= head
    BY DEF HeadSafe
  <2>1. head \in Nat /\ \A s \in Seqs : s < head => live[s] = NoItem /\ \A p \in Producers : ppc[p] = "apply" => pseq[p] # s
    BY DEF TypeInv, TypeOK, InnerOK, SafeInv, LogInv, Dead, Committed
  <2> QED
    BY <2>1 DEF Stored, TypeInv, InCall
<1>2. GroupInv => HeadSafe
  BY <1>1 DEF GroupInv, CoreInv
<1> QED
  BY <1>2, GroupInvAlways, PTL

(* An item is accepted by the leader's commit of the whole batch, and kept *)
(* from then on like one that its own producer committed.                  *)
COROLLARY GroupKeepsItems == ASSUME CleanFailures PROVE GroupSpec => []NoLoss
<1>1. GroupInv => NoLoss
  BY DEF GroupInv
<1> QED
  BY <1>1, GroupInvAlways, PTL

(* With one consumer thread, and any number of producers whose entries are *)
(* committed by each other in batches, the queue is the at-least-once      *)
(* queue: a batch enters at once, and its items are accepted one by one.   *)
THEOREM GroupImplements == ASSUME ~Threaded, CleanFailures PROVE GroupSpec => Implements
<1>1. GroupInv /\ [GroupNext]_gqVars => [Abstract!Next]_(Abstract!vars)
  BY GroupInvStep
<1> QED
  BY <1>1, RefineInit, GroupInvAlways, PTL DEF GroupSpec, Implements, Abstract!Spec

-----------------------------------------------------------------------------
(* The counters under group commit.                                        *)

(* What CountProofs shows of a queue whose pushes commit by themselves.    *)
CountInv == FailedInv /\ ScanExact /\ LenExact /\ ScanBytes /\ OpenBytes

(* A step of the queue's own keeps the counters.                           *)
LEMMA OwnStepCounts ==
  ASSUME ~Threaded, CleanFailures, CoreInv, CoreInv', SoloInv, CountInv, [Next]_vars
  PROVE  CountInv'
<1>1. FailedInv' /\ ScanExact' /\ ScanBytes'
  BY FailedStep, ScanStep, ScanBytesStep DEF CountInv
<1>2. LenExact' /\ OpenBytes'
  BY LenStep, BytesStep DEF CountInv
<1> QED
  BY <1>1, <1>2 DEF CountInv

(* So does a step that moves entries from a claim into the store, or       *)
(* finishes pushes whose entries are there: what is counted stays.         *)
LEMMA SameCountedKeeps ==
  ASSUME CoreInv, CoreInv', CountInv, UNCHANGED <<len, bytes, owner, cpc, cursor>>,
         \A s \in Seqs : CountedAt(s)' <=> CountedAt(s),
         cpc = "recover" => live' = live
  PROVE  ScanExact' /\ LenExact' /\ ScanBytes' /\ OpenBytes'
<1>1. TypeInv /\ TypeInv'
  BY DEF CoreInv
<1>2. Tally
  BY <1>1, SameCount
<1>3. ScanExact' /\ ScanBytes'
  BY DEF CountInv, ScanExact, ScanBytes, Passed, Stored
<1>4. LenExact' /\ OpenBytes'
  <2>1. CASE Up
    BY <1>1, <1>2, <2>1, TallyLen, TallyBytes DEF CountInv
  <2>2. CASE ~Up
    <3>1. ~Up'
      BY <2>2 DEF Up
    <3> QED
      BY <3>1 DEF LenExact, OpenBytes
  <2> QED
    BY <2>1, <2>2
<1> QED
  BY <1>3, <1>4

(* A batch enters the store: its entries were counted as claimed, each     *)
(* once, and are counted as stored.                                        *)
LEMMA EnteringCounts ==
  ASSUME CoreInv, CoreInv', CountInv, NEW B \in SUBSET Producers, B # {}, Entering(B)
  PROVE  CountInv'
<1>1. StoreTypeOK /\ ThreadsOK /\ InCall
  BY DEF CoreInv, TypeInv, TypeOK
<1>2. /\ UNCHANGED <<len, bytes, owner, cpc, cursor, found, pseq, gpc, gseq>>
      /\ Up /\ cpc # "recover"
  BY EnteringFacts DEF Entering, commitFrame, innerVars, consVars, guardVars, Up
<1>3. \A q \in B : ppc[q] = "apply" /\ ppc'[q] = "flush" /\ pseq[q] \in SeqsOf(B) /\ q \in Producers
  BY DEF Entering, SeqsOf
<1>4. \A q \in Producers \ B : ppc'[q] = ppc[q]
  BY DEF Entering
<1>5. \A s \in Seqs : s \notin SeqsOf(B) => live'[s] = live[s]
  BY EnteringFacts
<1>6. \A s \in Seqs : s \in SeqsOf(B) =>
        live'[s] # NoItem /\ \E q \in Producers : ppc[q] = "apply" /\ pseq[q] = s
  <2> SUFFICES ASSUME NEW s \in Seqs, s \in SeqsOf(B)
               PROVE  live'[s] # NoItem /\ \E q \in Producers : ppc[q] = "apply" /\ pseq[q] = s
    OBVIOUS
  <2>1. PICK q \in B : s = pseq[q]
    BY EnteringFacts
  <2>2. owner[pseq[q]] = pitem[q] /\ pitem[q] \in Items
    BY EnteringFacts
  <2>3. live'[s] = owner[s]
    BY EnteringFacts
  <2> QED
    BY <1>3, <2>1, <2>2, <2>3
<1>7. ASSUME NEW s \in Seqs PROVE CountedAt(s)' <=> CountedAt(s)
  <2>1. CASE s \in SeqsOf(B)
    BY <1>6, <2>1 DEF CountedAt
  <2>2. CASE s \notin SeqsOf(B)
    <3>1. \A q \in Producers : /\ ppc[q] \in {"apply", "giveback"} /\ pseq[q] = s => ppc'[q] = ppc[q]
                               /\ ppc'[q] \in {"apply", "giveback"} => ppc'[q] = ppc[q]
      BY <1>3, <1>4, <2>2
    <3> QED
      BY <1>2, <1>5, <2>2, <3>1 DEF CountedAt
  <2> QED
    BY <2>1, <2>2
<1>8. FailedInv'
  <2>1. \A q \in Producers : ppc'[q] = "giveback" => ppc[q] = "giveback" /\ q \notin B
    BY <1>3, <1>4
  <2>2. \A q \in Producers : ppc'[q] = "giveback" => live'[pseq[q]] = live[pseq[q]]
    BY <1>1, <1>5, <2>1, EnteringFacts DEF InCall
  <2> QED
    BY <1>2, <2>1, <2>2 DEF CountInv, FailedInv
<1> QED
  BY <1>2, <1>7, <1>8, SameCountedKeeps DEF CountInv

(* A push that collects its Ok leaves a stored entry, or one that has been *)
(* deleted meanwhile and is its ack's to account for.                      *)
LEMMA FinishingCounts ==
  ASSUME CoreInv, CoreInv', CountInv, NEW p \in Producers, Finishing(p)
  PROVE  CountInv'
<1>1. ThreadsOK
  BY DEF CoreInv, TypeInv, TypeOK
<1>2. UNCHANGED <<len, bytes, owner, cpc, cursor, found, pseq, gpc, gseq, live>>
  BY DEF Finishing, commitFrame, innerVars, consVars, guardVars
<1>3. \A q \in Producers : ppc'[q] = ppc[q] \/ (ppc[q] = "flush" /\ ppc'[q] = "idle")
  BY <1>1 DEF Finishing, Outcome, ThreadsOK
<1>4. \A s \in Seqs : CountedAt(s)' <=> CountedAt(s)
  BY <1>2, <1>3 DEF CountedAt
<1>5. FailedInv'
  BY <1>2, <1>3 DEF CountInv, FailedInv
<1> QED
  BY <1>2, <1>4, <1>5, SameCountedKeeps DEF CountInv

(* Group commit loses no count: however batches fail, entries are retried  *)
(* alone and fail again, acks overlap them and a crash undoes acks that    *)
(* were not durable, len is the number and bytes the total length of the   *)
(* entries claimed or stored and not yet accounted for as acked.           *)
THEOREM GroupCountsExact ==
  ASSUME ~Threaded, CleanFailures PROVE GroupSpec => [](LenExact /\ BytesExact)
<1>1. Init /\ GroupInit => GroupInv /\ CountInv
  BY GroupInvInit, FailedInit, ScanInit, LenInit, BytesInit DEF CountInv
<1>2. GroupInv /\ [GroupNext]_gqVars => GroupInv'
  BY GroupInvStep
<1>3. GroupInv /\ CountInv /\ [GroupNext]_gqVars => CountInv'
  <2> SUFFICES ASSUME GroupInv, CountInv, [GroupNext]_gqVars PROVE CountInv'
    OBVIOUS
  <2>1. CoreInv /\ SoloInv /\ CoreInv' /\ batch \in SUBSET Producers
    BY <1>2 DEF GroupInv, ServeInv, GroupOK
  <2>2. CASE [Next]_vars
    BY <2>1, <2>2, OwnStepCounts
  <2>3. CASE Entering(batch) /\ batch # {}
    BY <2>1, <2>3, EnteringCounts
  <2>4. ASSUME NEW p \in Producers, Finishing(p) PROVE CountInv'
    BY <2>1, <2>4, FinishingCounts
  <2> QED
    BY <2>2, <2>3, <2>4, GroupCases
<1>4. GroupInv /\ CountInv => LenExact /\ BytesExact
  BY TotalExact DEF GroupInv, CountInv
<1> QED
  BY <1>1, <1>2, <1>3, <1>4, PTL DEF GroupSpec

-----------------------------------------------------------------------------
(* Wake-ups.                                                               *)

(* A batch entering and a push that collects its Ok free no slot, wake     *)
(* nobody and put nobody to sleep.                                         *)
LEMMA CommitKeepsWakes ==
  ASSUME WakeInv, NoStall, UNCHANGED <<len, capacity, closed, gpc>>,
         \A q \in Producers :
           ppc'[q] = ppc[q] \/ (ppc[q] \in {"apply", "flush"} /\ ppc'[q] \in {"flush", "idle"})
  PROVE  WakeInv' /\ NoStall'
<1>1. Waiting(ppc)' = Waiting(ppc) /\ Alert' = Alert /\ Telling' = Telling
  BY DEF Waiting, Alert, Telling
<1>2. WakePending' <=> WakePending
  BY DEF WakePending
<1>3. (\E p \in Producers : ppc'[p] = "closing") <=> \E p \in Producers : ppc[p] = "closing"
  OBVIOUS
<1>4. WakeInv'
  BY <1>1 DEF WakeInv
<1> QED
  BY <1>1, <1>2, <1>3, <1>4 DEF NoStall

(* Group commit loses no wake-up: where only the item count bounds the     *)
(* queue, a producer that would fit never sleeps without a wake-up under   *)
(* way, whichever of the pushes that share a batch fail, are retried alone *)
(* and give their slots back.                                              *)
THEOREM GroupLosesNoWakeup ==
  ASSUME IsFiniteSet(Producers), IsFiniteSet(Guards), CleanFailures
  PROVE  GroupSpec => [](MaxBytes = UsizeMod - 1 => NoLostWakeup)
<1> DEFINE Inv == WakeInv /\ NoStall
<1>1. Init /\ GroupInit => GroupInv /\ Inv
  BY GroupInvInit, WakeInit, StallInit
<1>2. GroupInv /\ [GroupNext]_gqVars => GroupInv'
  BY GroupInvStep
<1>3. GroupInv /\ Inv /\ [GroupNext]_gqVars => Inv'
  <2> SUFFICES ASSUME GroupInv, WakeInv, NoStall, [GroupNext]_gqVars PROVE WakeInv' /\ NoStall'
    OBVIOUS
  <2>1. TypeInv /\ TypeInv' /\ SafeInv /\ ItemInv /\ ThreadsOK /\ batch \in SUBSET Producers
    BY <1>2 DEF GroupInv, CoreInv, IdentityInv, TypeInv, TypeOK, ServeInv, GroupOK
  <2>2. CASE [Next]_vars
    BY <2>1, <2>2, WakeStep, StallStep
  <2>3. CASE Entering(batch)
    <3>1. UNCHANGED <<len, capacity, closed, gpc>>
      BY <2>3 DEF Entering, commitFrame, innerVars, guardVars
    <3>2. \A q \in Producers : ppc'[q] = ppc[q] \/ (ppc[q] = "apply" /\ ppc'[q] = "flush")
      BY <2>3 DEF Entering
    <3> QED
      BY <3>1, <3>2, CommitKeepsWakes
  <2>4. ASSUME NEW p \in Producers, Finishing(p) PROVE WakeInv' /\ NoStall'
    <3>1. UNCHANGED <<len, capacity, closed, gpc>>
      BY <2>4 DEF Finishing, commitFrame, innerVars, guardVars
    <3>2. \A q \in Producers : ppc'[q] = ppc[q] \/ (ppc[q] = "flush" /\ ppc'[q] = "idle")
      BY <2>1, <2>4 DEF Finishing, Outcome, ThreadsOK
    <3> QED
      BY <3>1, <3>2, CommitKeepsWakes
  <2> QED
    BY <2>2, <2>3, <2>4, GroupCases
<1>4. GroupInv /\ Inv => (MaxBytes = UsizeMod - 1 => NoLostWakeup)
  BY WakesSuffice DEF GroupInv, CoreInv
<1> HIDE DEF Inv
<1> QED
  BY <1>1, <1>2, <1>3, <1>4, PTL DEF GroupSpec

=============================================================================
