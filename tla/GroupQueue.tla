---------------------------- MODULE GroupQueue -----------------------------
(***************************************************************************)
(* The queue under Durability::Group: Producer::write calls                *)
(* Shared::group_commit (src/src/queue.rs) instead of committing its own   *)
(* entry.  The first caller in becomes the leader and commits what is      *)
(* pending, its own entry included, batch after batch; the others wait for *)
(* the outcome of their entry.  A caller whose batch failed commits its    *)
(* entry alone.                                                            *)
(*                                                                         *)
(* Everything else is Queue's.  Group is a policy with durable() TRUE like *)
(* Sync, so instances give Durability the value "Sync".  A producer is in  *)
(* ppc = "apply" while its entry is to be stored (by a leader, or again by *)
(* itself) and in ppc = "flush" once it is visible.                        *)
(*                                                                         *)
(* A step is a critical section of the `group_state' mutex (notify_all is  *)
(* called inside it) or a store call.                                      *)
(***************************************************************************)
EXTENDS QueueProperties

ASSUME GroupAssumption == durable

VARIABLES
  pending, flushing, done,  \* struct GroupState
  batch,                    \* the leader's local batch
  wpc                       \* where each producer is in group_commit

groupVars == <<pending, flushing, done, batch, wpc>>
gqVars == <<vars, groupVars>>

(* Outside, asleep on group_ready, awake again without the lock, leading   *)
(* with the commit to apply or to flush, committing alone.                 *)
WriterPC == {"out", "wait", "woken", "commit", "flush", "alone"}

(* An entry of pending or batch is named by its producer, an outcome by    *)
(* its sequence number.                                                    *)
GroupOK ==
  /\ pending \in SUBSET Producers /\ batch \in SUBSET Producers
  /\ flushing \in BOOLEAN
  /\ done \in [Seqs -> {"none", "ok", "err"}]
  /\ wpc \in [Producers -> WriterPC]

(* GroupState::default().                                                  *)
GroupInit ==
  /\ pending = {} /\ batch = {} /\ flushing = FALSE
  /\ done = [s \in Seqs |-> "none"]
  /\ wpc = [p \in Producers |-> "out"]

-----------------------------------------------------------------------------

(* Entry: queue the entry and wait, or lead and take the first batch.      *)
GroupEnter(p) ==
  /\ ppc[p] = "apply" /\ wpc[p] = "out"
  /\ IF flushing
     THEN /\ wpc' = [wpc EXCEPT ![p] = "wait"]
          /\ pending' = pending \cup {p}
          /\ UNCHANGED <<flushing, batch>>
     ELSE /\ wpc' = [wpc EXCEPT ![p] = "commit"]
          /\ flushing' = TRUE /\ batch' = pending \cup {p} /\ pending' = {}
  /\ UNCHANGED <<vars, done>>

(* The sequence numbers of a batch.                                        *)
SeqsOf(B) == {pseq[q] : q \in B}

(* The commit of the whole batch, outside the lock ...                     *)
BatchApply(p) ==
  /\ wpc[p] = "commit"
  /\ live' = [s \in Seqs |-> IF s \in SeqsOf(batch) THEN owner[s] ELSE live[s]]
  /\ disk' = [s \in Seqs |-> IF s \in SeqsOf(batch) THEN disk[s] \cup {owner[s]} ELSE disk[s]]
  /\ ppc' = [q \in Producers |-> IF q \in batch THEN "flush" ELSE ppc[q]]
  /\ wpc' = [wpc EXCEPT ![p] = "flush"]
  /\ UNCHANGED <<meta, meta_disk, innerVars, pitem, pseq, consVars, guardVars,
                 restarts, histVars, pending, flushing, done, batch>>

(* The end of group_commit for p: its outcome has been removed from done.  *)
(* Ok is what push returns; otherwise the entry is to be committed alone.  *)
Outcome(p, result) ==
  IF result = "ok"
  THEN /\ accepted' = accepted \cup {pitem[p]}
       /\ ppc' = [ppc EXCEPT ![p] = "idle"]
       /\ pitem' = [pitem EXCEPT ![p] = NoItem]
  ELSE /\ ppc' = [ppc EXCEPT ![p] = "apply"]
       /\ UNCHANGED <<accepted, pitem>>

AfterOutcome(result) == IF result = "ok" THEN "out" ELSE "alone"

(* notify_all on group_ready, after which p is at pc.                      *)
GroupNotify(p, pc) ==
  wpc' = [q \in Producers |-> IF q = p THEN pc
                              ELSE IF wpc[q] = "wait" THEN "woken" ELSE wpc[q]]

(* Mutant: the leader leaves without looking at pending again.             *)
RecordAndLeave(p, result) ==
  LET recorded == [s \in Seqs |-> IF s \in SeqsOf(batch) THEN result ELSE done[s]]
  IN  /\ batch' = {} /\ flushing' = FALSE /\ UNCHANGED pending
      /\ done' = [recorded EXCEPT ![pseq[p]] = "none"]
      /\ Outcome(p, recorded[pseq[p]])
      /\ GroupNotify(p, AfterOutcome(recorded[pseq[p]]))

(* With the lock again: record the outcome for the whole batch, notify,    *)
(* and either take the next batch or stop leading and leave.               *)
Record(p, result) ==
  LET recorded == [s \in Seqs |-> IF s \in SeqsOf(batch) THEN result ELSE done[s]]
  IN  IF pending = {}
      THEN /\ batch' = {} /\ flushing' = FALSE /\ UNCHANGED pending
           /\ done' = [recorded EXCEPT ![pseq[p]] = "none"]
           /\ Outcome(p, recorded[pseq[p]])
           /\ GroupNotify(p, AfterOutcome(recorded[pseq[p]]))
      ELSE /\ batch' = pending /\ pending' = {}
           /\ done' = recorded
           /\ GroupNotify(p, "commit")
           /\ UNCHANGED <<flushing, accepted, ppc, pitem>>

(* Mutant: the batch is committed without durability.                      *)
BatchOkUnsynced(p) ==
  /\ wpc[p] = "flush"
  /\ Record(p, "ok")
  /\ UNCHANGED <<storeVars, innerVars, pseq, consVars, guardVars, restarts,
                 pushed, owner, delivered, deleted, acked>>

(* ... returns Ok, the entries being on disk ...                           *)
BatchOk(p) ==
  /\ wpc[p] = "flush"
  /\ disk' = [s \in Seqs |->
                IF s \in SeqsOf(batch) /\ live[s] = owner[s] THEN {live[s]} ELSE disk[s]]
  /\ Record(p, "ok")
  /\ UNCHANGED <<live, meta, meta_disk, innerVars, pseq, consVars, guardVars,
                 restarts, pushed, owner, delivered, deleted, acked>>

(* ... or Err, before or after they became visible.                        *)
BatchErr(p) ==
  /\ \/ wpc[p] = "commit" /\ "unapplied" \in Outcomes
     \/ wpc[p] = "flush" /\ "unsynced" \in Outcomes
  /\ Record(p, "err")
  /\ UNCHANGED <<storeVars, innerVars, pseq, consVars, guardVars, restarts,
                 pushed, owner, delivered, deleted, acked>>

(* A follower that is awake looks for its outcome.                         *)
Follow(p) ==
  /\ wpc[p] = "woken"
  /\ LET result == done[pseq[p]]
     IN  IF result = "none"
         THEN wpc' = [wpc EXCEPT ![p] = "wait"] /\ UNCHANGED <<vars, done>>
         ELSE /\ done' = [done EXCEPT ![pseq[p]] = "none"]
              /\ Outcome(p, result)
              /\ wpc' = [wpc EXCEPT ![p] = AfterOutcome(result)]
              /\ UNCHANGED <<storeVars, innerVars, pseq, consVars, guardVars,
                             restarts, pushed, owner, delivered, deleted, acked>>
  /\ UNCHANGED <<pending, flushing, batch>>

(* group_ready.wait may return without a notification.                     *)
SpuriousFollow(p) ==
  /\ wpc[p] = "wait"
  /\ wpc' = [wpc EXCEPT ![p] = "woken"]
  /\ UNCHANGED <<vars, pending, flushing, done, batch>>

(* Mutant: the error of the retry is returned at once, slot and all.       *)
AloneReturnsErr(p) ==
  /\ wpc[p] = "alone"
  /\ \/ WriteApply(p) /\ UNCHANGED wpc
     \/ WriteOk(p) /\ wpc' = [wpc EXCEPT ![p] = "out"]
     \/ /\ ppc[p] = "apply" /\ "unapplied" \in Outcomes
        /\ ppc' = [ppc EXCEPT ![p] = "idle"]
        /\ pitem' = [pitem EXCEPT ![p] = NoItem]
        /\ wpc' = [wpc EXCEPT ![p] = "out"]
        /\ UNCHANGED <<storeVars, innerVars, pseq, consVars, guardVars, restarts, histVars>>
  /\ UNCHANGED <<pending, flushing, done, batch>>

(* The commit of p's entry alone, as in Queue.                             *)
Alone(p) ==
  /\ wpc[p] = "alone"
  /\ \/ WriteApply(p) /\ UNCHANGED wpc
     \/ (WriteOk(p) \/ WriteErr(p)) /\ wpc' = [wpc EXCEPT ![p] = "out"]
  /\ UNCHANGED <<pending, flushing, done, batch>>

-----------------------------------------------------------------------------

GroupCommitStep(p) ==
  GroupEnter(p) \/ BatchApply(p) \/ BatchOk(p) \/ BatchErr(p) \/ Follow(p) \/ Alone(p)

(* The steps of Queue outside Producer::write's commit.                    *)
OtherStep ==
  \/ OpenStart \/ OpenErr \/ RecoverEntry \/ RecoverDone \/ RecoverErr
  \/ \E p \in Producers :
       \/ Push(p) \/ TryPush(p) \/ SpuriousWake(p) \/ Close(p)
       \/ PushRetry(p) \/ GiveBack(p) \/ WriteNotify(p) \/ CloseNotify(p)
  \/ ReserveStart \/ ReserveSeek \/ ReserveNone \/ ReserveSkip \/ ReserveTake
  \/ \E g \in Guards : Nack(g) \/ AckApply(g) \/ GuardStep(g)

GroupNext ==
  \/ OtherStep /\ UNCHANGED groupVars
  \/ Crash /\ pending' = {} /\ batch' = {} /\ flushing' = FALSE
           /\ done' = [s \in Seqs |-> "none"] /\ wpc' = [p \in Producers |-> "out"]
  \/ \E p \in Producers : GroupCommitStep(p) \/ SpuriousFollow(p)

GroupSpec == Init /\ GroupInit /\ [][GroupNext]_gqVars

-----------------------------------------------------------------------------
(* Properties.                                                             *)

Leaders == {p \in Producers : wpc[p] \in {"commit", "flush"}}

(* A caller asleep in group_commit is served: its entry is in a leader's   *)
(* batch or waits behind one, and when its outcome is there it has been    *)
(* notified.  There is one leader at a time, and done holds only outcomes  *)
(* whose caller is still to collect them.                                  *)
FollowersServed ==
  /\ \A p \in Producers :
       wpc[p] = "wait" => done[pseq[p]] = "none" /\ p \in pending \cup batch
  /\ IF flushing THEN \E p \in Producers : Leaders = {p}
                 ELSE Leaders = {} /\ pending = {} /\ batch = {}
  /\ \A s \in Seqs : done[s] # "none" =>
       \E p \in Producers : pseq[p] = s /\ wpc[p] \in {"woken", "commit", "flush"}

-----------------------------------------------------------------------------
(* Inductive strengthening.                                                *)

(* A push in its commit has a number of its own.                           *)
ClaimInv ==
  /\ \A p \in Producers : ppc[p] \in {"apply", "flush"} => pseq[p] < tail
  /\ \A p, q \in Producers :
       /\ ppc[p] \in {"apply", "flush"} /\ ppc[q] \in {"apply", "flush"}
       /\ pseq[p] = pseq[q]
       => p = q

(* An entry is in pending, in the batch or neither, and has an outcome     *)
(* only in the last case; its caller is in group_commit and has collected  *)
(* no outcome yet.  The entries of a batch are all visible or none is.     *)
WriterInv ==
  /\ \A p \in Producers :
       /\ wpc[p] # "out" => ppc[p] \in {"apply", "flush"}
       /\ ppc[p] = "flush" => wpc[p] # "out"
       /\ wpc[p] \in {"woken", "commit", "flush"} =>
            p \in pending \cup batch \/ done[pseq[p]] # "none"
  /\ \A p \in pending : wpc[p] \in {"wait", "woken"} /\ ppc[p] = "apply" /\ p \notin batch
  /\ \A p \in batch : wpc[p] \in {"wait", "woken", "commit", "flush"}
  /\ \A p \in pending \cup batch : done[pseq[p]] = "none"
  /\ \A p \in Leaders : \A q \in batch :
       ppc[q] = IF wpc[p] = "commit" THEN "apply" ELSE "flush"

(* Over a store whose failed commits leave nothing behind: an entry whose  *)
(* outcome is Ok is on disk while it is stored, and one whose outcome is   *)
(* Err is still to be stored.                                              *)
SettledInv ==
  CleanFailures =>
    \A p \in Producers : wpc[p] \in {"woken", "commit", "flush"} =>
      /\ done[pseq[p]] = "ok" =>
           ppc[p] = "flush" /\ (live[pseq[p]] = pitem[p] => disk[pseq[p]] = {pitem[p]})
      /\ done[pseq[p]] = "err" => ppc[p] = "apply"

=============================================================================
