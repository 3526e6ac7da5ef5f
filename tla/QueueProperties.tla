-------------------------- MODULE QueueProperties --------------------------
(***************************************************************************)
(* What the queue promises: the properties of Queue that the model-checking*)
(* runs check and the proof modules prove.                                 *)
(***************************************************************************)
EXTENDS Queue

-----------------------------------------------------------------------------
(* Safety.                                                                 *)

(* Guards whose entry is on loan: reserve gave it out, and neither a       *)
(* release nor the accounting of an ack has taken it back.                 *)
OnLoan == {g \in Guards : gpc[g] \in {"held", "flush", "settle"}}

(* The reserved set is exactly the entries on loan, and no entry is on     *)
(* loan twice: reserve checks and inserts under one lock, and each of ack, *)
(* nack, drop and a failed ack removes its own entry and no other.         *)
ReservedExact ==
  /\ reserved = {gseq[g] : g \in OnLoan}
  /\ \A g, h \in OnLoan : gseq[g] = gseq[h] => g = h

(* reserve starts its scan at head, so nothing may be below head that is   *)
(* stored or still to be stored: a producer claims its sequence number     *)
(* under the lock and commits it later, and head must wait for it.         *)
HeadSafe ==
  Up => /\ \A s \in Stored : s >= head
        /\ \A p \in Producers : ppc[p] = "apply" => pseq[p] >= head

(* At-least-once: once push has returned Ok the item stays in the store,   *)
(* on disk under a durable policy, until an ack deletes it.  Only a crash  *)
(* under Durability::None or with MemStore may lose it.                    *)
NoLoss ==
  (restarts = 0 \/ (durable /\ Backend # "mem")) =>
    \A i \in accepted \ deleted :
      \E s \in Seqs : live[s] = i /\ (durable => disk[s] = {i})

(* Entries len must count: those stored, those claimed but not stored yet, *)
(* those failed and not given back yet, those deleted and not settled yet. *)
Counted ==
  Stored \cup {pseq[p] : p \in {q \in Producers : ppc[q] \in {"apply", "giveback"}}}
         \cup {gseq[g] : g \in {h \in Guards : gpc[h] \in {"flush", "settle"}}}

(* len is the number of unacked items: it neither drifts nor underflows    *)
(* over claims, give-backs and acks that overlap.                          *)
LenExact == Up => len = Cardinality(Counted)

(* The total length of the counted items numbered below n.                 *)
BytesBelow[n \in 0 .. MaxSeq] ==
  IF n = 0 THEN 0
  ELSE BytesBelow[n - 1] + (IF n - 1 \in Counted THEN Size[owner[n - 1]] ELSE 0)

(* bytes is the total length of the items len counts, as far as a usize    *)
(* can hold it.                                                            *)
BytesExact == Up => bytes = BytesBelow[MaxSeq] % UsizeMod

(* An item whose ack returned Ok is never in the application's hands       *)
(* again, restarts included, when acks are durable.                        *)
AckedStaysGone ==
  (restarts = 0 \/ ack_durable) => \A g \in Guards : gpc[g] = "held" => gitem[g] \notin acked

(* A wake-up is under way: somebody is about to notify, or a woken         *)
(* producer is about to take the lock and look again.                      *)
WakePending ==
  \/ \E p \in Producers : ppc[p] \in {"woken", "notify", "closing"}
  \/ \E g \in Guards : gpc[g] = "notify"

(* No producer sleeps through the moment it could go on.  After close, and *)
(* whenever the queue is empty, a sleeper has a wake-up under way.         *)
NoStall ==
  /\ closed /\ Waiting(ppc) # {} => \E p \in Producers : ppc[p] = "closing"
  /\ ~closed /\ len = 0 /\ Waiting(ppc) # {} => WakePending

(* What push promises, where only the item count bounds the queue: a       *)
(* producer waits while its value does not fit, or has a wake-up under way.*)
NoLostWakeup ==
  \A p \in Waiting(ppc) :
    Admits(len, bytes, Size[pitem[p]]) => WakePending

(* Items of one producer are handed out in the order it pushed them: while *)
(* one is on loan, an earlier one whose push returned Ok and that is still *)
(* stored has been handed out before.                                      *)
ProducerFIFO ==
  \A g \in OnLoan : \A s \in Seqs :
    /\ s < gseq[g]
    /\ live[s] \in accepted
    /\ Author[live[s]] = Author[gitem[g]]
    => live[s] \in delivered

(* No push and no ack is under way.                                        *)
Quiet ==
  /\ \A p \in Producers : ppc[p] \in {"idle", "waiting", "woken"}
  /\ GuardsAtRest

(* When no push and no ack is under way, len is the number of stored       *)
(* entries, which is what Producer::len promises.                          *)
LenIsUnacked == Up /\ Quiet => len = Cardinality(Stored)

(* When no push and no ack is under way, head wastes no scan: until the    *)
(* first restart it is at tail, at a stored entry, or at a number whose    *)
(* push failed, never at an entry that has been acked.                     *)
HeadTight ==
  Up /\ Quiet /\ restarts = 0 =>
    head = tail \/ live[head] # NoItem \/ owner[head] \notin deleted

-----------------------------------------------------------------------------
(* Action properties.                                                      *)

(* A sequence number under which an item was consumed is never given to    *)
(* another push: a consumer can remember it to recognise a redelivery.     *)
SeqIdentifies ==
  [][\A s \in Seqs : owner[s] \in acked => owner'[s] = owner[s]]_vars

(* Until the next restart, head and tail only move forward, and a claim    *)
(* takes a sequence number at or above head that has no entry: it neither  *)
(* overwrites a stored item nor lands where reserve no longer looks.       *)
GrowStep ==
  Up /\ Up' =>
    /\ head' >= head /\ tail' >= tail
    /\ \A s \in Seqs : owner'[s] # owner[s] => live[s] = NoItem /\ s >= head
LogGrows == [][GrowStep]_vars

-----------------------------------------------------------------------------
(* Refinement: the items stored are the abstract queue's; an item is       *)
(* removed while its delete is in force, and in again when a crash has     *)
(* undone it.                                                              *)

InQueue == {live[s] : s \in Stored}
Loaned == {gitem[g] : g \in OnLoan}

Abstract == INSTANCE AtLeastOnce WITH
  Durable <- durable /\ Backend # "mem",
  AckDurable <- ack_durable,
  queue <- InQueue,
  loan <- Loaned,
  removed <- deleted \ InQueue

(* Every step of the queue is a step of the at-least-once queue, or none:  *)
(* sequence numbers, the scan from head, failing commits and recovery lose *)
(* no accepted item, lend no item twice at once and bring none back.       *)
Implements == Abstract!Spec

-----------------------------------------------------------------------------
(* Liveness.  Threads run; the application keeps opening the queue after a *)
(* failure, keeps reserving while it has room for a guard, and acks an     *)
(* item that it is handed again and again; a store that is asked for the   *)
(* same entry again and again answers at some point.  Nothing obliges      *)
(* anybody to push, close, nack, fail or crash, or a condvar to wake       *)
(* spuriously.                                                             *)

ProducersRun == \A p \in Producers : WF_vars(ProducerStep(p))

ConsumerStep == ReserveStart \/ ReserveSeek \/ ReserveNone \/ ReserveSkip \/ ReserveTake

ConsumerRuns ==
  /\ WF_vars(ConsumerStep)
  /\ \A s \in Seqs : SF_vars(cursor = s /\ ReserveSeek)
  /\ \A g \in Guards : WF_vars(GuardStep(g))

Fairness ==
  /\ WF_vars(OpenStart) /\ SF_vars(RecoverDone)
  /\ \A s \in Seqs : SF_vars(cursor = s /\ RecoverEntry)
  /\ ProducersRun /\ ConsumerRuns
  /\ \A i \in Items : SF_vars(\E g \in Guards : gitem[g] = i /\ AckApply(g))

FairSpec == Spec /\ Fairness

(* Less than that: the application keeps reserving and acks something      *)
(* again and again, but may nack any one item for ever.                    *)
ConsumerAcks == ConsumerRuns /\ SF_vars(\E g \in Guards : AckApply(g))

(* The producers' threads run, and nothing else is promised: there may be  *)
(* no consumer at all.                                                     *)
ThreadSpec == Spec /\ ProducersRun

(* Every item whose push returned Ok is eventually consumed, through       *)
(* transient store errors and restarts.                                    *)
EventuallyConsumed == \A i \in Items : i \in accepted ~> i \in deleted

(* A producer asleep on a full queue is eventually let in, however often   *)
(* the one wake-up goes to another that does not fit or comes too late,    *)
(* unless the queue is closed or the process dies; provided that the       *)
(* application keeps acking.                                               *)
EventuallyAdmitted ==
  ConsumerAcks =>
    \A p \in Producers :
      ppc[p] = "waiting" ~> ppc[p] \notin {"waiting", "woken"} \/ closed

(* close releases every sleeper by itself: its push returns even when      *)
(* nobody consumes and no slot ever becomes free.                          *)
CloseReleases ==
  \A p \in Producers : closed /\ ppc[p] \in {"waiting", "woken"} ~> ppc[p] = "idle"

-----------------------------------------------------------------------------
(* Inductive strengthening: what the proofs carry from step to step.       *)

(* A thread or guard in the middle of a call names a real item and, once   *)
(* it has one, a real sequence number.                                     *)
InCall ==
  /\ \A p \in Producers :
       /\ ppc[p] \in {"waiting", "woken", "apply", "flush", "giveback"} => pitem[p] \in Items
       /\ ppc[p] \in {"apply", "flush", "giveback"} => pseq[p] \in Seqs
  /\ \A g \in Guards : gpc[g] # "free" => gseq[g] \in Seqs /\ gitem[g] \in Items
  /\ cpc = "check" => found \in Seqs /\ fitem \in Items

TypeInv == TypeOK /\ InCall

(* While the queue is not open nobody is in a call.                        *)
DownInv ==
  ~Up => /\ \A p \in Producers : ppc[p] = "idle"
         /\ \A g \in Guards : gpc[g] = "free"
         /\ acked_above = {}

(* s was claimed and its commit is over, or is no longer to come.          *)
Committed(s) == s < tail /\ \A p \in Producers : ppc[p] = "apply" => pseq[p] # s

(* s is committed and no longer stored: it will never be delivered.        *)
Dead(s) == Committed(s) /\ live[s] = NoItem

(* Every sequence number in use lies below tail; the ones still to be      *)
(* committed are distinct and free; whatever head or acked_above has       *)
(* passed is dead, and so is the entry an ack has deleted.                 *)
LogInv ==
  /\ cpc # "down" => head <= tail /\ \A s \in Stored : s < tail
  /\ Up => \A s \in Seqs : s < head => Dead(s)
  /\ \A p \in Producers : ppc[p] = "apply" => pseq[p] < tail /\ live[pseq[p]] = NoItem
  /\ \A p, q \in Producers :
       ppc[p] = "apply" /\ ppc[q] = "apply" /\ pseq[p] = pseq[q] => p = q
  /\ \A s \in acked_above : Dead(s)
  /\ \A g \in Guards :
       /\ gpc[g] # "free" => Committed(gseq[g])
       /\ gpc[g] \in {"flush", "settle"} => live[gseq[g]] = NoItem
  /\ cpc = "check" => Committed(found)

(* The recovery scan has counted at most the entries below its cursor, and *)
(* its head is at or below all of them.                                    *)
RecoverInv ==
  cpc = "recover" =>
    /\ len <= cursor
    /\ len # 0 => head < cursor
    /\ \A s \in Stored : s < cursor => len # 0 /\ head <= s

(* What a guard, or the scan, read from the store is what the store still  *)
(* has, unless it has been deleted; so is what a push has written.         *)
ValueInv ==
  /\ \A g \in Guards : gpc[g] # "free" => live[gseq[g]] \in {gitem[g], NoItem}
  /\ cpc = "check" => live[found] \in {fitem, NoItem}
  /\ \A p \in Producers :
       ppc[p] = "flush" => live[pseq[p]] = pitem[p] \/ pitem[p] \in deleted

(* Every item has a number of its own, even after a restart has handed a   *)
(* number out again: whatever a push, a guard or the scan names is the     *)
(* item its number was last given to.  A producer pushes its own items,    *)
(* each once.                                                              *)
ItemInv ==
  /\ \A s, t \in Seqs : owner[s] = owner[t] /\ owner[s] # NoItem => s = t
  /\ \A s \in Seqs : owner[s] \in pushed \cup {NoItem}
  /\ \A p \in Producers :
       /\ ppc[p] \in {"waiting", "woken"} => pitem[p] \notin pushed
       /\ ppc[p] \in {"waiting", "woken", "apply"} => Author[pitem[p]] = p
  /\ \A p \in Producers :
       ppc[p] \in {"apply", "flush", "giveback"} => pseq[p] < tail /\ owner[pseq[p]] = pitem[p]
  /\ \A p, q \in Producers :
       /\ ppc[p] \in {"apply", "flush", "giveback"}
       /\ ppc[q] \in {"apply", "flush", "giveback"}
       /\ pseq[p] = pseq[q]
       => p = q
  /\ \A g \in Guards : gpc[g] # "free" => owner[gseq[g]] = gitem[g]
  /\ cpc = "check" => owner[found] = fitem

(* What a crash may leave under a number: its item, or nothing.  While the *)
(* queue is not open nothing is in doubt, and nothing was ever written at  *)
(* or above tail.                                                          *)
DiskInv ==
  /\ \A s \in Seqs : disk[s] \subseteq {NoItem, owner[s]} /\ live[s] \in disk[s]
  /\ ~Up => \A s \in Seqs : disk[s] = {live[s]}
  /\ cpc # "down" => \A s \in Seqs : s >= tail => disk[s] = {NoItem}

(* What was deleted comes back by a crash only, and then for certain; what *)
(* was acked durably never does.                                           *)
HistoryInv ==
  /\ accepted \subseteq pushed /\ deleted \subseteq pushed /\ acked \subseteq deleted
  /\ \A p \in Producers : ppc[p] = "apply" => pitem[p] \notin accepted \cup deleted
  /\ \A g \in Guards :
       gpc[g] \in {"flush", "settle", "notify"} => gitem[g] \in deleted /\ live[gseq[g]] = NoItem
  /\ \A s \in Seqs : \A i \in disk[s] : i = NoItem \/ i = live[s] \/ i \in deleted
  /\ \A s \in Seqs :
       live[s] \in deleted => restarts # 0 /\ Backend # "mem" /\ disk[s] = {live[s]}
  /\ ack_durable => \A s \in Seqs :
       /\ \A i \in acked : i \notin disk[s]
       /\ \A g \in Guards : gpc[g] \in {"settle", "notify"} => gitem[g] \notin disk[s]

IdentityInv == ItemInv /\ DiskInv /\ HistoryInv

(* With one consumer thread no ack runs during a scan, and what the scan   *)
(* found, or the application holds, is still stored.                       *)
SoloInv ==
  ~Threaded =>
    /\ cpc \in {"seek", "check"} => GuardsAtRest
    /\ cpc = "check" => live[found] = fitem
    /\ \A g \in Guards : gpc[g] = "held" => live[gseq[g]] = gitem[g]

(* A failed commit leaves nothing behind: no flush fails after the ops     *)
(* became visible.  Only sled under a durable policy breaks this.          *)
CleanFailures == durable => "unsynced" \notin Outcomes

(* Under such a store nobody ever sees the entry of a failed push.         *)
FailedInv ==
  CleanFailures =>
    \A p \in Producers : ppc[p] = "giveback" =>
      /\ live[pseq[p]] = NoItem
      /\ \A g \in Guards : gpc[g] # "free" => gseq[g] # pseq[p]
      /\ cpc = "check" => found # pseq[p]

(* The recovery scan has counted the entries below its cursor.             *)
ScanExact == cpc = "recover" => len = Cardinality({s \in Stored : s < cursor})

(* An acked number at or above head is remembered in acked_above, or its   *)
(* ack is still to be accounted for; the number at head is not remembered. *)
TightInv ==
  CleanFailures /\ restarts = 0 =>
    /\ ~Up => deleted = {}
    /\ head \notin acked_above
    /\ \A s \in Seqs :
         /\ head <= s /\ s < tail
         /\ live[s] = NoItem /\ owner[s] \in deleted
         => s \in acked_above \/ \E g \in Guards : gseq[g] = s /\ gpc[g] \in {"flush", "settle"}

(* A producer pushes one item at a time: nothing of its own has a number   *)
(* above the one it is about to store.                                     *)
AuthorInv ==
  \A p \in Producers : ppc[p] = "apply" =>
    \A t \in Seqs : pseq[p] < t /\ t < tail /\ owner[t] \in Items => Author[owner[t]] # p

OneGuard == \A g, h \in Guards : g = h

(* No entry of i's producer is stored below number n.                      *)
NoneBefore(n, i) ==
  \A s \in Seqs : s < n /\ live[s] \in Items => Author[live[s]] # Author[i]

(* With one guard the scan has nothing to step over, so what it finds and  *)
(* hands out is its producer's oldest entry, and stays so.                 *)
OrderInv ==
  OneGuard =>
    /\ cpc \in {"seek", "check"} => cursor = head /\ \A g \in Guards : gpc[g] = "free"
    /\ cpc = "check" => NoneBefore(found, fitem)
    /\ \A g \in OnLoan : NoneBefore(gseq[g], gitem[g])

(* Producers that are about to look for a slot, or to tell a sleeper of    *)
(* one; guards that are about to do so.                                    *)
Alert == {p \in Producers : ppc[p] \in {"woken", "notify"}}
Telling == {g \in Guards : gpc[g] = "notify"}

(* While a producer sleeps, every free slot has a wake-up of its own under *)
(* way.                                                                    *)
WakeInv ==
  MaxBytes = UsizeMod - 1 /\ ~closed /\ Waiting(ppc) # {} =>
    len + Cardinality(Alert) + Cardinality(Telling) >= capacity

=============================================================================
