------------------------------- MODULE Queue -------------------------------
(***************************************************************************)
(* The synchronous core of the queue (src/src/queue.rs): Builder::open     *)
(* with its recovery scan, Producer::push / try_push / close, the          *)
(* consumer's reserve, and the Reserved guard's ack / nack / drop, under   *)
(* the Sync and None durability policies, with crashes and failing         *)
(* commits.                                                                *)
(*                                                                         *)
(* A step is one critical section of the `inner' mutex, one store call, or *)
(* one condition-variable notification: the code never holds the mutex     *)
(* across store I/O and notifies after unlocking, so these interleave.     *)
(***************************************************************************)
EXTENDS Store

CONSTANTS
  Producers,    \* threads holding a clone of the Producer
  Guards,       \* bound: Reserved guards the application holds at once
  Author,       \* the producer that pushes each item
  Size,         \* the byte length of each item
  Capacities,   \* values passed to Builder::capacity, one per open
  MaxBytes,     \* Builder::max_bytes
  UsizeMod,     \* 2^w for the w-bit usize
  Durability,   \* "Sync" or "None"
  DurableAcks,  \* Builder::durable_acks
  Threaded,     \* TRUE: guards are moved to other threads (Reserved is Send);
                \* FALSE: one thread reserves, acks and nacks
  MaxRestarts   \* bound: crashes

ASSUME QueueAssumption ==
  /\ Author \in [Items -> Producers]
  /\ UsizeMod \in Nat \ {0, 1}
  /\ MaxSeq < UsizeMod          \* a store never holds 2^w entries
  /\ Size \in [Items -> 0 .. (UsizeMod - 1)]
  /\ Capacities \subseteq 1 .. (UsizeMod - 1)
  /\ MaxBytes \in 1 .. (UsizeMod - 1)
  /\ Durability \in {"Sync", "None"}
  /\ DurableAcks \in BOOLEAN
  /\ Threaded \in BOOLEAN
  /\ MaxRestarts \in Nat

durable == Durability # "None"
ack_durable == durable /\ DurableAcks

VARIABLES
  tail, head, acked_above, len, bytes, reserved, closed,  \* struct Inner
  capacity,              \* Shared::capacity of the current open
  ppc, pitem, pseq,      \* producer threads: where, pushing what, claimed seq
  cpc, cursor, found, fitem,  \* the opening / reserving thread and its scan
  gpc, gseq, gitem,      \* the guards
  restarts,
  (* history *)
  pushed,     \* items that were given a sequence number
  owner,      \* the item each sequence number was last given to
  accepted,   \* items whose push returned Ok
  delivered,  \* items handed out by reserve at least once
  deleted,    \* items whose Delete an ack has applied at least once
  acked       \* items whose ack returned Ok

innerVars == <<tail, head, acked_above, len, bytes, reserved, closed, capacity>>
prodVars == <<ppc, pitem, pseq>>
consVars == <<cpc, cursor, found, fitem>>
guardVars == <<gpc, gseq, gitem>>
histVars == <<pushed, owner, accepted, delivered, deleted, acked>>
vars == <<storeVars, innerVars, prodVars, consVars, guardVars, restarts, histVars>>

Usize == 0 .. (UsizeMod - 1)

(* Where a producer thread is: outside a call, asleep on the condvar,      *)
(* awake again but without the lock, in the store's commit before and      *)
(* after the ops are applied, about to give its slot back, about to        *)
(* notify_one, about to notify_all in close.                               *)
ProducerPC ==
  {"idle", "waiting", "woken", "apply", "flush", "giveback", "notify", "closing"}
ConsumerPC == {"down", "recover", "idle", "seek", "check"}
GuardPC == {"free", "held", "flush", "settle", "notify"}

InnerOK ==
  /\ tail \in 0 .. MaxSeq /\ head \in 0 .. MaxSeq
  /\ acked_above \in SUBSET Seqs /\ reserved \in SUBSET Seqs
  /\ len \in Usize /\ bytes \in Usize /\ capacity \in Usize \ {0}

ThreadsOK ==
  /\ ppc \in [Producers -> ProducerPC]
  /\ pitem \in [Producers -> Values] /\ pseq \in [Producers -> 0 .. MaxSeq]
  /\ cpc \in ConsumerPC
  /\ cursor \in 0 .. MaxSeq /\ found \in 0 .. MaxSeq /\ fitem \in Values
  /\ gpc \in [Guards -> GuardPC]
  /\ gseq \in [Guards -> 0 .. MaxSeq] /\ gitem \in [Guards -> Values]

HistoryOK ==
  /\ restarts \in Nat
  /\ pushed \in SUBSET Items /\ owner \in [Seqs -> Values]
  /\ accepted \in SUBSET Items /\ delivered \in SUBSET Items
  /\ deleted \in SUBSET Items /\ acked \in SUBSET Items

(* Every variable keeps its type: no counter leaves the usize range and no *)
(* cursor or guard names a sequence number beyond the log.                 *)
TypeOK ==
  /\ StoreTypeOK
  /\ InnerOK
  /\ closed \in BOOLEAN
  /\ ThreadsOK
  /\ HistoryOK

Up == cpc \notin {"down", "recover"}

(* usize arithmetic: `+=' and `-=' wrap in a release build.  (A debug      *)
(* build panics instead; neither happens where LenExact and BytesExact hold.) *)
Add(x, y) == IF x + y < UsizeMod THEN x + y ELSE x + y - UsizeMod
Sub(x, y) == IF x >= y THEN x - y ELSE x - y + UsizeMod
SaturatingAdd(x, y) == IF x + y < UsizeMod THEN x + y ELSE UsizeMod - 1

-----------------------------------------------------------------------------
(* Builder::open.  Nobody else has the store yet, so its steps interleave  *)
(* with crashes only.                                                      *)

Init ==
  /\ StoreInit
  /\ tail = 0 /\ head = 0 /\ acked_above = {} /\ len = 0 /\ bytes = 0
  /\ reserved = {} /\ closed = FALSE /\ capacity = 1
  /\ ppc = [p \in Producers |-> "idle"]
  /\ pitem = [p \in Producers |-> NoItem] /\ pseq = [p \in Producers |-> 0]
  /\ cpc = "down" /\ cursor = 0 /\ found = 0 /\ fitem = NoItem
  /\ gpc = [g \in Guards |-> "free"]
  /\ gseq = [g \in Guards |-> 0] /\ gitem = [g \in Guards |-> NoItem]
  /\ restarts = 0
  /\ pushed = {} /\ owner = [s \in Seqs |-> NoItem]
  /\ accepted = {} /\ delivered = {} /\ deleted = {} /\ acked = {}

(* Mutant: tail recovered as the last entry's number, without the + 1.      *)
RecoveredTailShort == IF SeekBack = {} THEN 0 ELSE CHOOSE s \in SeekBack : TRUE

(* The sequence number after the last entry, or 0 for an empty store.      *)
RecoveredTail == IF SeekBack = {} THEN 0 ELSE (CHOOSE s \in SeekBack : TRUE) + 1

(* The version check (writing the record if it is missing), the backward   *)
(* seek for tail, and the start of the forward scan.                       *)
OpenStart ==
  /\ cpc = "down"
  /\ meta \in {"none", "v1"}
  /\ meta' = "v1"
  /\ meta_disk' = IF meta = "v1" THEN meta_disk
                  ELSE IF durable THEN {"v1"} ELSE meta_disk \cup {"v1"}
  /\ capacity' \in Capacities
  /\ tail' = RecoveredTail
  /\ head' = tail'
  /\ len' = 0 /\ bytes' = 0
  /\ cursor' = 0
  /\ cpc' = "recover"
  /\ UNCHANGED <<live, disk, acked_above, reserved, closed, prodVars, found,
                 fitem, guardVars, restarts, histVars>>

(* Err(OpenError): the version is refused or a store call fails before     *)
(* anything changed; or the missing meta record was written and then its   *)
(* flush, or the backward seek after it, failed.                           *)
OpenErr ==
  /\ cpc = "down"
  /\ \/ /\ meta = "newer" \/ CanFail
        /\ UNCHANGED <<meta, meta_disk>>
     \/ /\ meta = "none" /\ CanFail
        /\ meta' = "v1"
        /\ \/ meta_disk' = meta_disk \cup {"v1"} /\ (durable => "unsynced" \in Outcomes)
           \/ meta_disk' = {"v1"} /\ durable
  /\ UNCHANGED <<live, disk, innerVars, prodVars, consVars, guardVars,
                 restarts, histVars>>

(* Mutant: recovery counts the entry but not its bytes.                    *)
RecoverEntryNoBytes ==
  /\ cpc = "recover"
  /\ \E s \in Seek(cursor) :
       /\ head' = IF len = 0 THEN s ELSE head
       /\ cursor' = s + 1
  /\ len' = Add(len, 1)
  /\ UNCHANGED <<storeVars, tail, acked_above, bytes, reserved, closed, capacity,
                 prodVars, cpc, found, fitem, guardVars, restarts, histVars>>

(* One iteration of the recovery loop, counting the entry it finds.        *)
RecoverEntry ==
  /\ cpc = "recover"
  /\ \E s \in Seek(cursor) :
       /\ head' = IF len = 0 THEN s ELSE head
       /\ len' = Add(len, 1)
       /\ bytes' = Add(bytes, Size[live[s]])
       /\ cursor' = s + 1
  /\ UNCHANGED <<storeVars, tail, acked_above, reserved, closed, capacity,
                 prodVars, cpc, found, fitem, guardVars, restarts, histVars>>

RecoverDone ==
  /\ cpc = "recover"
  /\ Seek(cursor) = {}
  /\ cpc' = "idle"
  /\ UNCHANGED <<storeVars, innerVars, prodVars, cursor, found, fitem,
                 guardVars, restarts, histVars>>

(* A seek of the recovery loop fails: open returns Err and the builder,    *)
(* with its counters, is dropped.                                          *)
RecoverErr ==
  /\ cpc = "recover"
  /\ CanFail
  /\ cpc' = "down"
  /\ UNCHANGED <<storeVars, innerVars, prodVars, cursor, found, fitem,
                 guardVars, restarts, histVars>>

(* The process dies: threads, guards and struct Inner are gone.            *)
Crash ==
  /\ cpc # "down"
  /\ restarts < MaxRestarts
  /\ restarts' = restarts + 1
  /\ PowerLoss
  /\ tail' = 0 /\ head' = 0 /\ acked_above' = {} /\ len' = 0 /\ bytes' = 0
  /\ reserved' = {} /\ closed' = FALSE /\ capacity' = 1
  /\ ppc' = [p \in Producers |-> "idle"]
  /\ pitem' = [p \in Producers |-> NoItem] /\ pseq' = [p \in Producers |-> 0]
  /\ cpc' = "down" /\ cursor' = 0 /\ found' = 0 /\ fitem' = NoItem
  /\ gpc' = [g \in Guards |-> "free"]
  /\ gseq' = [g \in Guards |-> 0] /\ gitem' = [g \in Guards |-> NoItem]
  /\ UNCHANGED histVars

-----------------------------------------------------------------------------
(* Producers.                                                              *)

(* Whether a value of v bytes may enter a queue of n items and b bytes.    *)
Admits(n, b, v) ==
  /\ n < capacity
  /\ n = 0 \/ SaturatingAdd(b, v) <= MaxBytes

Fresh(p) == {i \in Items \ pushed : Author[i] = p}

(* The critical section's success path: take a sequence number and a slot. *)
Claim(p, i) ==
  /\ tail < MaxSeq
  /\ tail' = tail + 1
  /\ len' = Add(len, 1)
  /\ bytes' = Add(bytes, Size[i])
  /\ ppc' = [ppc EXCEPT ![p] = "apply"]
  /\ pitem' = [pitem EXCEPT ![p] = i]
  /\ pseq' = [pseq EXCEPT ![p] = tail]
  /\ pushed' = pushed \cup {i}
  /\ owner' = [owner EXCEPT ![tail] = i]
  /\ UNCHANGED <<head, acked_above, reserved, closed, capacity, accepted,
                 delivered, deleted, acked>>

(* The loop body of push, with the lock held: Err(Closed), a claim, or     *)
(* sleep on the condvar.                                                   *)
PushLocked(p, i) ==
  \/ /\ closed
     /\ ppc' = [ppc EXCEPT ![p] = "idle"]
     /\ pitem' = [pitem EXCEPT ![p] = NoItem]
     /\ UNCHANGED <<innerVars, pseq, histVars>>
  \/ /\ ~closed
     /\ Admits(len, bytes, Size[i])
     /\ Claim(p, i)
  \/ /\ ~closed
     /\ ~Admits(len, bytes, Size[i])
     /\ ppc' = [ppc EXCEPT ![p] = "waiting"]
     /\ pitem' = [pitem EXCEPT ![p] = i]
     /\ UNCHANGED <<innerVars, pseq, histVars>>

Push(p) ==
  /\ Up
  /\ ppc[p] = "idle"
  /\ \E i \in Fresh(p) : PushLocked(p, i)
  /\ UNCHANGED <<storeVars, consVars, guardVars, restarts>>

(* A woken producer has the lock again and goes round the loop.            *)
PushRetry(p) ==
  /\ ppc[p] = "woken"
  /\ PushLocked(p, pitem[p])
  /\ UNCHANGED <<storeVars, consVars, guardVars, restarts>>

(* Condvar::wait may return without a notification.                        *)
SpuriousWake(p) ==
  /\ ppc[p] = "waiting"
  /\ ppc' = [ppc EXCEPT ![p] = "woken"]
  /\ UNCHANGED <<storeVars, innerVars, pitem, pseq, consVars, guardVars,
                 restarts, histVars>>

(* try_push: Err(Closed) and Err(Full) change nothing.                     *)
TryPush(p) ==
  /\ Up
  /\ ppc[p] = "idle"
  /\ ~closed
  /\ \E i \in Fresh(p) : Admits(len, bytes, Size[i]) /\ Claim(p, i)
  /\ UNCHANGED <<storeVars, consVars, guardVars, restarts>>

(* Producer::write, outside the lock: the commit of the entry's Put ...    *)
WriteApply(p) ==
  /\ ppc[p] = "apply"
  /\ Apply(pseq[p], pitem[p])
  /\ ppc' = [ppc EXCEPT ![p] = "flush"]
  /\ UNCHANGED <<meta, meta_disk, innerVars, pitem, pseq, consVars,
                 guardVars, restarts, histVars>>

(* Mutant: push returns Ok without having asked for durability.            *)
WriteOkUnsynced(p) ==
  /\ ppc[p] = "flush"
  /\ accepted' = accepted \cup {pitem[p]}
  /\ ppc' = [ppc EXCEPT ![p] = "idle"]
  /\ pitem' = [pitem EXCEPT ![p] = NoItem]
  /\ UNCHANGED <<storeVars, innerVars, pseq, consVars, guardVars, restarts,
                 pushed, owner, delivered, deleted, acked>>

(* ... returning Ok, so that push returns Ok ...                           *)
WriteOk(p) ==
  /\ ppc[p] = "flush"
  /\ Settle(pseq[p], pitem[p], durable)
  /\ accepted' = accepted \cup {pitem[p]}
  /\ ppc' = [ppc EXCEPT ![p] = "idle"]
  /\ pitem' = [pitem EXCEPT ![p] = NoItem]
  /\ UNCHANGED <<live, meta, meta_disk, innerVars, pseq, consVars, guardVars,
                 restarts, pushed, owner, delivered, deleted, acked>>

(* ... or Err, before or after the Put became visible.                     *)
WriteErr(p) ==
  /\ \/ ppc[p] = "apply" /\ "unapplied" \in Outcomes
     \/ ppc[p] = "flush" /\ durable /\ "unsynced" \in Outcomes
  /\ ppc' = [ppc EXCEPT ![p] = "giveback"]
  /\ UNCHANGED <<storeVars, innerVars, pitem, pseq, consVars, guardVars,
                 restarts, histVars>>

(* Mutant: the slot of a failed write is not given back.                   *)
GiveBackNothing(p) ==
  /\ ppc[p] = "giveback"
  /\ ppc' = [ppc EXCEPT ![p] = "notify"]
  /\ pitem' = [pitem EXCEPT ![p] = NoItem]
  /\ UNCHANGED <<storeVars, innerVars, pseq, consVars, guardVars, restarts, histVars>>

(* Mutant: the slot is given back and nobody is told.                      *)
GiveBackSilently(p) ==
  /\ ppc[p] = "giveback"
  /\ len' = Sub(len, 1)
  /\ bytes' = Sub(bytes, Size[pitem[p]])
  /\ ppc' = [ppc EXCEPT ![p] = "idle"]
  /\ pitem' = [pitem EXCEPT ![p] = NoItem]
  /\ UNCHANGED <<storeVars, tail, head, acked_above, reserved, closed,
                 capacity, pseq, consVars, guardVars, restarts, histVars>>

(* A failed write gives its slot back.                                     *)
GiveBack(p) ==
  /\ ppc[p] = "giveback"
  /\ len' = Sub(len, 1)
  /\ bytes' = Sub(bytes, Size[pitem[p]])
  /\ ppc' = [ppc EXCEPT ![p] = "notify"]
  /\ pitem' = [pitem EXCEPT ![p] = NoItem]
  /\ UNCHANGED <<storeVars, tail, head, acked_above, reserved, closed,
                 capacity, pseq, consVars, guardVars, restarts, histVars>>

Waiting(pc) == {q \in Producers : pc[q] = "waiting"}

(* Mutant: the notification is forgotten.                                  *)
NotifyNobody(pc) == {pc}

(* room.notify_one(): one sleeper, if there is one, wakes.                 *)
NotifyOne(pc) ==
  IF Waiting(pc) = {} THEN {pc}
  ELSE {[pc EXCEPT ![q] = "woken"] : q \in Waiting(pc)}

WriteNotify(p) ==
  /\ ppc[p] = "notify"
  /\ ppc' \in NotifyOne([ppc EXCEPT ![p] = "idle"])
  /\ UNCHANGED <<storeVars, innerVars, pitem, pseq, consVars, guardVars,
                 restarts, histVars>>

(* close: set the flag, unlock, then room.notify_all().                    *)
Close(p) ==
  /\ Up
  /\ ppc[p] = "idle"
  /\ closed' = TRUE
  /\ ppc' = [ppc EXCEPT ![p] = "closing"]
  /\ UNCHANGED <<storeVars, tail, head, acked_above, len, bytes, reserved,
                 capacity, pitem, pseq, consVars, guardVars, restarts, histVars>>

(* Mutant: close sets the flag and wakes nobody.                           *)
CloseNotifyNobody(p) ==
  /\ ppc[p] = "closing"
  /\ ppc' = [ppc EXCEPT ![p] = "idle"]
  /\ UNCHANGED <<storeVars, innerVars, pitem, pseq, consVars, guardVars,
                 restarts, histVars>>

CloseNotify(p) ==
  /\ ppc[p] = "closing"
  /\ ppc' = [q \in Producers |->
               IF ppc[q] = "waiting" THEN "woken"
               ELSE IF q = p THEN "idle" ELSE ppc[q]]
  /\ UNCHANGED <<storeVars, innerVars, pitem, pseq, consVars, guardVars,
                 restarts, histVars>>

-----------------------------------------------------------------------------
(* The consumer's reserve.                                                 *)

(* No guard is inside a store call or a critical section.                  *)
GuardsAtRest == \A g \in Guards : gpc[g] \in {"free", "held"}

(* Read head under the lock: the scan starts there.                        *)
ReserveStart ==
  /\ cpc = "idle"
  /\ Threaded \/ GuardsAtRest
  /\ \E g \in Guards : gpc[g] = "free"
  /\ cursor' = head
  /\ cpc' = "seek"
  /\ UNCHANGED <<storeVars, innerVars, prodVars, found, fitem, guardVars,
                 restarts, histVars>>

(* The unlocked seek finds an entry ...                                    *)
ReserveSeek ==
  /\ cpc = "seek"
  /\ \E s \in Seek(cursor) : found' = s /\ fitem' = live[s]
  /\ cpc' = "check"
  /\ UNCHANGED <<storeVars, innerVars, prodVars, cursor, guardVars, restarts,
                 histVars>>

(* ... or reserve returns Ok(None) or Err.                                 *)
ReserveNone ==
  /\ cpc = "seek"
  /\ Seek(cursor) = {} \/ CanFail
  /\ cpc' = "idle"
  /\ UNCHANGED <<storeVars, innerVars, prodVars, cursor, found, fitem,
                 guardVars, restarts, histVars>>

(* Mutant: the scan steps over the entry after a reserved one as well.     *)
ReserveSkipTwo ==
  /\ cpc = "check"
  /\ found \in reserved
  /\ cursor' = found + 2
  /\ cpc' = "seek"
  /\ UNCHANGED <<storeVars, innerVars, prodVars, found, fitem, guardVars,
                 restarts, histVars>>

(* The entry found goes out to a guard.                                    *)
HandOut ==
  /\ reserved' = reserved \cup {found}
  /\ \E g \in Guards :
       /\ gpc[g] = "free"
       /\ gpc' = [gpc EXCEPT ![g] = "held"]
       /\ gseq' = [gseq EXCEPT ![g] = found]
       /\ gitem' = [gitem EXCEPT ![g] = fitem]
  /\ delivered' = delivered \cup {fitem}
  /\ cpc' = "idle"
  /\ UNCHANGED <<storeVars, tail, acked_above, len, bytes, closed, capacity,
                 prodVars, cursor, found, fitem, restarts, pushed, owner,
                 accepted, deleted, acked>>

(* Mutant: reserve moves head up to the entry it hands out.                *)
ReserveTakeMovesHead ==
  cpc = "check" /\ found \notin reserved /\ HandOut /\ head' = found

(* Mutant: the reserved set is not consulted.                              *)
ReserveTakeUnchecked ==
  cpc = "check" /\ HandOut /\ UNCHANGED head

(* With the lock again: step over a reserved entry ...                     *)
ReserveSkip ==
  /\ cpc = "check"
  /\ found \in reserved
  /\ cursor' = found + 1
  /\ cpc' = "seek"
  /\ UNCHANGED <<storeVars, innerVars, prodVars, found, fitem, guardVars,
                 restarts, histVars>>

(* ... or reserve the entry and hand it out with the value the seek read.  *)
ReserveTake ==
  cpc = "check" /\ found \notin reserved /\ HandOut /\ UNCHANGED head

-----------------------------------------------------------------------------
(* The Reserved guard.                                                     *)

(* A method call on guard g can begin: on another thread at any time, on   *)
(* the consumer's thread only between its other calls.                     *)
CanCall(g) ==
  /\ gpc[g] = "held"
  /\ Threaded \/ (cpc = "idle" /\ GuardsAtRest)

(* Mutant: the guard goes and its reservation stays.                       *)
ReleaseNothing(g) ==
  /\ gpc' = [gpc EXCEPT ![g] = "free"]
  /\ gseq' = [gseq EXCEPT ![g] = 0]
  /\ gitem' = [gitem EXCEPT ![g] = NoItem]
  /\ UNCHANGED reserved

(* The guard is gone and its entry no longer reserved.                     *)
Release(g) ==
  /\ reserved' = reserved \ {gseq[g]}
  /\ gpc' = [gpc EXCEPT ![g] = "free"]
  /\ gseq' = [gseq EXCEPT ![g] = 0]
  /\ gitem' = [gitem EXCEPT ![g] = NoItem]

(* nack, or drop of a guard that was not consumed.                         *)
Nack(g) ==
  /\ CanCall(g)
  /\ Release(g)
  /\ UNCHANGED <<storeVars, tail, head, acked_above, len, bytes, closed,
                 capacity, prodVars, consVars, restarts, histVars>>

(* ack: the commit of the Delete ...                                       *)
AckApply(g) ==
  /\ CanCall(g)
  /\ Apply(gseq[g], NoItem)
  /\ deleted' = deleted \cup {gitem[g]}
  /\ gpc' = [gpc EXCEPT ![g] = "flush"]
  /\ UNCHANGED <<meta, meta_disk, innerVars, prodVars, consVars, gseq, gitem,
                 restarts, pushed, owner, accepted, delivered, acked>>

(* Mutant: a durable ack that does not wait for the flush.                 *)
AckOkUnsynced(g) ==
  /\ gpc[g] = "flush"
  /\ gpc' = [gpc EXCEPT ![g] = "settle"]
  /\ UNCHANGED <<storeVars, innerVars, prodVars, consVars, gseq, gitem,
                 restarts, histVars>>

(* ... returning Ok ...                                                    *)
AckOk(g) ==
  /\ gpc[g] = "flush"
  /\ Settle(gseq[g], NoItem, ack_durable)
  /\ gpc' = [gpc EXCEPT ![g] = "settle"]
  /\ UNCHANGED <<live, meta, meta_disk, innerVars, prodVars, consVars, gseq,
                 gitem, restarts, histVars>>

(* ... or Err, before or after the Delete became visible: the early return *)
(* drops the guard, which releases the entry.                              *)
AckErr(g) ==
  /\ \/ CanCall(g) /\ "unapplied" \in Outcomes
     \/ gpc[g] = "flush" /\ ack_durable /\ "unsynced" \in Outcomes
  /\ Release(g)
  /\ UNCHANGED <<storeVars, tail, head, acked_above, len, bytes, closed,
                 capacity, prodVars, consVars, restarts, histVars>>

(* Mutant: every ack moves head past the entry acked.                      *)
AdvanceHeadAlways(s) == head' = s + 1 /\ UNCHANGED acked_above

(* Mutant: head moves one step and the out-of-order acks are not folded in.*)
AdvanceHeadOne(s) ==
  /\ head' = IF s = head THEN head + 1 ELSE head
  /\ acked_above' = IF s = head THEN acked_above ELSE acked_above \cup {s}

(* head moves when the entry acked is the one at head: past it and past    *)
(* the contiguous run of entries acked out of order above it.              *)
AdvanceHead(s) ==
  \/ /\ s = head
     /\ \E n \in (head + 1) .. MaxSeq :
          /\ \A m \in (head + 1) .. (n - 1) : m \in acked_above
          /\ n \notin acked_above
          /\ head' = n
          /\ acked_above' = acked_above \ ((head + 1) .. (n - 1))
  \/ /\ s # head
     /\ acked_above' = acked_above \cup {s}
     /\ UNCHANGED head

(* The accounting under the lock.                                          *)
AckSettle(g) ==
  /\ gpc[g] = "settle"
  /\ reserved' = reserved \ {gseq[g]}
  /\ len' = Sub(len, 1)
  /\ bytes' = Sub(bytes, Size[gitem[g]])
  /\ AdvanceHead(gseq[g])
  /\ gpc' = [gpc EXCEPT ![g] = "notify"]
  /\ UNCHANGED <<storeVars, tail, closed, capacity, prodVars, consVars, gseq,
                 gitem, restarts, histVars>>

(* room.notify_one() after unlocking; ack returns Ok.                      *)
AckNotify(g) ==
  /\ gpc[g] = "notify"
  /\ ppc' \in NotifyOne(ppc)
  /\ acked' = acked \cup {gitem[g]}
  /\ gpc' = [gpc EXCEPT ![g] = "free"]
  /\ gseq' = [gseq EXCEPT ![g] = 0]
  /\ gitem' = [gitem EXCEPT ![g] = NoItem]
  /\ UNCHANGED <<storeVars, innerVars, pitem, pseq, consVars, restarts,
                 pushed, owner, accepted, delivered, deleted>>

-----------------------------------------------------------------------------

ProducerStep(p) ==
  \/ PushRetry(p) \/ WriteApply(p) \/ WriteOk(p) \/ WriteErr(p)
  \/ GiveBack(p) \/ WriteNotify(p) \/ CloseNotify(p)

GuardStep(g) == AckOk(g) \/ AckErr(g) \/ AckSettle(g) \/ AckNotify(g)

Next ==
  \/ OpenStart \/ OpenErr \/ RecoverEntry \/ RecoverDone \/ RecoverErr \/ Crash
  \/ \E p \in Producers :
       Push(p) \/ TryPush(p) \/ SpuriousWake(p) \/ Close(p) \/ ProducerStep(p)
  \/ ReserveStart \/ ReserveSeek \/ ReserveNone \/ ReserveSkip \/ ReserveTake
  \/ \E g \in Guards : Nack(g) \/ AckApply(g) \/ GuardStep(g)

Spec == Init /\ [][Next]_vars

=============================================================================
