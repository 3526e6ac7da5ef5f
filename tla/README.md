# A TLA+ verification of persistent-queue

`persistent-queue` is a bounded, persistent, many-producer / single-consumer queue
over an ordered key/value store. This directory models its synchronous core, group
commit, the async facade and the typed layers, and checks them with TLC on small
instances. With TLAPS it proves, for every instance, nearly all the safety properties
that the runs check, and that the queue, with group commit and the typed layers too,
implements an abstract at-least-once queue. The models are translated from
`src/src/*.rs`; `PROJECT.json` maps every definition to the lines it stands for.

## 1. Inventory

### Components

| Component | Source | State | Operations | Modelled in |
|---|---|---|---|---|
| Store trait, MemStore, SledStore, RedbStore, RocksStore | `store.rs` | the key/value map, its durable image | `get`, `seek`, `seek_back`, `commit` | `Store` |
| Builder and recovery | `queue.rs` 146-275 | a scan: cursor, `tail`, `head`, `len`, `bytes` | `open` | `Queue` |
| Producer | `queue.rs` 277-373 | `Inner` (shared), the condition variable `room` | `push`, `try_push`, `close`, `len`, `write` | `Queue` (policies Sync, None), `GroupQueue` (Group) |
| Consumer and Reserved | `queue.rs` 375-488 | `Inner` (shared), the guard's `seq`, `value`, `done` | `reserve`, `ack`, `nack`, `drop` | `Queue` |
| Group commit | `queue.rs` 76-81, 91-140 | `pending`, `flushing`, `done` | `group_commit` | `GroupQueue` |
| Async facade | `async_queue.rs` | two tokio `Notify`s | `push`, `try_push`, `close`, `reserve`, `ack`, `nack`, `drop` | `AsyncQueue` |
| Typed queue, codecs | `typed.rs`, `codec.rs` | none of their own | encode on push, decode on reserve | `TypedQueue` |
| Archived queue | `archived.rs` | none of its own | rkyv access in place of decode | `TypedQueue` |
| Key layout | `queue.rs` 10-17, 490-505 | none | `entry_key`, `seq_of`, `is_entry` | `Keys`, abstracted in `Store` |
| Error types, concurrency shim | `error.rs`, `sync.rs` | none | none | not modelled |

### How the parts interact

All handles share one `Shared`: the store, the limits, and `Mutex<Inner>` with
`tail` (next sequence number), `head` (where `reserve` starts), `acked_above` (acks
above `head`), `len`, `bytes`, `reserved` and `closed`. No thread holds the mutex
during store I/O, and `room` is notified after unlocking. So each call is a sequence
of steps that interleave with the steps of other threads:

* **push**: lock, check `closed` and the limits, claim `tail` and a slot, unlock;
  commit the entry; on failure lock again, give the slot back, unlock, `notify_one`.
  A full queue puts the thread to sleep on `room`.
* **reserve**: lock, read `head`, unlock; then `seek` (no lock), lock, check
  `reserved`, and either step over the entry or insert it and return a guard.
* **ack**: commit the delete (no lock); lock, update `reserved`, `len`, `bytes`,
  `head`, `acked_above`, unlock; `notify_one`. If the commit fails, `?` returns and
  the guard's `Drop` releases the entry.
* **close**: lock, set the flag, unlock; `notify_all`.
* **open**: version record, backward seek for `tail`, forward scan for the rest.
* **group commit** takes the place of push's commit: under a second mutex an entry is
  queued, and the first caller commits whatever is queued, batch after batch, while the
  others sleep until their number has an outcome. After a failed batch each commits its
  own entry alone.
* **async calls** run these on blocking threads. A task registers with a `Notify`,
  attempts, and awaits the `Notify` if it must; `room` is signalled after an ack,
  `items` after a push, ack, nack or drop, both by `close`.
* **typed calls** encode before push and decode after reserve; a decode error drops the
  guard that the core has just given out.

### What is hard

1. *Commit order.* A sequence number is claimed under the lock and stored later, so
   entries appear out of order and `head` must never pass one that is still to come.
2. *Stale reads.* `reserve` uses, under the lock, what an unlocked `seek` read.
3. *Failing commits.* sled may fail in the flush after its batch became visible.
4. *Crashes* at any step, under durable and non-durable pushes and acks.
5. *Wake-ups* outside the lock, to one sleeper, which may be the wrong one.
6. *Unchecked counters* (`len -= 1`) that wrap in a release build.
7. *Two layers of waiting.* The facade's signals are sent after the core's calls return,
   and only by the calls that succeed; a caller may also drop a future half-way.
8. *Shared fate in a batch*, and a retry that may repeat what was already done.

`PROJECT.json` lists these as hazards with their lines and properties.

### What makes each component correct

* Store: reads see the latest applied commit; a durable commit that returned Ok
  survives a crash. (Taken as the contract, section 2.)
* Recovery: what was accepted and not acked is there again, counted once, and the
  next sequence number is free.
* Producer: an accepted item is stored until acked; the counters are exact; nobody
  sleeps beside free room, or after close.
* Consumer: `head` passes nothing undelivered; reservations are exact; an acked item
  never comes back; items of a producer come in order.
* Group commit: as push; each caller gets the outcome of its own entry, nobody is
  forgotten.
* Async facade: no task waits beside what it waits for; `reserve` returns `None` only
  once closed and drained.
* Typed layers: an item that does not decode is neither lost nor stepped over.
* The whole: the README's guarantees, stated in `AtLeastOnce`.

## 2. The modules

| Module | Content |
|---|---|
| `Store` | the store's contract, its backends' commit outcomes, and what a crash leaves |
| `Queue` | `open`, the producers, `reserve` and the guards: one action per critical section, store call or notification |
| `QueueProperties` | the properties, the fairness, and the inductive strengthenings |
| `AtLeastOnce` | the abstract queue: accepted items, loans, removals, crashes; no numbers, cursors or locks |
| `GroupQueue` | `Queue` with `group_commit` in place of the single commit |
| `AsyncQueue` | `Queue` called from tasks that wait on tokio's `Notify` |
| `TypedQueue` | `Queue` under the typed and archived layers |
| `Keys` | the byte strings that stand for sequence numbers |
| `QueueProofs` | proofs about `Queue`: types, `head`, no loss, reservations, no stall |
| `IdentityProofs` | an item keeps its number; acked items stay gone; `Queue` implements `AtLeastOnce` |
| `CountProofs` | `len` and `bytes` are exact; no wake-up is lost |
| `OrderProofs` | `head` at rest; a producer's items in order |
| `KeyProofs` | the byte order of the keys is the order of the numbers |
| `GroupProofs`, `AsyncProofs`, `TypedProofs` | proofs about the three layers |
| `MCQueue`, `MCCore`, `MCGroup`, `MCAsync`, `MCTyped` | instances for TLC, one `.cfg` per run |

`GroupQueue`, `AsyncQueue` and `TypedQueue` extend `QueueProperties` and use the
actions of `Queue` as they stand, so the core is modelled once. A definition whose
comment begins with "Mutant" is a plausible mistake, used to see that a property would
notice it.

### Store

`live[s]` is the entry under sequence number `s` as the running process reads it, and
`disk[s]` the set of values that key may have after a crash. `Apply` makes an
operation visible and adds its value to `disk[s]`; `Settle` is the Ok return of the
commit, after which a durable operation is the only possibility. `PowerLoss` picks a
survivor for each key independently, since the trait promises no order between
commits. `MemStore` survives no crash. `CanFail` says whether a backend's reads may fail,
`Outcomes` how its commit may end;
`"unsynced"` is sled's `apply_batch(..)?` followed by a failing `flush()?`.

Abstractions and assumptions about what lies below the trait:

* the key of `s` is `s`. `Keys` models `entry_key`, `seq_of`, `is_entry` and the byte
  order, and `KeysInOrder` says that seeks over the byte strings, meta record
  included, find the entries that `Seek` and `SeekBack` find by number. It is a
  theorem (`KeysFollowNumbers`), so this is no assumption any more;
* a commit of one operation is seen before it is durable, as in sled; redb and
  RocksDB show it only when it is done, which is among the behaviours modelled;
* a commit that fails before it applies leaves the disk as it was;
* reads of sled, redb and RocksDB may fail, those of `MemStore` may not.

### Queue

| Code | Model |
|---|---|
| `Builder::open` | `OpenStart`, `OpenErr`, `RecoverEntry`, `RecoverDone`, `RecoverErr` |
| `push` | `Push`, then `PushRetry` after each wake-up; `PushLocked` is the locked loop body, `Claim` its success path |
| `try_push` | `TryPush` (its two refusals change nothing) |
| `write` | `WriteApply`, `WriteOk`, `WriteErr`, `GiveBack`, `WriteNotify` |
| `close` | `Close`, `CloseNotify` |
| `reserve` | `ReserveStart`, `ReserveSeek`, `ReserveNone`, `ReserveSkip`, `ReserveTake` |
| `ack` | `AckApply`, `AckOk`, `AckErr`, `AckSettle`, `AckNotify`; `AdvanceHead` is the update of `head` and `acked_above` |
| `nack`, `drop` | `Nack` |
| `Condvar` | `NotifyOne`, `SpuriousWake` |
| the process dies | `Crash` |

`ppc`, `cpc` and `gpc` say where each producer thread, the consumer's thread and each
guard are; `pitem`/`pseq`, `cursor`/`found`/`fitem` and `gseq`/`gitem` are their local
variables. `pushed`, `owner`, `accepted`, `delivered`, `deleted` and `acked` are
history, read only by properties, except that an item is pushed at most once. `usize` keeps its width: `Add` and
`Sub` wrap modulo `UsizeMod`. `tail` is a `u64` and is bounded by `MaxSeq`.

`Threaded` tells two uses of the API apart. `Reserved` owns an `Arc` of the shared
state, so a guard may be moved to another thread and acked there while the consumer
is in `reserve` (`Threaded = TRUE`), as the async facade does through
`spawn_blocking`. With `Threaded = FALSE` one thread makes all the consumer's calls.
One `reserve` runs at a time in both. Dropping every handle and opening again in the
same process is the case of `Crash` in which every applied value survives.

### GroupQueue

`pending`, `flushing` and `done` are `GroupState`; `batch` is the leader's local batch
and `wpc` says where each producer is. `GroupEnter` queues an entry and waits, or leads;
`BatchApply`, `BatchOk` and `BatchErr` are the batch's commit, and with the lock again
(`Record`) the leader writes the outcomes, notifies and takes the next batch or leaves.
`Follow` collects an outcome, `Alone` is the retry, by `Queue`'s own write steps. An
entry of a batch is named by its producer, which has one push at a time. The `ppc` of a
producer is `"apply"` while its entry is still to be stored and `"flush"` once it is
visible, so `Queue`'s properties read as before. Group is durable like Sync, and the
instances set `Durability` so.

### AsyncQueue

A `Notify` is a permit, a line of waiting tasks and a token per task: registered,
chosen by `notify_one`, or complete. A future that is dropped after `notify_one` chose
it passes the notification on, as tokio documents. `apc` and `rpc` say where the push
tasks and the reserving task are; `owed` counts the signals that an ack, nack or drop
has still to send after the core's call returned. A step is a step of `Queue` or what a
task does between two awaits. `AbandonPush` is the caller dropping a push future: the
blocking call runs on, and its result reaches nobody. An ack's future may be dropped
too: `AsyncAck` then ends without signals, and when the caller went makes no other
difference. `AbandonReserve` drops a waiting reserve. `nack` and `drop` run on any task at any time; acks do not overlap a running
scan (`Threaded = FALSE`), because of `v_ghost` below. `roomMissed` and `itemsMissed`
record, until the next attempt or scan, that a failed or abandoned call left something
unsignalled: a slot or an entry given back, an entry stored, or one removed. The facade has no state on disk, so `AsyncQueue` has no crash.

### TypedQueue

Every open chooses a layer: typed with Bincode or with Rkyv, or archived. `written` is
the codec that encoded each item. Bytes of the same codec decode; those of another may
decode to something or be refused (`DecodeBincode`, `DecodeRkyv`). `decoding` holds the
guard that the core's reserve has returned and the typed reserve has not. A value that
cannot be encoded is not pushed at all.

### AtLeastOnce

Items enter (those of one commit together), are accepted when their push returns, are
lent to one holder at a time, given up, removed by their holder, and acknowledged when
the ack returns. A crash takes back every loan; it keeps what was accepted if pushes
are durable and brings back nothing acknowledged if acks are. `Implements` is this
specification under the mapping: the queue is the set of items stored, the loans are
the guards', an item is removed while its delete is in force.

## 3. Runs

Sizes are TLC's distinct states.

| Run | Instance | Shows |
|---|---|---|
| `crash` (0.85 M) | 2 producers, 3 items, redb, 1 crash, capacity 1 or 2, 3 bytes; keys of 2 two-valued bytes | `TypeOK`, `LenExact`, `BytesExact`, `AckedStaysGone`, `NoStall`, `HeadTight`, `ReservedExact`, `KeysInOrder`, `LogGrows`, `Implements` |
| `typed` (1.5 M) | one producer with 2 items, another whose item does not encode, one guard, sled, 2 crashes, any layer at each open | `ProducerFIFO`, `TypedInOrder`, `NoLoss` |
| `backpressure` (0.17 M) | `ThreadSpec`, 2 producers with 2 items each, one guard, redb, capacity 2, 2 bytes | `CloseReleases`, `EventuallyAdmitted` |
| `progress` (65 k) | `FairSpec`, 2 producers, 2 items, 2 guards, redb, 1 crash, capacity 2 | `EventuallyConsumed` |
| `group` (1.3 M) | 3 producers, 3 items, redb, capacity 1, 2 or 3, lazy acks, 1 crash | `HeadSafe`, `FollowersServed`, `LenExact`, `NoLostWakeup`, `Implements` |
| `async` (2.6 M) | 2 push tasks, 2 items, 2 guards, redb, capacity 1 | `RoomSignalled`, `ItemsSignalled`, `DrainedForGood` |
| `async_room` (3.5 M) | 2 push tasks, 3 items, 1 guard, MemStore, capacity 1 | `RoomSignalled` |

**Bounds.** Every item is pushed once, so `MaxSeq` = number of items loses nothing
until numbers are reused after a restart, which can only lower them. Three items are
the fewest with an entry below, at and above the one acked, so that `acked_above`
holds a run to fold in; two from one producer and one from another make order within
and across producers visible. Two guards give out-of-order acks and a scan with an
entry to step over. One crash covers recovery from every reachable state, and the
state it leaves is again an initial one up to the entries present; `typed` has two, so
that an item can be read by the codec that wrote it after another one has refused it.
`capacity` changes between opens, which lets recovery find more entries than fit.

The byte bound must refuse a push that the count would admit. In `crash` the items have
1, 2 and 2 bytes against 3: with one of the large ones queued the other is refused
although a slot is free, and it sleeps. In `backpressure` they have 1, 3, 1 and 1 bytes
against 2: the large one is above `max_bytes` by itself and enters an empty queue only.
Two producers sleep at once there, so `notify_one` has a choice, and it may choose the
one that does not fit, who looks and sleeps again while the other would have fitted; and
when the large one is acked, there is room for both and a wake-up for one.
Each producer has two items, so that one that was just admitted comes back and competes
with a sleeper. The other passing runs are about something else: the byte bound never
refuses in them.

`UsizeMod = 16` is above every sum that should occur and makes an underflow visible.
Three producers are the fewest with a leader and a batch of two behind it, which needs
three slots, and the fewest of which two sleep while the third, who has the one slot,
may fail. `group` therefore opens with capacity 1, 2 or 3. In `async`
two guards let a nack fall between a scan's step over the item and its end; two tasks
waiting at once, which need a third item in the queue, are in `async_room`, over
MemStore to stay within minutes. `MaxOwed` bounds the nacks whose signal is
outstanding, `MaxLeft` the abandoned pushes still running, and close is called once:
further calls would only repeat signals. Bytes with two values and numbers of two
bytes have a carry, which is where an encoding can go wrong.

**What the instances leave out.** No passing run has `Threaded = TRUE`: with guards on
other threads `LenExact` is false (`v_ghost`), and what does hold there, that `head`
never skips an unacked entry, that an accepted item is kept, that reservations are
exact and that `head` at rest wastes nothing, rests on the theorems `HeadNeverSkips`,
`AcceptedIsKept`, `ReservationsExact` and `HeadWastesNothing` alone. So what `v_ghost`
and `v_fifo` find is found by these two runs only: with one thread nobody acks during a
scan, and with one guard there is nothing to step over. `durable_acks(false)` is in
`group` only, where `Implements` lets a crash bring acked items back and `LenExact`
says that they are counted again. No passing run has a store that may fail with the
entry applied and checks `len`: over sled it drifts (section 4). `HeadTight` speaks of
the time before the first restart: recovery may leave a gap that nobody will ack
(section 4).

**Symmetry.** Guards are interchangeable and no property names one (`GuardSymmetry`).
In `group` each producer has one item, all of one length, so that a permutation of the
producers together with their items maps behaviours to behaviours (`PairSymmetry`); in
`async_room` the two items of one producer have the same length and may be swapped
(`ItemSymmetry`). No run with liveness properties uses symmetry; `LogGrows` and
`Implements` in `crash` and `group` are safety properties, which symmetry preserves.

**Deadlock** is checked in every run: the application can always reserve again, open
again, or close.

**Fairness.** `FairSpec` has weak fairness for every thread inside a call: a started
thread runs on, mutexes are released after a few instructions, and `ProducerStep`
leaves out `SpuriousWake`. `ReserveStart` is weakly fair because the application's
consumer loop calls `reserve` while it can hold another guard, and `OpenStart` because
it opens a queue that is down. Strong fairness for `RecoverDone`, for the recovery scan
and for `ReserveSeek`, the latter two at each place of the cursor: these read the store,
may fail and be called again, and a store asked for the same place again and again
answers at some point. Fairness of the scan as a whole would not do, for a scan that
always fails at the second entry succeeds at the first one infinitely often. Strong
fairness of `AckApply` per item: an application handed the same item again and again
(after nacks, failed acks and restarts) acks it at some point. Nothing obliges anybody
to push, close, nack, fail or crash.

`ThreadSpec` has the fairness of the producers' threads alone. `CloseReleases` is
checked under it: with a consumer that keeps acking, a sleeper would sooner or later be
woken by an ack and find the queue closed, whether or not `close` notifies.
`EventuallyAdmitted` adds its own premise, `ConsumerAcks`, and asks less of the
application than `FairSpec`: it keeps reserving and acks something now and then,
whichever item that is. The item that a sleeper waits for may thus be nacked for ever
while others are acked.

## 4. Where code and documentation disagree

Each is a run in which TLC finds a counterexample.

* `v_ghost` - `LenIsUnacked`, guards on other threads. `reserve` seeks entry `s`; an
  ack on another thread deletes `s` and removes it from `reserved`; `reserve` then
  locks, finds `s` not reserved and hands it out again. A second ack decrements `len`
  and `bytes` once too often; from zero they wrap, and the queue is full for good.
  With `Threaded = FALSE` it cannot happen, which `crash` checks (`LenExact`,
  `AckedStaysGone`).
* `v_seq_reuse` - `SeqIdentifies`. `tail` is derived from the keys found by `open`, so
  a number whose item was consumed before the restart is given to another item,
  although `seq()` is offered as an id to deduplicate on. The same goes for the number
  of a failed push, which `DESIGN.md` says is never reused.
* `v_fifo` - `ProducerFIFO`, two guards. While entry 1 is on loan, a scan that has
  stepped over it misses entry 0, committed meanwhile, and hands out entry 2 of the
  same producer before it. One guard at a time is in order (`typed`).
* `v_group` - `HeadSafe`, group commit over sled. The batch is applied and its flush
  fails, so the leader records a failure; meanwhile the consumer has been handed an
  item of the batch and acked it, and `head` has moved. The producer's lone retry then
  stores the item again, below `head`, where `reserve` never looks: it stays in the
  store, outside `len`, until the next open delivers it once more. Over redb, whose
  failed commit leaves nothing, `group` checks that it cannot happen.
* `v_async` - `RoomFires`, async over a store that can fail. A push claims the last
  slot, another finds the queue full and waits on `room`, the first one's commit fails.
  Its slot is given back and announced on the core's condition variable, on which no
  task waits. `room` is fired by acks only, so with an otherwise empty queue the second
  push waits for good.

Further observations, without a run of their own (the first contradicts the comment at
`queue.rs` 341, the second `DESIGN.md` 142):

* sled may fail in the flush of a single push as well: `push` returns Err and gives
  the slot back although the entry is stored and will be delivered, and the later ack
  decrements `len` for it a second time. The same failure in `ack` keeps a slot for
  good.
* `head` is not always the oldest unacked number, as `DESIGN.md` has it. It rests on a
  number that nobody will ack: that of a failed push, or, after a reopen, one missing
  between two stored entries (its push failed or its item was acked out of order before
  the restart). It stays there until an open that finds no entry below the gap, since
  recovery starts `head` at the lowest entry it finds; until then every later ack adds
  a number to `acked_above`. `HeadTight` is what holds before the first restart.
* `reserve` of the facade can wait for good in more cases, which `ItemsSignalled`
  excepts (`itemsMissed`): the last push fails after `close` has sent its signals, or an ack fails and
  returns its item while `reserve` waits. An abandoned push may also store its item
  without a signal, and so does a push that sled's flush fails; an abandoned ack
  frees a slot, and may drain a closed queue, without one.
* An item that the codec refuses is handed to the typed `reserve` first, every time:
  `TypedInOrder` means that it blocks its producer's later items until it is read with
  the codec that wrote it.

One limit the documentation does not speak of: `NoLostWakeup` holds under the item
count alone, as in `group`. With `max_bytes` the one notification may go to a producer
that still does not fit, or the ack of a large item may make room for two, and one that
fits sleeps on until the next ack. That is a delay and not a deadlock: `NoStall` is a
theorem with both limits, which `crash` checks with both refusing, and `backpressure`,
where both cases occur, shows that every sleeper is woken and finds room or the queue
closed in the end.

## 5. Proofs

Everything here holds for any sets of producers, guards and items, any sizes and
limits, any backend and policy, either `Threaded` and any number of crashes, except for
the conditions in the third column.

| Module | Theorem | Under | Property |
|---|---|---|---|
| `QueueProofs` | `TypeCorrect` | | `TypeOK`; `head`, `tail` and every cursor stay within the log and the counters within `usize` |
| | `HeadNeverSkips` | | `HeadSafe`: nothing stored or still to be stored is below `head` |
| | `AcceptedIsKept` | | `NoLoss`: an accepted item is stored, durably if the policy is, until an ack deletes it |
| | `ReservationsExact` | | `ReservedExact` |
| | `NobodyStalls` | | `NoStall` |
| | `LogOnlyGrows` | | `LogGrows` |
| `IdentityProofs` | `AckedIsForever` | one thread | `AckedStaysGone` |
| | `QueueImplements` | one thread | `Implements` |
| `CountProofs` | `LenCounts` | one thread, clean failures | `LenExact` |
| | `LenIsUnackedCount` | one thread, clean failures | `LenIsUnacked` |
| | `BytesCount` | one thread, clean failures | `BytesExact` |
| | `NoWakeupIsLost` | no byte bound | `NoLostWakeup` |
| `OrderProofs` | `HeadWastesNothing` | clean failures | `HeadTight` |
| | `OneGuardInOrder` | one guard | `ProducerFIFO` |
| `KeyProofs` | `KeysFollowNumbers` | | `KeysInOrder`, in every state |
| `TypedProofs` | `TypedIsQueue` | | every behaviour of the typed layers is one of `Queue` |
| | `TypedKeepsItems` | | `NoLoss` under the typed layers |
| | `TypedOrder` | one guard | `TypedInOrder` |
| | `TypedImplements` | one thread | `Implements` under the typed layers |
| `GroupProofs` | `NoFollowerForgotten` | | `FollowersServed` |
| | `GroupHeadNeverSkips` | clean failures | `HeadSafe` with group commit |
| | `GroupKeepsItems` | clean failures | `NoLoss` with group commit |
| | `GroupImplements` | one thread, clean failures | `Implements` with group commit |
| | `GroupCountsExact` | one thread, clean failures | `LenExact`, `BytesExact` with group commit |
| | `GroupLosesNoWakeup` | clean failures, no byte bound | `NoLostWakeup` with group commit |
| `AsyncProofs` | `EndIsForGood` | one thread, clean failures | `DrainedForGood` |
| | `AsyncKeepsCore` | one thread, clean failures | `LenExact`, `BytesExact`, `ReservedExact`, `AckedStaysGone` under the facade |
| | `ReserveIsSignalled` | | `ItemsSignalled` |
| | `PushIsSignalled` | no byte bound | `RoomSignalled` |

### The conditions

Each condition is one the code needs, and a counterexample shows what happens without it:

* **one thread** (`~Threaded`): guards are acked by the thread that reserves. Otherwise
  `reserve` can hand out a deleted entry, which then counts twice (`v_ghost`). In
  `AsyncProofs` it means that no ack overlaps a scan; nacks and drops may. The
  two theorems about signals do without it: acks may come from any thread there.
* **clean failures** (`CleanFailures`): a commit that fails leaves nothing visible,
  as with MemStore, redb and RocksDB, and with sled when pushes are not durable.
  sled's failing flush makes `len` drift (section 4) and, with group commit, stores an
  item below `head` (`v_group`).
* **one guard** (`OneGuard`): the application reserves one item at a time. With two,
  items of a producer can come out of order (`v_fifo`).
* **no byte bound** (`MaxBytes = UsizeMod - 1`, the builder's default): with one, the
  wake-up may go to a producer that does not fit (section 4). The number of producers
  and guards is finite here, for they are counted.

Assumptions on the constants: `StoreAssumption`, `QueueAssumption` and, for the keys,
`KeysAssumption` (a byte has at least two values, a number at least one byte) and
`SeqsFit` (the numbers fit their bytes, as a `u64` does). The first two say what
the builder asserts (`capacity`, `max_bytes` > 0), fix the types, and that fewer than
2^w entries are ever claimed, without which `len = 0` in the recovery scan would not
mean "first entry". The assumption about the store that matters for `NoLoss` is
`Settle`, the promise of `commit(.., true)`.

### The argument

It goes in layers, each using the ones before.

1. `TypeInv` = `TypeOK` and `InCall`: a thread inside a call has a real item and
   number. Needed because idle threads carry placeholders.
2. `SafeInv` = `DownInv`, `LogInv`, `RecoverInv`. `HeadSafe` alone is not inductive:
   folding `acked_above` into `head` needs that every number in it is *dead* (claimed,
   its commit over, its entry gone) and that an acked number is dead from the delete to
   the accounting. `LogInv` says this for `head`, `acked_above`, the guards and the
   scan; it also says that numbers still to be stored are below `tail`, distinct and
   free. `RecoverInv` is the invariant of the recovery loop; after the loop it gives
   `LogInv` for the new `head`, with `SeekNothing` and `TailAboveStored`, which rest on
   the well-foundedness of the naturals.
3. `ValueInv`: what a guard, the scan or a finished write holds is what the store has,
   unless it was deleted. With it `NoLoss` is inductive: the entry a durable write
   settles, and the one an ack deletes, are the ones they mean.
4. `ReservedExact` is inductive over `TypeInv`; `NoStall` needs `LogInv` and the
   effect of `notify_one` (`NotifyOneEffect`); `LogGrows` follows step by step from
   `SafeInv`.
5. `IdentityInv` = `ItemInv`, `DiskInv`, `HistoryInv`. The abstract queue has items and
   no numbers, so an item must be traced through a number that a restart may hand out
   again. `ItemInv`: the latest owner of a number is the item that a push, a guard or
   the scan names by it, and no item has two numbers. `DiskInv`: a crash leaves under a
   number its owner or nothing, and nothing at or above `tail`. `HistoryInv`: only a
   crash brings a deleted item back, and then for certain; an item acked durably is in
   no possible survivor. Layers 1 to 5 together are `CoreInv`.
6. `SoloInv`: with one thread no ack runs during a scan, so what the scan found and
   what a held guard names is still stored. `AckedStaysGone` follows from it and
   `HistoryInv`, and so does the refinement: `CoreInv` and `SoloInv` make each action a
   step of `AtLeastOnce` or none (`WriteApply` enters, `WriteOk` accepts, `HandOut`
   lends, `AckApply` removes, `AckOk` acknowledges, a crash takes back every loan).
7. `FailedInv` (nobody sees the entry of a failed push, given clean failures) and
   `ScanExact` (the recovery scan has counted what is below its cursor) make `LenExact`
   inductive: an action adds one number to `Counted`, takes one out, or leaves it, and
   `CountIn` and `CountOut` say what this does to the wrapping counter. `BytesExact`
   is a sum and not a cardinality. `Total(b, S, own)` says that `b` is the end of some
   list of partial sums over the numbers; `TotalIn` and `TotalOut` shift the list from
   the number that comes or goes, and `Tally` classifies the steps. `OpenBytes` and
   `ScanBytes` are the invariants while the queue is up and while it is being
   recovered. `BytesBelowSums` unfolds the recursive function that states the property.
8. `WakeInv`: while somebody sleeps, every free slot has a wake-up of its own, a woken
   producer or one still to be sent. `NoLostWakeup` alone is not inductive: it would
   not survive the wake-up being used by another producer than the one it was for.
9. `TightInv`: an acked number at or above `head` is in `acked_above` or about to be,
   and `head` is not in it. `AuthorInv` and `OrderInv`: a producer has no entry above
   the one it is about to store, and with one guard the scan steps over nothing, so
   what it finds is its producer's oldest entry.
10. Typed layers: each step is a step of `Queue` or none, so every theorem carries
    over; `DecodingInv` says that a guard still being decoded is held.
11. Group commit has actions that `Queue` has not. `ServeInv` = `GroupOK`, `ClaimInv`,
    `WriterInv`, `FollowersServed`: each caller is queued, in the batch or has an
    outcome, never two of these, and the entries of a batch are visible together.
    `FollowersServed` alone forgets where a woken caller's entry is. Every step is then
    a step of `Queue`, a whole batch entering (`Entering`) or a push that finishes
    (`Finishing`); `CoreInv` is shown to survive the two new kinds. `SettledInv` says
    that a recorded outcome is true, which a clean failure guarantees. The counters: a
    claimed slot stands for its number whether the entry waits, is in a batch or is
    stored, so a batch entering and a push finishing leave `Counted` as it is
    (`SameCountedKeeps`), and as they free no slot and wake nobody, so does `WakeInv`
    (`CommitKeepsWakes`); the other steps are those of `CountProofs`.
12. The facade's `nack` and `drop` run beside a scan, which one-thread steps of `Queue`
    do not; every other step of a task is a step of `Queue` or none. `TaskInv` ties a
    task to the core call that its blocking thread makes. `EndInv`: a drained queue
    stays closed and empty, because a push claims its slot before it stores.
13. Signals. `SignalsOK` says what a `Notify` is at any time: exactly the waiting tasks
    are in line, once each, and a permit is stored only while nobody is. So
    `notify_one` reaches a sleeper if there is one. `ItemsSignalled` speaks of the
    moment at which `reserve` waits, when the scan that found nothing is over;
    `ScanInv` carries it through the scan. While no signal is on its way and nothing
    was missed (`Unheard`), every entry that the cursor has passed, or that lies below
    what an unlocked seek has found, is reserved. An entry that appears behind the
    cursor has a signal ahead of it, and `HeadSafe` covers what is below where the scan
    began.
14. `RoomSignalled` is not inductive: it says that some signal is on its way, and one
    signal is used up by one task. `RoomInv` counts: while somebody sleeps, the slots
    taken and the signals that stand for a free one (`Cover`: acks about to signal,
    tasks that hold a notification, tasks about to try) are together at least
    `capacity`. An ack turns a taken slot into a signal, a `notify_one` a signal into a
    notified task, that task an attempt, and an attempt a taken slot or a full queue;
    a dropped future passes its share on. A barging push claims a slot and adds to
    the left side. After `close` nobody stays asleep once it has woken the waiters
    (`CloseWakes`).
15. Keys. `Shifted` takes the bytes off a number, `Spelled` puts them together, both as
    recursive functions over the places. `Recursion` shows that such functions exist
    and `Induct` is induction up to a bound, stated with a set so that the provers can
    apply it. The first byte in which two keys differ decides; up to it the numbers
    spelled are equal, and `ShiftedMonotone` orders them there.

### What is only model-checked

* The liveness properties `EventuallyConsumed`, `EventuallyAdmitted`, `CloseReleases`:
  out of the prover's reach.
* The properties of the runs that expect a violation, which are false there.
  (`LenIsUnacked`, `ProducerFIFO` and `HeadSafe` are proved under the conditions that
  those runs drop.)

## 6. Not modelled

* Dropping the future of an asynchronous `reserve` while its scan runs: it makes two
  scans run at once, which `Queue` does not have.
* Two concurrent `reserve` calls: the documentation has one consumer.
* Asynchronous acks that overlap a scan: `v_ghost` shows what then happens to the
  counters.
* Liveness of group commit and of the facade. `FollowersServed`, `RoomSignalled` and
  `ItemsSignalled` state what waiting must not miss, and are theorems; that a group-commit leader gets
  away from a stream of followers is not promised by the code.
* What the codecs' bytes are, rkyv's alignment and unchecked access.
* Opening the backends' files, `Error`'s `Display`, the std/loom shim: no queue state.
* Mutex poisoning, and the panic with which a debug build answers an overflow that a
  release build wraps.

## 7. What could come next

Every invariant and action property that a passing run checks is also a theorem. What
is left needs more of the program in the model: a `reserve` dropped in mid-scan, for
which `Queue` would need two scans at once. A liveness proof of the facade would start from `RoomInv` and `ScanInv`, outside TLAPS.

## 8. Running

    tlc -config MCCore_crash.cfg MCCore          # and so on, one per run:
    tlc -config MCGroup_group.cfg MCGroup        # the cfg is named module_run
    tlapm QueueProofs.tla                        # and each of the other *Proofs
