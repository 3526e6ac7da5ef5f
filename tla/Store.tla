------------------------------- MODULE Store -------------------------------
(***************************************************************************)
(* The ordered key/value store under the queue (src/src/store.rs), seen    *)
(* through its contract: exact reads, forward and backward seeks over the  *)
(* entry keys, and one commit that is optionally durable.                  *)
(*                                                                         *)
(* The entry key of sequence number s is s itself: entry_key is            *)
(* order-preserving, so the store's byte order is the order of sequence    *)
(* numbers.  The meta record has its own pair of variables.                *)
(*                                                                         *)
(* Crash semantics: `live' is what the running process reads; `disk[s]' is *)
(* the set of values key s may hold after a crash.  A commit adds its      *)
(* value to that set when it is applied and, if it is durable, leaves no   *)
(* other value in it when it returns Ok.  Keys are independent, as the     *)
(* contract promises no ordering between commits of different keys.  An op *)
(* may be seen before it is durable, as in sled (redb and RocksDB show it  *)
(* later, which this includes); a commit that fails before its ops apply   *)
(* leaves the disk as it was.                                              *)
(***************************************************************************)
EXTENDS Integers, FiniteSets

CONSTANTS
  Items,      \* the byte strings pushed; each push brings an item of its own
  NoItem,     \* the absence of an entry
  MaxSeq,     \* bound: sequence numbers are 0 .. MaxSeq-1
  Backend     \* which implementation of the Store trait is in use

ASSUME StoreAssumption ==
  /\ NoItem \notin Items
  /\ MaxSeq \in Nat
  /\ Backend \in {"mem", "sled", "redb", "rocksdb"}

VARIABLES
  live,       \* entry value each sequence number has now, or NoItem
  disk,       \* values each sequence number may have after a crash
  meta,       \* the format version record: "none", "v1" or "newer"
  meta_disk   \* values the meta record may have after a crash

storeVars == <<live, disk, meta, meta_disk>>

Seqs == 0 .. (MaxSeq - 1)
Values == Items \cup {NoItem}
Versions == {"none", "v1", "newer"}

StoreTypeOK ==
  /\ live \in [Seqs -> Values]
  /\ disk \in [Seqs -> SUBSET Values]
  /\ meta \in Versions
  /\ meta_disk \in SUBSET Versions

(* A directory that holds no entry yet; it may have been created by this   *)
(* version, by a newer one, or not at all.                                 *)
StoreInit ==
  /\ live = [s \in Seqs |-> NoItem]
  /\ disk = [s \in Seqs |-> {NoItem}]
  /\ meta \in Versions
  /\ meta_disk = {meta}

-----------------------------------------------------------------------------
(* Reads.  An Option is a set of at most one element.                      *)

Stored == {s \in Seqs : live[s] # NoItem}

(* Mutant: the newest entry instead of the oldest.                         *)
SeekNewest(from) == {s \in Stored : s >= from /\ \A t \in Stored : t <= s}

(* Smallest entry at or after `from'.                                      *)
Seek(from) ==
  {s \in Stored : s >= from /\ \A t \in Stored : t >= from => s <= t}

(* Greatest entry at or before the largest entry key.                      *)
SeekBack == {s \in Stored : \A t \in Stored : t <= s}

(* How a backend's get, seek and seek_back can end; an Err reads nothing.  *)
MemRead == {"ok"}
SledRead == {"ok", "err"}
RedbRead == {"ok", "err"}
RocksRead == {"ok", "err"}

CanFail ==
  "err" \in CASE Backend = "mem"     -> MemRead
              [] Backend = "sled"    -> SledRead
              [] Backend = "redb"    -> RedbRead
              [] Backend = "rocksdb" -> RocksRead

-----------------------------------------------------------------------------
(* Commits.  How a backend's commit can end:                               *)
(*   "ok"         every op applied (and on disk, when durable)             *)
(*   "unapplied"  Err, and no op took effect                               *)
(*   "unsynced"   Err from the flush, after the ops became visible         *)

MemCommit == {"ok"}
SledCommit == {"ok", "unapplied", "unsynced"}
RedbCommit == {"ok", "unapplied"}
RocksCommit == {"ok", "unapplied"}

Outcomes ==
  CASE Backend = "mem"     -> MemCommit
    [] Backend = "sled"    -> SledCommit
    [] Backend = "redb"    -> RedbCommit
    [] Backend = "rocksdb" -> RocksCommit

(* The op takes effect: v becomes visible under s (a Put of an item, or a  *)
(* Delete when v = NoItem) and may from now on be what a crash leaves.     *)
Apply(s, v) ==
  /\ live' = [live EXCEPT ![s] = v]
  /\ disk' = [disk EXCEPT ![s] = @ \cup {v}]

(* The commit of v under s returns Ok: if it was durable and nobody has    *)
(* rewritten the key since, v is what a crash leaves.                      *)
Settle(s, v, durable) ==
  disk' = [disk EXCEPT ![s] = IF durable /\ live[s] = v THEN {v} ELSE @]

(* What is left after a crash: nothing in memory, elsewhere any value the  *)
(* disk may hold, key by key.                                              *)
PowerLoss ==
  \E f \in [Seqs -> Values] :
    /\ \A s \in Seqs : IF Backend = "mem" THEN f[s] = NoItem ELSE f[s] \in disk[s]
    /\ live' = f
    /\ disk' = [s \in Seqs |-> {f[s]}]
    /\ meta' \in IF Backend = "mem" THEN {"none"} ELSE meta_disk
    /\ meta_disk' = {meta'}

=============================================================================
