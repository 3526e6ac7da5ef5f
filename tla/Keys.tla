-------------------------------- MODULE Keys --------------------------------
(***************************************************************************)
(* The keys under which the queue stores its records (src/src/queue.rs):   *)
(* byte strings that the store orders byte by byte.  Store identifies an   *)
(* entry with its sequence number; this module justifies that.             *)
(***************************************************************************)
EXTENDS Store, Sequences

CONSTANTS
  Base,    \* values of a byte (256 in the code)
  Width    \* bytes of a sequence number (8 in the code)

ASSUME KeysAssumption == Base \in Nat \ {0, 1} /\ Width \in Nat \ {0}

META_KEY == <<0>>
ENTRY_PREFIX == 1
ENTRY_HIGH == <<ENTRY_PREFIX>> \o [k \in 1 .. Width |-> Base - 1]

(* What is left of each number when its last j bytes are taken away.       *)
Shifted[j \in 0 .. Width] ==
  [s \in 0 .. MaxSeq |-> IF j = 0 THEN s ELSE Shifted[j - 1][s] \div Base]

(* Mutant: the least significant byte comes first.                         *)
LittleEndian(s) == <<ENTRY_PREFIX>> \o [k \in 1 .. Width |-> Shifted[k - 1][s] % Base]

(* The prefix, then the number with its most significant byte first.       *)
entry_key(s) == <<ENTRY_PREFIX>> \o [k \in 1 .. Width |-> Shifted[Width - k][s] % Base]

(* The number that the first k bytes after the prefix spell.               *)
EntryBytes == [1 .. (Width + 1) -> 0 .. (Base - 1)]
Spelled[k \in 0 .. Width] ==
  [key \in EntryBytes |-> IF k = 0 THEN 0 ELSE Spelled[k - 1][key] * Base + key[k + 1]]

seq_of(key) == Spelled[Width][key]

is_entry(key) == Len(key) = Width + 1 /\ key[1] = ENTRY_PREFIX

(* A sequence number is a u64: it fits its bytes.                          *)
ASSUME SeqsFit == MaxSeq <= seq_of(ENTRY_HIGH)

(* The byte order of the backends.                                         *)
Leq(a, b) ==
  \/ Len(a) <= Len(b) /\ \A k \in DOMAIN a : a[k] = b[k]
  \/ \E k \in DOMAIN a \cap DOMAIN b : a[k] < b[k] /\ \A j \in 1 .. (k - 1) : a[j] = b[j]

(* Store::seek and seek_back over a set of keys.                           *)
KeySeek(keys, from) ==
  {a \in keys : Leq(from, a) /\ \A b \in keys : Leq(from, b) => Leq(a, b)}
KeySeekBack(keys, upto) ==
  {a \in keys : Leq(a, upto) /\ \A b \in keys : Leq(b, upto) => Leq(b, a)}

Keys(S) == {META_KEY} \cup {entry_key(s) : s \in S}

(* The numbers of the entries found; the meta record is not one.           *)
EntriesOf(found) == {seq_of(a) : a \in {b \in found : is_entry(b)}}

(* Store's entries may be taken for their numbers: over the byte strings   *)
(* stored, meta record included, a seek from an entry's key finds the      *)
(* least entry at or above it, the recovery's seek back from ENTRY_HIGH    *)
(* the greatest, and seq_of reads the number back.                         *)
KeysInOrder ==
  /\ \A s \in 0 .. MaxSeq : EntriesOf(KeySeek(Keys(Stored), entry_key(s))) = Seek(s)
  /\ EntriesOf(KeySeekBack(Keys(Stored), ENTRY_HIGH)) = SeekBack

=============================================================================
