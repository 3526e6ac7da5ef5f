----------------------------- MODULE TypedQueue -----------------------------
(***************************************************************************)
(* The typed layers over the queue (src/src/typed.rs, archived.rs,         *)
(* codec.rs): push encodes the value first, reserve decodes the bytes, or  *)
(* validates them in place, before it hands the guard to the application.  *)
(*                                                                         *)
(* The bytes carry no tag of the codec that wrote them, and each open may  *)
(* choose another one.  Bytes written by a different codec may decode to   *)
(* something or be refused; those of the same codec always decode.         *)
(***************************************************************************)
EXTENDS QueueProperties

CONSTANT Unencodable   \* items whose encoding fails

ASSUME TypedAssumption == Unencodable \subseteq Items

VARIABLES
  layer,      \* what the queue was opened as
  written,    \* the codec that wrote each item
  decoding    \* guards inside a typed reserve, not yet the application's

typedVars == <<layer, written, decoding>>
tqVars == <<vars, typedVars>>

Layers == {"Bincode", "Rkyv", "archived"}
Codecs == {"bincode", "rkyv"}

(* Codec::encode by layer: the codec whose bytes the value becomes.        *)
EncodeBincode == "bincode"
EncodeRkyv == "rkyv"
Encode == IF layer = "Bincode" THEN EncodeBincode ELSE EncodeRkyv

(* Codec::decode of bytes written by w: the results it may have.           *)
DecodeBincode(w) == IF w = "bincode" THEN {"ok"} ELSE {"ok", "err"}
DecodeRkyv(w) == IF w = "rkyv" THEN {"ok"} ELSE {"ok", "err"}

TypedInit ==
  /\ layer = "Bincode"
  /\ written = [i \in Items |-> "bincode"]
  /\ decoding = {}

(* open_typed and open_archived: Builder::open, then wrap both ends.       *)
OpenTyped ==
  /\ OpenStart
  /\ layer' \in {"Bincode", "Rkyv"}
  /\ UNCHANGED <<written, decoding>>

OpenArchived ==
  /\ OpenStart
  /\ layer' = "archived"
  /\ UNCHANGED <<written, decoding>>

(* Encode, and push the bytes if that succeeded.                           *)
EncodeAndPush(p) ==
  /\ Up /\ ppc[p] = "idle"
  /\ \E i \in Fresh(p) \ Unencodable :
       PushLocked(p, i) /\ written' = [written EXCEPT ![i] = Encode]
  /\ UNCHANGED <<storeVars, consVars, guardVars, restarts, layer, decoding>>

TypedPush(p) == layer \in {"Bincode", "Rkyv"} /\ EncodeAndPush(p)
ArchivedPush(p) == layer = "archived" /\ EncodeAndPush(p)

(* The consumer's thread is not inside a typed reserve.                    *)
NotDecoding == Threaded \/ decoding = {}

(* The core's reserve returns a guard to the typed one ...                 *)
TypedTake ==
  /\ ReserveTake
  /\ decoding' = decoding \cup {g \in Guards : gpc[g] = "free" /\ gpc'[g] = "held"}
  /\ UNCHANGED <<layer, written>>

(* ... whose bytes decode, and the application has the item ...            *)
Decoded(g, results) ==
  /\ g \in decoding
  /\ "ok" \in results
  /\ decoding' = decoding \ {g}
  /\ UNCHANGED <<vars, layer, written>>

(* Mutant: the error return forgets the guard without dropping it.         *)
RefusedLeaks(g, results) ==
  /\ g \in decoding
  /\ "err" \in results
  /\ ReleaseNothing(g)
  /\ decoding' = decoding \ {g}
  /\ UNCHANGED <<storeVars, tail, head, acked_above, len, bytes, closed, capacity,
                 prodVars, consVars, restarts, histVars, layer, written>>

(* ... or do not, and the error return drops the guard.                    *)
Refused(g, results) ==
  /\ g \in decoding
  /\ "err" \in results
  /\ Release(g)
  /\ decoding' = decoding \ {g}
  /\ UNCHANGED <<storeVars, tail, head, acked_above, len, bytes, closed, capacity,
                 prodVars, consVars, restarts, histVars, layer, written>>

DecodeOk(g) ==
  \/ layer = "Bincode" /\ Decoded(g, DecodeBincode(written[gitem[g]]))
  \/ layer = "Rkyv" /\ Decoded(g, DecodeRkyv(written[gitem[g]]))

DecodeErr(g) ==
  \/ layer = "Bincode" /\ Refused(g, DecodeBincode(written[gitem[g]]))
  \/ layer = "Rkyv" /\ Refused(g, DecodeRkyv(written[gitem[g]]))

(* Validation in place accepts what the rkyv codec would decode.           *)
Access(g) ==
  /\ layer = "archived"
  /\ Decoded(g, DecodeRkyv(written[gitem[g]])) \/ Refused(g, DecodeRkyv(written[gitem[g]]))

(* ack and nack of an item the application has.                            *)
TypedNack(g) == g \notin decoding /\ NotDecoding /\ Nack(g) /\ UNCHANGED typedVars
TypedAck(g) ==
  /\ g \notin decoding /\ (gpc[g] = "held" => NotDecoding)
  /\ AckApply(g) \/ GuardStep(g)
  /\ UNCHANGED typedVars

-----------------------------------------------------------------------------

(* Steps of Queue that the typed layers pass through.                      *)
CoreStep ==
  \/ OpenErr \/ RecoverEntry \/ RecoverDone \/ RecoverErr
  \/ \E p \in Producers : SpuriousWake(p) \/ Close(p) \/ ProducerStep(p)
  \/ NotDecoding /\ ReserveStart
  \/ ReserveSeek \/ ReserveNone \/ ReserveSkip

TypedNext ==
  \/ CoreStep /\ UNCHANGED typedVars
  \/ OpenTyped \/ OpenArchived
  \/ Crash /\ decoding' = {} /\ UNCHANGED <<layer, written>>
  \/ \E p \in Producers : TypedPush(p) \/ ArchivedPush(p)
  \/ TypedTake
  \/ \E g \in Guards : DecodeOk(g) \/ DecodeErr(g) \/ Access(g) \/ TypedNack(g) \/ TypedAck(g)

TypedSpec == Init /\ TypedInit /\ [][TypedNext]_tqVars

-----------------------------------------------------------------------------
(* Properties.                                                             *)

(* An item that does not decode is never stepped over: while the           *)
(* application has an item, no older accepted one of the same producer is  *)
(* still stored.  The error return of reserve must have released it, so    *)
(* that the next reserve meets it first, whichever codec is open now.      *)
TypedInOrder ==
  \A g \in OnLoan \ decoding : \A s \in Seqs :
    s < gseq[g] /\ live[s] \in accepted => Author[live[s]] # Author[gitem[g]]

-----------------------------------------------------------------------------
(* Inductive strengthening.  A guard that a typed reserve has not returned *)
(* yet is held and in no other call; on the consumer's one thread nothing  *)
(* else of the consumer is under way.                                      *)
DecodingInv ==
  /\ \A g \in decoding : g \in Guards /\ gpc[g] = "held"
  /\ ~Threaded /\ decoding # {} => cpc = "idle" /\ GuardsAtRest

=============================================================================
