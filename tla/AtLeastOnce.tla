---------------------------- MODULE AtLeastOnce ----------------------------
(***************************************************************************)
(* What the queue promises its users (src/README.md, Guarantees), without  *)
(* sequence numbers, cursors, locks or counters: an item that was accepted *)
(* stays until a holder removes it, is lent to one holder at a time and    *)
(* any number of times, and a crash takes back every loan, loses nothing   *)
(* accepted and undoes no finished ack.                                    *)
(***************************************************************************)

CONSTANTS
  Items,
  Durable,    \* pushes survive a crash once they returned Ok
  AckDurable  \* so do acks

VARIABLES
  queue,      \* items in the queue, accepted or still being pushed
  loan,       \* items in the application's hands
  accepted,   \* items whose push returned Ok
  removed,    \* items taken out by an ack
  acked       \* items whose ack returned Ok

vars == <<queue, loan, accepted, removed, acked>>

Init ==
  queue = {} /\ loan = {} /\ accepted = {} /\ removed = {} /\ acked = {}

(* New items enter together, as those of one commit do.                    *)
Enter ==
  /\ \E S \in SUBSET (Items \ (queue \cup removed \cup accepted)) : queue' = queue \cup S
  /\ UNCHANGED <<loan, accepted, removed, acked>>

Accept ==
  /\ \E i \in queue \cup removed : accepted' = accepted \cup {i}
  /\ UNCHANGED <<queue, loan, removed, acked>>

Deliver ==
  /\ \E i \in queue \ loan : loan' = loan \cup {i}
  /\ UNCHANGED <<queue, accepted, removed, acked>>

GiveUp ==
  /\ \E i \in loan : loan' = loan \ {i}
  /\ UNCHANGED <<queue, accepted, removed, acked>>

Remove ==
  /\ \E i \in loan \cap queue : queue' = queue \ {i} /\ removed' = removed \cup {i}
  /\ UNCHANGED <<loan, accepted, acked>>

Acknowledge ==
  /\ \E i \in removed : acked' = acked \cup {i}
  /\ UNCHANGED <<queue, loan, accepted, removed>>

(* An ack that has not returned, or is not durable, may be undone.         *)
Crash ==
  /\ loan' = {}
  /\ queue' \in SUBSET (queue \cup removed)
  /\ removed' = removed \ queue'
  /\ Durable => accepted \subseteq queue' \cup removed'
  /\ AckDurable => acked \cap queue' = {}
  /\ UNCHANGED <<accepted, acked>>

Next == Enter \/ Accept \/ Deliver \/ GiveUp \/ Remove \/ Acknowledge \/ Crash

Spec == Init /\ [][Next]_vars

=============================================================================
