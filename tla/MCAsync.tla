------------------------------ MODULE MCAsync ------------------------------
(***************************************************************************)
(* Small instances of AsyncQueue for TLC.                                  *)
(***************************************************************************)
EXTENDS AsyncQueue, MCQueue

(* The two items of the first producer have one length and may be swapped. *)
SameSize == [i \in Items |-> 1]
ItemSymmetry == Permutations({i1, i2})

=============================================================================
