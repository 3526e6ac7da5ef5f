------------------------------ MODULE MCGroup ------------------------------
(***************************************************************************)
(* Small instances of GroupQueue for TLC: three producers, each with one   *)
(* item, so that a leader can have a batch of two behind it.  They are     *)
(* interchangeable together with their items, which have the same length.  *)
(***************************************************************************)
EXTENDS GroupQueue, MCQueue

Size111 == (i1 :> 1) @@ (i2 :> 1) @@ (i3 :> 1)

WithItem == (p1 :> i1) @@ (p2 :> i2) @@ (p3 :> i3)

PairSymmetry ==
  {f @@ [i \in Items |-> WithItem[f[Author[i]]]] : f \in Permutations(Producers)}

=============================================================================
