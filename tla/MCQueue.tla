------------------------------ MODULE MCQueue ------------------------------
(***************************************************************************)
(* Small instances of Queue for TLC: who pushes what, and how large it is. *)
(***************************************************************************)
EXTENDS QueueProperties, TLC

CONSTANTS p1, p2, p3, i1, i2, i3, i4, g1, g2

(* Two producers; one of them, or each, pushes more than one item.         *)
Author2 == (i1 :> p1) @@ (i2 :> p2)
Author3 == (i1 :> p1) @@ (i2 :> p1) @@ (i3 :> p2)
Author22 == (i1 :> p1) @@ (i2 :> p1) @@ (i3 :> p2) @@ (i4 :> p2)

(* Three producers competing for room.                                     *)
Author111 == (i1 :> p1) @@ (i2 :> p2) @@ (i3 :> p3)

(* With 3 bytes, i1 fits beside any other item, i2 and i3 do not fit       *)
(* together.                                                               *)
Size2 == (i1 :> 1) @@ (i2 :> 2)
Size3 == (i1 :> 1) @@ (i2 :> 2) @@ (i3 :> 2)

(* With 2 bytes, i2 enters an empty queue only, being too large, and two   *)
(* of the others fill the queue.                                           *)
Size4 == (i1 :> 1) @@ (i2 :> 3) @@ (i3 :> 1) @@ (i4 :> 1)

GuardSymmetry == Permutations(Guards)

=============================================================================
