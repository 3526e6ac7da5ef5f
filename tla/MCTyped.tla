------------------------------ MODULE MCTyped ------------------------------
(***************************************************************************)
(* A small instance of TypedQueue for TLC.                                 *)
(***************************************************************************)
EXTENDS TypedQueue, MCQueue

=============================================================================
