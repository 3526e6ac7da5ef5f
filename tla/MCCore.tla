------------------------------- MODULE MCCore -------------------------------
(***************************************************************************)
(* The core with its key layout, for TLC.                                  *)
(***************************************************************************)
EXTENDS MCQueue, Keys

=============================================================================
