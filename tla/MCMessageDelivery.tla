------------------------- MODULE MCMessageDelivery -------------------------
(***************************************************************************)
(* Small instances of MessageDelivery for TLC.                             *)
(***************************************************************************)
EXTENDS MessageDelivery, TLC

CONSTANTS a1, a2, m1, m2, none

Symmetry == Permutations(Messages)
=============================================================================
