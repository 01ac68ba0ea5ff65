--------------------------- MODULE MCWorkerManager ---------------------------
(***************************************************************************)
(* Small instances of WorkerManager for TLC.                               *)
(***************************************************************************)
EXTENDS WorkerManager, TLC

CONSTANTS a1, a2, w1, w2, w3, none

Symmetry == Permutations(Workers) \cup Permutations(Agents)
=============================================================================
