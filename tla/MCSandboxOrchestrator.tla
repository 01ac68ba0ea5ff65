----------------------- MODULE MCSandboxOrchestrator -----------------------
(***************************************************************************)
(* Small instances of SandboxOrchestrator for TLC.                         *)
(***************************************************************************)
EXTENDS SandboxOrchestrator, TLC

CONSTANTS a1, a2, s1, s2, s3, c1, c2, none, blank

\* Two handlers meet on one sandbox, or one handler and a fault; a second sandbox is drawn
\* where no fault has come up and at most one handler, a release, is suspended.
Busy == {c \in Calls : job[c] # NoJob}
OneSandboxOrQuiet ==
  /\ faults = 0 \/ Cardinality(Busy) <= 1
  /\ \/ Cardinality(drawn) <= 1
     \/ /\ Cardinality(drawn) = 2 /\ faults = 0 /\ Cardinality(Busy) <= 1
        /\ \A c \in Busy : job[c].op = "release"

Symmetry == Permutations(Agents) \cup Permutations(Sandboxes) \cup Permutations(Calls)
=============================================================================
