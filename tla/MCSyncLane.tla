---------------------------- MODULE MCSyncLane ----------------------------
(* Instances of SyncLane for TLC. *)
EXTENDS SyncLane, TLC
CONSTANTS r1, r2, r3

\* Runs are alike.
SameRuns == Permutations(Runs)
=============================================================================
