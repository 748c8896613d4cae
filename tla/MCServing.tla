----------------------------- MODULE MCServing -----------------------------
(* Instances of ServingCache for TLC. *)
EXTENDS ServingCache, TLC
CONSTANTS r1, r2, r3, i1, i2

\* Two reads share a process, the third has its own.
TwoAndOne == r1 :> i1 @@ r2 :> i1 @@ r3 :> i2
=============================================================================
