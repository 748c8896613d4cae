----------------------------- MODULE MCErasure -----------------------------
(* Instances of ErasureOrchestrator for TLC. *)
EXTENDS ErasureOrchestrator, TLC
CONSTANTS r1, r2, r3, brandA, brandB, w1, w2

\* Two requests of one brand and one of another.
TwoAndOne == (r1 :> brandA) @@ (r2 :> brandA) @@ (r3 :> brandB)

\* Two requests of one brand.
SameBrand == (r1 :> brandA) @@ (r2 :> brandA)

\* The replicas are alike.
Replicas == Permutations({w1, w2})
=============================================================================
