---------------------------- MODULE MCIngestion ----------------------------
(* Instances of ResourceBackfill for TLC. *)
EXTENDS ResourceBackfill, TLC
CONSTANTS w1, w2, s1, h1, h2

\* Two resources of three pages, newest first: the first one's floor lies in
\* its second page, the second one ends before its floor.
WindowNewest == <<{1, 2}, {1, 2, 3}>>
FloorNewest == <<{2, 3}, {}>>

\* Two pages each: the first ends before its floor, the second's first page
\* reaches its own.
WindowTwo == <<{1, 2}, {1}>>
FloorTwo == <<{}, {1, 2}>>

\* One resource of two pages, oldest first, whose first page holds records
\* on both sides of the floor.
WindowOldest == <<{1, 2}>>
FloorOldest == <<{1}>>

\* The replicas are alike.
SameReplicas == Permutations({w1, w2})
=============================================================================
