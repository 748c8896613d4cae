--------------------------- MODULE ResumableWalk ---------------------------
(***************************************************************************)
(* What a resumable backfill promises of each resource: pages are delivered *)
(* in order, the checkpoint follows them one page at a time and never goes  *)
(* back, and a resource is done only with its whole window delivered.       *)
(***************************************************************************)
EXTENDS Naturals

CONSTANTS Resources, Pages, InWindow

VARIABLES
  landed,  \* per resource: the pages delivered or spooled
  cursor,  \* per resource: the page the next walk continues after
  done     \* resources that are completed, for ever

walkVars == <<landed, cursor, done>>

Init ==
  /\ landed = [r \in Resources |-> {}]
  /\ cursor = [r \in Resources |-> 0]
  /\ done = {}

\* The page after the checkpoint, perhaps not for the first time.
Land(r) ==
  /\ cursor[r] < Pages
  /\ landed' = [landed EXCEPT ![r] = @ \cup {cursor[r] + 1}]
  /\ UNCHANGED <<cursor, done>>

Advance(r) ==
  /\ r \notin done
  /\ cursor[r] + 1 \in landed[r]
  /\ cursor' = [cursor EXCEPT ![r] = @ + 1]
  /\ UNCHANGED <<landed, done>>

Finish(r) ==
  /\ InWindow[r] \subseteq landed[r]
  /\ done' = done \cup {r}
  /\ UNCHANGED <<landed, cursor>>

Next == \E r \in Resources : Land(r) \/ Advance(r) \/ Finish(r)

Spec == Init /\ [][Next]_walkVars
=============================================================================
