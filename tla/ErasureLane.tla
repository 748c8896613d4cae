---------------------------- MODULE ErasureLane ----------------------------
(***************************************************************************)
(* What the erasure queue stands in for: a log partitioned by brand, read  *)
(* by one consumer per partition.  The oldest open request of a brand is   *)
(* taken, given back or settled before the next one is taken.              *)
(***************************************************************************)
EXTENDS Naturals

CONSTANTS Reqs, Brands, BrandOf

VARIABLES
  stamp,   \* position of a request in the log, 0 before it is appended
  open,    \* requests appended and not settled
  taken,   \* requests a consumer is working on
  fate     \* "none", then "done" or "dead" for ever

laneVars == <<stamp, open, taken, fate>>

Init ==
  /\ stamp = [r \in Reqs |-> 0]
  /\ open = {} /\ taken = {}
  /\ fate = [r \in Reqs |-> "none"]

First(r) == \A q \in open : BrandOf[q] = BrandOf[r] => stamp[r] <= stamp[q]

Append(r) ==
  /\ stamp[r] = 0
  /\ \A q \in Reqs : stamp[q] < stamp'[r]
  /\ stamp' = [stamp EXCEPT ![r] = stamp'[r]]
  /\ open' = open \cup {r}
  /\ UNCHANGED <<taken, fate>>

Take(S) ==
  /\ S \subseteq open \ taken
  /\ \A r \in S : First(r)
  /\ taken' = taken \cup S
  /\ UNCHANGED <<stamp, open, fate>>

GiveBack(S) ==
  /\ taken' = taken \ S
  /\ UNCHANGED <<stamp, open, fate>>

Settle(r, f) ==
  /\ r \in taken
  /\ fate' = [fate EXCEPT ![r] = f]
  /\ open' = open \ {r}
  /\ taken' = taken \ {r}
  /\ UNCHANGED stamp

Next ==
  \/ \E r \in Reqs : Append(r) \/ Settle(r, "done") \/ Settle(r, "dead")
  \/ \E S \in SUBSET Reqs : Take(S) \/ GiveBack(S)

Spec == Init /\ [][Next]_laneVars
=============================================================================
