--------------------------- MODULE SilverIdentity ---------------------------
(***************************************************************************)
(* One event of the silver-identity job on its way through the identifier  *)
(* cache and the graph: consult the cache; skip and prime again, or read   *)
(* the graph, resolve, write, and prime.  The leader lock makes the job a  *)
(* single process.  A step that throws ends the event; the watermark is    *)
(* held and it comes again.                                                *)
(***************************************************************************)
EXTENDS IdentityGraph

CONSTANT Events  \* what an event may carry: sets of deterministic identifiers

ASSUME EventAssumption == Events \subseteq (SUBSET Ids) \ {{}}

VARIABLES
  contactPii,  \* customers with contact_pii rows
  sPc,         \* where the job is with its event
  event,       \* the event's identifiers
  links,       \* what readStateBatch returned
  outcome      \* the brain_id of the cache or of the resolution

silverVars == <<contactPii, sPc, event, links, outcome>>

SilverTypeOK ==
  /\ contactPii \subseteq Brains
  /\ sPc \in {"idle", "reprime", "read", "write", "pii", "prime"}
  /\ event \subseteq Ids
  /\ links \subseteq Ids \X Brains
  /\ outcome \in Brains \cup {NoBrain}
  /\ sPc \in {"reprime", "pii", "prime"} => outcome \in Brains

SilverInit ==
  /\ contactPii = {}
  /\ sPc = "idle" /\ event = {} /\ links = {} /\ outcome = NoBrain

\* The job drops the event, done with it or not.
Leave ==
  /\ sPc' = "idle" /\ event' = {} /\ links' = {} /\ outcome' = NoBrain

\* A cache error counts as a miss.
Consult(E) ==
  /\ sPc = "idle"
  /\ event' = E
  /\ \/ \E b \in Brains :
          /\ \A i \in E : cache[i] = b
          /\ outcome' = b
          /\ sPc' = "reprime"
     \/ outcome' = NoBrain /\ sPc' = "read"
  /\ UNCHANGED <<graphVars, cache, contactPii, links>>

ReadState ==
  /\ sPc = "read"
  /\ links' = ExistingLinks(event)
  /\ sPc' = "write"
  /\ UNCHANGED <<graphVars, cache, contactPii, event, outcome>>

\* Strong identifiers decide; a medium one is followed when it adds up to one
\* customer with them.
Matched ==
  LET of(E) == {b \in Brains : \E i \in E : <<i, b>> \in links}
      strong == of(event \ Medium)
      all == of(event)
  IN IF Cardinality(strong) <= 1 /\ Cardinality(all) = 1 THEN all ELSE strong

Mint ==
  /\ Matched = {}
  /\ \E b \in Brains :
       /\ lifecycle[b] = "none"
       /\ WriteLinks(b, event)
       /\ outcome' = b

Link ==
  \E b \in Brains :
    /\ Matched = {b}
    /\ WriteLinks(b, {i \in event : <<i, b>> \notin links})
    /\ outcome' = b

\* The lowest UUID survives, which may be any of them; no edges are added.
Merge ==
  \E c, m \in Matched :
    /\ c # m
    /\ WriteMerge(m, c)
    /\ outcome' = c

WriteOutcome ==
  /\ sPc = "write"
  /\ Mint \/ Link \/ Merge
  /\ sPc' = "pii"
  /\ UNCHANGED <<cache, contactPii, event, links>>

\* A Postgres transaction of its own; there may be no raw value to write.
WritePii ==
  /\ sPc = "pii"
  /\ contactPii' \in {contactPii, contactPii \cup {outcome}}
  /\ sPc' = "prime"
  /\ UNCHANGED <<graphVars, cache, event, links, outcome>>

Prime ==
  /\ sPc \in {"reprime", "prime"}
  /\ \E T \in SUBSET event : PrimeMany(T, outcome)
  /\ Leave
  /\ UNCHANGED <<graphVars, contactPii>>

Abort ==
  /\ sPc # "idle"
  /\ Leave
  /\ UNCHANGED <<graphVars, cache, contactPii>>

\* The TTL of a cache entry runs out.
Expire(i) ==
  /\ cache[i] # NoBrain
  /\ cache' = [cache EXCEPT ![i] = NoBrain]
  /\ UNCHANGED <<graphVars, silverVars>>

SilverNext ==
  \/ \E E \in Events : Consult(E)
  \/ ReadState \/ WriteOutcome \/ WritePii \/ Prime \/ Abort
  \/ \E i \in Ids : Expire(i)
=============================================================================
