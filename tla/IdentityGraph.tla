--------------------------- MODULE IdentityGraph ---------------------------
(***************************************************************************)
(* The identity graph of one brand in Neo4j (customers, IDENTIFIES edges,  *)
(* ALIAS_OF chains) and the identifier cache in Redis in front of it, with *)
(* the reads and writes Neo4jIdentityRepository and IdentifierCacheAdapter *)
(* run on them.  A graph transaction is one step.                          *)
(***************************************************************************)
EXTENDS Naturals, FiniteSets

CONSTANTS
  Ids,       \* identifiers: pairs of a type and a salted hash
  Medium,    \* device and anonymous ids among them; the others are strong
  Brains,    \* brain_ids, random UUIDs
  NoBrain    \* null

ASSUME GraphAssumption == Medium \subseteq Ids /\ NoBrain \notin Brains

VARIABLES
  linked,     \* IDENTIFIES edges, <<identifier, brain_id>>
  active,     \* those with is_active; the others are tombstoned
  lifecycle,  \* lifecycle_state of a customer, "none" before it exists
  alias,      \* <<m, c>>: a chain of ALIAS_OF edges leads from m to c
  cache       \* idcache: brain_id per identifier, or null

graphVars == <<linked, active, lifecycle, alias>>

GraphTypeOK ==
  /\ linked \subseteq Ids \X Brains
  /\ active \subseteq linked
  /\ lifecycle \in [Brains -> {"none", "active", "merged", "erased"}]
  /\ alias \subseteq Brains \X Brains
  /\ cache \in [Ids -> Brains \cup {NoBrain}]

GraphInit ==
  /\ linked = {} /\ active = {} /\ alias = {}
  /\ lifecycle = [b \in Brains |-> "none"]
  /\ cache = [i \in Ids |-> NoBrain]

-----------------------------------------------------------------------------
(* Reads.                                                                   *)

Absorbed(b) == \E c \in Brains : <<b, c>> \in alias

\* The end of b's chain of ALIAS_OF edges, b itself when it has none.
Survivor(b) ==
  IF \E c \in Brains : <<b, c>> \in alias /\ ~Absorbed(c)
    THEN CHOOSE c \in Brains : <<b, c>> \in alias /\ ~Absorbed(c)
    ELSE b

\* readStateBatch: active edges of the identifiers in E, with their survivors.
ExistingLinks(E) ==
  {<<l[1], Survivor(l[2])>> : l \in active \cap (E \X Brains)}

\* Mutant: the erasure's lookup sees what the live resolution sees.
ActiveTargets(i) == {b \in Brains : <<i, b>> \in active}

\* The edges findBrainIdForErasure chooses among: active ones if there are any.
LookupTargets(i) ==
  LET live == {b \in Brains : <<i, b>> \in active}
  IN IF live # {} THEN live ELSE {b \in Brains : <<i, b>> \in linked}

\* Mutant: only what is still active.
ActiveIdentifiersOf(b) == {i \in Ids : <<i, b>> \in active}

\* listIdentifierHashesForErasure: in any state, absorbed customers included.
IdentifiersOf(b) ==
  {i \in Ids : \E x \in Brains : <<i, x>> \in linked /\ (x = b \/ <<x, b>> \in alias)}

-----------------------------------------------------------------------------
(* Writes.                                                                  *)

\* Customer and edges of an outcome: created, or made active again.
WriteLinks(b, E) ==
  /\ linked' = linked \cup (E \X {b})
  /\ active' = active \cup (E \X {b})
  /\ lifecycle' = [lifecycle EXCEPT ![b] = IF @ = "none" THEN "active" ELSE @]
  /\ UNCHANGED alias

\* m becomes an alias of c; neither's edges are touched.
WriteMerge(m, c) ==
  /\ lifecycle' = [lifecycle EXCEPT ![m] = "merged"]
  /\ alias' = alias \cup
       ({x \in Brains : x = m \/ <<x, m>> \in alias}
          \X {y \in Brains : y = c \/ <<c, y>> \in alias})
  /\ UNCHANGED <<linked, active>>

\* eraseSubjectGraph: the edges of b itself, and its lifecycle.
EraseSubjectGraph(b) ==
  /\ active' = active \ (Ids \X {b})
  /\ lifecycle' = [lifecycle EXCEPT ![b] = IF @ = "none" THEN @ ELSE "erased"]
  /\ UNCHANGED <<linked, alias>>

\* primeMany is a pipeline whose errors are swallowed: T is what got through.
PrimeMany(T, b) == cache' = [i \in Ids |-> IF i \in T THEN b ELSE cache[i]]

\* purgeSubjectHashes deletes key by key; T is what it came to.
PurgeSubjectHashes(T) == cache' = [i \in Ids |-> IF i \in T THEN NoBrain ELSE cache[i]]
=============================================================================
