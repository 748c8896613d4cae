--------------------------- MODULE SubjectErasure ---------------------------
(***************************************************************************)
(* EraseSubjectUseCase: the ordered erasure of one subject, replayed from  *)
(* its beginning when a step throws, next to the silver-identity job that  *)
(* reads and writes the same graph and cache.  Requests come one at a time,*)
(* as the erasure queue hands them out per brand.                          *)
(***************************************************************************)
EXTENDS SilverIdentity, Sequences

CONSTANTS
  Requests,     \* records of an identifier and a direct brain_id, either may be null
  NoId,         \* null identifier
  MaxRequests,  \* bound on the requests of a behaviour
  MaxRetries    \* bound on replays; below ERASURE_MAX_ATTEMPTS, so no request goes dead

ASSUME RequestAssumption ==
  /\ NoId \notin Ids
  /\ Requests \subseteq [id : Ids \cup {NoId}, brain : Brains \cup {NoBrain}]
  /\ MaxRequests \in Nat /\ MaxRetries \in Nat

\* The awaits of the sequence that must not fail, in their order.
Order == <<"init", "shred", "contact", "surrogate", "graph", "recompute",
           "list", "purge", "bronze", "capi", "complete">>
Steps == {Order[n] : n \in 1..Len(Order)}

VARIABLES
  ePc,         \* idle, lookup, a step, settle (markDone) or parked (for a retry)
  req,         \* the request in work
  brainId,     \* the brain_id its lookup gave, null outside execute()
  hashes,      \* graphHashes, a local of execute() too
  erasureLog,  \* pii_erasure_log: none, open or complete per brain_id
  opened,      \* history: brain_ids this request opened a log for
  met,         \* history: brain_ids whose erasure met an event in the job
  requests, retries

erasureVars == <<ePc, req, brainId, hashes, erasureLog, opened>>
vars == <<graphVars, cache, silverVars, erasureVars, met, requests, retries>>

ErasureTypeOK ==
  /\ ePc \in {"idle", "lookup", "settle", "parked"} \cup Steps
  /\ req \in [id : Ids \cup {NoId}, brain : Brains \cup {NoBrain}]
  /\ brainId \in Brains \cup {NoBrain}
  /\ ePc \in Steps => brainId \in Brains
  /\ hashes \subseteq Ids
  /\ erasureLog \in [Brains -> {"none", "open", "complete"}]
  /\ opened \subseteq Brains

TypeOK ==
  /\ GraphTypeOK /\ SilverTypeOK /\ ErasureTypeOK
  /\ met \subseteq Brains
  /\ requests \in 0..MaxRequests /\ retries \in 0..MaxRetries

NoRequest == [id |-> NoId, brain |-> NoBrain]

Init ==
  /\ GraphInit /\ SilverInit
  /\ ePc = "idle" /\ req = NoRequest
  /\ brainId = NoBrain /\ hashes = {}
  /\ erasureLog = [b \in Brains |-> "none"]
  /\ opened = {} /\ met = {} /\ requests = 0 /\ retries = 0

-----------------------------------------------------------------------------
(* The request and its lookup.                                              *)

\* A direct brain_id was resolved by the entry point: the customer exists.
Request(q) ==
  /\ ePc = "idle" /\ requests < MaxRequests
  /\ q.brain # NoBrain => lifecycle[q.brain] # "none"
  /\ ePc' = "lookup" /\ req' = q /\ opened' = {}
  /\ requests' = requests + 1
  /\ UNCHANGED <<brainId, hashes, erasureLog, retries>>

Targets(q) == IF q.id = NoId THEN {} ELSE LookupTargets(q.id)

\* Any of the targets, when several are in the same state.
LookupFinds ==
  /\ ePc = "lookup"
  /\ \/ \E b \in Targets(req) : brainId' = Survivor(b)
     \/ Targets(req) = {} /\ req.brain # NoBrain /\ brainId' = req.brain
  /\ ePc' = "init"
  /\ UNCHANGED <<req, hashes, erasureLog, opened>>

\* 'no_brain_id': a sanctioned skip, the row is done.
LookupMisses ==
  /\ ePc = "lookup" /\ Targets(req) = {} /\ req.brain = NoBrain
  /\ ePc' = "settle"
  /\ UNCHANGED <<req, brainId, hashes, erasureLog, opened>>

-----------------------------------------------------------------------------
(* The sequence.                                                            *)

After(s) == Order[1 + CHOOSE n \in 1..Len(Order) : Order[n] = s]

\* Step s returned and the next one is up.
Did(s) ==
  /\ ePc = s
  /\ ePc' = After(s)
  /\ UNCHANGED <<req, brainId>>

InitErasureLog ==
  /\ Did("init")
  /\ erasureLog' = [erasureLog EXCEPT ![brainId] = IF @ = "none" THEN "open" ELSE @]
  /\ opened' = opened \cup {brainId}
  /\ UNCHANGED <<graphVars, cache, contactPii, hashes>>

\* Writes nobody reads back: DEK, surrogate, recompute row, Argo submit, CAPI.
\* The serving cache between recompute and list is invalidated fail-open.
Plain(s) ==
  /\ Did(s)
  /\ UNCHANGED <<graphVars, cache, contactPii, hashes, erasureLog, opened>>

EraseContactPii ==
  /\ Did("contact")
  /\ contactPii' = contactPii \ {brainId}
  /\ UNCHANGED <<graphVars, cache, hashes, erasureLog, opened>>

EraseGraph ==
  /\ Did("graph")
  /\ EraseSubjectGraph(brainId)
  /\ UNCHANGED <<cache, contactPii, hashes, erasureLog, opened>>

ListHashes ==
  /\ Did("list")
  /\ hashes' = IdentifiersOf(brainId)
  /\ UNCHANGED <<graphVars, cache, contactPii, erasureLog, opened>>

PurgeSet == hashes \cup ({req.id} \ {NoId})

PurgeIdentifierCache ==
  /\ Did("purge")
  /\ PurgeSubjectHashes(PurgeSet)
  /\ UNCHANGED <<graphVars, contactPii, hashes, erasureLog, opened>>

CompleteErasure ==
  /\ ePc = "complete"
  /\ erasureLog' = [erasureLog EXCEPT ![brainId] = "complete"]
  /\ ePc' = "settle"
  /\ UNCHANGED <<graphVars, cache, contactPii, req, brainId, hashes, opened>>

\* execute() is over, by its return or by a throw.
Return == brainId' = NoBrain /\ hashes' = {}

MarkDone ==
  /\ ePc = "settle"
  /\ ePc' = "idle" /\ req' = NoRequest
  /\ Return
  /\ UNCHANGED <<erasureLog, opened>>

\* Mutant: a purge that fails is swallowed.
FailOpen ==
  /\ ePc \notin {"idle", "parked"} /\ retries < MaxRetries
  /\ \/ ePc = "purge" /\ ePc' = "bronze" /\ UNCHANGED <<brainId, hashes>>
     \/ ePc # "purge" /\ ePc' = "parked" /\ Return
  /\ retries' = retries + 1
  /\ UNCHANGED <<graphVars, cache, req, erasureLog, opened>>

\* A step throws or the process dies, a purge perhaps half way through.
Fail ==
  /\ ePc \notin {"idle", "parked"} /\ retries < MaxRetries
  /\ ePc' = "parked" /\ retries' = retries + 1
  /\ \/ ePc = "purge" /\ \E T \in SUBSET PurgeSet : PurgeSubjectHashes(T)
     \/ UNCHANGED cache
  /\ Return
  /\ UNCHANGED <<graphVars, req, erasureLog, opened>>

Redeliver ==
  /\ ePc = "parked" /\ ePc' = "lookup"
  /\ UNCHANGED <<req, brainId, hashes, erasureLog, opened>>

-----------------------------------------------------------------------------

Sequence ==
  \/ InitErasureLog \/ EraseContactPii \/ EraseGraph \/ ListHashes
  \/ PurgeIdentifierCache \/ CompleteErasure
  \/ \E s \in {"shred", "surrogate", "recompute", "bronze", "capi"} : Plain(s)

Orchestrate ==
  /\ LookupFinds \/ LookupMisses \/ MarkDone \/ Redeliver
  /\ UNCHANGED <<graphVars, cache, contactPii>>

\* An erasure meets an event when the job has one in hand while a request is open.
Meet ==
  met' = IF sPc' # "idle" /\ ePc' # "idle" THEN met \cup opened' \cup ({brainId'} \cap Brains)
             ELSE met

SilverStep == SilverNext /\ UNCHANGED <<erasureVars, requests, retries>> /\ Meet

ErasureStep ==
  /\ \/ Sequence /\ UNCHANGED <<requests, retries>>
     \/ Orchestrate /\ UNCHANGED <<requests, retries>>
     \/ \E q \in Requests : Request(q) /\ UNCHANGED <<graphVars, cache, contactPii>>
     \/ Fail /\ UNCHANGED <<contactPii, requests>>
  /\ UNCHANGED <<sPc, event, links, outcome>>
  /\ Meet

Next == SilverStep \/ ErasureStep

Spec == Init /\ [][Next]_vars

-----------------------------------------------------------------------------
(* Properties.                                                              *)

\* Once a request has opened a log, no replay of it ends in 'no_brain_id': the
\* lookup sees through the tombstones its own graph purge has left.
ReplayFindsSubject ==
  [][ePc = "lookup" /\ opened # {} => ePc' # "settle"]_vars

\* Whose graph edges, cache entries and contact data are all gone.
Forgotten(b) ==
  /\ \A i \in Ids : <<i, b>> \notin active /\ cache[i] # b
  /\ b \notin contactPii

\* No customer was merged into b.
NothingAbsorbed(b) == \A x \in Brains : <<x, b>> \notin alias

\* A completed erasure leaves nothing that leads to its customer, and no later
\* event brings anything back; unless an event was in the job while the erasure
\* ran, or the customer has absorbed others.
ErasedStaysErased ==
  \A b \in Brains :
    erasureLog[b] = "complete" /\ b \notin met /\ NothingAbsorbed(b) => Forgotten(b)

\* A request that is done has completed every erasure it began (the replay
\* resolves the subject of the first attempt).
NoneStranded ==
  ePc = "idle" => \A b \in opened \ met : erasureLog[b] = "complete"

\* No event resolves to a customer whose erasure is complete (the graph purge
\* tombstones the subject's edges, so events mint anew).
ErasedNotResolved ==
  \A b \in Brains : erasureLog[b] = "complete" /\ b \notin met /\ ePc = "idle" =>
    \A i \in Ids : <<i, b>> \notin ExistingLinks(Ids)

\* The cache knows an identifier only if the graph links it to that customer:
\* skipping the graph on a hit loses no link.
CachedMeansLinked ==
  \A i \in Ids : cache[i] # NoBrain =>
    \E b \in Brains : <<i, b>> \in linked /\ Survivor(b) = Survivor(cache[i])
=============================================================================
