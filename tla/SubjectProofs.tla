--------------------------- MODULE SubjectProofs ---------------------------
(***************************************************************************)
(* Proofs about SubjectErasure: types, the lookup of a replay, and that an *)
(* erased customer stays erased.                                           *)
(***************************************************************************)
EXTENDS SubjectErasure, TLAPS

-----------------------------------------------------------------------------
(* The inductive invariant.                                                 *)

\* Whatever is linked, aliased, read, addressed or in erasure exists.
Known(b) == lifecycle[b] # "none"

AllKnown ==
  /\ \A i \in Ids, b \in Brains : <<i, b>> \in linked => Known(b)
  /\ \A b, c \in Brains : <<b, c>> \in alias => Known(c)
  /\ \A i \in Ids, b \in Brains : <<i, b>> \in links => Known(b)
  /\ req.brain \in Brains => Known(req.brain)
  /\ brainId \in Brains => Known(brainId)
  /\ \A b \in Brains : erasureLog[b] = "complete" => Known(b)

\* Between events the job remembers nothing.
IdleForgets == sPc = "idle" => links = {} /\ outcome = NoBrain

\* The job's event, if there is one, has met the erasure in work.
Overlap ==
  ePc # "idle" /\ sPc # "idle" => opened \subseteq met /\ (brainId \in Brains => brainId \in met)

\* For a customer nobody was merged into, the cache and the job only hold
\* identifiers the graph links to it.
HeldMeansLinked ==
  \A b \in Brains, i \in Ids : NothingAbsorbed(b) =>
    /\ cache[i] = b => <<i, b>> \in linked
    /\ <<i, b>> \in links => <<i, b>> \in linked
    /\ outcome = b /\ i \in event => <<i, b>> \in linked

PastContact == {"surrogate", "graph", "recompute", "list", "purge", "bronze", "capi", "complete"}
PastGraph == PastContact \ {"surrogate", "graph"}
PastPurge == {"bronze", "capi", "complete"}

\* How far the erasure in work has come.
Progress ==
  brainId \in Brains /\ brainId \notin met /\ NothingAbsorbed(brainId) =>
    /\ ePc \in PastContact => brainId \notin contactPii
    /\ ePc \in PastGraph => \A i \in Ids : <<i, brainId>> \notin active
    /\ ePc = "purge" => \A i \in Ids : <<i, brainId>> \in linked => i \in hashes
    /\ ePc \in PastPurge => \A i \in Ids : cache[i] # brainId

\* Nothing leads to a customer whose erasure is complete, not even the job.
Gone ==
  \A b \in Brains :
    erasureLog[b] = "complete" /\ b \notin met /\ NothingAbsorbed(b) =>
      /\ Forgotten(b)
      /\ outcome # b
      /\ \A i \in Ids : <<i, b>> \notin links

\* What a request has opened can be found again.
Findable == Targets(req) # {} \/ req.brain \in Brains

Found ==
  /\ ePc \in Steps => Findable
  /\ ePc # "idle" /\ opened # {} => Findable

IInv == TypeOK /\ AllKnown /\ IdleForgets /\ Overlap /\ HeldMeansLinked /\ Progress /\ Gone /\ Found
-----------------------------------------------------------------------------
(* The order of the steps, and the shape of a request.                      *)

\* The steps by name, and which follows which.
LEMMA StepOrder ==
  /\ Steps = {"init", "shred", "contact", "surrogate", "graph", "recompute",
              "list", "purge", "bronze", "capi", "complete"}
  /\ After("init") = "shred" /\ After("shred") = "contact"
  /\ After("contact") = "surrogate" /\ After("surrogate") = "graph"
  /\ After("graph") = "recompute" /\ After("recompute") = "list"
  /\ After("list") = "purge" /\ After("purge") = "bronze"
  /\ After("bronze") = "capi" /\ After("capi") = "complete"
<1>1. Len(Order) = 11
  BY DEF Order
<1>2. /\ Order[1] = "init" /\ Order[2] = "shred" /\ Order[3] = "contact"
      /\ Order[4] = "surrogate" /\ Order[5] = "graph" /\ Order[6] = "recompute"
      /\ Order[7] = "list" /\ Order[8] = "purge" /\ Order[9] = "bronze"
      /\ Order[10] = "capi" /\ Order[11] = "complete"
  BY DEF Order
<1>3. \A n \in 1..11 : n \in {1, 2, 3, 4, 5, 6, 7, 8, 9, 10, 11}
  OBVIOUS
<1>4. Steps = {"init", "shred", "contact", "surrogate", "graph", "recompute",
               "list", "purge", "bronze", "capi", "complete"}
  <2>1. Steps = {Order[n] : n \in 1..11}
    BY <1>1 DEF Steps
  <2>2. ASSUME NEW s \in Steps
        PROVE  s \in {"init", "shred", "contact", "surrogate", "graph", "recompute",
                      "list", "purge", "bronze", "capi", "complete"}
    BY <2>1, <1>2, <1>3
  <2>3. ASSUME NEW n \in 1..11
        PROVE  Order[n] \in Steps
    BY <2>1
  <2>4. QED
    BY <1>2, <2>2, <2>3
<1>5. ASSUME NEW n \in 1..10
      PROVE  After(Order[n]) = Order[1 + n]
  <2>1. \A k \in 1..11 : Order[k] = Order[n] => k = n
    BY <1>2, <1>3
  <2>2. n \in 1..11
    OBVIOUS
  <2>3. (CHOOSE k \in 1..Len(Order) : Order[k] = Order[n]) = n
    BY <1>1, <2>1, <2>2
  <2>4. QED
    BY <2>3 DEF After
<1>6. \A n \in 1..10 : After(Order[n]) = Order[1 + n]
  BY <1>5
<1>7. /\ After(Order[1]) = Order[2] /\ After(Order[2]) = Order[3]
      /\ After(Order[3]) = Order[4] /\ After(Order[4]) = Order[5]
      /\ After(Order[5]) = Order[6] /\ After(Order[6]) = Order[7]
      /\ After(Order[7]) = Order[8] /\ After(Order[8]) = Order[9]
      /\ After(Order[9]) = Order[10] /\ After(Order[10]) = Order[11]
  BY <1>6
<1>8. QED
  BY <1>2, <1>4, <1>7
-----------------------------------------------------------------------------
(* What the reads return.                                                   *)

\* The survivor is the customer itself or one its alias chain leads to.
LEMMA SurvivorReached ==
  ASSUME NEW x \in Brains
  PROVE  /\ Survivor(x) \in Brains
         /\ Survivor(x) = x \/ <<x, Survivor(x)>> \in alias
<1>1. CASE \E c \in Brains : <<x, c>> \in alias /\ ~Absorbed(c)
  <2>1. /\ Survivor(x) = CHOOSE c \in Brains : <<x, c>> \in alias /\ ~Absorbed(c)
    BY <1>1 DEF Survivor
  <2>2. QED
    BY <1>1, <2>1
<1>2. CASE ~(\E c \in Brains : <<x, c>> \in alias /\ ~Absorbed(c))
  BY <1>2 DEF Survivor
<1>3. QED
  BY <1>1, <1>2

\* What readStateBatch returns stems from active edges.
LEMMA LinksRead ==
  ASSUME GraphTypeOK, NEW E \in SUBSET Ids
  PROVE  /\ ExistingLinks(E) \subseteq Ids \X Brains
         /\ \A i \in Ids, b \in Brains : <<i, b>> \in ExistingLinks(E) =>
              \E x \in Brains : <<i, x>> \in active /\ (x = b \/ <<x, b>> \in alias)
<1>1. ASSUME NEW l \in ExistingLinks(E)
      PROVE  \E i \in Ids, x \in Brains :
               l = <<i, Survivor(x)>> /\ <<i, x>> \in active
  <2>1. PICK k \in active \cap (E \X Brains) : l = <<k[1], Survivor(k[2])>>
    BY DEF ExistingLinks
  <2>2. k[1] \in Ids /\ k[2] \in Brains /\ k = <<k[1], k[2]>>
    OBVIOUS
  <2>3. QED
    BY <2>1, <2>2
<1>2. ASSUME NEW l \in ExistingLinks(E)
      PROVE  l \in Ids \X Brains
  <2>1. PICK i \in Ids, x \in Brains : l = <<i, Survivor(x)>>
    BY <1>1
  <2>2. Survivor(x) \in Brains
    BY SurvivorReached
  <2>3. QED
    BY <2>1, <2>2
<1>3. ASSUME NEW i \in Ids, NEW b \in Brains, <<i, b>> \in ExistingLinks(E)
      PROVE  \E x \in Brains : <<i, x>> \in active /\ (x = b \/ <<x, b>> \in alias)
  <2>1. PICK j \in Ids, x \in Brains : <<i, b>> = <<j, Survivor(x)>> /\ <<j, x>> \in active
    BY <1>1, <1>3
  <2>2. j = i /\ Survivor(x) = b
    BY <2>1
  <2>3. QED
    BY <2>1, <2>2, SurvivorReached
<1>4. QED
  BY <1>2, <1>3

\* The resolver only matches customers it has read.
LEMMA MatchedRead ==
  /\ Matched \subseteq Brains
  /\ \A b \in Matched : \E i \in event : <<i, b>> \in links
BY DEF Matched

\* A lookup finds whatever is linked to the identifier, tombstoned or not.
LEMMA TargetsLinked ==
  ASSUME GraphTypeOK, NEW q, q.id \in Ids \cup {NoId}
  PROVE  /\ \A b \in Targets(q) : q.id \in Ids /\ b \in Brains /\ <<q.id, b>> \in linked
         /\ \A b \in Brains : q.id \in Ids /\ <<q.id, b>> \in linked => Targets(q) # {}
BY RequestAssumption DEF Targets, LookupTargets, GraphTypeOK

\* A request is findable by its direct brain_id or by an edge in any state.
LEMMA FindableLinked ==
  ASSUME GraphTypeOK, req.id \in Ids \cup {NoId}
  PROVE  Findable <=> \/ req.brain \in Brains
                      \/ \E b \in Brains : req.id \in Ids /\ <<req.id, b>> \in linked
BY TargetsLinked DEF Findable

-----------------------------------------------------------------------------
(* What a step of either side can do at all.                                *)

LEMMA SilverLeavesErasure ==
  ASSUME SilverStep
  PROVE  /\ UNCHANGED <<ePc, req, brainId, hashes, erasureLog, opened, requests, retries>>
         /\ SilverNext /\ Meet
BY DEF SilverStep, erasureVars

\* Only the expiry of a cache entry leaves the job between events.
LEMMA SilverIdle ==
  ASSUME SilverNext, sPc = "idle", sPc' = "idle"
  PROVE  /\ UNCHANGED <<linked, active, lifecycle, alias, contactPii, event, links, outcome>>
         /\ \E i \in Ids : cache' = [cache EXCEPT ![i] = NoBrain]
BY DEF SilverNext, Consult, ReadState, WriteOutcome, WritePii, Prime, Abort, Expire,
       graphVars, silverVars

\* The erasure adds nothing to the graph, the cache or the contact data.
LEMMA ErasureRemoves ==
  ASSUME TypeOK, ErasureStep
  PROVE  /\ UNCHANGED <<linked, alias, sPc, event, links, outcome>>
         /\ active' \subseteq active /\ contactPii' \subseteq contactPii
         /\ lifecycle' \in [Brains -> {"none", "active", "merged", "erased"}]
         /\ \A b \in Brains : lifecycle[b] # "none" <=> lifecycle'[b] # "none"
         /\ cache' \in [Ids -> Brains \cup {NoBrain}]
         /\ \A i \in Ids : cache'[i] \in {cache[i], NoBrain}
         /\ Meet
<1>1. UNCHANGED <<sPc, event, links, outcome>> /\ Meet
  BY DEF ErasureStep
<1>2. ASSUME UNCHANGED <<graphVars, cache, contactPii>>
      PROVE  /\ UNCHANGED <<linked, alias, active, lifecycle, cache, contactPii>>
             /\ lifecycle' \in [Brains -> {"none", "active", "merged", "erased"}]
             /\ cache' \in [Ids -> Brains \cup {NoBrain}]
             /\ \A i \in Ids : cache'[i] \in {cache[i], NoBrain}
  BY <1>2 DEF graphVars, TypeOK, GraphTypeOK
<1>3. ASSUME NEW T, PurgeSubjectHashes(T)
      PROVE  /\ cache' \in [Ids -> Brains \cup {NoBrain}]
             /\ \A i \in Ids : cache'[i] \in {cache[i], NoBrain}
  BY <1>3 DEF PurgeSubjectHashes, TypeOK, GraphTypeOK
<1>4. CASE InitErasureLog
  BY <1>1, <1>2, <1>4 DEF InitErasureLog
<1>5. CASE EraseContactPii
  BY <1>1, <1>5 DEF EraseContactPii, graphVars, TypeOK, GraphTypeOK
<1>6. CASE EraseGraph
  <2>1. UNCHANGED <<linked, alias, cache, contactPii>> /\ active' \subseteq active
    BY <1>6 DEF EraseGraph, EraseSubjectGraph
  <2>2. lifecycle' = [lifecycle EXCEPT ![brainId] = IF @ = "none" THEN @ ELSE "erased"]
    BY <1>6 DEF EraseGraph, EraseSubjectGraph
  <2>3. QED
    BY <1>1, <2>1, <2>2 DEF TypeOK, GraphTypeOK
<1>7. CASE ListHashes
  BY <1>1, <1>2, <1>7 DEF ListHashes
<1>8. CASE PurgeIdentifierCache
  BY <1>1, <1>3, <1>8 DEF PurgeIdentifierCache, graphVars, TypeOK, GraphTypeOK
<1>9. CASE CompleteErasure
  BY <1>1, <1>2, <1>9 DEF CompleteErasure
<1>10. CASE \E s \in {"shred", "surrogate", "recompute", "bronze", "capi"} : Plain(s)
  BY <1>1, <1>2, <1>10 DEF Plain
<1>11. CASE Orchestrate
  BY <1>1, <1>2, <1>11 DEF Orchestrate
<1>12. CASE \E q \in Requests : Request(q) /\ UNCHANGED <<graphVars, cache, contactPii>>
  BY <1>1, <1>2, <1>12
<1>13. CASE Fail /\ UNCHANGED contactPii
  BY <1>1, <1>3, <1>13 DEF Fail, graphVars, TypeOK, GraphTypeOK
<1>14. QED
  BY <1>4, <1>5, <1>6, <1>7, <1>8, <1>9, <1>10, <1>11, <1>12, <1>13
     DEF ErasureStep, Sequence
-----------------------------------------------------------------------------
(* Types.                                                                   *)

\* The history of meetings is typed and only grows.
LEMMA MeetTyped ==
  ASSUME met \subseteq Brains, opened' \subseteq Brains, Meet
  PROVE  met' \subseteq Brains /\ met \subseteq met'
BY DEF Meet

\* The graph and the cache under what the job writes.
LEMMA SilverTypes ==
  ASSUME TypeOK, SilverNext
  PROVE  GraphTypeOK' /\ SilverTypeOK'
<1> USE DEF TypeOK, GraphTypeOK, SilverTypeOK
<1>1. CASE \E E \in Events : Consult(E)
  BY <1>1, EventAssumption DEF Consult, graphVars
<1>2. CASE ReadState
  BY <1>2, LinksRead DEF ReadState, graphVars
<1>3. CASE WriteOutcome
  <2>1. ASSUME NEW b \in Brains, NEW E \in SUBSET Ids, WriteLinks(b, E)
        PROVE  /\ linked' \subseteq Ids \X Brains /\ active' \subseteq linked'
               /\ lifecycle' \in [Brains -> {"none", "active", "merged", "erased"}]
               /\ alias' \subseteq Brains \X Brains
    BY <2>1 DEF WriteLinks
  <2>2. ASSUME NEW m \in Brains, NEW c \in Brains, WriteMerge(m, c)
        PROVE  /\ linked' \subseteq Ids \X Brains /\ active' \subseteq linked'
               /\ lifecycle' \in [Brains -> {"none", "active", "merged", "erased"}]
               /\ alias' \subseteq Brains \X Brains
    BY <2>2 DEF WriteMerge
  <2>3. /\ linked' \subseteq Ids \X Brains /\ active' \subseteq linked'
        /\ lifecycle' \in [Brains -> {"none", "active", "merged", "erased"}]
        /\ alias' \subseteq Brains \X Brains
        /\ outcome' \in Brains
    <3>1. CASE Mint
      BY <3>1, <2>1 DEF Mint
    <3>2. CASE Link
      BY <3>2, <2>1 DEF Link
    <3>3. CASE Merge
      BY <3>3, <2>2, MatchedRead DEF Merge
    <3>4. QED
      BY <1>3, <3>1, <3>2, <3>3 DEF WriteOutcome
  <2>4. QED
    BY <1>3, <2>3 DEF WriteOutcome
<1>4. CASE WritePii
  BY <1>4 DEF WritePii, graphVars
<1>5. CASE Prime
  <2>1. UNCHANGED <<linked, active, lifecycle, alias, contactPii>>
    BY <1>5 DEF Prime, graphVars
  <2>2. cache' \in [Ids -> Brains \cup {NoBrain}]
    BY <1>5 DEF Prime, PrimeMany
  <2>3. sPc' = "idle" /\ event' = {} /\ links' = {} /\ outcome' = NoBrain
    BY <1>5 DEF Prime, Leave
  <2>4. QED
    BY <2>1, <2>2, <2>3
<1>6. CASE Abort
  BY <1>6 DEF Abort, Leave, graphVars
<1>7. CASE \E i \in Ids : Expire(i)
  BY <1>7 DEF Expire, graphVars, silverVars
<1>8. QED
  BY <1>1, <1>2, <1>3, <1>4, <1>5, <1>6, <1>7 DEF SilverNext

\* Types under the steps of the erasure.
LEMMA ErasureTypes ==
  ASSUME TypeOK, ErasureStep
  PROVE  ErasureTypeOK'
<1> USE DEF TypeOK, ErasureTypeOK
<1>1. \A s \in Steps \ {"complete"} : After(s) \in Steps
  BY StepOrder
<1>2. CASE Sequence
  <2>1. CASE InitErasureLog
    BY <1>1, <2>1, StepOrder DEF InitErasureLog, Did
  <2>2. CASE EraseContactPii
    BY <1>1, <2>2, StepOrder DEF EraseContactPii, Did
  <2>3. CASE EraseGraph
    BY <1>1, <2>3, StepOrder DEF EraseGraph, Did
  <2>4. CASE ListHashes
    BY <1>1, <2>4, StepOrder DEF ListHashes, Did, IdentifiersOf
  <2>5. CASE PurgeIdentifierCache
    BY <1>1, <2>5, StepOrder DEF PurgeIdentifierCache, Did
  <2>6. CASE CompleteErasure
    BY <2>6, StepOrder DEF CompleteErasure
  <2>7. CASE \E s \in {"shred", "surrogate", "recompute", "bronze", "capi"} : Plain(s)
    BY <1>1, <2>7, StepOrder DEF Plain, Did
  <2>8. QED
    BY <1>2, <2>1, <2>2, <2>3, <2>4, <2>5, <2>6, <2>7 DEF Sequence
<1>3. CASE Orchestrate
  <2>1. \A b \in Targets(req) : Survivor(b) \in Brains
    BY TargetsLinked, SurvivorReached
  <2>2. CASE LookupFinds
    BY <2>1, <2>2, StepOrder DEF LookupFinds
  <2>3. CASE LookupMisses
    BY <2>3, StepOrder DEF LookupMisses
  <2>4. CASE MarkDone
    BY <2>4, StepOrder DEF MarkDone, Return, NoRequest
  <2>5. CASE Redeliver
    BY <2>5, StepOrder DEF Redeliver
  <2>6. QED
    BY <1>3, <2>2, <2>3, <2>4, <2>5 DEF Orchestrate
<1>4. CASE \E q \in Requests : Request(q)
  BY <1>4, RequestAssumption, StepOrder DEF Request
<1>5. CASE Fail
  BY <1>5, StepOrder DEF Fail, Return
<1>6. QED
  BY <1>2, <1>3, <1>4, <1>5 DEF ErasureStep

\* Types under every step.
LEMMA TypesKept ==
  ASSUME TypeOK, [Next]_vars
  PROVE  TypeOK'
<1>1. CASE SilverStep
  <2>1. GraphTypeOK' /\ SilverTypeOK'
    BY <1>1, SilverTypes, SilverLeavesErasure
  <2>2. ErasureTypeOK' /\ requests' \in 0..MaxRequests /\ retries' \in 0..MaxRetries
    BY <1>1, SilverLeavesErasure DEF TypeOK, ErasureTypeOK
  <2>3. met' \subseteq Brains
    BY <1>1, <2>2, SilverLeavesErasure, MeetTyped DEF TypeOK, ErasureTypeOK
  <2>4. QED
    BY <2>1, <2>2, <2>3 DEF TypeOK
<1>2. CASE ErasureStep
  <2>1. ErasureTypeOK'
    BY <1>2, ErasureTypes
  <2>2. met' \subseteq Brains
    BY <1>2, <2>1, ErasureRemoves, MeetTyped DEF TypeOK, ErasureTypeOK
  <2>3. GraphTypeOK' /\ SilverTypeOK'
    BY <1>2, ErasureRemoves DEF TypeOK, GraphTypeOK, SilverTypeOK
  <2>4. requests' \in 0..MaxRequests /\ retries' \in 0..MaxRetries
    BY <1>2, RequestAssumption DEF ErasureStep, Request, Fail, TypeOK
  <2>5. QED
    BY <2>1, <2>2, <2>3, <2>4 DEF TypeOK
<1>3. CASE UNCHANGED vars
  BY <1>3 DEF vars, graphVars, silverVars, erasureVars, TypeOK, GraphTypeOK, SilverTypeOK,
              ErasureTypeOK
<1>4. QED
  BY <1>1, <1>2, <1>3 DEF Next
-----------------------------------------------------------------------------
(* What the job adds.                                                       *)

\* A write only adds, to customers that exist from then on.
LEMMA SilverGrows ==
  ASSUME TypeOK, SilverNext
  PROVE  /\ linked \subseteq linked' /\ alias \subseteq alias'
         /\ \A b \in Brains : lifecycle[b] # "none" => lifecycle'[b] # "none"
<1> USE DEF TypeOK, GraphTypeOK
<1>1. CASE WriteOutcome
  <2>1. CASE Mint
    BY <2>1 DEF Mint, WriteLinks
  <2>2. CASE Link
    BY <2>2 DEF Link, WriteLinks
  <2>3. CASE Merge
    BY <2>3, MatchedRead DEF Merge, WriteMerge
  <2>4. QED
    BY <1>1, <2>1, <2>2, <2>3 DEF WriteOutcome
<1>2. CASE ~WriteOutcome
  BY <1>2 DEF SilverNext, Consult, ReadState, WritePii, Prime, Abort, Expire, graphVars
<1>3. QED
  BY <1>1, <1>2

\* The three ways to write an outcome, with what each needs to have read.
LEMMA Outcomes ==
  ASSUME TypeOK, WriteOutcome
  PROVE  \E b \in Brains :
           /\ outcome' = b
           /\ \/ /\ lifecycle[b] = "none"
                 /\ WriteLinks(b, event)
              \/ /\ \E i \in event : <<i, b>> \in links
                 /\ WriteLinks(b, {i \in event : <<i, b>> \notin links})
              \/ \E m \in Brains :
                   /\ \E i \in event : <<i, b>> \in links
                   /\ \E i \in event : <<i, m>> \in links
                   /\ WriteMerge(m, b)
<1>1. CASE Mint
  BY <1>1 DEF Mint
<1>2. CASE Link
  <2>1. PICK b \in Brains : /\ Matched = {b} /\ outcome' = b
                            /\ WriteLinks(b, {i \in event : <<i, b>> \notin links})
    BY <1>2 DEF Link
  <2>2. \E i \in event : <<i, b>> \in links
    BY <2>1, MatchedRead
  <2>3. QED
    BY <2>1, <2>2
<1>3. CASE Merge
  <2>1. PICK c \in Matched, m \in Matched : WriteMerge(m, c) /\ outcome' = c
    BY <1>3 DEF Merge
  <2>2. QED
    BY <2>1, MatchedRead
<1>4. QED
  BY <1>1, <1>2, <1>3 DEF WriteOutcome

-----------------------------------------------------------------------------
(* One lemma per part of the invariant.                                     *)

\* Customers are only ever added.
LEMMA KnownKept ==
  ASSUME TypeOK, AllKnown, Next
  PROVE  AllKnown'
<1> USE DEF TypeOK, GraphTypeOK
<1>1. CASE SilverStep
  <2>1. SilverNext /\ UNCHANGED <<req, brainId, erasureLog>>
    BY <1>1, SilverLeavesErasure
  <2>2. \A b \in Brains : Known(b) => Known(b)'
    BY <2>1, SilverGrows DEF Known
  <2>3. /\ req'.brain \in Brains => Known(req.brain)'
        /\ brainId' \in Brains => Known(brainId)'
        /\ \A b \in Brains : erasureLog'[b] = "complete" => Known(b)'
    BY <2>1, <2>2 DEF AllKnown
  <2>4. CASE WriteOutcome
    <3>1. UNCHANGED links
      BY <2>4 DEF WriteOutcome
    <3>2. PICK b \in Brains :
             \/ /\ WriteLinks(b, event)
             \/ /\ WriteLinks(b, {i \in event : <<i, b>> \notin links})
             \/ \E m \in Brains :
                  /\ \E i \in event : <<i, b>> \in links
                  /\ WriteMerge(m, b)
      BY <2>4, Outcomes
    <3>3. CASE \E E \in SUBSET event : WriteLinks(b, E)
      <4>1. PICK E \in SUBSET event : WriteLinks(b, E)
        BY <3>3
      <4>2. linked' = linked \cup (E \X {b}) /\ alias' = alias /\ lifecycle'[b] # "none"
        BY <4>1 DEF WriteLinks
      <4>3. QED
        BY <2>2, <2>3, <3>1, <4>2 DEF AllKnown, Known
    <3>4. CASE \E m \in Brains : (\E i \in event : <<i, b>> \in links) /\ WriteMerge(m, b)
      <4>1. PICK m \in Brains : (\E i \in event : <<i, b>> \in links) /\ WriteMerge(m, b)
        BY <3>4
      <4>2. Known(b)
        BY <4>1 DEF AllKnown, SilverTypeOK
      <4>3. linked' = linked
        BY <4>1 DEF WriteMerge
      <4>4. \A x, y \in Brains : <<x, y>> \in alias' =>
              <<x, y>> \in alias \/ y = b \/ <<b, y>> \in alias
        BY <4>1 DEF WriteMerge
      <4>5. \A x, y \in Brains : <<x, y>> \in alias' => Known(y)
        BY <4>2, <4>4 DEF AllKnown
      <4>6. QED
        BY <2>2, <2>3, <3>1, <4>3, <4>5 DEF AllKnown
    <3>5. QED
      BY <3>2, <3>3, <3>4
  <2>5. CASE ReadState
    <3>1. links' = ExistingLinks(event) /\ UNCHANGED <<linked, alias, lifecycle>>
      BY <2>5 DEF ReadState, graphVars
    <3>2. \A i \in Ids, b \in Brains : <<i, b>> \in links' => Known(b)
      BY <3>1, LinksRead DEF AllKnown, SilverTypeOK
    <3>3. QED
      BY <2>2, <2>3, <3>1, <3>2 DEF AllKnown
  <2>6. CASE ~WriteOutcome /\ ~ReadState
    <3>1. UNCHANGED <<linked, alias, lifecycle>> /\ links' \in {links, {}}
      BY <2>1, <2>6 DEF SilverNext, Consult, WritePii, Prime, Abort, Expire, Leave,
                        graphVars, silverVars
    <3>2. QED
      BY <2>2, <2>3, <3>1 DEF AllKnown
  <2>7. QED
    BY <2>4, <2>5, <2>6
<1>2. CASE ErasureStep
  <2>1. \A b \in Brains : Known(b) => Known(b)'
    BY <1>2, ErasureRemoves DEF Known
  <2>2. UNCHANGED <<linked, alias, links>>
    BY <1>2, ErasureRemoves
  <2>3. req'.brain \in Brains => Known(req'.brain)
    <3>1. CASE UNCHANGED req
      BY <3>1 DEF AllKnown
    <3>2. CASE \E q \in Requests : Request(q)
      BY <3>2, RequestAssumption, GraphAssumption DEF Request, Known
    <3>3. CASE MarkDone
      BY <3>3, GraphAssumption DEF MarkDone, NoRequest
    <3>4. QED
      BY <1>2, <3>1, <3>2, <3>3
         DEF ErasureStep, Sequence, Orchestrate, InitErasureLog, EraseContactPii, EraseGraph,
             ListHashes, PurgeIdentifierCache, CompleteErasure, Plain, Did, LookupFinds,
             LookupMisses, Redeliver, Fail
  <2>4. brainId' \in Brains => Known(brainId')
    <3>1. CASE UNCHANGED brainId \/ brainId' = NoBrain
      BY <3>1, GraphAssumption DEF AllKnown
    <3>2. CASE LookupFinds
      <4>1. \A b \in Targets(req) : b \in Brains /\ req.id \in Ids /\ <<req.id, b>> \in linked
        BY TargetsLinked DEF ErasureTypeOK
      <4>2. \A b \in Targets(req) : Known(Survivor(b))
        BY <4>1, SurvivorReached DEF AllKnown
      <4>3. QED
        BY <3>2, <4>2, GraphAssumption DEF LookupFinds, AllKnown, ErasureTypeOK
    <3>3. QED
      BY <1>2, <3>1, <3>2
         DEF ErasureStep, Sequence, Orchestrate, InitErasureLog, EraseContactPii, EraseGraph,
             ListHashes, PurgeIdentifierCache, CompleteErasure, Plain, Did, Request,
             LookupMisses, MarkDone, Return, Redeliver, Fail
  <2>5. \A b \in Brains : erasureLog'[b] = "complete" => Known(b)
    <3>1. CASE CompleteErasure
      BY <3>1, StepOrder DEF CompleteErasure, ErasureTypeOK, AllKnown
    <3>2. CASE InitErasureLog
      BY <3>2 DEF InitErasureLog, ErasureTypeOK, AllKnown
    <3>3. CASE UNCHANGED erasureLog
      BY <3>3 DEF AllKnown
    <3>4. QED
      BY <1>2, <3>1, <3>2, <3>3
         DEF ErasureStep, Sequence, Orchestrate, EraseContactPii, EraseGraph, ListHashes,
             PurgeIdentifierCache, Plain, LookupFinds, LookupMisses, MarkDone, Redeliver,
             Request, Fail
  <2>6. req' \in [id : Ids \cup {NoId}, brain : Brains \cup {NoBrain}] /\ brainId' \in Brains \cup {NoBrain}
    BY <1>2, ErasureTypes DEF ErasureTypeOK
  <2>7. QED
    BY <2>1, <2>2, <2>3, <2>4, <2>5, <2>6 DEF AllKnown, Known
<1>3. QED
  BY <1>1, <1>2 DEF Next
\* Whatever ends an event clears what was remembered of it.
LEMMA IdleKept ==
  ASSUME IdleForgets, TypeOK, Next
  PROVE  IdleForgets'
<1>1. CASE SilverStep
  BY <1>1, SilverLeavesErasure
     DEF IdleForgets, SilverNext, Consult, ReadState, WriteOutcome, WritePii, Prime, Abort,
         Leave, Expire, graphVars, silverVars
<1>2. CASE ErasureStep
  BY <1>2, ErasureRemoves DEF IdleForgets
<1>3. QED
  BY <1>1, <1>2 DEF Next

\* Every step records the meeting it leads to.
LEMMA OverlapKept ==
  ASSUME Next
  PROVE  Overlap' /\ met \subseteq met'
BY DEF Next, SilverStep, ErasureStep, Meet, Overlap

\* Mint and link write an edge for all that they prime; a merge makes its
\* survivor one that has absorbed another.
LEMMA HeldKept ==
  ASSUME TypeOK, IdleForgets, HeldMeansLinked, Next
  PROVE  HeldMeansLinked'
<1> USE DEF TypeOK, GraphTypeOK
<1>1. CASE SilverStep
  <2>1. SilverNext
    BY <1>1, SilverLeavesErasure
  <2>2. linked \subseteq linked' /\ \A b \in Brains : NothingAbsorbed(b)' => NothingAbsorbed(b)
    BY <2>1, SilverGrows DEF NothingAbsorbed
  <2>3. SUFFICES ASSUME NEW b \in Brains, NEW i \in Ids, NothingAbsorbed(b)'
                 PROVE  /\ cache'[i] = b => <<i, b>> \in linked'
                        /\ <<i, b>> \in links' => <<i, b>> \in linked'
                        /\ outcome' = b /\ i \in event' => <<i, b>> \in linked'
    BY DEF HeldMeansLinked
  <2>4. /\ NothingAbsorbed(b)
        /\ cache[i] = b => <<i, b>> \in linked
        /\ <<i, b>> \in links => <<i, b>> \in linked
        /\ outcome = b /\ i \in event => <<i, b>> \in linked
    BY <2>2, <2>3 DEF HeldMeansLinked
  <2>5. CASE \E E \in Events : Consult(E)
    BY <2>4, <2>5, GraphAssumption DEF Consult, graphVars
  <2>6. CASE ReadState
    <3>1. links' = ExistingLinks(event) /\ UNCHANGED <<linked, alias, cache, event, outcome>>
      BY <2>6 DEF ReadState, graphVars
    <3>2. <<i, b>> \in links' => <<i, b>> \in linked
      BY <2>4, <3>1, LinksRead DEF NothingAbsorbed, SilverTypeOK
    <3>3. QED
      BY <2>4, <3>1, <3>2
  <2>7. CASE WriteOutcome
    <3>1. UNCHANGED <<cache, links, event>>
      BY <2>7 DEF WriteOutcome
    <3>2. outcome' = b /\ i \in event => <<i, b>> \in linked'
      <4>1. SUFFICES ASSUME outcome' = b, i \in event
                     PROVE  <<i, b>> \in linked'
        OBVIOUS
      <4>2. PICK c \in Brains :
               /\ outcome' = c
               /\ \/ WriteLinks(c, event)
                  \/ WriteLinks(c, {j \in event : <<j, c>> \notin links})
                  \/ \E m \in Brains : WriteMerge(m, c)
        BY <2>7, Outcomes
      <4>3. c = b
        BY <4>1, <4>2
      <4>4. CASE WriteLinks(b, event)
        BY <4>1, <4>4 DEF WriteLinks
      <4>5. CASE WriteLinks(b, {j \in event : <<j, b>> \notin links})
        BY <2>2, <2>4, <4>1, <4>5 DEF WriteLinks
      <4>6. CASE \E m \in Brains : WriteMerge(m, b)
        BY <2>3, <4>6 DEF WriteMerge, NothingAbsorbed
      <4>7. QED
        BY <4>2, <4>3, <4>4, <4>5, <4>6
    <3>3. QED
      BY <2>2, <2>4, <3>1, <3>2
  <2>8. CASE WritePii
    BY <2>4, <2>8 DEF WritePii, graphVars
  <2>9. CASE Prime
    <3>1. PICK T \in SUBSET event : PrimeMany(T, outcome)
      BY <2>9 DEF Prime
    <3>2. cache'[i] = b => cache[i] = b \/ (i \in event /\ outcome = b)
      BY <3>1 DEF PrimeMany
    <3>3. linked' = linked /\ links' = {} /\ event' = {}
      BY <2>9 DEF Prime, Leave, graphVars
    <3>4. QED
      BY <2>4, <3>2, <3>3
  <2>10. CASE Abort
    BY <2>4, <2>10 DEF Abort, Leave, graphVars
  <2>11. CASE \E j \in Ids : Expire(j)
    BY <2>4, <2>11, GraphAssumption DEF Expire, graphVars, silverVars
  <2>12. QED
    BY <2>1, <2>5, <2>6, <2>7, <2>8, <2>9, <2>10, <2>11 DEF SilverNext
<1>2. CASE ErasureStep
  BY <1>2, ErasureRemoves, GraphAssumption DEF HeldMeansLinked, NothingAbsorbed
<1>3. QED
  BY <1>1, <1>2 DEF Next

\* While an erasure has met no event, the job stays between events, and only the
\* expiry of a cache entry can come between two of its steps.
LEMMA Alone ==
  ASSUME IdleForgets, Overlap, SilverStep, ePc # "idle", brainId \in Brains, brainId \notin met'
  PROVE  /\ UNCHANGED <<linked, active, lifecycle, alias, contactPii, event, links, outcome>>
         /\ \E i \in Ids : cache' = [cache EXCEPT ![i] = NoBrain]
<1>1. SilverNext /\ Meet /\ UNCHANGED <<ePc, brainId>>
  BY SilverLeavesErasure
<1>2. sPc = "idle"
  BY <1>1 DEF Overlap, Meet
<1>3. sPc' = "idle"
  BY <1>1 DEF Meet
<1>4. QED
  BY <1>1, <1>2, <1>3, SilverIdle

\* Each step of the sequence leaves behind what the later ones rely on.
LEMMA ProgressKept ==
  ASSUME TypeOK, IdleForgets, Overlap, HeldMeansLinked, Progress, Next
  PROVE  Progress'
<1> USE DEF PastContact, PastGraph, PastPurge
<1>1. SUFFICES ASSUME brainId' \in Brains, brainId' \notin met', NothingAbsorbed(brainId)'
               PROVE  /\ ePc' \in PastContact => brainId' \notin contactPii'
                      /\ ePc' \in PastGraph => \A i \in Ids : <<i, brainId'>> \notin active'
                      /\ ePc' = "purge" => \A i \in Ids : <<i, brainId'>> \in linked' => i \in hashes'
                      /\ ePc' \in PastPurge => \A i \in Ids : cache'[i] # brainId'
  BY DEF Progress
<1>2. CASE SilverStep
  <2>1. UNCHANGED <<ePc, brainId, hashes>>
    BY <1>2, SilverLeavesErasure
  <2>2. CASE ePc = "idle"
    BY <2>1, <2>2
  <2>3. CASE ePc # "idle"
    <3>1. /\ UNCHANGED <<linked, active, lifecycle, alias, contactPii>>
          /\ \E i \in Ids : cache' = [cache EXCEPT ![i] = NoBrain]
      BY <1>1, <1>2, <2>1, <2>3, Alone
    <3>2. NothingAbsorbed(brainId) /\ brainId \notin met
      BY <1>1, <1>2, <2>1, <3>1, OverlapKept DEF NothingAbsorbed, Next
    <3>3. \A i \in Ids : cache'[i] \in {cache[i], NoBrain}
      BY <3>1 DEF TypeOK, GraphTypeOK
    <3>4. QED
      BY <1>1, <2>1, <3>1, <3>2, <3>3, GraphAssumption DEF Progress
  <2>4. QED
    BY <2>2, <2>3
<1>3. CASE ErasureStep
  <2>1. /\ UNCHANGED <<linked, alias>>
        /\ active' \subseteq active /\ contactPii' \subseteq contactPii
        /\ \A i \in Ids : cache'[i] \in {cache[i], NoBrain}
    BY <1>3, ErasureRemoves
  <2>2. brainId' \notin met /\ (brainId' = brainId => NothingAbsorbed(brainId))
    BY <1>1, <1>3, <2>1, OverlapKept DEF NothingAbsorbed, Next
  <2>3. CASE ePc' \notin PastContact
    BY <2>3
  <2>4. CASE EraseContactPii
    BY <1>1, <2>1, <2>4, StepOrder DEF EraseContactPii, Did
  <2>5. CASE EraseGraph
    <3>1. ePc' = "recompute" /\ brainId' = brainId /\ ePc = "graph"
      BY <2>5, StepOrder DEF EraseGraph, Did
    <3>2. \A i \in Ids : <<i, brainId>> \notin active'
      BY <2>5 DEF EraseGraph, EraseSubjectGraph
    <3>3. brainId \notin contactPii'
      BY <1>1, <2>1, <2>2, <3>1 DEF Progress
    <3>4. QED
      BY <3>1, <3>2, <3>3
  <2>6. CASE ListHashes
    <3>1. ePc' = "purge" /\ brainId' = brainId /\ ePc = "list" /\ hashes' = IdentifiersOf(brainId)
      BY <2>6, StepOrder DEF ListHashes, Did
    <3>2. \A i \in Ids : <<i, brainId>> \in linked => i \in hashes'
      BY <1>1, <3>1 DEF IdentifiersOf
    <3>3. QED
      BY <1>1, <2>1, <2>2, <3>1, <3>2 DEF Progress
  <2>7. CASE PurgeIdentifierCache
    <3>1. ePc' = "bronze" /\ brainId' = brainId /\ ePc = "purge" /\ PurgeSubjectHashes(PurgeSet)
      BY <2>7, StepOrder DEF PurgeIdentifierCache, Did
    <3>2. \A i \in Ids : <<i, brainId>> \in linked => i \in PurgeSet
      BY <1>1, <2>2, <3>1 DEF Progress, PurgeSet
    <3>3. \A i \in Ids : cache'[i] # brainId
      BY <1>1, <2>2, <3>1, <3>2, GraphAssumption
         DEF PurgeSubjectHashes, HeldMeansLinked
    <3>4. QED
      BY <1>1, <2>1, <2>2, <3>1, <3>3 DEF Progress
  <2>8. CASE \E s \in {"shred", "surrogate", "recompute", "bronze", "capi"} : Plain(s)
    <3>1. /\ brainId' = brainId /\ UNCHANGED <<hashes, cache>>
          /\ <<ePc, ePc'>> \in {<<"shred", "contact">>, <<"surrogate", "graph">>,
                <<"recompute", "list">>, <<"bronze", "capi">>, <<"capi", "complete">>}
      BY <2>8, StepOrder DEF Plain, Did
    <3>2. QED
      BY <1>1, <2>1, <2>2, <3>1 DEF Progress
  <2>9. CASE InitErasureLog \/ CompleteErasure \/ Orchestrate \/ Fail
             \/ \E q \in Requests : Request(q)
    BY <2>3, <2>9, StepOrder
       DEF InitErasureLog, CompleteErasure, Did, Orchestrate, LookupFinds, LookupMisses,
           MarkDone, Redeliver, Fail, Request
  <2>10. QED
    BY <1>3, <2>4, <2>5, <2>6, <2>7, <2>8, <2>9 DEF ErasureStep, Sequence
<1>4. QED
  BY <1>2, <1>3 DEF Next
\* What is gone at completion stays gone: nothing the job reads leads there.
LEMMA GoneKept ==
  ASSUME TypeOK, AllKnown, IdleForgets, Overlap, HeldMeansLinked, Progress, Gone, Next
  PROVE  Gone'
<1> USE DEF TypeOK, GraphTypeOK
<1>1. SUFFICES ASSUME NEW b \in Brains, erasureLog'[b] = "complete", b \notin met',
                      NothingAbsorbed(b)'
               PROVE  /\ Forgotten(b)'
                      /\ outcome' # b
                      /\ \A i \in Ids : <<i, b>> \notin links'
  BY DEF Gone
<1>2. b \notin met
  BY <1>1, OverlapKept
<1>3. CASE SilverStep
  <2>1. SilverNext /\ erasureLog' = erasureLog
    BY <1>3, SilverLeavesErasure
  <2>2. NothingAbsorbed(b)
    BY <1>1, <2>1, SilverGrows DEF NothingAbsorbed
  <2>3. /\ Forgotten(b) /\ outcome # b /\ Known(b)
        /\ \A i \in Ids : <<i, b>> \notin links
    BY <1>1, <1>2, <2>1, <2>2 DEF Gone, AllKnown
  <2>4. CASE \E E \in Events : Consult(E)
    <3>1. PICK E \in Events : Consult(E)
      BY <2>4
    <3>2. PICK i \in Ids : i \in E
      BY EventAssumption
    <3>3. outcome' # b
      BY <2>3, <3>1, <3>2, GraphAssumption DEF Consult, Forgotten
    <3>4. QED
      BY <2>3, <3>1, <3>3 DEF Consult, graphVars, Forgotten
  <2>5. CASE ReadState
    <3>1. links' = ExistingLinks(event) /\ UNCHANGED <<active, cache, contactPii, outcome>>
      BY <2>5 DEF ReadState, graphVars
    <3>2. \A i \in Ids : <<i, b>> \notin links'
      BY <2>2, <2>3, <3>1, LinksRead DEF NothingAbsorbed, Forgotten, SilverTypeOK
    <3>3. QED
      BY <2>3, <3>1, <3>2 DEF Forgotten
  <2>6. CASE WriteOutcome
    <3>1. UNCHANGED <<cache, contactPii, links>>
      BY <2>6 DEF WriteOutcome
    <3>2. PICK c \in Brains :
             /\ outcome' = c
             /\ \/ /\ lifecycle[c] = "none"
                   /\ WriteLinks(c, event)
                \/ /\ \E i \in event : <<i, c>> \in links
                   /\ WriteLinks(c, {i \in event : <<i, c>> \notin links})
                \/ \E m \in Brains :
                     /\ \E i \in event : <<i, c>> \in links
                     /\ WriteMerge(m, c)
      BY <2>6, Outcomes
    <3>3. c # b
      BY <2>3, <3>2 DEF Known, SilverTypeOK
    <3>4. \A i \in Ids : <<i, b>> \notin active'
      <4>1. ASSUME NEW E \in SUBSET event, WriteLinks(c, E)
            PROVE  \A i \in Ids : <<i, b>> \notin active'
        BY <2>3, <3>3, <4>1 DEF WriteLinks, Forgotten
      <4>2. ASSUME NEW m \in Brains, WriteMerge(m, c)
            PROVE  \A i \in Ids : <<i, b>> \notin active'
        BY <2>3, <4>2 DEF WriteMerge, Forgotten
      <4>3. QED
        BY <3>2, <4>1, <4>2
    <3>5. QED
      BY <2>3, <3>1, <3>2, <3>3, <3>4 DEF Forgotten
  <2>7. CASE WritePii
    BY <2>3, <2>7 DEF WritePii, graphVars, Forgotten
  <2>8. CASE Prime
    <3>1. PICK T \in SUBSET event : PrimeMany(T, outcome)
      BY <2>8 DEF Prime
    <3>2. \A i \in Ids : cache'[i] # b
      BY <2>3, <3>1 DEF PrimeMany, Forgotten
    <3>3. UNCHANGED <<active, contactPii>> /\ links' = {} /\ outcome' = NoBrain
      BY <2>8 DEF Prime, Leave, graphVars
    <3>4. QED
      BY <2>3, <3>2, <3>3, GraphAssumption DEF Forgotten
  <2>9. CASE Abort
    BY <2>3, <2>9, GraphAssumption DEF Abort, Leave, graphVars, Forgotten
  <2>10. CASE \E i \in Ids : Expire(i)
    BY <2>3, <2>10, GraphAssumption DEF Expire, graphVars, silverVars, Forgotten
  <2>11. QED
    BY <2>1, <2>4, <2>5, <2>6, <2>7, <2>8, <2>9, <2>10 DEF SilverNext
<1>4. CASE ErasureStep
  <2>1. /\ UNCHANGED <<alias, sPc, links, outcome>>
        /\ active' \subseteq active /\ contactPii' \subseteq contactPii
        /\ \A i \in Ids : cache'[i] \in {cache[i], NoBrain}
    BY <1>4, ErasureRemoves
  <2>2. NothingAbsorbed(b)
    BY <1>1, <2>1 DEF NothingAbsorbed
  <2>3. CASE erasureLog[b] = "complete"
    BY <1>2, <2>1, <2>2, <2>3, GraphAssumption DEF Gone, Forgotten
  <2>4. CASE erasureLog[b] # "complete"
    <3>1. CompleteErasure /\ brainId = b
      <4>1. CASE InitErasureLog
        BY <1>1, <2>4, <4>1, StepOrder DEF InitErasureLog, Did, ErasureTypeOK
      <4>2. CASE CompleteErasure
        BY <1>1, <2>4, <4>2, StepOrder DEF CompleteErasure, ErasureTypeOK
      <4>3. CASE UNCHANGED erasureLog
        BY <1>1, <2>4, <4>3
      <4>4. QED
        BY <1>4, <4>1, <4>2, <4>3
           DEF ErasureStep, Sequence, Orchestrate, EraseContactPii, EraseGraph, ListHashes,
               PurgeIdentifierCache, Plain, LookupFinds, LookupMisses, MarkDone, Redeliver,
               Request, Fail
    <3>2. ePc = "complete" /\ ePc' = "settle" /\ brainId' = brainId
      BY <3>1 DEF CompleteErasure
    <3>3. Forgotten(b)
      BY <1>2, <2>2, <3>1, <3>2 DEF Progress, PastContact, PastGraph, PastPurge, Forgotten
    <3>4. sPc = "idle"
      BY <1>2, <3>1, <3>2 DEF Overlap
    <3>5. QED
      BY <2>1, <3>3, <3>4, GraphAssumption DEF IdleForgets, Forgotten
  <2>5. QED
    BY <2>3, <2>4
<1>5. QED
  BY <1>3, <1>4 DEF Next

\* Edges are tombstoned, never removed, so a subject found once is found again.
LEMMA FoundKept ==
  ASSUME TypeOK, TypeOK', Found, Next
  PROVE  Found' /\ (ePc = "lookup" /\ opened # {} => ePc' # "settle")
<1> USE DEF TypeOK
<1>1. ASSUME UNCHANGED req, linked \subseteq linked'
      PROVE  Findable => Findable'
  <2>1. req'.id \in Ids \cup {NoId}
    BY DEF ErasureTypeOK
  <2>2. Findable' <=> \/ req'.brain \in Brains
                      \/ \E b \in Brains : req'.id \in Ids /\ <<req'.id, b>> \in linked'
    <3>1. /\ \A b \in Targets(req)' : req'.id \in Ids /\ b \in Brains /\ <<req'.id, b>> \in linked'
          /\ \A b \in Brains : req'.id \in Ids /\ <<req'.id, b>> \in linked' => Targets(req)' # {}
      BY <2>1, RequestAssumption DEF Targets, LookupTargets, GraphTypeOK
    <3>2. QED
      BY <3>1 DEF Findable
  <2>3. QED
    BY <1>1, <2>2, FindableLinked DEF ErasureTypeOK
<1>2. CASE SilverStep
  BY <1>1, <1>2, SilverLeavesErasure, SilverGrows DEF Found
<1>3. CASE ErasureStep
  <2>1. linked' = linked
    BY <1>3, ErasureRemoves
  <2>2. CASE Sequence
    <3>1. ePc \in Steps /\ UNCHANGED req
      BY <2>2, StepOrder
         DEF Sequence, InitErasureLog, EraseContactPii, EraseGraph, ListHashes,
             PurgeIdentifierCache, CompleteErasure, Plain, Did
    <3>2. QED
      BY <1>1, <2>1, <3>1, StepOrder DEF Found
  <2>3. CASE LookupFinds
    <3>1. Findable /\ UNCHANGED req
      BY <2>3 DEF LookupFinds, Findable, ErasureTypeOK
    <3>2. QED
      BY <1>1, <2>1, <2>3, <3>1 DEF Found, LookupFinds
  <2>4. CASE LookupMisses
    <3>1. ~Findable /\ UNCHANGED <<req, opened>> /\ ePc = "lookup" /\ ePc' = "settle"
      BY <2>4, GraphAssumption DEF LookupMisses, Findable
    <3>2. opened = {}
      BY <3>1 DEF Found
    <3>3. QED
      BY <3>1, <3>2, StepOrder DEF Found
  <2>5. CASE MarkDone
    BY <2>5, StepOrder DEF MarkDone, Found
  <2>6. CASE Redeliver \/ Fail
    <3>1. UNCHANGED <<req, opened>> /\ ePc # "idle" /\ ePc' \in {"lookup", "parked"}
      BY <2>6 DEF Redeliver, Fail
    <3>2. QED
      BY <1>1, <2>1, <3>1, StepOrder DEF Found
  <2>7. CASE \E q \in Requests : Request(q)
    BY <2>7, StepOrder DEF Request, Found
  <2>8. QED
    BY <1>3, <2>2, <2>3, <2>4, <2>5, <2>6, <2>7 DEF ErasureStep, Orchestrate
<1>4. QED
  BY <1>2, <1>3 DEF Next

-----------------------------------------------------------------------------
(* The invariant.                                                           *)

\* The invariant holds at the start.
LEMMA IInvInit ==
  ASSUME Init
  PROVE  IInv
<1> USE DEF Init, GraphInit, SilverInit, NoRequest
<1>1. TypeOK
  BY RequestAssumption, GraphAssumption, StepOrder
     DEF TypeOK, GraphTypeOK, SilverTypeOK, ErasureTypeOK
<1>2. AllKnown /\ IdleForgets /\ Overlap
  BY GraphAssumption DEF AllKnown, IdleForgets, Overlap
<1>3. HeldMeansLinked /\ Progress /\ Gone
  BY GraphAssumption DEF HeldMeansLinked, Progress, Gone
<1>4. Found
  BY StepOrder DEF Found
<1>5. QED
  BY <1>1, <1>2, <1>3, <1>4 DEF IInv

\* Every step keeps it.
LEMMA IInvKept ==
  ASSUME IInv, [Next]_vars
  PROVE  IInv'
<1>1. TypeOK'
  BY TypesKept DEF IInv
<1>2. CASE Next
  BY <1>1, <1>2, KnownKept, IdleKept, OverlapKept, HeldKept, ProgressKept, GoneKept, FoundKept
     DEF IInv
<1>3. CASE UNCHANGED vars
  BY <1>1, <1>3
     DEF IInv, AllKnown, Known, IdleForgets, Overlap, HeldMeansLinked, NothingAbsorbed,
         Progress, Gone, Forgotten, Found, Findable, Targets, LookupTargets, vars, graphVars,
         silverVars, erasureVars
<1>4. QED
  BY <1>2, <1>3

\* So it always holds.
LEMMA SubjectInvariant == Spec => []IInv
<1>1. Init => IInv
  BY IInvInit
<1>2. IInv /\ [Next]_vars => IInv'
  BY IInvKept
<1>3. QED
  BY <1>1, <1>2, PTL DEF Spec

-----------------------------------------------------------------------------
(* The theorems.                                                            *)

\* Every variable keeps its type: among others, no step of an erasure runs
\* without a brain_id and the job writes contact data for customers only.
THEOREM SubjectTypeCorrect == Spec => []TypeOK
<1>1. IInv => TypeOK
  BY DEF IInv
<1>2. QED
  BY <1>1, SubjectInvariant, PTL

\* A completed erasure (completeErasure) leaves no active edge, cache entry or
\* contact row of its customer, and none comes back, however many requests,
\* failures, replays and events there are; for erasures that met no event in
\* the job and customers nobody was merged into.
THEOREM ErasedForGood == Spec => []ErasedStaysErased
<1>1. IInv => ErasedStaysErased
  BY DEF IInv, Gone, ErasedStaysErased
<1>2. QED
  BY <1>1, SubjectInvariant, PTL

\* A replay whose first attempt has opened a log (initErasureLog) never ends as
\* 'no_brain_id': findBrainIdForErasure sees tombstoned edges.
THEOREM ReplaysFind == Spec => ReplayFindsSubject
<1>1. IInv /\ [Next]_vars => [ePc = "lookup" /\ opened # {} => ePc' # "settle"]_vars
  BY FoundKept, TypesKept DEF IInv
<1>2. QED
  BY <1>1, SubjectInvariant, PTL DEF Spec, ReplayFindsSubject
=============================================================================
