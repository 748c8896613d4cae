-------------------------- MODULE IngestionProofs --------------------------
(***************************************************************************)
(* Theorems about ResourceBackfill.tla, for every number of resources,      *)
(* pages, runners, jobs and faults, however runs overlap.                   *)
(***************************************************************************)
EXTENDS ResourceBackfill, TLAPS

USE Bounds

\* A walk goes from the youngest page to the oldest: no page that reaches the
\* floor is followed by one with a record younger than it.
NewestFirst ==
  \A r \in Resources : \A p \in BelowFloor[r] : \A q \in InWindow[r] : q <= p

-----------------------------------------------------------------------------
(* Types.  A runner that may still walk a page has budget left for it.       *)

Typed ==
  /\ TypeOK
  /\ \A w \in Runners : pc[w] \in {"walk", "save"} => left[w] > 0

LEMMA TypedInit == Init => Typed
BY DEF Resources, Init, Typed, TypeOK, Row, Absent, Fresh, RowStatus, JobStatus, Places, Walking, StopReasons

\* What a step of one runner leaves of the types.
LEMMA TypedFinalize ==
  ASSUME TypeOK, NEW w \in Runners, NEW s \in JobStatus, Finalize(w, s)
  PROVE  jobs' \in [Jobs -> JobStatus]
BY DEF TypeOK, Finalize, Jobs

LEMMA TypedRequeue ==
  ASSUME TypeOK, NEW w \in Runners, RequeueForResume(w)
  PROVE  jobs' \in [Jobs -> JobStatus]
BY DEF TypeOK, RequeueForResume, Jobs, JobStatus

\* The locals of a runner, typed.
LocalsOK ==
  /\ pc \in [Runners -> Places]
  /\ job \in [Runners -> 0..MaxJobs]
  /\ res \in [Runners -> Resources]
  /\ mem \in [Runners -> Row]
  /\ left \in [Runners -> 0..ChunkBudget]
  /\ outs \in [Runners -> SUBSET StopReasons]
  /\ \A w \in Runners : pc[w] \in {"walk", "save"} => left[w] > 0

LEMMA TypedLeave ==
  ASSUME Typed, NEW w \in Runners, Leave(w)
  PROVE  LocalsOK'
BY DEF Typed, TypeOK, Leave, LocalsOK, Places, Walking, Row, Fresh, RowStatus, Resources

LEMMA TypedOutcome ==
  ASSUME Typed, NEW w \in Runners, NEW S \in SUBSET StopReasons, Outcome(w, S)
  PROVE  /\ pc' \in [Runners -> Places] /\ job' \in [Runners -> 0..MaxJobs]
         /\ res' \in [Runners -> Resources] /\ outs' \in [Runners -> SUBSET StopReasons]
         /\ pc'[w] \notin {"walk", "save"} /\ \A v \in Runners \ {w} : pc'[v] = pc[v]
<1>1. res[w] \in Resources /\ (res[w] # NResources => res[w] + 1 \in Resources)
  BY DEF Typed, TypeOK, Resources
<1>2. CASE res[w] = NResources
  BY <1>2 DEF Typed, TypeOK, Outcome, Places, Walking
<1>3. CASE res[w] # NResources
  BY <1>1, <1>3 DEF Typed, TypeOK, Outcome, Places, Walking
<1> QED BY <1>2, <1>3

LEMMA TypedUpsert ==
  ASSUME Typed, NEW w \in Runners, NEW m \in Row, Upsert(w, m)
  PROVE  row' \in [Resources -> Row] /\ mem' \in [Runners -> Row]
BY DEF Typed, TypeOK, Upsert

LEMMA RowStays ==
  ASSUME NEW m \in Row, NEW s \in RowStatus
  PROVE  [m EXCEPT !.status = s] \in Row
BY DEF Row

LEMMA TypedNext == Typed /\ [Next]_vars => Typed'
<1> SUFFICES ASSUME Typed, [Next]_vars PROVE Typed' OBVIOUS
<1> USE DEF Typed
<1>1. ASSUME NEW h \in Handlers, CheckActiveJob(h) \/ InsertQueued(h) PROVE Typed'
  BY <1>1 DEF CheckActiveJob, InsertQueued, TypeOK, walk, locals, JobStatus
<1>2. ASSUME NEW w \in Replicas, RequeueStaleRunning(w) PROVE Typed'
  BY <1>2 DEF RequeueStaleRunning, TypeOK, walk, locals, JobStatus
<1>3. ASSUME NEW w \in Replicas, ClaimQueued(w) PROVE Typed'
  BY <1>3 DEF ClaimQueued, TypeOK, walk, Runners, Jobs, JobStatus, Places
<1>4. ASSUME NEW w \in Runners, Repull(w) \/ Drive(w) PROVE Typed'
  BY <1>4 DEF Repull, Drive, TypeOK, queue, walk, Places
<1>5. ASSUME NEW w \in Runners, Settle(w) PROVE Typed'
  <2>1. jobs' \in [Jobs -> JobStatus]
    BY <1>5, TypedFinalize, TypedRequeue DEF Settle, JobStatus
  <2>2. LocalsOK' BY <1>5, TypedLeave DEF Settle
  <2> QED BY <1>5, <2>1, <2>2 DEF Settle, TypeOK, LocalsOK, walk
<1>6. ASSUME NEW w \in Runners, BuildFetcher(w) PROVE Typed'
  BY <1>6 DEF BuildFetcher, Goto, TypeOK, queue, walk, Places, Walking
<1>7. ASSUME NEW w \in Runners, SkipResource(w) PROVE Typed'
  BY <1>7, TypedOutcome DEF SkipResource, TypeOK, queue, walk
<1>8. ASSUME NEW w \in Runners, FindByResource(w) PROVE Typed'
  <2>1. CASE Outcome(w, {"completed"}) /\ UNCHANGED mem
    BY <1>8, <2>1, TypedOutcome DEF FindByResource, TypeOK, queue, walk, StopReasons
  <2>2. CASE Goto(w, "start") /\ mem' = [mem EXCEPT ![w] =
                     IF row[res[w]] = Absent THEN Fresh ELSE row[res[w]]]
    BY <1>8, <2>2 DEF FindByResource, Goto, TypeOK, queue, walk, Places, Walking, Row, Fresh, RowStatus
  <2> QED BY <1>8, <2>1, <2>2 DEF FindByResource
<1>9. ASSUME NEW w \in Runners, Start(w) PROVE Typed'
  <2>1. row' \in [Resources -> Row] /\ mem' \in [Runners -> Row]
    BY <1>9, TypedUpsert, RowStays DEF Start, TypeOK, RowStatus
  <2>2. left' \in [Runners -> 0..ChunkBudget] /\ pc' \in [Runners -> Places]
    BY <1>9 DEF Start, Goto, TypeOK, Places, Walking
  <2>3. \A v \in Runners : pc'[v] \in {"walk", "save"} => left'[v] > 0
    BY <1>9 DEF Start, Goto, TypeOK
  <2> QED BY <1>9, <2>1, <2>2, <2>3 DEF Start, Goto, TypeOK, queue
<1>10. ASSUME NEW w \in Runners, DeliverPage(w) PROVE Typed'
  <2>1. mem[w].cursor + 1 \in 1..Pages BY DEF TypeOK, Row
  <2>2. landed' \in [Resources -> SUBSET (1..Pages)] BY <1>10, <2>1 DEF DeliverPage, TypeOK
  <2> QED BY <1>10, <2>2 DEF DeliverPage, Goto, TypeOK, queue, Places, Walking
<1>11. ASSUME NEW w \in Runners, LastPage(w) PROVE Typed'
  <2>0. mem[w] \in Row /\ Deepened(w) \in BOOLEAN BY DEF TypeOK, Row, Deepened
  <2>1. [mem[w] EXCEPT !.status = "completed", !.reached = Deepened(w)] \in Row
    BY <2>0 DEF Row, RowStatus
  <2>2. row' \in [Resources -> Row] /\ mem' \in [Runners -> Row]
    BY <1>11, <2>1, TypedUpsert DEF LastPage
  <2> QED BY <1>11, <2>2, TypedOutcome DEF LastPage, TypeOK, queue, StopReasons
<1>12. ASSUME NEW w \in Runners, Checkpoint(w) PROVE Typed'
  <2>1. [status |-> "running", cursor |-> mem[w].cursor + 1, reached |-> Deepened(w)] \in Row
    BY <1>12 DEF Checkpoint, TypeOK, Row, RowStatus, Deepened
  <2>2. row' \in [Resources -> Row] /\ mem' \in [Runners -> Row]
    BY <1>12, <2>1, TypedUpsert DEF Checkpoint
  <2>3. left' \in [Runners -> 0..ChunkBudget] /\ pc' \in [Runners -> Places]
    BY <1>12 DEF Checkpoint, Goto, TypeOK, Places, Walking
  <2>4. \A v \in Runners : pc'[v] \in {"walk", "save"} => left'[v] > 0
    BY <1>12 DEF Checkpoint, Goto, TypeOK
  <2> QED BY <1>12, <2>2, <2>3, <2>4 DEF Checkpoint, Goto, TypeOK, queue
<1>13. ASSUME NEW w \in Runners, FloorReached(w) PROVE Typed'
  <2>1. row' \in [Resources -> Row] /\ mem' \in [Runners -> Row]
    BY <1>13, TypedUpsert, RowStays DEF FloorReached, TypeOK, RowStatus
  <2> QED BY <1>13, <2>1, TypedOutcome DEF FloorReached, TypeOK, queue, StopReasons
<1>14. ASSUME NEW w \in Runners, Pause(w) PROVE Typed'
  <2>1. row' \in [Resources -> Row] /\ mem' \in [Runners -> Row]
    BY <1>14, TypedUpsert, RowStays DEF Pause, TypeOK, RowStatus
  <2> QED BY <1>14, <2>1, TypedOutcome DEF Pause, TypeOK, queue, StopReasons
<1>15. ASSUME NEW w \in Runners, SaltFails(w) PROVE Typed'
  <2>1. jobs' \in [Jobs -> JobStatus] BY <1>15, TypedFinalize DEF SaltFails, JobStatus
  <2>2. LocalsOK' BY <1>15, TypedLeave DEF SaltFails
  <2> QED BY <1>15, <2>1, <2>2 DEF SaltFails, Fault, TypeOK, LocalsOK, walk
<1>16. ASSUME NEW w \in Runners, FetchFails(w) PROVE Typed'
  <2>1. row' \in [Resources -> Row] /\ mem' \in [Runners -> Row]
    BY <1>16, TypedUpsert, RowStays DEF FetchFails, TypeOK, RowStatus
  <2> QED BY <1>16, <2>1, TypedOutcome DEF FetchFails, Fault, TypeOK, queue, StopReasons
<1>17. ASSUME NEW w \in Runners, ResourceThrows(w) PROVE Typed'
  BY <1>17, TypedOutcome DEF ResourceThrows, Fault, TypeOK, queue, walk, StopReasons
<1>18. ASSUME NEW w \in Runners, Crash(w) PROVE Typed'
  <2>1. LocalsOK' BY <1>18, TypedLeave DEF Crash
  <2> QED BY <1>18, <2>1 DEF Crash, Fault, TypeOK, LocalsOK, queue, walk
<1>19. CASE UNCHANGED vars
  BY <1>19 DEF vars, TypeOK
<1> QED
  BY <1>1, <1>2, <1>3, <1>4, <1>5, <1>6, <1>7, <1>8, <1>9, <1>10, <1>11, <1>12, <1>13,
     <1>14, <1>15, <1>16, <1>17, <1>18, <1>19 DEF Next, Advance, Interrupt, Runners

\* The rows, the jobs and every runner's locals keep their types.
THEOREM BackfillTypeCorrect == Spec => []TypeOK
<1>1. Typed => TypeOK BY DEF Typed
<1> QED BY <1>1, TypedInit, TypedNext, PTL DEF Spec

-----------------------------------------------------------------------------
(* Nothing is passed over.  Covered says of a state of resource r, whoever   *)
(* holds it, that the pages behind its cursor are delivered, and the whole   *)
(* window once the floor is reached.  It only speaks of landed, which grows, *)
(* so a runner's copy stays covered whatever the others write.               *)

Covered(r, m, D) ==
  /\ 1..m.cursor \subseteq D
  /\ m.reached \/ m.status = "completed" => InWindow[r] \subseteq D

RowsCovered == \A r \in Resources : Covered(r, row[r], landed[r])

CopyCovered(w) ==
  /\ pc[w] \in Walking \ {"load"} => Covered(res[w], mem[w], landed[res[w]])
  /\ pc[w] = "save" => mem[w].cursor + 1 \in landed[res[w]]
  /\ pc[w] = "floor" => mem[w].reached

\* The windows of the resources below n that have a fetcher are delivered.
WholeBelow(n, L) ==
  \A r \in Resources \ MayLack : r < n => InWindow[r] \subseteq L[r]

\* What a runner's outcomes say is true, as long as all say "completed".
OutcomesTrue(w) ==
  /\ pc[w] \in {"idle", "claimed"} => outs[w] = {} /\ res[w] = 1
  /\ outs[w] \subseteq {"completed"} =>
       WholeBelow(IF pc[w] = "settle" THEN NResources + 1 ELSE res[w], landed)

Inv ==
  /\ RowsCovered
  /\ \A w \in Runners : CopyCovered(w) /\ OutcomesTrue(w)
  /\ CompletedJobDelivered

LEMMA InvInit == Init => Inv
BY DEF Init, Inv, RowsCovered, Covered, Absent, CopyCovered, OutcomesTrue, Walking,
       WholeBelow, CompletedJobDelivered, Resources

LEMMA InvImplies == Typed /\ Inv => CursorPassesOnlyDelivered /\ WindowDelivered /\ CompletedJobDelivered
BY DEF Typed, TypeOK, Inv, RowsCovered, Covered, CopyCovered, CursorPassesOnlyDelivered,
       WindowDelivered, Walking

Grows == \A r \in Resources : landed[r] \subseteq landed'[r]

\* What a step of runner w alone leaves of the others.
Alone(w) ==
  \A v \in Runners \ {w} :
    pc'[v] = pc[v] /\ res'[v] = res[v] /\ mem'[v] = mem[v] /\ outs'[v] = outs[v]

LEMMA CoveredGrows ==
  ASSUME Grows, NEW r \in Resources, NEW m \in Row, Covered(r, m, landed[r])
  PROVE  Covered(r, m, landed'[r])
BY DEF Grows, Covered

LEMMA WholeGrows ==
  ASSUME Grows, NEW n \in Nat, WholeBelow(n, landed)
  PROVE  WholeBelow(n, landed')
BY DEF Grows, WholeBelow

LEMMA StayPut ==
  ASSUME Typed, Grows, NEW v \in Runners, CopyCovered(v), OutcomesTrue(v),
         pc'[v] = pc[v], res'[v] = res[v], mem'[v] = mem[v], outs'[v] = outs[v]
  PROVE  CopyCovered(v)' /\ OutcomesTrue(v)'
<1>1. mem[v] \in Row /\ res[v] \in Resources BY DEF Typed, TypeOK
<1>2. CopyCovered(v)' BY <1>1, CoveredGrows DEF CopyCovered, Covered, Grows
<1>3. OutcomesTrue(v)' BY <1>1 DEF OutcomesTrue, WholeBelow, Grows, Resources
<1> QED BY <1>2, <1>3

\* The rows after a step: the driven one is covered, the others only gain.
LEMMA RowsStay ==
  ASSUME Typed, RowsCovered, Grows, UNCHANGED row
  PROVE  RowsCovered'
BY CoveredGrows DEF RowsCovered, Covered, Grows, Typed, TypeOK

LEMMA RowsUpsert ==
  ASSUME Typed, RowsCovered, Grows, NEW w \in Runners, NEW m \in Row,
         Upsert(w, m), Covered(res[w], m, landed'[res[w]])
  PROVE  RowsCovered'
<1> SUFFICES ASSUME NEW r \in Resources PROVE Covered(r, row'[r], landed'[r]) BY DEF RowsCovered
<1>1. CASE r = res[w]
  <2>1. row'[r] = m BY <1>1 DEF Upsert, Typed, TypeOK
  <2> QED BY <1>1, <2>1 DEF Covered
<1>2. CASE r # res[w]
  BY <1>2 DEF Upsert, Typed, TypeOK, Covered, RowsCovered, Grows
<1> QED BY <1>1, <1>2

LEMMA JobsStay ==
  ASSUME Typed, CompletedJobDelivered, Grows,
         \A j \in Jobs : jobs'[j] = "completed" => jobs[j] = "completed"
  PROVE  CompletedJobDelivered'
BY DEF CompletedJobDelivered, Grows, Resources

\* A runner that has an outcome tells the truth of it.
LEMMA OutcomeTrue ==
  ASSUME Typed, Grows, NEW w \in Runners, OutcomesTrue(w), NEW S \in SUBSET StopReasons,
         pc[w] \in {"build"} \cup Walking, Outcome(w, S),
         S \subseteq {"completed"} =>
           res[w] \in MayLack \/ InWindow[res[w]] \subseteq landed'[res[w]]
  PROVE  CopyCovered(w)' /\ OutcomesTrue(w)'
<1>1. res[w] \in Resources /\ pc'[w] \in {"build", "settle"} BY DEF Typed, TypeOK, Outcome
<1>2. CopyCovered(w)' BY <1>1 DEF CopyCovered, Walking
<1>3. outs'[w] = outs[w] \cup S BY DEF Typed, TypeOK, Outcome
<1>4. ASSUME outs'[w] \subseteq {"completed"} PROVE WholeBelow(res[w] + 1, landed')
  <2>1. outs[w] \subseteq {"completed"} /\ S \subseteq {"completed"} BY <1>3, <1>4
  <2>2. WholeBelow(res[w], landed) BY <2>1, <1>1 DEF OutcomesTrue, Walking
  <2> SUFFICES ASSUME NEW r \in Resources \ MayLack, r < res[w] + 1
               PROVE  InWindow[r] \subseteq landed'[r] BY DEF WholeBelow
  <2>3. CASE r = res[w] BY <2>1, <2>3
  <2>4. CASE r # res[w] BY <2>2, <2>4, <1>1 DEF WholeBelow, Grows, Resources
  <2> QED BY <2>3, <2>4
<1>5. CASE res[w] = NResources
  <2>1. pc'[w] = "settle" BY <1>5 DEF Typed, TypeOK, Outcome
  <2> QED BY <1>2, <1>4, <1>5, <2>1 DEF OutcomesTrue, WholeBelow
<1>6. CASE res[w] # NResources
  <2>1. pc'[w] = "build" /\ res'[w] = res[w] + 1 BY <1>6 DEF Typed, TypeOK, Outcome
  <2> QED BY <1>2, <1>4, <2>1 DEF OutcomesTrue, WholeBelow
<1> QED BY <1>5, <1>6

\* A runner that goes on within a resource.
LEMMA GoneOn ==
  ASSUME Typed, Grows, NEW w \in Runners, OutcomesTrue(w),
         pc[w] \in {"build"} \cup Walking, NEW place \in Walking, Goto(w, place)
  PROVE  OutcomesTrue(w)'
BY DEF Typed, TypeOK, Goto, OutcomesTrue, WholeBelow, Grows, Walking, Resources

\* A runner that leaves has nothing left to answer for.
LEMMA Left ==
  ASSUME Typed, NEW w \in Runners, Leave(w)
  PROVE  CopyCovered(w)' /\ OutcomesTrue(w)' /\ Alone(w)
<1>1. pc'[w] = "idle" /\ outs'[w] = {} /\ res'[w] = 1 BY DEF Leave, Typed, TypeOK
<1>2. Alone(w) BY DEF Leave, Typed, TypeOK, Alone
<1> QED BY <1>1, <1>2 DEF CopyCovered, OutcomesTrue, WholeBelow, Walking, Resources

LEMMA OutcomeAlone ==
  ASSUME Typed, NEW w \in Runners, NEW S, Outcome(w, S),
         \A v \in Runners \ {w} : mem'[v] = mem[v]
  PROVE  Alone(w)
BY DEF Outcome, Alone, Typed, TypeOK

LEMMA GotoAlone ==
  ASSUME Typed, NEW w \in Runners, NEW place, Goto(w, place),
         \A v \in Runners \ {w} : mem'[v] = mem[v]
  PROVE  Alone(w)
BY DEF Goto, Alone, Typed, TypeOK

LEMMA UpsertAlone ==
  ASSUME Typed, NEW w \in Runners, NEW m, Upsert(w, m)
  PROVE  mem'[w] = m /\ \A v \in Runners \ {w} : mem'[v] = mem[v]
BY DEF Upsert, Typed, TypeOK

\* One runner moves, the rest follows.
LEMMA OneMoves ==
  ASSUME Typed, Inv, Grows, NEW w \in Runners, Alone(w),
         CopyCovered(w)', OutcomesTrue(w)', RowsCovered', CompletedJobDelivered'
  PROVE  Inv'
<1>1. ASSUME NEW v \in Runners PROVE CopyCovered(v)' /\ OutcomesTrue(v)'
  BY <1>1, StayPut DEF Alone, Inv
<1> QED BY <1>1 DEF Inv

LEMMA LandedStays == UNCHANGED landed => Grows
BY DEF Grows

\* The queue's own steps leave the runners' words alone; a claim begins anew.
LEMMA InvQueue ==
  ASSUME Typed, Inv, UNCHANGED walk, NEW w \in Runners, UNCHANGED <<res, mem, outs>>,
         Alone(w),
         \/ pc'[w] = pc[w]
         \/ pc[w] \in {"idle", "claimed"} /\ pc'[w] \in {"claimed", "build"},
         \A j \in Jobs : jobs'[j] = "completed" => jobs[j] = "completed"
  PROVE  Inv'
<1>1. Grows BY LandedStays DEF walk
<1>2. RowsCovered' BY <1>1, RowsStay DEF walk, Inv
<1>3. CompletedJobDelivered' BY <1>1, JobsStay DEF Inv
<1>4. CASE pc'[w] = pc[w]
  BY <1>1, <1>2, <1>3, <1>4, StayPut, OneMoves DEF Inv
<1>5. CASE pc[w] \in {"idle", "claimed"} /\ pc'[w] \in {"claimed", "build"}
  <2>1. outs[w] = {} /\ res[w] = 1 BY <1>5 DEF Inv, OutcomesTrue
  <2>2. CopyCovered(w)' BY <1>5 DEF CopyCovered, Walking
  <2>3. OutcomesTrue(w)' BY <1>5, <2>1 DEF OutcomesTrue, WholeBelow, Resources
  <2> QED BY <1>1, <1>2, <1>3, <2>2, <2>3, OneMoves
<1> QED BY <1>4, <1>5

LEMMA InvSettle ==
  ASSUME Typed, Inv, NEW w \in Runners, Settle(w)
  PROVE  Inv'
<1>1. Grows /\ UNCHANGED row BY LandedStays DEF Settle, walk
<1>2. RowsCovered' BY <1>1, RowsStay DEF Inv
<1>3. CopyCovered(w)' /\ OutcomesTrue(w)' /\ Alone(w) BY Left DEF Settle
<1>4. CASE outs[w] = {"completed"} /\ Finalize(w, "completed")
  <2>1. \A r \in Resources \ MayLack : InWindow[r] \subseteq landed[r]
    BY <1>4 DEF Inv, OutcomesTrue, WholeBelow, Settle, Resources
  <2>2. CompletedJobDelivered' BY <2>1, <1>1 DEF CompletedJobDelivered, Grows
  <2> QED BY <1>1, <1>2, <1>3, <2>2, OneMoves
<1>5. CASE Finalize(w, "failed") \/ RequeueForResume(w)
  <2>1. \A j \in Jobs : jobs'[j] = "completed" => jobs[j] = "completed"
    BY <1>5 DEF Finalize, RequeueForResume, Typed, TypeOK
  <2>2. CompletedJobDelivered' BY <2>1, <1>1, JobsStay DEF Inv
  <2> QED BY <1>1, <1>2, <1>3, <2>2, OneMoves
<1> QED BY <1>4, <1>5 DEF Settle

\* A step of a runner inside a resource, given what it does to that resource.
LEMMA InvWalk ==
  ASSUME Typed, Inv, Grows, NEW w \in Runners, UNCHANGED jobs, Alone(w), RowsCovered',
         CopyCovered(w)', OutcomesTrue(w)'
  PROVE  Inv'
BY JobsStay, OneMoves DEF Inv

\* A step that writes state m of the resource and ends it with outcome S.
LEMMA InvWritten ==
  ASSUME Typed, Inv, NEW w \in Runners, NEW m \in Row, NEW s \in StopReasons,
         UNCHANGED <<jobs, landed>>, pc[w] \in Walking,
         Upsert(w, m), Outcome(w, {s}), Covered(res[w], m, landed[res[w]]),
         s = "completed" => InWindow[res[w]] \subseteq landed[res[w]]
  PROVE  Inv'
<1>1. Grows BY LandedStays
<1>2. Alone(w) BY UpsertAlone, OutcomeAlone
<1>3. RowsCovered' BY <1>1, RowsUpsert DEF Inv
<1>4. CopyCovered(w)' /\ OutcomesTrue(w)' BY <1>1, OutcomeTrue DEF Inv
<1> QED BY <1>1, <1>2, <1>3, <1>4, InvWalk

\* A step that ends the resource and writes nothing.
LEMMA InvUnwritten ==
  ASSUME Typed, Inv, NEW w \in Runners, NEW S \in SUBSET StopReasons,
         UNCHANGED <<jobs, row, landed, mem>>, pc[w] \in {"build"} \cup Walking, Outcome(w, S),
         S \subseteq {"completed"} => res[w] \in MayLack \/ InWindow[res[w]] \subseteq landed[res[w]]
  PROVE  Inv'
<1>1. Grows BY LandedStays
<1>2. Alone(w) BY OutcomeAlone
<1>3. RowsCovered' BY <1>1, RowsStay DEF Inv
<1>4. CopyCovered(w)' /\ OutcomesTrue(w)' BY <1>1, OutcomeTrue DEF Inv
<1> QED BY <1>1, <1>2, <1>3, <1>4, InvWalk

LEMMA InvFind ==
  ASSUME Typed, Inv, NEW w \in Runners, FindByResource(w)
  PROVE  Inv'
<1>1. res[w] \in Resources BY DEF Typed, TypeOK
<1>2. Covered(res[w], row[res[w]], landed[res[w]]) BY <1>1 DEF Inv, RowsCovered
<1>3. CASE row[res[w]].status = "completed" /\ Outcome(w, {"completed"}) /\ UNCHANGED mem
  BY <1>2, <1>3, InvUnwritten DEF FindByResource, queue, walk, Covered, StopReasons, Walking
<1>4. CASE /\ mem' = [mem EXCEPT ![w] = IF row[res[w]] = Absent THEN Fresh ELSE row[res[w]]]
           /\ Goto(w, "start")
  <2>1. Grows BY LandedStays DEF FindByResource, walk
  <2>2. Alone(w) BY <1>4, GotoAlone DEF Typed, TypeOK
  <2>3. RowsCovered' BY <2>1, RowsStay DEF Inv, FindByResource, walk
  <2>4. CopyCovered(w)'
    BY <1>2, <1>4 DEF CopyCovered, Covered, Goto, Fresh, Typed, TypeOK, FindByResource, walk
  <2>5. OutcomesTrue(w)' BY <1>4, <2>1, GoneOn DEF Inv, FindByResource, Walking
  <2> QED BY <2>1, <2>2, <2>3, <2>4, <2>5, InvWalk DEF FindByResource, queue
<1> QED BY <1>3, <1>4 DEF FindByResource

LEMMA InvStart ==
  ASSUME Typed, Inv, NEW w \in Runners, Start(w)
  PROVE  Inv'
<1> DEFINE m == [mem[w] EXCEPT !.status = "running"]
<1>1. m \in Row /\ mem[w] \in Row BY RowStays DEF Typed, TypeOK, RowStatus
<1>2. Covered(res[w], mem[w], landed[res[w]]) BY DEF Inv, CopyCovered, Start, Walking
<1>3. Covered(res[w], m, landed[res[w]]) BY <1>1, <1>2 DEF Covered, Row
<1>4. Upsert(w, m) /\ Goto(w, "walk") /\ UNCHANGED <<jobs, landed>> BY DEF Start, queue
<1>5. mem'[w] = m BY <1>4, UpsertAlone
<1> HIDE DEF m
<1>6. Grows BY <1>4, LandedStays
<1>7. Alone(w) BY <1>4, UpsertAlone, GotoAlone
<1>8. RowsCovered' BY <1>1, <1>3, <1>4, <1>6, RowsUpsert DEF Inv
<1>9. CopyCovered(w)'
  BY <1>3, <1>4, <1>5 DEF CopyCovered, Goto, Typed, TypeOK
<1>10. OutcomesTrue(w)' BY <1>4, <1>6, GoneOn DEF Inv, Start, Walking
<1> QED BY <1>4, <1>6, <1>7, <1>8, <1>9, <1>10, InvWalk

LEMMA InvDeliver ==
  ASSUME Typed, Inv, NEW w \in Runners, DeliverPage(w)
  PROVE  Inv'
<1>1. res[w] \in Resources /\ mem[w] \in Row BY DEF Typed, TypeOK
<1>2. Grows BY DEF DeliverPage, Grows, Typed, TypeOK
<1>3. mem[w].cursor + 1 \in landed'[res[w]] BY <1>1 DEF DeliverPage, Typed, TypeOK
<1>4. Covered(res[w], mem[w], landed'[res[w]])
  BY <1>1, <1>2, CoveredGrows DEF Inv, CopyCovered, DeliverPage, Walking
<1>5. Alone(w) BY GotoAlone DEF DeliverPage
<1>6. RowsCovered' BY <1>2, RowsStay DEF DeliverPage, Inv
<1>7. CopyCovered(w)' BY <1>3, <1>4 DEF CopyCovered, DeliverPage, Goto, Typed, TypeOK
<1>8. OutcomesTrue(w)' BY <1>2, GoneOn DEF Inv, DeliverPage, Walking
<1> QED BY <1>2, <1>5, <1>6, <1>7, <1>8, InvWalk DEF DeliverPage, queue

\* A page that reaches the floor, with all before it, makes the window whole.
LEMMA FloorMeansWhole ==
  ASSUME NewestFirst, Typed, NEW w \in Runners, CopyCovered(w), pc[w] = "save", Deepened(w)
  PROVE  InWindow[res[w]] \subseteq landed[res[w]]
<1>1. res[w] \in Resources /\ mem[w] \in Row BY DEF Typed, TypeOK
<1>2. Covered(res[w], mem[w], landed[res[w]]) /\ mem[w].cursor + 1 \in landed[res[w]]
  BY DEF CopyCovered, Walking
<1>3. CASE mem[w].reached BY <1>2, <1>3 DEF Covered
<1>4. CASE mem[w].cursor + 1 \in BelowFloor[res[w]]
  <2> SUFFICES ASSUME NEW q \in InWindow[res[w]] PROVE q \in landed[res[w]] OBVIOUS
  <2>1. q \in 1..Pages BY <1>1
  <2>2. q <= mem[w].cursor + 1 BY <1>1, <1>4 DEF NewestFirst
  <2>3. q \in 1..mem[w].cursor \/ q = mem[w].cursor + 1 BY <1>1, <2>1, <2>2 DEF Row
  <2> QED BY <1>2, <2>3 DEF Covered
<1> QED BY <1>3, <1>4 DEF Deepened

LEMMA InvLastPage ==
  ASSUME NewestFirst, Typed, Inv, NEW w \in Runners, LastPage(w)
  PROVE  Inv'
<1> DEFINE m == [mem[w] EXCEPT !.status = "completed", !.reached = Deepened(w)]
<1>1. mem[w] \in Row /\ res[w] \in Resources /\ Deepened(w) \in BOOLEAN
  BY DEF Typed, TypeOK, Row, Deepened
<1>2. m \in Row /\ m.cursor = mem[w].cursor BY <1>1 DEF Row, RowStatus
<1>3. Covered(res[w], mem[w], landed[res[w]]) /\ mem[w].cursor + 1 \in landed[res[w]]
  BY DEF Inv, CopyCovered, LastPage, Walking
<1>4. InWindow[res[w]] \subseteq landed[res[w]]
  <2> SUFFICES ASSUME NEW q \in InWindow[res[w]] PROVE q \in landed[res[w]] OBVIOUS
  <2>1. q \in 1..Pages BY <1>1
  <2>2. mem[w].cursor + 1 = Pages BY DEF LastPage
  <2>3. q \in 1..mem[w].cursor \/ q = mem[w].cursor + 1 BY <1>1, <2>1, <2>2 DEF Row
  <2> QED BY <1>3, <2>3 DEF Covered
<1>5. Covered(res[w], m, landed[res[w]]) BY <1>2, <1>3, <1>4 DEF Covered
<1>6. Upsert(w, m) /\ Outcome(w, {"completed"}) /\ UNCHANGED <<jobs, landed>> /\ pc[w] \in Walking
  BY DEF LastPage, queue, Walking
<1> HIDE DEF m
<1> QED BY <1>2, <1>4, <1>5, <1>6, InvWritten DEF StopReasons

LEMMA InvCheckpoint ==
  ASSUME NewestFirst, Typed, Inv, NEW w \in Runners, Checkpoint(w)
  PROVE  Inv'
<1> DEFINE m == [status |-> "running", cursor |-> mem[w].cursor + 1, reached |-> Deepened(w)]
<1>1. mem[w] \in Row /\ res[w] \in Resources /\ Deepened(w) \in BOOLEAN
  BY DEF Typed, TypeOK, Row, Deepened
<1>2. m \in Row BY <1>1 DEF Row, RowStatus, Checkpoint
<1>3. Covered(res[w], mem[w], landed[res[w]]) /\ mem[w].cursor + 1 \in landed[res[w]]
  BY DEF Inv, CopyCovered, Checkpoint, Walking
<1>4. 1..m.cursor \subseteq landed[res[w]] BY <1>1, <1>3 DEF Covered, Row
<1>5. Deepened(w) => InWindow[res[w]] \subseteq landed[res[w]]
  BY FloorMeansWhole DEF Inv, Checkpoint
<1>6. Covered(res[w], m, landed[res[w]]) BY <1>4, <1>5 DEF Covered
<1>7. \E place \in Walking : Goto(w, place) /\ place # "save" /\ (place = "floor" => m.reached)
  BY DEF Checkpoint, Walking
<1>8. Upsert(w, m) /\ UNCHANGED <<jobs, landed>> /\ pc[w] = "save" BY DEF Checkpoint, queue
<1>9. mem'[w] = m BY <1>8, UpsertAlone
<1> HIDE DEF m
<1>10. PICK place \in Walking : Goto(w, place) /\ place # "save" /\ (place = "floor" => m.reached)
  BY <1>7
<1>11. Grows BY <1>8, LandedStays
<1>12. Alone(w) BY <1>8, <1>10, UpsertAlone, GotoAlone
<1>13. RowsCovered' BY <1>2, <1>6, <1>8, <1>11, RowsUpsert DEF Inv
<1>14. pc'[w] = place /\ res'[w] = res[w] BY <1>10 DEF Goto, Typed, TypeOK
<1>15. CopyCovered(w)' BY <1>6, <1>8, <1>9, <1>10, <1>14 DEF CopyCovered
<1>16. OutcomesTrue(w)' BY <1>8, <1>10, <1>11, GoneOn DEF Inv, Walking
<1> QED BY <1>8, <1>11, <1>12, <1>13, <1>15, <1>16, InvWalk

\* The other writes only change the status of a covered state.
LEMMA InvStatus ==
  ASSUME Typed, Inv, NEW w \in Runners, NEW s \in StopReasons,
         pc[w] \in Walking \ {"load"}, s = "completed" => pc[w] = "floor",
         Upsert(w, [mem[w] EXCEPT !.status = s]), Outcome(w, {s}), UNCHANGED <<jobs, landed>>
  PROVE  Inv'
<1> DEFINE m == [mem[w] EXCEPT !.status = s]
<1>1. mem[w] \in Row BY DEF Typed, TypeOK
<1>2. m \in Row BY <1>1, RowStays DEF RowStatus, StopReasons
<1>3. Covered(res[w], mem[w], landed[res[w]]) /\ (pc[w] = "floor" => mem[w].reached)
  BY DEF Inv, CopyCovered
<1>4. Covered(res[w], m, landed[res[w]]) BY <1>1, <1>3 DEF Covered, Row
<1>5. s = "completed" => InWindow[res[w]] \subseteq landed[res[w]] BY <1>3 DEF Covered
<1> HIDE DEF m
<1> QED BY <1>2, <1>4, <1>5, InvWritten DEF m

LEMMA InvNext == NewestFirst /\ Typed /\ Inv /\ [Next]_vars => Inv'
<1> SUFFICES ASSUME NewestFirst, Typed, Inv, [Next]_vars PROVE Inv' OBVIOUS
<1>1. ASSUME UNCHANGED <<walk, pc, res, mem, outs>>,
             \A j \in Jobs : jobs'[j] = "completed" => jobs[j] = "completed"
      PROVE  Inv'
  <2>1. Grows BY <1>1, LandedStays DEF walk
  <2>2. RowsCovered' /\ CompletedJobDelivered' BY <1>1, <2>1, RowsStay, JobsStay DEF Inv, walk
  <2>3. ASSUME NEW v \in Runners PROVE CopyCovered(v)' /\ OutcomesTrue(v)'
    BY <1>1, <2>1, <2>3, StayPut DEF Inv
  <2> QED BY <2>2, <2>3 DEF Inv
<1>2. ASSUME NEW h \in Handlers, CheckActiveJob(h) \/ InsertQueued(h) PROVE Inv'
  BY <1>1, <1>2 DEF CheckActiveJob, InsertQueued, locals, Typed, TypeOK
<1>3. ASSUME NEW w \in Replicas, RequeueStaleRunning(w) PROVE Inv'
  BY <1>1, <1>3 DEF RequeueStaleRunning, locals, Typed, TypeOK
<1>4. ASSUME NEW w \in Replicas, ClaimQueued(w) PROVE Inv'
  <2>1. w \in Runners BY DEF Runners
  <2>2. Alone(w) BY <1>4 DEF ClaimQueued, Alone, Typed, TypeOK
  <2>3. \A j \in Jobs : jobs'[j] = "completed" => jobs[j] = "completed"
    BY <1>4 DEF ClaimQueued, Typed, TypeOK
  <2>4. pc[w] = "idle" /\ pc'[w] = "claimed" BY <1>4, <2>1 DEF ClaimQueued, Typed, TypeOK
  <2>5. UNCHANGED walk /\ UNCHANGED <<res, mem, outs>> BY <1>4 DEF ClaimQueued
  <2> QED BY <2>1, <2>2, <2>3, <2>4, <2>5, InvQueue
<1>5. ASSUME NEW w \in Runners, Repull(w) \/ Drive(w) PROVE Inv'
  <2>1. Alone(w) BY <1>5 DEF Repull, Drive, Alone, Typed, TypeOK
  <2>2. pc[w] \in {"idle", "claimed"} /\ pc'[w] = "build" BY <1>5 DEF Repull, Drive, Typed, TypeOK
  <2>3. UNCHANGED walk /\ UNCHANGED <<res, mem, outs>> /\ UNCHANGED jobs
    BY <1>5 DEF Repull, Drive, queue
  <2> QED BY <2>1, <2>2, <2>3, InvQueue
<1>6. ASSUME NEW w \in Runners, BuildFetcher(w) PROVE Inv'
  <2>1. Grows /\ RowsCovered' BY <1>6, LandedStays, RowsStay DEF BuildFetcher, walk, Inv
  <2>2. Alone(w) BY <1>6, GotoAlone DEF BuildFetcher
  <2>3. CopyCovered(w)' BY <1>6 DEF BuildFetcher, Goto, CopyCovered, Typed, TypeOK
  <2>4. OutcomesTrue(w)' BY <1>6, <2>1, GoneOn DEF BuildFetcher, Inv, Walking
  <2> QED BY <1>6, <2>1, <2>2, <2>3, <2>4, InvWalk DEF BuildFetcher, queue
<1>7. ASSUME NEW w \in Runners, SkipResource(w) PROVE Inv'
  BY <1>7, InvUnwritten DEF SkipResource, queue, walk
<1>8. ASSUME NEW w \in Runners, FloorReached(w) PROVE Inv'
  BY <1>8, InvStatus DEF FloorReached, queue, Walking, StopReasons
<1>9. ASSUME NEW w \in Runners, Pause(w) PROVE Inv'
  BY <1>9, InvStatus DEF Pause, queue, Walking, StopReasons
<1>10. ASSUME NEW w \in Runners, FetchFails(w) PROVE Inv'
  BY <1>10, InvStatus DEF FetchFails, queue, Walking, StopReasons
<1>11. ASSUME NEW w \in Runners, ResourceThrows(w) PROVE Inv'
  BY <1>11, InvUnwritten DEF ResourceThrows, queue, walk, StopReasons
<1>12. ASSUME NEW w \in Runners, SaltFails(w) \/ Crash(w) PROVE Inv'
  <2>1. Grows /\ RowsCovered' BY <1>12, LandedStays, RowsStay DEF SaltFails, Crash, walk, Inv
  <2>2. CopyCovered(w)' /\ OutcomesTrue(w)' /\ Alone(w) BY <1>12, Left DEF SaltFails, Crash
  <2>3. \A j \in Jobs : jobs'[j] = "completed" => jobs[j] = "completed"
    BY <1>12 DEF SaltFails, Crash, Finalize, queue, Typed, TypeOK
  <2>4. CompletedJobDelivered' BY <2>1, <2>3, JobsStay DEF Inv
  <2> QED BY <2>1, <2>2, <2>4, OneMoves
<1>13. CASE UNCHANGED vars
  BY <1>1, <1>13 DEF vars, walk
<1> QED
  BY <1>2, <1>3, <1>4, <1>5, <1>6, <1>7, <1>8, <1>9, <1>10, <1>11, <1>12, <1>13, InvSettle,
     InvFind, InvStart, InvDeliver, InvLastPage, InvCheckpoint
     DEF Next, Advance, Interrupt, Runners

\* Whatever runs overlap, fail or crash: a checkpoint passes only delivered
\* pages, and a completed resource or job has its windows delivered.
LEMMA BackfillInvariant ==
  ASSUME NewestFirst
  PROVE  Spec => [](Typed /\ Inv)
<1>1. Init => Typed /\ Inv BY TypedInit, InvInit
<1>2. Typed /\ Inv /\ [Next]_vars => (Typed /\ Inv)' BY TypedNext, InvNext
<1> QED BY <1>1, <1>2, PTL DEF Spec

\* No checkpoint, stored or held, passes a page that was not delivered, whatever
\* runners overlap, fail or crash.
THEOREM BackfillSkipsNothing ==
  ASSUME NewestFirst
  PROVE  Spec => []CursorPassesOnlyDelivered
BY BackfillInvariant, InvImplies, PTL

\* A resource is completed only with its whole window delivered.
THEOREM BackfillWindowDelivered ==
  ASSUME NewestFirst
  PROVE  Spec => []WindowDelivered
BY BackfillInvariant, InvImplies, PTL

\* A job is completed only with the windows of its resources delivered.
THEOREM BackfillJobsDelivered ==
  ASSUME NewestFirst
  PROVE  Spec => []CompletedJobDelivered
BY BackfillInvariant, InvImplies, PTL

-----------------------------------------------------------------------------
(* With one runner its copy is the row, so every write is a step of the      *)
(* resumable walk or changes only what the walk does not see.                *)

OneRunner == \A v, w \in Runners : v = w

CopyIsRow ==
  \A w \in Runners : pc[w] \in Walking \ {"load"} =>
    mem[w].cursor = row[res[w]].cursor /\ row[res[w]].status # "completed"

LEMMA CopyIsRowInit == Init => CopyIsRow
BY DEF Init, CopyIsRow, Walking

\* A write leaves the copy and the row alike.
LEMMA WrittenAlike ==
  ASSUME Typed, NEW w \in Runners, NEW m \in Row, Upsert(w, m)
  PROVE  mem'[w] = m /\ row'[res[w]] = m /\ \A r \in Resources \ {res[w]} : row'[r] = row[r]
BY DEF Upsert, Typed, TypeOK

LEMMA CopyIsRowNext == OneRunner /\ Typed /\ CopyIsRow /\ [Next]_vars => CopyIsRow'
<1> SUFFICES ASSUME OneRunner, Typed, CopyIsRow, [Next]_vars, NEW w \in Runners,
                    pc'[w] \in Walking \ {"load"}
             PROVE  mem'[w].cursor = row'[res'[w]].cursor /\ row'[res'[w]].status # "completed"
  BY DEF CopyIsRow
<1>1. mem[w] \in Row /\ res[w] \in Resources BY DEF Typed, TypeOK
<1>2. CASE UNCHANGED <<row, mem, res, pc>>
  BY <1>2 DEF CopyIsRow
<1>3. CASE DeliverPage(w)
  BY <1>3, <1>1 DEF DeliverPage, Goto, CopyIsRow, Walking
<1>4. CASE FindByResource(w)
  BY <1>4, <1>1 DEF FindByResource, Outcome, Goto, Walking, Fresh, Absent, walk, Typed, TypeOK
<1>5. CASE Start(w)
  <2>1. [mem[w] EXCEPT !.status = "running"] \in Row BY <1>1, RowStays DEF RowStatus
  <2>2. row'[res[w]] = [mem[w] EXCEPT !.status = "running"] /\ mem'[w] = row'[res[w]]
    BY <1>5, <2>1, WrittenAlike DEF Start
  <2> QED BY <1>1, <1>5, <2>2 DEF Start, Goto, Row
<1>6. CASE Checkpoint(w)
  <2> DEFINE m == [status |-> "running", cursor |-> mem[w].cursor + 1, reached |-> Deepened(w)]
  <2>1. m \in Row BY <1>1, <1>6 DEF Row, RowStatus, Checkpoint, Deepened
  <2>2. row'[res[w]] = m /\ mem'[w] = m BY <1>6, <2>1, WrittenAlike DEF Checkpoint
  <2> QED BY <1>6, <2>2 DEF Checkpoint, Goto
<1>7. CASE \E S : Outcome(w, S)
  BY <1>7 DEF Outcome, Walking, Typed, TypeOK
<1>8. CASE Leave(w)
  BY <1>8 DEF Leave, Walking, Typed, TypeOK
<1>9. CASE \E place \in {"claimed", "build", "load"} : pc' = [pc EXCEPT ![w] = place]
  BY <1>9 DEF Typed, TypeOK, Walking
<1>10. \A v \in Runners : v = w BY DEF OneRunner
<1> QED
  BY <1>2, <1>3, <1>4, <1>5, <1>6, <1>7, <1>8, <1>9, <1>10
     DEF Next, Advance, Interrupt, Runners, vars, walk, locals, CheckActiveJob, InsertQueued,
         RequeueStaleRunning, ClaimQueued, Repull, Drive, Settle, BuildFetcher, Goto,
         SkipResource, LastPage, FloorReached, Pause, SaltFails, FetchFails, ResourceThrows, Crash

-----------------------------------------------------------------------------

LEMMA WalkInit == Init => Promise!Init
BY DEF Init, Promise!Init, Cursors, DoneRows, Absent

LEMMA WalkStays == UNCHANGED <<row, landed>> => UNCHANGED Promise!walkVars
BY DEF Promise!walkVars, Cursors, DoneRows

\* A write that keeps the cursor and does not complete is not seen.
LEMMA WalkUnseen ==
  ASSUME Typed, CopyIsRow, NEW w \in Runners, NEW m \in Row, Upsert(w, m), UNCHANGED landed,
         pc[w] \in Walking \ {"load"}, m.cursor = mem[w].cursor, m.status # "completed"
  PROVE  UNCHANGED Promise!walkVars
<1>1. \A r \in Resources : row'[r].cursor = row[r].cursor
                        /\ (row'[r].status = "completed" <=> row[r].status = "completed")
  BY WrittenAlike DEF CopyIsRow
<1>2. Cursors' = Cursors /\ DoneRows' = DoneRows BY <1>1 DEF Cursors, DoneRows
<1> QED BY <1>2 DEF Promise!walkVars

\* A write that completes the resource with its window delivered finishes it.
LEMMA WalkFinish ==
  ASSUME Typed, CopyIsRow, NEW w \in Runners, NEW m \in Row, Upsert(w, m), UNCHANGED landed,
         pc[w] \in Walking \ {"load"}, m.cursor = mem[w].cursor, m.status = "completed",
         InWindow[res[w]] \subseteq landed[res[w]]
  PROVE  Promise!Finish(res[w])
<1>1. res[w] \in Resources BY DEF Typed, TypeOK
<1>2. \A r \in Resources : row'[r].cursor = row[r].cursor
  BY WrittenAlike DEF CopyIsRow
<1>3. \A r \in Resources : row'[r].status = "completed" <=> row[r].status = "completed" \/ r = res[w]
  BY WrittenAlike
<1>4. Cursors' = Cursors /\ DoneRows' = DoneRows \cup {res[w]}
  BY <1>1, <1>2, <1>3 DEF Cursors, DoneRows
<1> QED BY <1>4 DEF Promise!Finish

LEMMA WalkLand ==
  ASSUME Typed, CopyIsRow, NEW w \in Runners, DeliverPage(w)
  PROVE  Promise!Land(res[w])
<1>1. res[w] \in Resources /\ mem[w] \in Row BY DEF Typed, TypeOK
<1>2. Cursors[res[w]] = mem[w].cursor /\ UNCHANGED <<Cursors, DoneRows>>
  BY <1>1 DEF CopyIsRow, DeliverPage, Cursors, DoneRows, Walking
<1>3. mem[w].cursor < Pages BY <1>1 DEF Row
<1> QED BY <1>2, <1>3 DEF Promise!Land, DeliverPage

LEMMA WalkAdvance ==
  ASSUME Typed, Inv, CopyIsRow, NEW w \in Runners, Checkpoint(w)
  PROVE  Promise!Advance(res[w])
<1> DEFINE m == [status |-> "running", cursor |-> mem[w].cursor + 1, reached |-> Deepened(w)]
<1>1. res[w] \in Resources /\ mem[w] \in Row BY DEF Typed, TypeOK
<1>2. m \in Row BY <1>1 DEF Row, RowStatus, Checkpoint, Deepened
<1>3. row'[res[w]] = m /\ \A r \in Resources \ {res[w]} : row'[r] = row[r]
  BY <1>2, WrittenAlike DEF Checkpoint
<1>4. Cursors[res[w]] = mem[w].cursor /\ res[w] \notin DoneRows
  BY <1>1 DEF CopyIsRow, Checkpoint, Cursors, DoneRows, Walking
<1>5. mem[w].cursor + 1 \in landed[res[w]] BY DEF Inv, CopyCovered, Checkpoint
<1>6. DoneRows' = DoneRows BY <1>1, <1>3, <1>4 DEF DoneRows
<1>7. Cursors' = [Cursors EXCEPT ![res[w]] = @ + 1]
  BY <1>1, <1>3, <1>4 DEF Cursors
<1> QED BY <1>4, <1>5, <1>6, <1>7 DEF Promise!Advance, Checkpoint

LEMMA WalkNext ==
  NewestFirst /\ Typed /\ Inv /\ CopyIsRow /\ [Next]_vars => [Promise!Next]_Promise!walkVars
<1> SUFFICES ASSUME NewestFirst, Typed, Inv, CopyIsRow, [Next]_vars
             PROVE  Promise!Next \/ UNCHANGED Promise!walkVars OBVIOUS
<1>1. CASE UNCHANGED <<row, landed>> BY <1>1, WalkStays
<1> SUFFICES ASSUME NEW w \in Runners,
                    \/ Start(w) \/ DeliverPage(w) \/ LastPage(w) \/ Checkpoint(w)
                    \/ FloorReached(w) \/ Pause(w) \/ FetchFails(w)
             PROVE  Promise!Next \/ UNCHANGED Promise!walkVars
  BY <1>1 DEF Next, Advance, Interrupt, Runners, vars, walk, CheckActiveJob, InsertQueued,
              RequeueStaleRunning, ClaimQueued, Repull, Drive, Settle, BuildFetcher,
              SkipResource, FindByResource, SaltFails, ResourceThrows, Crash
<1>2. res[w] \in Resources /\ mem[w] \in Row BY DEF Typed, TypeOK
<1>3. CASE DeliverPage(w) BY <1>2, <1>3, WalkLand DEF Promise!Next
<1>4. CASE Checkpoint(w) BY <1>2, <1>4, WalkAdvance DEF Promise!Next
<1>5. ASSUME NEW s \in RowStatus \ {"completed"}, Upsert(w, [mem[w] EXCEPT !.status = s]),
             UNCHANGED landed, pc[w] \in Walking \ {"load"}
      PROVE  UNCHANGED Promise!walkVars
  <2> DEFINE m == [mem[w] EXCEPT !.status = s]
  <2>1. m \in Row /\ m.cursor = mem[w].cursor /\ m.status = s BY <1>2 DEF Row
  <2> HIDE DEF m
  <2> QED BY <1>5, <2>1, WalkUnseen DEF m
<1>6. CASE Start(w) \/ Pause(w) \/ FetchFails(w)
  BY <1>5, <1>6 DEF Start, Pause, FetchFails, RowStatus, Walking
<1>7. CASE LastPage(w)
  <2> DEFINE m == [mem[w] EXCEPT !.status = "completed", !.reached = Deepened(w)]
  <2>0. Deepened(w) \in BOOLEAN BY <1>2 DEF Deepened, Row
  <2>1. m \in Row /\ m.cursor = mem[w].cursor /\ m.status = "completed"
    BY <1>2, <2>0 DEF Row, RowStatus
  <2>2. InWindow[res[w]] \subseteq landed[res[w]]
    <3> SUFFICES ASSUME NEW q \in InWindow[res[w]] PROVE q \in landed[res[w]] OBVIOUS
    <3>1. q \in 1..Pages /\ mem[w].cursor + 1 = Pages BY <1>2, <1>7 DEF LastPage
    <3>2. q \in 1..mem[w].cursor \/ q = mem[w].cursor + 1 BY <1>2, <3>1 DEF Row
    <3> QED BY <1>7, <3>2 DEF Inv, CopyCovered, Covered, LastPage, Walking
  <2>3. Upsert(w, m) /\ UNCHANGED landed /\ pc[w] \in Walking \ {"load"}
    BY <1>7 DEF LastPage, Walking
  <2> HIDE DEF m
  <2> QED BY <1>2, <2>1, <2>2, <2>3, WalkFinish DEF Promise!Next
<1>8. CASE FloorReached(w)
  <2> DEFINE m == [mem[w] EXCEPT !.status = "completed"]
  <2>1. m \in Row /\ m.cursor = mem[w].cursor /\ m.status = "completed"
    BY <1>2 DEF Row, RowStatus
  <2>2. InWindow[res[w]] \subseteq landed[res[w]]
    BY <1>8 DEF Inv, CopyCovered, Covered, FloorReached, Walking
  <2>3. Upsert(w, m) /\ UNCHANGED landed /\ pc[w] \in Walking \ {"load"}
    BY <1>8 DEF FloorReached, Walking
  <2> HIDE DEF m
  <2> QED BY <1>2, <2>1, <2>2, <2>3, WalkFinish DEF Promise!Next
<1> QED BY <1>3, <1>4, <1>6, <1>7, <1>8

\* One runner at a time implements the resumable walk: checkpoints follow the
\* pages, never go back, and completed is for ever.
THEOREM BackfillImplementsWalk ==
  ASSUME NewestFirst, OneRunner
  PROVE  Spec => KeepsWalk
<1>1. Spec => [](Typed /\ Inv) BY BackfillInvariant
<1>2. Typed /\ CopyIsRow /\ [Next]_vars => CopyIsRow' BY CopyIsRowNext
<1>3. Typed /\ Inv /\ CopyIsRow /\ [Next]_vars => [Promise!Next]_Promise!walkVars BY WalkNext
<1> QED BY <1>1, <1>2, <1>3, CopyIsRowInit, WalkInit, PTL DEF Spec, KeepsWalk, Promise!Spec

-----------------------------------------------------------------------------
(* With one runner, a claimed job is running until the runner settles it.    *)

ClaimedRuns ==
  \A w \in Runners : job[w] # 0 => pc[w] # "idle" /\ jobs[job[w]] = "running"

JobsKept == \A j \in Jobs : jobs[j] \in {"completed", "failed"} => jobs'[j] = jobs[j]

LEMMA ClaimedStep ==
  ASSUME OneRunner, Typed, ClaimedRuns, [Next]_vars
  PROVE  ClaimedRuns' /\ JobsKept
<1>1. CASE UNCHANGED <<jobs, job>> /\ \A w \in Runners : pc[w] # "idle" => pc'[w] # "idle"
  BY <1>1 DEF ClaimedRuns, JobsKept
<1>2. ASSUME NEW h \in Handlers, InsertQueued(h) PROVE ClaimedRuns' /\ JobsKept
  BY <1>2 DEF InsertQueued, locals, ClaimedRuns, JobsKept, Typed, TypeOK
<1>3. ASSUME NEW w \in Replicas, RequeueStaleRunning(w) \/ ClaimQueued(w)
      PROVE  ClaimedRuns' /\ JobsKept
  <2>1. w \in Runners /\ \A v \in Runners : v = w BY DEF Runners, OneRunner
  <2>2. pc[w] = "idle" /\ job[w] = 0 BY <1>3, <2>1 DEF RequeueStaleRunning, ClaimQueued, ClaimedRuns
  <2>3. CASE RequeueStaleRunning(w)
    BY <2>1, <2>2, <2>3 DEF RequeueStaleRunning, Stale, locals, ClaimedRuns, JobsKept, Typed, TypeOK
  <2>4. CASE ClaimQueued(w)
    BY <2>1, <2>4 DEF ClaimQueued, ClaimedRuns, JobsKept, Typed, TypeOK
  <2> QED BY <1>3, <2>3, <2>4
<1>4. ASSUME NEW w \in Runners, Leave(w),
             \/ UNCHANGED jobs \/ RequeueForResume(w)
             \/ \E s \in JobStatus : Finalize(w, s)
      PROVE  ClaimedRuns' /\ JobsKept
  <2>1. \A v \in Runners : v = w BY DEF OneRunner
  <2>2. job'[w] = 0 BY <1>4 DEF Leave, Typed, TypeOK
  <2>3. JobsKept BY <1>4 DEF ClaimedRuns, JobsKept, RequeueForResume, Finalize, Typed, TypeOK
  <2> QED BY <2>1, <2>2, <2>3 DEF ClaimedRuns
<1>5. ASSUME NEW w \in Runners, UNCHANGED jobs,
             (\E S : Outcome(w, S)) \/ (\E place \in Places \ {"idle"} : Goto(w, place))
      PROVE  ClaimedRuns' /\ JobsKept
  BY <1>5 DEF Outcome, Goto, ClaimedRuns, JobsKept, Typed, TypeOK
<1>6. ASSUME NEW w \in Runners, Repull(w) \/ Drive(w) PROVE ClaimedRuns' /\ JobsKept
  BY <1>6 DEF Repull, Drive, queue, ClaimedRuns, JobsKept, Typed, TypeOK
<1>7. ASSUME NEW w \in Runners, Advance(w) \/ Interrupt(w) PROVE ClaimedRuns' /\ JobsKept
  <2>1. CASE Settle(w) \/ SaltFails(w) \/ Crash(w)
    BY <2>1, <1>4 DEF Settle, SaltFails, Crash, JobStatus, queue
  <2>2. CASE Checkpoint(w) \/ FindByResource(w)
    BY <2>2, <1>5 DEF Checkpoint, FindByResource, queue, Places, Walking
  <2>3. CASE BuildFetcher(w) \/ Start(w) \/ DeliverPage(w)
    BY <2>3, <1>5 DEF BuildFetcher, Start, DeliverPage, queue, Places, Walking
  <2>4. CASE SkipResource(w) \/ LastPage(w) \/ FloorReached(w) \/ Pause(w)
    BY <2>4, <1>5 DEF SkipResource, LastPage, FloorReached, Pause, queue
  <2>5. CASE FetchFails(w) \/ ResourceThrows(w)
    BY <2>5, <1>5 DEF FetchFails, ResourceThrows, queue
  <2> QED BY <1>6, <1>7, <2>1, <2>2, <2>3, <2>4, <2>5 DEF Advance, Interrupt
<1> QED
  BY <1>1, <1>2, <1>3, <1>6, <1>7 DEF Next, Runners, vars, CheckActiveJob, locals

\* With one runner a job that completed or failed is never run again.
THEOREM BackfillSettledStays ==
  ASSUME OneRunner
  PROVE  Spec => SettledJobStays
<1>1. Init => ClaimedRuns BY DEF Init, ClaimedRuns
<1>2. Typed /\ ClaimedRuns /\ [Next]_vars => ClaimedRuns' BY ClaimedStep
<1>3. Typed /\ ClaimedRuns /\ [Next]_vars
        => [\A j \in Jobs : jobs[j] \in {"completed", "failed"} => jobs'[j] = jobs[j]]_vars
  BY ClaimedStep DEF JobsKept
<1> QED BY <1>1, <1>2, <1>3, TypedInit, TypedNext, PTL DEF Spec, SettledJobStays
=============================================================================
