------------------------- MODULE ResourceBackfill -------------------------
(***************************************************************************)
(* Historical backfill of one connector: the job queue that the "Import     *)
(* history" button fills, the claimer of every stream-worker replica, the   *)
(* scheduled re-pull that walks the same resources without a job, and the   *)
(* resumable walk of a resource with its persisted checkpoint.              *)
(*                                                                          *)
(* A step is one database transaction, one page delivered, or a fault.      *)
(***************************************************************************)
EXTENDS Naturals

CONSTANTS
  NResources,  \* the resources a run drives, 1..NResources in this order
  Pages,       \* pages of a resource; a cursor counts the pages behind it
  InWindow,    \* per resource: the pages with a record younger than the floor
  BelowFloor,  \* per resource: the pages whose oldest record reaches the floor
  Replicas,    \* claimers of the queue, one per replica
  Scheduled,   \* re-pulls that drive the resources without a job
  Handlers,    \* API requests that may be in flight together
  ChunkBudget, \* pages of a resource one run may walk
  MaxJobs,     \* bound on the jobs of a behaviour
  MaxFaults,   \* bound on crashes and errors together
  MayLack,     \* resources whose fetcher may be missing: reconnect required
  LongRuns     \* BOOLEAN: a run may outlast the stale threshold

Resources == 1..NResources
Jobs == 1..MaxJobs
Runners == Replicas \cup Scheduled

ASSUME Bounds ==
  /\ NResources \in Nat \ {0} /\ Pages \in Nat \ {0}
  /\ ChunkBudget \in Nat \ {0}
  /\ MaxJobs \in Nat /\ MaxFaults \in Nat
  /\ InWindow \in [Resources -> SUBSET (1..Pages)]
  /\ BelowFloor \in [Resources -> SUBSET (1..Pages)]
  /\ MayLack \subseteq Resources /\ LongRuns \in BOOLEAN

VARIABLES
  row,     \* jobs.resource_backfill_state, one row per resource
  landed,  \* per resource: the pages on the backfill topic or in the spool
  jobs,    \* status of each backfill_job, by creation
  asked,   \* requests that found no active job and have not inserted yet
  pc,      \* where a runner is
  job,     \* the job it claimed, 0 for none
  res,     \* the resource it drives
  mem,     \* its copy of the resource's state
  left,    \* pages left of its chunk budget
  outs,    \* stop reasons of the resources it has driven
  faults   \* faults so far

queue == <<jobs, asked>>
walk == <<row, landed>>
locals == <<pc, job, res, mem, left, outs>>
vars == <<row, landed, jobs, asked, pc, job, res, mem, left, outs, faults>>

JobStatus == {"none", "queued", "running", "completed", "failed"}
RowStatus == {"absent", "queued", "running", "paused", "completed", "failed"}
Row == [status : RowStatus, cursor : 0..(Pages - 1), reached : BOOLEAN]
StopReasons == {"completed", "paused", "failed"}
Walking == {"load", "start", "walk", "save", "floor", "pause"}
Places == {"idle", "claimed", "build", "settle"} \cup Walking

Absent == [status |-> "absent", cursor |-> 0, reached |-> FALSE]
Fresh == [status |-> "queued", cursor |-> 0, reached |-> FALSE]

TypeOK ==
  /\ row \in [Resources -> Row]
  /\ landed \in [Resources -> SUBSET (1..Pages)]
  /\ jobs \in [Jobs -> JobStatus]
  /\ asked \subseteq Handlers
  /\ pc \in [Runners -> Places]
  /\ job \in [Runners -> 0..MaxJobs]
  /\ res \in [Runners -> Resources]
  /\ mem \in [Runners -> Row]
  /\ left \in [Runners -> 0..ChunkBudget]
  /\ outs \in [Runners -> SUBSET StopReasons]
  /\ faults \in 0..MaxFaults

Init ==
  /\ row = [r \in Resources |-> Absent]
  /\ landed = [r \in Resources |-> {}]
  /\ jobs = [j \in Jobs |-> "none"]
  /\ asked = {}
  /\ pc = [w \in Runners |-> "idle"]
  /\ job = [w \in Runners |-> 0]
  /\ res = [w \in Runners |-> 1]
  /\ mem = [w \in Runners |-> Fresh]
  /\ left = [w \in Runners |-> 0]
  /\ outs = [w \in Runners |-> {}]
  /\ faults = 0

-----------------------------------------------------------------------------
(* The request: a check and an insert, each a transaction of its own.       *)

Active == {j \in Jobs : jobs[j] \in {"queued", "running"}}

\* A claim or a closing update may hold the row's lock at this moment.
MayBeLocked(j) ==
  \E w \in Replicas : \/ pc[w] = "idle" /\ jobs[j] = "queued"
                      \/ pc[w] = "settle" /\ job[w] = j

\* SKIP LOCKED: a job whose row is locked is not seen.
CheckActiveJob(h) ==
  /\ h \notin asked
  /\ \A j \in Active : MayBeLocked(j)
  /\ asked' = asked \cup {h}
  /\ UNCHANGED <<jobs, walk, locals, faults>>

InsertQueued(h) ==
  /\ h \in asked
  /\ asked' = asked \ {h}
  /\ \E j \in Jobs :
       /\ jobs[j] = "none"
       /\ \A i \in Jobs : i < j => jobs[i] # "none"
       /\ jobs' = [jobs EXCEPT ![j] = "queued"]
  /\ UNCHANGED <<walk, locals, faults>>

-----------------------------------------------------------------------------
(* The claimer's tick: requeue what looks orphaned, then claim.             *)

\* Mutants: no job is ever requeued, a failed one is.
NeverStale(j) == FALSE
StaleOrFailed(j) ==
  /\ jobs[j] \in {"running", "failed"}
  /\ \A w \in Replicas : job[w] # j

\* A job in a live runner's hands is old enough only when runs are long.
Stale(j) ==
  /\ jobs[j] = "running"
  /\ LongRuns \/ \A w \in Replicas : job[w] # j

RequeueStaleRunning(w) ==
  /\ pc[w] = "idle"
  /\ \E S \in SUBSET {j \in Jobs : Stale(j)} :
       /\ S # {}
       /\ jobs' = [j \in Jobs |-> IF j \in S THEN "queued" ELSE jobs[j]]
  /\ UNCHANGED <<asked, walk, locals, faults>>

ClaimQueued(w) ==
  /\ pc[w] = "idle"
  /\ \E j \in Jobs :
       /\ jobs[j] = "queued"
       /\ \A i \in Jobs : i < j => jobs[i] # "queued"
       /\ jobs' = [jobs EXCEPT ![j] = "running"]
       /\ job' = [job EXCEPT ![w] = j]
  /\ pc' = [pc EXCEPT ![w] = "claimed"]
  /\ UNCHANGED <<asked, walk, res, mem, left, outs, faults>>

\* The salt is read and the resources are listed.
Drive(w) ==
  /\ pc[w] = "claimed"
  /\ pc' = [pc EXCEPT ![w] = "build"]
  /\ UNCHANGED <<queue, walk, job, res, mem, left, outs, faults>>

\* A re-pull that has finished its own pages goes on to the resources.
Repull(w) ==
  /\ pc[w] = "idle"
  /\ pc' = [pc EXCEPT ![w] = "build"]
  /\ UNCHANGED <<queue, walk, job, res, mem, left, outs, faults>>

\* run() returns or throws: nothing of it outlives the call.
Leave(w) ==
  /\ pc' = [pc EXCEPT ![w] = "idle"]
  /\ job' = [job EXCEPT ![w] = 0]
  /\ res' = [res EXCEPT ![w] = 1]
  /\ mem' = [mem EXCEPT ![w] = Fresh]
  /\ left' = [left EXCEPT ![w] = 0]
  /\ outs' = [outs EXCEPT ![w] = {}]

\* finalize: by id, whatever the row's status is by now.
Finalize(w, s) ==
  jobs' = IF job[w] = 0 THEN jobs ELSE [jobs EXCEPT ![job[w]] = s]

\* requeueForResume: only a row that is still running.
RequeueForResume(w) ==
  jobs' = IF job[w] # 0 /\ jobs[job[w]] = "running"
          THEN [jobs EXCEPT ![job[w]] = "queued"] ELSE jobs

\* Mutant: one completed resource completes the job.
SettleOnAny(w) ==
  /\ pc[w] = "settle"
  /\ \/ "failed" \in outs[w] /\ Finalize(w, "failed")
     \/ "failed" \notin outs[w] /\ "completed" \in outs[w] /\ Finalize(w, "completed")
     \/ outs[w] \subseteq {"paused"} /\ RequeueForResume(w)
  /\ Leave(w)
  /\ UNCHANGED <<asked, walk, faults>>

Settle(w) ==
  /\ pc[w] = "settle"
  /\ \/ "failed" \in outs[w] /\ Finalize(w, "failed")
     \/ outs[w] = {"completed"} /\ Finalize(w, "completed")
     \/ "failed" \notin outs[w] /\ outs[w] # {"completed"} /\ RequeueForResume(w)
  /\ Leave(w)
  /\ UNCHANGED <<asked, walk, faults>>

-----------------------------------------------------------------------------
(* driveResourceBackfillsForConnector and runResumableBackfill.             *)

\* The outcome of a resource, and on to the next one.
Outcome(w, S) ==
  /\ outs' = [outs EXCEPT ![w] = @ \cup S]
  /\ IF res[w] = NResources
     THEN pc' = [pc EXCEPT ![w] = "settle"] /\ UNCHANGED res
     ELSE /\ pc' = [pc EXCEPT ![w] = "build"]
          /\ res' = [res EXCEPT ![w] = @ + 1]
  /\ UNCHANGED job

Goto(w, place) ==
  /\ pc' = [pc EXCEPT ![w] = place]
  /\ UNCHANGED <<job, res, outs>>

\* The whole row is written, whatever it holds.
Upsert(w, m) ==
  /\ row' = [row EXCEPT ![res[w]] = m]
  /\ mem' = [mem EXCEPT ![w] = m]

BuildFetcher(w) ==
  /\ pc[w] = "build"
  /\ Goto(w, "load")
  /\ UNCHANGED <<queue, walk, mem, left, faults>>

\* Nothing is pushed for a resource that has no fetcher.
SkipResource(w) ==
  /\ pc[w] = "build"
  /\ res[w] \in MayLack
  /\ Outcome(w, {})
  /\ UNCHANGED <<queue, walk, mem, left, faults>>

\* Mutant: a failed row is seeded anew and loses its cursor.
FindOrSeed(w) ==
  /\ pc[w] = "load"
  /\ \/ /\ row[res[w]].status = "completed"
        /\ Outcome(w, {"completed"})
        /\ UNCHANGED mem
     \/ /\ row[res[w]].status # "completed"
        /\ mem' = [mem EXCEPT ![w] =
                     IF row[res[w]].status \in {"absent", "failed"} THEN Fresh ELSE row[res[w]]]
        /\ Goto(w, "start")
  /\ UNCHANGED <<queue, walk, left, faults>>

FindByResource(w) ==
  /\ pc[w] = "load"
  /\ \/ /\ row[res[w]].status = "completed"
        /\ Outcome(w, {"completed"})
        /\ UNCHANGED mem
     \/ /\ row[res[w]].status # "completed"
        /\ mem' = [mem EXCEPT ![w] =
                     IF row[res[w]] = Absent THEN Fresh ELSE row[res[w]]]
        /\ Goto(w, "start")
  /\ UNCHANGED <<queue, walk, left, faults>>

Start(w) ==
  /\ pc[w] = "start"
  /\ Upsert(w, [mem[w] EXCEPT !.status = "running"])
  /\ left' = [left EXCEPT ![w] = ChunkBudget]
  /\ Goto(w, "walk")
  /\ UNCHANGED <<queue, landed, faults>>

\* Mutant: a page whose delivery fails is passed over.
DeliverOrDrop(w) ==
  /\ pc[w] = "walk"
  /\ \/ landed' = [landed EXCEPT ![res[w]] = @ \cup {mem[w].cursor + 1}]
     \/ UNCHANGED landed
  /\ Goto(w, "save")
  /\ UNCHANGED <<queue, row, mem, left, faults>>

\* Every event of the page is delivered, or spooled after its retries.
DeliverPage(w) ==
  /\ pc[w] = "walk"
  /\ landed' = [landed EXCEPT ![res[w]] = @ \cup {mem[w].cursor + 1}]
  /\ Goto(w, "save")
  /\ UNCHANGED <<queue, row, mem, left, faults>>

Deepened(w) == mem[w].reached \/ mem[w].cursor + 1 \in BelowFloor[res[w]]

\* Mutant: the page before the last completes the resource.
LastButOne(w) ==
  /\ pc[w] = "save"
  /\ mem[w].cursor + 2 >= Pages
  /\ Upsert(w, [mem[w] EXCEPT !.status = "completed", !.reached = Deepened(w)])
  /\ Outcome(w, {"completed"})
  /\ UNCHANGED <<queue, landed, left, faults>>

\* The last page keeps the cursor and completes in the same write.
LastPage(w) ==
  /\ pc[w] = "save"
  /\ mem[w].cursor + 1 = Pages
  /\ Upsert(w, [mem[w] EXCEPT !.status = "completed", !.reached = Deepened(w)])
  /\ Outcome(w, {"completed"})
  /\ UNCHANGED <<queue, landed, left, faults>>

\* Mutant: the last page is checkpointed like any other.
CheckpointAlways(w) ==
  /\ pc[w] = "save"
  /\ Upsert(w, [status |-> "running", cursor |-> mem[w].cursor + 1,
                reached |-> Deepened(w)])
  /\ left' = [left EXCEPT ![w] = @ - 1]
  /\ Goto(w, IF Deepened(w) THEN "floor" ELSE IF left[w] = 1 THEN "pause" ELSE "walk")
  /\ UNCHANGED <<queue, landed, faults>>

Checkpoint(w) ==
  /\ pc[w] = "save"
  /\ mem[w].cursor + 1 < Pages
  /\ Upsert(w, [status |-> "running", cursor |-> mem[w].cursor + 1,
                reached |-> Deepened(w)])
  /\ left' = [left EXCEPT ![w] = @ - 1]
  /\ Goto(w, IF Deepened(w) THEN "floor" ELSE IF left[w] = 1 THEN "pause" ELSE "walk")
  /\ UNCHANGED <<queue, landed, faults>>

FloorReached(w) ==
  /\ pc[w] = "floor"
  /\ Upsert(w, [mem[w] EXCEPT !.status = "completed"])
  /\ Outcome(w, {"completed"})
  /\ UNCHANGED <<queue, landed, left, faults>>

Pause(w) ==
  /\ pc[w] = "pause"
  /\ Upsert(w, [mem[w] EXCEPT !.status = "paused"])
  /\ Outcome(w, {"paused"})
  /\ UNCHANGED <<queue, landed, left, faults>>

-----------------------------------------------------------------------------
(* Faults.                                                                  *)

Fault == faults < MaxFaults /\ faults' = faults + 1

SaltFails(w) ==
  /\ Fault
  /\ pc[w] = "claimed"
  /\ Finalize(w, "failed")
  /\ Leave(w)
  /\ UNCHANGED <<asked, walk>>

\* A page that cannot be fetched: the row fails and keeps its cursor.
FetchFails(w) ==
  /\ Fault
  /\ pc[w] = "walk"
  /\ Upsert(w, [mem[w] EXCEPT !.status = "failed"])
  /\ Outcome(w, {"failed"})
  /\ UNCHANGED <<queue, landed, left>>

\* The fetcher, the spool or a transaction throws: the row stays as it is.
ResourceThrows(w) ==
  /\ Fault
  /\ pc[w] \in {"build"} \cup Walking
  /\ Outcome(w, {"failed"})
  /\ UNCHANGED <<queue, walk, mem, left>>

\* The process dies, or the closing update throws: the job stays running.
Crash(w) ==
  /\ Fault
  /\ pc[w] # "idle"
  /\ Leave(w)
  /\ UNCHANGED <<queue, walk>>

-----------------------------------------------------------------------------
Advance(w) ==
  \/ Drive(w) \/ BuildFetcher(w) \/ SkipResource(w) \/ FindByResource(w)
  \/ Start(w) \/ DeliverPage(w) \/ LastPage(w) \/ Checkpoint(w)
  \/ FloorReached(w) \/ Pause(w) \/ Settle(w)

Interrupt(w) == SaltFails(w) \/ FetchFails(w) \/ ResourceThrows(w) \/ Crash(w)

Next ==
  \/ \E h \in Handlers : CheckActiveJob(h) \/ InsertQueued(h)
  \/ \E w \in Replicas : RequeueStaleRunning(w) \/ ClaimQueued(w)
  \/ \E w \in Scheduled : Repull(w)
  \/ \E w \in Runners : Advance(w) \/ Interrupt(w)

Spec == Init /\ [][Next]_vars

\* The claimer's timer goes on, and a run that does not fail goes on.
Fairness ==
  /\ \A w \in Replicas : WF_vars(RequeueStaleRunning(w)) /\ WF_vars(ClaimQueued(w))
  /\ \A w \in Runners : WF_vars(Advance(w))

FairSpec == Spec /\ Fairness

-----------------------------------------------------------------------------
(* Properties.                                                              *)

\* A checkpoint, persisted or held by a runner, never passes a page that has
\* not been delivered or spooled: whatever runs overlap, fail or crash, a
\* resume skips nothing (runResumableBackfill, "checkpointing after EACH page").
CursorPassesOnlyDelivered ==
  /\ \A r \in Resources : 1..row[r].cursor \subseteq landed[r]
  /\ \A w \in Runners : pc[w] \in Walking \ {"load"} =>
       1..mem[w].cursor \subseteq landed[res[w]]

\* A completed resource has every page of its window delivered, although a
\* completed row is never walked again.
WindowDelivered ==
  \A r \in Resources : row[r].status = "completed" => InWindow[r] \subseteq landed[r]

\* A job shown as completed has the window delivered of every resource that
\* had a fetcher, whoever else walked them at the same time.
CompletedJobDelivered ==
  \A j \in Jobs : jobs[j] = "completed" =>
    \A r \in Resources \ MayLack : InWindow[r] \subseteq landed[r]

\* The same of every resource (runIngestionBackfillFromQueue, "every resource
\* completed"): the claim of its comment.
CompletedJobWhole ==
  \A j \in Jobs : jobs[j] = "completed" =>
    \A r \in Resources : InWindow[r] \subseteq landed[r]

\* At most one job of the connector is queued or running
\* (ResourceBackfillState.ts, "at most ONE active job per connector_instance").
OneActiveJob == \A i, j \in Active : i = j

\* With a single runner the rows are the resumable walk: a checkpoint follows
\* the pages one by one, never goes back, and completed is for ever.
DoneRows == {r \in Resources : row[r].status = "completed"}
Cursors == [r \in Resources |-> row[r].cursor]
Promise == INSTANCE ResumableWalk WITH cursor <- Cursors, done <- DoneRows
KeepsWalk == Promise!Spec

\* A job that completed or failed is never run again.
SettledJobStays ==
  [][\A j \in Jobs : jobs[j] \in {"completed", "failed"} => jobs'[j] = jobs[j]]_vars

\* A queued job completes or fails in the end, through crashes and errors.
EveryJobSettles ==
  \A j \in Jobs : jobs[j] = "queued" ~> jobs[j] \in {"completed", "failed"}
=============================================================================
