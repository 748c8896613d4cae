------------------------ MODULE ErasureOrchestrator ------------------------
(***************************************************************************)
(* The erasure lane: replicas of the poll loop of erasure-orchestrator,    *)
(* each requeueing stale claims, claiming the heads of the brands and      *)
(* working through what it claimed, oldest first, over ErasureQueue.  The  *)
(* erasure of one subject is a step here; SubjectErasure opens it up.      *)
(***************************************************************************)
EXTENDS ErasureQueue

CONSTANTS
  Workers,      \* replicas; each runs one tick at a time
  Malformed,    \* requests whose envelope EraseSubjectUseCase calls invalid
  SlowBatches,  \* may a claim age while the worker that holds it is alive
  LostAnswers,  \* may an UPDATE take effect and its answer be lost
  MaxFaults     \* bound on crashes, failed UPDATEs, lost answers, slow batches

ASSUME WorkerAssumption ==
  /\ Malformed \subseteq Reqs
  /\ SlowBatches \in BOOLEAN
  /\ LostAnswers \in BOOLEAN
  /\ MaxFaults \in Nat

VARIABLES
  pc,         \* where each worker is in its tick
  held,       \* rows it claimed and has not finished with
  snapshot,   \* what its claim returned: the payload and attempts of each row
  faults,     \* faults so far
  erased,     \* history: requests whose erasure ran to its end
  withdrawn   \* history: requests whose consent withdrawal was projected

workerVars == <<pc, held, snapshot>>
vars == <<queueVars, workerVars, faults, erased, withdrawn>>

Pcs == {"idle", "claim", "execute", "project", "finish", "reject", "catch"}
Claims == [payload : BOOLEAN, attempts : 0..MaxAttempts - 1]

TypeOK ==
  /\ QueueTypeOK
  /\ pc \in [Workers -> Pcs]
  /\ held \in [Workers -> SUBSET Reqs]
  /\ snapshot \in [Workers -> [Reqs -> Claims]]
  /\ faults \in 0..MaxFaults
  /\ erased \subseteq Reqs /\ withdrawn \subseteq Reqs

Init ==
  /\ QueueInit
  /\ pc = [w \in Workers |-> "idle"]
  /\ held = [w \in Workers |-> {}]
  /\ snapshot = [w \in Workers |-> [r \in Reqs |-> [payload |-> FALSE, attempts |-> 0]]]
  /\ faults = 0
  /\ erased = {} /\ withdrawn = {}

Goto(w, l) == pc' = [pc EXCEPT ![w] = l]
SpendFault == faults < MaxFaults /\ faults' = faults + 1

\* The row worker w is at: the oldest of those it holds.
At(w, r, l) ==
  /\ pc[w] = l
  /\ r \in held[w]
  /\ \A q \in held[w] : ~Older(q, r)

\* Worker w has finished with r and turns to the next row of its batch.
NextRow(w, r) ==
  /\ held' = [held EXCEPT ![w] = @ \ {r}]
  /\ Goto(w, IF held[w] = {r} THEN "idle" ELSE "execute")
  /\ UNCHANGED snapshot

\* The tick ends: what is left of the batch stays 'processing'.
DropBatch(w) ==
  /\ held' = [held EXCEPT ![w] = {}]
  /\ Goto(w, "idle")
  /\ UNCHANGED snapshot

-----------------------------------------------------------------------------
(* The tick.                                                                *)

Requeue(w) ==
  /\ pc[w] = "idle"
  /\ RequeueStaleProcessing
  /\ Goto(w, "claim")
  /\ UNCHANGED <<held, snapshot, faults, erased, withdrawn>>

Claim(w) ==
  /\ pc[w] = "claim"
  /\ \E S \in SUBSET Claimable :
       /\ ClaimRows(S)
       /\ held' = [held EXCEPT ![w] = S]
       /\ snapshot' = [snapshot EXCEPT ![w] = [r \in Reqs |->
            [payload |-> r \in S /\ r \in payload,
             attempts |-> IF r \in S THEN attempts[r] ELSE 0]]]
       /\ Goto(w, IF S = {} THEN "idle" ELSE "execute")
  /\ UNCHANGED <<faults, erased, withdrawn>>

-----------------------------------------------------------------------------
(* processRow.                                                              *)

Valid(w, r) == snapshot[w][r].payload /\ r \notin Malformed

ExecuteReturns(w, r) ==
  /\ At(w, r, "execute")
  /\ Valid(w, r)
  /\ erased' = erased \cup {r}
  /\ Goto(w, "project")
  /\ UNCHANGED <<queueVars, held, snapshot, faults, withdrawn>>

ExecuteInvalid(w, r) ==
  /\ At(w, r, "execute")
  /\ ~Valid(w, r)
  /\ Goto(w, "reject")
  /\ UNCHANGED <<queueVars, held, snapshot, faults, erased, withdrawn>>

ExecuteThrows(w, r) ==
  /\ At(w, r, "execute")
  /\ Valid(w, r)
  /\ Goto(w, "catch")
  /\ UNCHANGED <<queueVars, held, snapshot, faults, erased, withdrawn>>

\* Mutant: the failure of the projection is swallowed.
ProjectAnyway(w, r) ==
  /\ At(w, r, "project")
  /\ Goto(w, "finish")
  /\ UNCHANGED <<queueVars, held, snapshot, faults, erased, withdrawn>>

ProjectConsent(w, r) ==
  /\ At(w, r, "project")
  /\ withdrawn' = withdrawn \cup {r}
  /\ Goto(w, "finish")
  /\ UNCHANGED <<queueVars, held, snapshot, faults, erased>>

ProjectThrows(w, r) ==
  /\ At(w, r, "project")
  /\ Goto(w, "catch")
  /\ UNCHANGED <<queueVars, held, snapshot, faults, erased, withdrawn>>

\* markDone and the markDead of an invalid envelope are inside the try.
Finish(w, r) ==
  /\ At(w, r, "finish")
  /\ MarkDone(r)
  /\ NextRow(w, r)
  /\ UNCHANGED <<faults, erased, withdrawn>>

Reject(w, r) ==
  /\ At(w, r, "reject")
  /\ MarkDead(r, snapshot[w][r].attempts)
  /\ NextRow(w, r)
  /\ UNCHANGED <<faults, erased, withdrawn>>

MarkThrows(w, r) ==
  /\ At(w, r, "finish") \/ At(w, r, "reject")
  /\ SpendFault
  /\ Goto(w, "catch")
  /\ \/ UNCHANGED queueVars
     \/ LostAnswers /\ pc[w] = "finish" /\ MarkDone(r)
     \/ LostAnswers /\ pc[w] = "reject" /\ MarkDead(r, snapshot[w][r].attempts)
  /\ UNCHANGED <<held, snapshot, erased, withdrawn>>

\* Mutant: one attempt too few.
MarkFailedEarly(w, r) ==
  LET n == snapshot[w][r].attempts + 1
  IN IF n + 1 >= MaxAttempts THEN MarkDead(r, n) ELSE MarkRetry(r, n)

\* What the catch does to the row: one more attempt, or dead when it was the last.
MarkFailed(w, r) ==
  LET n == snapshot[w][r].attempts + 1
  IN IF n >= MaxAttempts THEN MarkDead(r, n) ELSE MarkRetry(r, n)

Catch(w, r) ==
  /\ At(w, r, "catch")
  /\ MarkFailed(w, r)
  /\ NextRow(w, r)
  /\ UNCHANGED <<faults, erased, withdrawn>>

\* A mark that fails in the catch ends the whole tick.
CatchThrows(w, r) ==
  /\ At(w, r, "catch")
  /\ SpendFault
  /\ \/ UNCHANGED queueVars
     \/ LostAnswers /\ MarkFailed(w, r)
  /\ DropBatch(w)
  /\ UNCHANGED <<erased, withdrawn>>

-----------------------------------------------------------------------------
(* The process ends, in the middle of a row when stop() gave up waiting.    *)

Crash(w) ==
  /\ pc[w] # "idle"
  /\ SpendFault
  /\ DropBatch(w)
  /\ UNCHANGED <<queueVars, erased, withdrawn>>

Abandoned(r) == \A w \in Workers : r \notin held[w]

\* Ten minutes pass since r was claimed.
ClaimAges(r) ==
  /\ rowStatus[r] = "processing"
  /\ r \notin aged
  /\ aged' = aged \cup {r}
  /\ UNCHANGED <<now, rowStatus, requestedAt, payload, attempts, parked>>
  /\ UNCHANGED <<workerVars, erased, withdrawn>>

AbandonedClaimAges(r) == Abandoned(r) /\ ClaimAges(r) /\ UNCHANGED faults
HeldClaimAges(r) == ~Abandoned(r) /\ SlowBatches /\ ClaimAges(r) /\ SpendFault

BackoffPasses(r) == BackoffEnds(r) /\ UNCHANGED <<workerVars, faults, erased, withdrawn>>

Insert(r) ==
  /\ BeginInsert(r) \/ CommitInsert(r) \/ InsertFails(r)
  /\ UNCHANGED <<workerVars, faults, erased, withdrawn>>

Work(w, r) ==
  \/ ExecuteReturns(w, r) \/ ExecuteInvalid(w, r) \/ ExecuteThrows(w, r)
  \/ ProjectConsent(w, r) \/ ProjectThrows(w, r)
  \/ Finish(w, r) \/ Reject(w, r) \/ Catch(w, r)

Next ==
  \/ \E r \in Reqs : Insert(r) \/ BackoffPasses(r)
  \/ \E r \in Reqs : AbandonedClaimAges(r) \/ HeldClaimAges(r)
  \/ \E w \in Workers : Requeue(w) \/ Claim(w) \/ Crash(w)
  \/ \E w \in Workers, r \in Reqs : Work(w, r) \/ MarkThrows(w, r) \/ CatchThrows(w, r)

Spec == Init /\ [][Next]_vars

\* The loop polls for ever, a row in work is carried on, and time passes.
Fairness ==
  /\ \A w \in Workers : WF_vars(Requeue(w)) /\ WF_vars(Claim(w))
  /\ \A w \in Workers : WF_vars(\E r \in Reqs : Work(w, r))
  /\ \A r \in Reqs : WF_vars(AbandonedClaimAges(r)) /\ WF_vars(BackoffPasses(r))

LiveSpec == Spec /\ Fairness

-----------------------------------------------------------------------------
(* Properties.                                                              *)

\* Claims are kept ten minutes, rows become visible in the order of their
\* requested_at, and an UPDATE that took effect is known to have.
Punctual == ~SlowBatches /\ ~LateCommits /\ ~LostAnswers

Working(w, r) == At(w, r, "execute") \/ At(w, r, "project")

\* Two replicas never run erasures of one brand at the same time: the head rule
\* of claimBatch with the order of the loop in processErasureQueueTick.
OneErasurePerBrand ==
  \A v, w \in Workers : v # w =>
    \A q, r \in Reqs : Working(v, q) /\ Working(w, r) => BrandOf[q] # BrandOf[r]

\* A row gives up its payload only when its request was served: the erasure ran
\* to its end and the consent withdrawal was projected, by whichever worker.
NoneLostUnserved ==
  \A r \in Reqs : Visible(r) /\ r \notin payload => r \in erased /\ r \in withdrawn

\* A row is dead for a reason: an envelope no retry helps, every attempt used up,
\* or a request that was served before and has no payload left.
DeadForAReason ==
  \A r \in Reqs : rowStatus[r] = "dead" =>
    \/ r \in Malformed \/ attempts[r] = MaxAttempts
    \/ r \notin payload /\ r \in erased /\ r \in withdrawn

\* Rows that are dead keep their payload for the operator (markDead leaves it).
DeadKeepsPayload == \A r \in Reqs : rowStatus[r] = "dead" => r \in payload

\* A row that is done or dead is never worked on again.
SettledStays == [][\A r \in Reqs : Settled(r) => rowStatus'[r] = rowStatus[r]]_vars

\* Every request that reached the queue is done or dead in the end, through
\* crashes, failed updates and claims nobody holds any more.
EveryRequestSettles ==
  \A r \in Reqs : (rowStatus[r] = "requested") ~> Settled(r)

\* The queue is the partitioned log it replaced.
Lane == INSTANCE ErasureLane WITH
  stamp <- [r \in Reqs |-> IF Visible(r) THEN requestedAt[r] ELSE 0],
  open  <- {r \in Reqs : Pending(r)},
  taken <- UNION {held[w] : w \in Workers},
  fate  <- [r \in Reqs |-> IF Settled(r) THEN rowStatus[r] ELSE "none"]

\* Every step of the lane is a step of the partitioned log: per brand, requests
\* are taken in order and one at a time, and what is settled stays settled.
KeepsLaneContract == Lane!Spec
=============================================================================
