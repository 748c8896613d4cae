---------------------------- MODULE ErasureQueue ----------------------------
(***************************************************************************)
(* ops.erasure_request_queue: the rows core inserts for every erasure      *)
(* request, and the statements ErasureRequestQueueRepository runs on them. *)
(* A statement is one step.  The three statements that settle a row name   *)
(* it by id and look at nothing else, so they act on whatever they find.   *)
(***************************************************************************)
EXTENDS Naturals, FiniteSets

CONSTANTS
  Reqs,          \* requests, named by the id of their envelope
  Brands,
  BrandOf,       \* [Reqs -> Brands]
  ClaimLimit,    \* rows one claim takes (10)
  MaxAttempts,   \* ERASURE_MAX_ATTEMPTS (5)
  LateCommits    \* may inserts become visible in another order than requested_at's

ASSUME QueueAssumption ==
  /\ BrandOf \in [Reqs -> Brands]
  /\ ClaimLimit \in Nat \ {0}
  /\ MaxAttempts \in Nat \ {0}
  /\ LateCommits \in BOOLEAN

VARIABLES
  now,           \* the database's clock, which moves when an insert starts
  rowStatus,     \* "absent", "inserting" and "lost" rows are not in the table
  requestedAt,   \* requested_at, 0 before the insert starts
  payload,       \* rows whose payload is not NULL
  attempts,
  parked,        \* rows whose next_attempt_at has not come yet
  aged           \* processing rows whose claimed_at is older than the stale limit

queueVars == <<now, rowStatus, requestedAt, payload, attempts, parked, aged>>

RowStatuses ==
  {"absent", "inserting", "lost", "requested", "processing", "done", "dead"}

QueueTypeOK ==
  /\ now \in Nat
  /\ rowStatus \in [Reqs -> RowStatuses]
  /\ requestedAt \in [Reqs -> Nat]
  /\ payload \subseteq Reqs
  /\ attempts \in [Reqs -> 0..MaxAttempts]
  /\ parked \subseteq Reqs
  /\ aged \subseteq Reqs

QueueInit ==
  /\ now = 0
  /\ rowStatus = [r \in Reqs |-> "absent"]
  /\ requestedAt = [r \in Reqs |-> 0]
  /\ payload = {}
  /\ attempts = [r \in Reqs |-> 0]
  /\ parked = {}
  /\ aged = {}

SetStatus(r, s) == rowStatus' = [rowStatus EXCEPT ![r] = s]
Pending(r) == rowStatus[r] \in {"requested", "processing"}
Settled(r) == rowStatus[r] \in {"done", "dead"}
Visible(r) == Pending(r) \/ Settled(r)
Older(q, r) == requestedAt[q] < requestedAt[r]

-----------------------------------------------------------------------------
(* The publisher.  now() is read when the insert starts; the row is seen    *)
(* by others when it commits.                                               *)

BeginInsert(r) ==
  /\ rowStatus[r] = "absent"
  /\ SetStatus(r, "inserting")
  /\ now' = now + 1
  /\ requestedAt' = [requestedAt EXCEPT ![r] = now']
  /\ UNCHANGED <<payload, attempts, parked, aged>>

CommitInsert(r) ==
  /\ rowStatus[r] = "inserting"
  /\ LateCommits \/ \A q \in Reqs : rowStatus[q] = "inserting" => ~Older(q, r)
  /\ SetStatus(r, "requested")
  /\ payload' = payload \cup {r}
  /\ UNCHANGED <<now, requestedAt, attempts, parked, aged>>

\* Fail-open: the error is logged and the caller never hears of it.
InsertFails(r) ==
  /\ rowStatus[r] = "inserting"
  /\ SetStatus(r, "lost")
  /\ UNCHANGED <<now, requestedAt, payload, attempts, parked, aged>>

BackoffEnds(r) ==
  /\ r \in parked
  /\ parked' = parked \ {r}
  /\ UNCHANGED <<now, rowStatus, requestedAt, payload, attempts, aged>>

-----------------------------------------------------------------------------
(* The repository.                                                          *)

\* Mutant: the requeue is left out.
RequeueNothing == UNCHANGED queueVars

RequeueStaleProcessing ==
  /\ rowStatus' = [r \in Reqs |-> IF r \in aged THEN "requested" ELSE rowStatus[r]]
  /\ parked' = parked \ aged
  /\ aged' = {}
  /\ UNCHANGED <<now, requestedAt, payload, attempts>>

\* Mutants of the head: the oldest row among the requested ones only, and the
\* newest pending row.
HeadOfRequested(r) ==
  /\ Pending(r)
  /\ \A q \in Reqs : BrandOf[q] = BrandOf[r] /\ rowStatus[q] = "requested" => ~Older(q, r)

NewestOfBrand(r) ==
  /\ Pending(r)
  /\ \A q \in Reqs : BrandOf[q] = BrandOf[r] /\ Pending(q) => ~Older(r, q)

\* The oldest pending row of its brand.
HeadOfBrand(r) ==
  /\ Pending(r)
  /\ \A q \in Reqs : BrandOf[q] = BrandOf[r] /\ Pending(q) => ~Older(q, r)

Claimable ==
  {r \in Reqs : HeadOfBrand(r) /\ rowStatus[r] = "requested" /\ r \notin parked}

\* S is what the LIMIT lets through: the oldest claimable rows.
ClaimedBy(S) ==
  /\ S \subseteq Claimable
  /\ \A r \in S, q \in Claimable \ S : Older(r, q)
  /\ Cardinality(S) <= ClaimLimit
  /\ S = Claimable \/ Cardinality(S) = ClaimLimit

ClaimRows(S) ==
  /\ ClaimedBy(S)
  /\ rowStatus' = [r \in Reqs |-> IF r \in S THEN "processing" ELSE rowStatus[r]]
  /\ aged' = aged \ S
  /\ UNCHANGED <<now, requestedAt, payload, attempts, parked>>

MarkDone(r) ==
  /\ SetStatus(r, "done")
  /\ payload' = payload \ {r}
  /\ aged' = aged \ {r}
  /\ UNCHANGED <<now, requestedAt, attempts, parked>>

MarkRetry(r, n) ==
  /\ SetStatus(r, "requested")
  /\ attempts' = [attempts EXCEPT ![r] = n]
  /\ parked' = parked \cup {r}
  /\ aged' = aged \ {r}
  /\ UNCHANGED <<now, requestedAt, payload>>

MarkDead(r, n) ==
  /\ SetStatus(r, "dead")
  /\ attempts' = [attempts EXCEPT ![r] = n]
  /\ aged' = aged \ {r}
  /\ UNCHANGED <<now, requestedAt, payload, parked>>
=============================================================================
