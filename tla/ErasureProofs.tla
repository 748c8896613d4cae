--------------------------- MODULE ErasureProofs ---------------------------
(***************************************************************************)
(* Theorems about ErasureOrchestrator.tla, for every set of requests,      *)
(* brands and workers, every claim limit, retry budget and fault budget.   *)
(***************************************************************************)
EXTENDS ErasureOrchestrator, TLAPS

USE QueueAssumption, WorkerAssumption

-----------------------------------------------------------------------------
(* The table, whatever goes wrong.  requested_at tells begun rows apart, an  *)
(* aged row is a processing one, a row that is not settled has attempts      *)
(* left, and a worker only ever holds rows that are in the table.            *)

Begun(r) == rowStatus[r] # "absent"

Stamped ==
  /\ \A r \in Reqs : requestedAt[r] <= now
  /\ \A r \in Reqs : ~Begun(r) <=> requestedAt[r] = 0
  /\ \A q, r \in Reqs : Begun(q) /\ requestedAt[q] = requestedAt[r] => q = r

Table ==
  /\ \A r \in aged : rowStatus[r] = "processing"
  /\ \A r \in Reqs : ~Settled(r) => attempts[r] < MaxAttempts
  /\ \A w \in Workers : \A r \in held[w] : Visible(r)

Base == TypeOK /\ Stamped /\ Table

LEMMA BaseInit == Init => Base
BY DEF Init, QueueInit, Base, TypeOK, QueueTypeOK, RowStatuses, Pcs, Claims,
       Stamped, Table, Begun, Settled

\* What a step may do to the table: it leaves the stamps alone and keeps rows
\* that were begun, and rows that were visible.
Keeps ==
  /\ now' = now /\ requestedAt' = requestedAt
  /\ \A r \in Reqs : Begun(r) <=> Begun(r)'
  /\ \A r \in Reqs : Visible(r) => Visible(r)'

LEMMA StampedKept == Stamped /\ Keeps => Stamped'
BY DEF Stamped, Keeps

LEMMA SameKeeps == UNCHANGED <<now, requestedAt, rowStatus>> => Keeps
BY DEF Keeps, Begun, Visible, Pending, Settled

\* What every step of a worker does to the table, marks included.
TableStep ==
  /\ QueueTypeOK' /\ Keeps
  /\ \A q \in aged' : rowStatus'[q] = "processing"
  /\ \A q \in Reqs : ~Settled(q)' => attempts'[q] < MaxAttempts

LEMMA SameTableStep == Base /\ UNCHANGED queueVars => TableStep
BY SameKeeps DEF Base, TypeOK, QueueTypeOK, Table, queueVars, TableStep, Settled

LEMMA MarkDoneBase ==
  ASSUME Base, NEW r \in Reqs, MarkDone(r), Visible(r)
  PROVE  TableStep
BY DEF TableStep, Base, TypeOK, QueueTypeOK, Table, MarkDone, SetStatus, RowStatuses, Keeps, Begun, Visible, Pending, Settled

LEMMA MarkRetryBase ==
  ASSUME Base, NEW r \in Reqs, NEW n \in 0..MaxAttempts - 1, MarkRetry(r, n), Visible(r)
  PROVE  TableStep
BY DEF TableStep, Base, TypeOK, QueueTypeOK, Table, MarkRetry, SetStatus, RowStatuses, Keeps, Begun, Visible, Pending, Settled

LEMMA MarkDeadBase ==
  ASSUME Base, NEW r \in Reqs, NEW n \in 0..MaxAttempts, MarkDead(r, n), Visible(r)
  PROVE  TableStep
BY DEF TableStep, Base, TypeOK, QueueTypeOK, Table, MarkDead, SetStatus, RowStatuses, Keeps, Begun, Visible, Pending, Settled

\* What the worker variables may become.
WorkerStep ==
  /\ pc' \in [Workers -> Pcs]
  /\ held' \in [Workers -> SUBSET Reqs]
  /\ \A w \in Workers : held'[w] \subseteq held[w]
  /\ snapshot' \in [Workers -> [Reqs -> Claims]]
  /\ faults' \in 0..MaxFaults
  /\ erased' \subseteq Reqs /\ withdrawn' \subseteq Reqs

LEMMA BaseStep == Base /\ TableStep /\ WorkerStep => Base'
<1> SUFFICES ASSUME Base, TableStep, WorkerStep PROVE Base' OBVIOUS
<1>1. TypeOK' BY DEF TableStep, WorkerStep, TypeOK
<1>2. Stamped' BY StampedKept DEF Base, TableStep
<1>3. Table' BY DEF Base, Table, TypeOK, TableStep, WorkerStep, Keeps
<1> QED BY <1>1, <1>2, <1>3 DEF Base

\* A step of one row: the worker moves to l and may drop rows.
LEMMA MoveOK ==
  ASSUME Base, NEW w \in Workers, NEW l \in Pcs, Goto(w, l),
         UNCHANGED <<held, snapshot>>, faults' \in 0..MaxFaults,
         erased' \subseteq Reqs, withdrawn' \subseteq Reqs
  PROVE  WorkerStep
BY DEF Base, TypeOK, Goto, WorkerStep

LEMMA NextRowOK ==
  ASSUME Base, NEW w \in Workers, NEW r \in Reqs, NextRow(w, r),
         UNCHANGED <<faults, erased, withdrawn>>
  PROVE  WorkerStep
BY DEF Base, TypeOK, NextRow, Goto, WorkerStep, Pcs

LEMMA DropOK ==
  ASSUME Base, NEW w \in Workers, DropBatch(w), faults' \in 0..MaxFaults,
         UNCHANGED <<erased, withdrawn>>
  PROVE  WorkerStep
BY DEF Base, TypeOK, DropBatch, Goto, WorkerStep, Pcs

LEMMA FaultOK == Base /\ SpendFault => faults' \in 0..MaxFaults
BY DEF Base, TypeOK, SpendFault

LEMMA MarkFailedOK ==
  ASSUME Base, NEW w \in Workers, NEW r \in held[w], MarkFailed(w, r)
  PROVE  TableStep
<1> DEFINE n == snapshot[w][r].attempts + 1
<1>1. r \in Reqs /\ Visible(r) BY DEF Base, TypeOK, Table
<1>2. snapshot[w][r] \in Claims BY <1>1 DEF Base, TypeOK
<1>3. n \in 1..MaxAttempts BY <1>2 DEF Claims
<1>4. CASE n >= MaxAttempts
  <2>1. MarkDead(r, n) BY <1>4 DEF MarkFailed
  <2> QED BY <1>1, <1>3, <2>1, MarkDeadBase
<1>5. CASE ~(n >= MaxAttempts)
  <2>1. MarkRetry(r, n) BY <1>5 DEF MarkFailed
  <2>2. n \in 0..MaxAttempts - 1 BY <1>3, <1>5
  <2> QED BY <1>1, <2>2, <2>1, MarkRetryBase
<1> QED BY <1>4, <1>5

LEMMA RejectedOK ==
  ASSUME Base, NEW w \in Workers, NEW r \in held[w], MarkDead(r, snapshot[w][r].attempts)
  PROVE  TableStep
<1>1. r \in Reqs /\ Visible(r) BY DEF Base, TypeOK, Table
<1>2. snapshot[w][r] \in Claims BY <1>1 DEF Base, TypeOK
<1>3. snapshot[w][r].attempts \in 0..MaxAttempts BY <1>2 DEF Claims
<1> QED BY <1>1, <1>3, MarkDeadBase

LEMMA BaseWork ==
  ASSUME Base, NEW w \in Workers, NEW r \in Reqs,
         Work(w, r) \/ MarkThrows(w, r) \/ CatchThrows(w, r)
  PROVE  Base'
<1>0. r \in held[w] /\ Visible(r)
  BY DEF Work, ExecuteReturns, ExecuteInvalid, ExecuteThrows, ProjectConsent, ProjectThrows,
         Finish, Reject, Catch, MarkThrows, CatchThrows, At, Base, Table
<1>1. CASE ExecuteReturns(w, r) \/ ExecuteInvalid(w, r) \/ ExecuteThrows(w, r)
  <2>1. TableStep
    BY <1>1, SameTableStep DEF ExecuteReturns, ExecuteInvalid, ExecuteThrows
  <2>2. WorkerStep
    BY <1>1, MoveOK DEF ExecuteReturns, ExecuteInvalid, ExecuteThrows, Base, TypeOK, Pcs
  <2> QED BY <2>1, <2>2, BaseStep
<1>2. CASE ProjectConsent(w, r) \/ ProjectThrows(w, r)
  <2>1. TableStep BY <1>2, SameTableStep DEF ProjectConsent, ProjectThrows
  <2>2. WorkerStep BY <1>2, MoveOK DEF ProjectConsent, ProjectThrows, Base, TypeOK, Pcs
  <2> QED BY <2>1, <2>2, BaseStep
<1>3. CASE Finish(w, r)
  BY <1>0, <1>3, MarkDoneBase, NextRowOK, BaseStep DEF Finish
<1>4. CASE Reject(w, r)
  BY <1>0, <1>4, RejectedOK, NextRowOK, BaseStep DEF Reject
<1>5. CASE Catch(w, r)
  BY <1>0, <1>5, MarkFailedOK, NextRowOK, BaseStep DEF Catch
<1>6. CASE MarkThrows(w, r)
  <2>1. TableStep
    BY <1>0, <1>6, SameTableStep, MarkDoneBase, RejectedOK DEF MarkThrows
  <2>2. WorkerStep
    BY <1>6, MoveOK, FaultOK DEF MarkThrows, Base, TypeOK, Pcs
  <2> QED BY <2>1, <2>2, BaseStep
<1>7. CASE CatchThrows(w, r)
  <2>1. TableStep BY <1>0, <1>7, SameTableStep, MarkFailedOK DEF CatchThrows
  <2>2. WorkerStep BY <1>7, DropOK, FaultOK DEF CatchThrows
  <2> QED BY <2>1, <2>2, BaseStep
<1> QED
  BY <1>1, <1>2, <1>3, <1>4, <1>5, <1>6, <1>7 DEF Work

LEMMA BaseTick ==
  ASSUME Base, NEW w \in Workers, Requeue(w) \/ Claim(w) \/ Crash(w)
  PROVE  Base'
<1>1. CASE Requeue(w)
  <2>1. TableStep
    BY <1>1 DEF Requeue, RequeueStaleProcessing, TableStep, Base, TypeOK, QueueTypeOK, Table,
                RowStatuses, Keeps, Begun, Visible, Pending, Settled
  <2>2. WorkerStep
    BY <1>1 DEF Requeue, WorkerStep, Base, TypeOK, Goto, Pcs
  <2> QED BY <2>1, <2>2, BaseStep
<1>2. CASE Claim(w)
  <2>1. PICK S \in SUBSET Claimable :
          /\ ClaimRows(S)
          /\ held' = [held EXCEPT ![w] = S]
          /\ snapshot' = [snapshot EXCEPT ![w] = [r \in Reqs |->
               [payload |-> r \in S /\ r \in payload,
                attempts |-> IF r \in S THEN attempts[r] ELSE 0]]]
          /\ Goto(w, IF S = {} THEN "idle" ELSE "execute")
    BY <1>2 DEF Claim
  <2>2. \A r \in S : r \in Reqs /\ rowStatus[r] = "requested" /\ ~Settled(r)
    BY DEF Claimable, Settled
  <2>3. TableStep
    BY <2>1, <2>2 DEF ClaimRows, TableStep, Base, TypeOK, QueueTypeOK, Table,
                      RowStatuses, Keeps, Begun, Visible, Pending, Settled
  <2>4. \A r \in Reqs : [payload |-> r \in S /\ r \in payload,
                         attempts |-> IF r \in S THEN attempts[r] ELSE 0] \in Claims
    BY <2>2 DEF Claims, Base, TypeOK, QueueTypeOK, Table
  <2>5. TypeOK'
    BY <1>2, <2>1, <2>2, <2>3, <2>4
       DEF TableStep, Claim, Base, TypeOK, Goto, Pcs
  <2>6. \A v \in Workers : \A r \in held'[v] : Visible(r)'
    BY <2>1, <2>2, <2>3 DEF Base, TypeOK, Table, TableStep, Keeps, Visible, Pending
  <2> QED BY <2>3, <2>5, <2>6, StampedKept DEF Base, Table, TableStep
<1>3. CASE Crash(w)
  BY <1>3, SameTableStep, DropOK, FaultOK, BaseStep DEF Crash
<1> QED BY <1>1, <1>2, <1>3

LEMMA BaseRow ==
  ASSUME Base, NEW r \in Reqs,
         Insert(r) \/ BackoffPasses(r) \/ AbandonedClaimAges(r) \/ HeldClaimAges(r)
  PROVE  Base'
<1> USE DEF Base, TypeOK, QueueTypeOK, workerVars
<1>1. CASE Insert(r) /\ BeginInsert(r)
  <2>1. TypeOK' BY <1>1 DEF Insert, BeginInsert, SetStatus, RowStatuses
  <2>2. Stamped' BY <1>1 DEF Stamped, BeginInsert, SetStatus, Begun
  <2>3. Table' BY <1>1 DEF Insert, Table, BeginInsert, SetStatus, Settled, Visible, Pending
  <2> QED BY <2>1, <2>2, <2>3
<1>2. CASE Insert(r) /\ (CommitInsert(r) \/ InsertFails(r))
  <2>1. TypeOK' BY <1>2 DEF Insert, CommitInsert, InsertFails, SetStatus, RowStatuses
  <2>2. Stamped' BY <1>2 DEF Stamped, CommitInsert, InsertFails, SetStatus, Begun
  <2>3. Table'
    BY <1>2 DEF Insert, Table, CommitInsert, InsertFails, SetStatus, Settled, Visible, Pending
  <2> QED BY <2>1, <2>2, <2>3
<1>3. CASE BackoffPasses(r)
  BY <1>3 DEF BackoffPasses, BackoffEnds, Stamped, Table, Begun, Settled, Visible, Pending
<1>4. CASE AbandonedClaimAges(r) \/ HeldClaimAges(r)
  <2>1. faults' \in 0..MaxFaults
    BY <1>4 DEF AbandonedClaimAges, HeldClaimAges, SpendFault
  <2> QED
    BY <1>4, <2>1 DEF AbandonedClaimAges, HeldClaimAges, ClaimAges,
                      Stamped, Table, Begun, Settled, Visible, Pending
<1> QED BY <1>1, <1>2, <1>3, <1>4 DEF Insert

LEMMA BaseStutter == Base /\ UNCHANGED vars => Base'
BY DEF vars, queueVars, workerVars, Base, TypeOK, QueueTypeOK, Stamped, Table,
       Begun, Settled, Visible, Pending

LEMMA BaseNext == Base /\ [Next]_vars => Base'
BY BaseWork, BaseTick, BaseRow, BaseStutter DEF Next

\* Every reachable state has the types of TypeOK: in particular a row that may be
\* worked on has attempts left, however its claims and marks interleave.
THEOREM ErasureTypeCorrect == Spec => []TypeOK
<1>1. Base => TypeOK BY DEF Base
<1> QED BY BaseInit, BaseNext, <1>1, PTL DEF Spec

\* The invariant all the other proofs start from: the types, the rows' stamps and
\* what their statuses imply for the columns the repository's statements set.
LEMMA BaseAlways == Spec => []Base
BY BaseInit, BaseNext, PTL DEF Spec

-----------------------------------------------------------------------------
(* No request is given up unserved.  The invariant follows a row from the   *)
(* claim, which remembers whether the payload was there, to the marks.      *)

Served(r) == r \in erased /\ r \in withdrawn

Service ==
  /\ NoneLostUnserved
  /\ \A w \in Workers, r \in Reqs : At(w, r, "project") => r \in erased
  /\ \A w \in Workers, r \in Reqs : At(w, r, "finish") => Served(r)
  /\ \A w \in Workers : \A r \in held[w] : ~snapshot[w][r].payload => r \notin payload /\ Served(r)
  /\ \A w \in Workers, r \in Reqs : At(w, r, "reject") => ~Valid(w, r)
  /\ DeadForAReason

LEMMA AtUnique ==
  ASSUME Base, NEW w \in Workers, NEW q \in Reqs, NEW r \in Reqs, NEW l, NEW k,
         At(w, q, l), At(w, r, k)
  PROVE  q = r
<1>1. requestedAt[q] = requestedAt[r]
  <2>1. requestedAt[q] \in Nat /\ requestedAt[r] \in Nat BY DEF Base, TypeOK, QueueTypeOK
  <2>2. ~Older(q, r) /\ ~Older(r, q) BY DEF At
  <2> QED BY <2>1, <2>2 DEF Older
<1>2. Begun(q) BY DEF At, Base, Table, Begun, Visible, Pending, Settled
<1> QED BY <1>1, <1>2 DEF Base, Stamped

LEMMA ServiceInit == Init => Service
BY DEF Init, QueueInit, Service, NoneLostUnserved, DeadForAReason, At, Visible, Pending, Settled

\* A step that moves worker w from row r to l, and leaves the rows of the table
\* and the batches as they are.
LEMMA ServiceMove ==
  ASSUME Base, Service, NEW w \in Workers, NEW r \in Reqs, NEW l \in Pcs, NEW k,
         At(w, r, k), Goto(w, l),
         UNCHANGED <<rowStatus, requestedAt, payload, attempts, held, snapshot>>,
         erased \subseteq erased', withdrawn \subseteq withdrawn',
         l = "project" => r \in erased', l = "finish" => r \in erased' /\ r \in withdrawn',
         l = "reject" => ~Valid(w, r)
  PROVE  Service'
<1>1. \A v \in Workers, q \in Reqs, j \in Pcs :
        At(v, q, j)' => At(v, q, j) \/ (v = w /\ q = r /\ j = l)
  <2> SUFFICES ASSUME NEW v \in Workers, NEW q \in Reqs, NEW j \in Pcs, At(v, q, j)'
               PROVE  At(v, q, j) \/ (v = w /\ q = r /\ j = l)
    OBVIOUS
  <2>1. CASE v # w BY <2>1 DEF At, Goto, Older, Base, TypeOK
  <2>2. CASE v = w
    <3>1. j = l BY <2>2 DEF At, Goto, Base, TypeOK
    <3>2. At(w, q, k) BY <2>2 DEF At, Older
    <3> QED BY <2>2, <3>1, <3>2, AtUnique
  <2> QED BY <2>1, <2>2
<1>2. (\A v \in Workers, q \in Reqs : Valid(v, q)' <=> Valid(v, q)) BY DEF Valid
<1>3. NoneLostUnserved' BY DEF Service, NoneLostUnserved, Visible, Pending, Settled
<1>4. DeadForAReason' BY DEF Service, DeadForAReason
<1>5. (\A v \in Workers, q \in Reqs : At(v, q, "project") => q \in erased)'
  BY <1>1 DEF Service, Pcs
<1>6. (\A v \in Workers, q \in Reqs : At(v, q, "finish") => Served(q))'
  BY <1>1 DEF Service, Pcs, Served
<1>7. (\A v \in Workers : \A q \in held[v] : ~snapshot[v][q].payload => q \notin payload /\ Served(q))'
  BY DEF Service, Served
<1>8. (\A v \in Workers, q \in Reqs : At(v, q, "reject") => ~Valid(v, q))'
  BY <1>1, <1>2 DEF Service, Pcs
<1> QED BY <1>3, <1>4, <1>5, <1>6, <1>7, <1>8 DEF Service

\* A step that leaves worker w at "execute" or "idle" with fewer rows, or at
\* "catch" with the same ones: what is left to show is about the table.
LEMMA ServiceLeave ==
  ASSUME Base, Service, NEW w \in Workers, NEW l \in {"idle", "execute", "claim", "catch"}, Goto(w, l),
         requestedAt' = requestedAt, snapshot' = snapshot,
         \A v \in Workers : held'[v] \subseteq held[v],
         \A v \in Workers : v # w => held'[v] = held[v],
         UNCHANGED <<erased, withdrawn>>, payload' \subseteq payload,
         NoneLostUnserved', DeadForAReason'
  PROVE  Service'
<1>1. \A v \in Workers, q \in Reqs, j \in {"project", "finish", "reject"} :
        At(v, q, j)' => At(v, q, j)
  BY DEF At, Goto, Older, Base, TypeOK
<1>2. (\A v \in Workers, q \in Reqs : Valid(v, q)' <=> Valid(v, q)) BY DEF Valid
<1> QED BY <1>1, <1>2 DEF Service, Served

\* The marks keep the two facts about the table.
LEMMA MarkDoneServed ==
  ASSUME Base, Service, NEW r \in Reqs, MarkDone(r), Served(r), UNCHANGED <<erased, withdrawn>>
  PROVE  NoneLostUnserved' /\ DeadForAReason'
BY DEF Service, NoneLostUnserved, DeadForAReason, Base, TypeOK, QueueTypeOK, MarkDone, SetStatus,
       Visible, Pending, Settled, Served

LEMMA MarkFailedServed ==
  ASSUME Base, Service, NEW w \in Workers, NEW r \in held[w], MarkFailed(w, r),
         UNCHANGED <<erased, withdrawn>>
  PROVE  NoneLostUnserved' /\ DeadForAReason'
<1> DEFINE n == snapshot[w][r].attempts + 1
<1>1. r \in Reqs /\ Visible(r) BY DEF Base, TypeOK, Table
<1>2. snapshot[w][r] \in Claims BY <1>1 DEF Base, TypeOK
<1>3. n \in 1..MaxAttempts BY <1>2 DEF Claims
<1>4. CASE n >= MaxAttempts
  <2>1. MarkDead(r, n) /\ n = MaxAttempts BY <1>3, <1>4 DEF MarkFailed
  <2> QED
    BY <1>1, <2>1 DEF Service, NoneLostUnserved, DeadForAReason, Base, TypeOK, QueueTypeOK,
                      MarkDead, SetStatus, Visible, Pending, Settled
<1>5. CASE ~(n >= MaxAttempts)
  <2>1. MarkRetry(r, n) BY <1>5 DEF MarkFailed
  <2> QED
    BY <1>1, <2>1 DEF Service, NoneLostUnserved, DeadForAReason, Base, TypeOK, QueueTypeOK,
                      MarkRetry, SetStatus, Visible, Pending, Settled
<1> QED BY <1>4, <1>5

LEMMA RejectedServed ==
  ASSUME Base, Service, NEW w \in Workers, NEW r \in Reqs, At(w, r, "reject"),
         MarkDead(r, snapshot[w][r].attempts), UNCHANGED <<erased, withdrawn>>
  PROVE  NoneLostUnserved' /\ DeadForAReason'
<1>1. r \in held[w] /\ Visible(r) BY DEF At, Base, Table
<1>2. r \in Malformed \/ (r \notin payload /\ r \in erased /\ r \in withdrawn)
  BY <1>1 DEF Service, Served, Valid
<1> QED
  BY <1>1, <1>2 DEF Service, NoneLostUnserved, DeadForAReason, Base, TypeOK, QueueTypeOK,
                    MarkDead, SetStatus, Visible, Pending, Settled

LEMMA SameServed ==
  ASSUME Service, UNCHANGED <<rowStatus, payload, attempts, erased, withdrawn>>
  PROVE  NoneLostUnserved' /\ DeadForAReason'
BY DEF Service, NoneLostUnserved, DeadForAReason, Visible, Pending, Settled

LEMMA NextRowLeaves ==
  ASSUME Base, NEW w \in Workers, NEW r \in Reqs, NextRow(w, r) \/ DropBatch(w)
  PROVE  /\ \E l \in {"idle", "execute", "claim", "catch"} : Goto(w, l)
         /\ snapshot' = snapshot
         /\ \A v \in Workers : held'[v] \subseteq held[v]
         /\ \A v \in Workers : v # w => held'[v] = held[v]
BY DEF NextRow, DropBatch, Goto, Base, TypeOK

LEMMA ServiceWork ==
  ASSUME Base, Service, NEW w \in Workers, NEW r \in Reqs,
         Work(w, r) \/ MarkThrows(w, r) \/ CatchThrows(w, r)
  PROVE  Service'
<1>1. CASE ExecuteReturns(w, r) \/ ExecuteInvalid(w, r) \/ ExecuteThrows(w, r)
  BY <1>1, ServiceMove
     DEF ExecuteReturns, ExecuteInvalid, ExecuteThrows, queueVars, Pcs
<1>2. CASE ProjectConsent(w, r) \/ ProjectThrows(w, r)
  <2>1. r \in erased BY <1>2 DEF ProjectConsent, ProjectThrows, Service
  <2> QED BY <1>2, <2>1, ServiceMove DEF ProjectConsent, ProjectThrows, queueVars, Pcs
<1>3. CASE Finish(w, r)
  <2>1. NoneLostUnserved' /\ DeadForAReason'
    BY <1>3, MarkDoneServed DEF Finish, Service
  <2>2. requestedAt' = requestedAt /\ payload' \subseteq payload
    BY <1>3 DEF Finish, MarkDone
  <2> QED BY <1>3, <2>1, <2>2, NextRowLeaves, ServiceLeave DEF Finish
<1>4. CASE Reject(w, r)
  <2>1. NoneLostUnserved' /\ DeadForAReason' BY <1>4, RejectedServed DEF Reject
  <2>2. requestedAt' = requestedAt /\ payload' \subseteq payload
    BY <1>4 DEF Reject, MarkDead
  <2> QED BY <1>4, <2>1, <2>2, NextRowLeaves, ServiceLeave DEF Reject
<1>5. CASE Catch(w, r)
  <2>1. NoneLostUnserved' /\ DeadForAReason' BY <1>5, MarkFailedServed DEF Catch, At
  <2>2. requestedAt' = requestedAt /\ payload' \subseteq payload
    BY <1>5 DEF Catch, MarkFailed, MarkDead, MarkRetry
  <2> QED BY <1>5, <2>1, <2>2, NextRowLeaves, ServiceLeave DEF Catch
<1>6. CASE MarkThrows(w, r)
  <2>1. Goto(w, "catch") /\ UNCHANGED <<held, snapshot, erased, withdrawn>>
    BY <1>6 DEF MarkThrows
  <2>2. NoneLostUnserved' /\ DeadForAReason'
    <3>1. CASE UNCHANGED queueVars BY <2>1, <3>1, SameServed DEF queueVars
    <3>2. CASE pc[w] = "finish" /\ MarkDone(r)
      <4>1. At(w, r, "finish") BY <1>6, <3>2 DEF MarkThrows, At
      <4> QED BY <2>1, <3>2, <4>1, MarkDoneServed DEF Service
    <3>3. CASE pc[w] = "reject" /\ MarkDead(r, snapshot[w][r].attempts)
      <4>1. At(w, r, "reject") BY <1>6, <3>3 DEF MarkThrows, At
      <4> QED BY <2>1, <3>3, <4>1, RejectedServed
    <3> QED BY <1>6, <3>1, <3>2, <3>3 DEF MarkThrows
  <2>3. requestedAt' = requestedAt /\ payload' \subseteq payload
    BY <1>6 DEF MarkThrows, queueVars, MarkDone, MarkDead
  <2> QED BY <2>1, <2>2, <2>3, ServiceLeave
<1>7. CASE CatchThrows(w, r)
  <2>1. NoneLostUnserved' /\ DeadForAReason'
    BY <1>7, MarkFailedServed, SameServed DEF CatchThrows, At, queueVars
  <2>2. requestedAt' = requestedAt /\ payload' \subseteq payload
    BY <1>7 DEF CatchThrows, MarkFailed, queueVars, MarkDead, MarkRetry
  <2> QED BY <1>7, <2>1, <2>2, NextRowLeaves, ServiceLeave DEF CatchThrows
<1> QED BY <1>1, <1>2, <1>3, <1>4, <1>5, <1>6, <1>7 DEF Work

LEMMA ServiceTick ==
  ASSUME Base, Service, NEW w \in Workers, Requeue(w) \/ Claim(w) \/ Crash(w)
  PROVE  Service'
<1>1. CASE Requeue(w)
  <2>1. NoneLostUnserved' /\ DeadForAReason'
    BY <1>1 DEF Requeue, RequeueStaleProcessing, Service, NoneLostUnserved, DeadForAReason,
                Base, Table, TypeOK, QueueTypeOK, Visible, Pending, Settled
  <2> QED BY <1>1, <2>1, ServiceLeave DEF Requeue, RequeueStaleProcessing
<1>2. CASE Claim(w)
  <2>1. PICK S \in SUBSET Claimable :
          /\ ClaimRows(S)
          /\ held' = [held EXCEPT ![w] = S]
          /\ snapshot' = [snapshot EXCEPT ![w] = [r \in Reqs |->
               [payload |-> r \in S /\ r \in payload,
                attempts |-> IF r \in S THEN attempts[r] ELSE 0]]]
          /\ Goto(w, IF S = {} THEN "idle" ELSE "execute")
    BY <1>2 DEF Claim
  <2>2. \A r \in S : r \in Reqs /\ rowStatus[r] = "requested" BY DEF Claimable
  <2>3. UNCHANGED <<requestedAt, payload, attempts, erased, withdrawn>>
    BY <1>2, <2>1 DEF Claim, ClaimRows
  <2>4. NoneLostUnserved' /\ DeadForAReason'
    BY <2>1, <2>2, <2>3 DEF ClaimRows, Service, NoneLostUnserved, DeadForAReason,
                            Base, TypeOK, QueueTypeOK, Visible, Pending, Settled
  <2>5. \A r \in S : ~snapshot'[w][r].payload => r \notin payload /\ Served(r)
    BY <2>1, <2>2 DEF Service, Served, NoneLostUnserved, Base, TypeOK, Visible, Pending
  <2>6. \A v \in Workers, q \in Reqs, j \in {"project", "finish", "reject"} :
          At(v, q, j)' => v # w /\ At(v, q, j)
    BY <2>1, <2>3 DEF At, Goto, Older, Base, TypeOK
  <2>7. \A v \in Workers : v # w => held'[v] = held[v] /\ snapshot'[v] = snapshot[v]
    BY <2>1 DEF Base, TypeOK
  <2>8. \A v \in Workers, q \in Reqs : v # w => (Valid(v, q)' <=> Valid(v, q))
    BY <2>7 DEF Valid
  <2>9. \A r \in held'[w] : ~snapshot'[w][r].payload => r \notin payload /\ Served(r)
    BY <2>1, <2>5 DEF Base, TypeOK
  <2> QED BY <2>3, <2>4, <2>6, <2>7, <2>8, <2>9 DEF Service, Served
<1>3. CASE Crash(w)
  <2>1. NoneLostUnserved' /\ DeadForAReason' BY <1>3, SameServed DEF Crash, queueVars
  <2>2. requestedAt' = requestedAt /\ payload' \subseteq payload BY <1>3 DEF Crash, queueVars
  <2>3. Goto(w, "idle") /\ snapshot' = snapshot /\ UNCHANGED <<erased, withdrawn>>
    BY <1>3 DEF Crash, DropBatch
  <2>4. held' = [held EXCEPT ![w] = {}] BY <1>3 DEF Crash, DropBatch
  <2> QED BY <2>1, <2>2, <2>3, <2>4, ServiceLeave DEF Base, TypeOK
<1> QED BY <1>1, <1>2, <1>3

LEMMA ServiceRow ==
  ASSUME Base, Service, NEW r \in Reqs,
         Insert(r) \/ BackoffPasses(r) \/ AbandonedClaimAges(r) \/ HeldClaimAges(r)
  PROVE  Service'
<1>1. UNCHANGED <<pc, held, snapshot, erased, withdrawn>>
  BY DEF Insert, BackoffPasses, AbandonedClaimAges, HeldClaimAges, ClaimAges, workerVars
<1>2. NoneLostUnserved' /\ DeadForAReason'
  BY DEF Insert, BeginInsert, CommitInsert, InsertFails, BackoffPasses, BackoffEnds,
         AbandonedClaimAges, HeldClaimAges, ClaimAges, SetStatus, Service, NoneLostUnserved,
         DeadForAReason, Base, TypeOK, QueueTypeOK, Visible, Pending, Settled
<1>3. \A v \in Workers : \A q \in held[v] : requestedAt'[q] = requestedAt[q]
  BY DEF Insert, BeginInsert, CommitInsert, InsertFails, BackoffPasses, BackoffEnds,
         AbandonedClaimAges, HeldClaimAges, ClaimAges, Base, TypeOK, QueueTypeOK, Table,
         Visible, Pending, Settled
<1>4. \A v \in Workers, q \in Reqs, j \in Pcs : At(v, q, j)' => At(v, q, j)
  BY <1>1, <1>3 DEF At, Older
<1>5. (\A v \in Workers, q \in Reqs : Valid(v, q)' <=> Valid(v, q)) BY <1>1 DEF Valid
<1>6. \A v \in Workers : \A q \in held[v] : q \in payload' => q \in payload
  BY DEF Insert, BeginInsert, CommitInsert, InsertFails, BackoffPasses, BackoffEnds,
         AbandonedClaimAges, HeldClaimAges, ClaimAges, Base, TypeOK, QueueTypeOK, Table,
         Visible, Pending, Settled
<1> QED BY <1>1, <1>2, <1>4, <1>5, <1>6 DEF Service, Served, Pcs

LEMMA ServiceStutter == Service /\ UNCHANGED vars => Service'
BY DEF vars, queueVars, workerVars, Service, NoneLostUnserved, DeadForAReason, At, Older,
       Valid, Served, Visible, Pending, Settled

LEMMA ServiceNext == Base /\ Service /\ [Next]_vars => Service'
BY ServiceWork, ServiceTick, ServiceRow, ServiceStutter DEF Next

\* A row only gives up its payload after the erasure and the consent withdrawal
\* it asks for, whatever the workers, the claims and the faults do.
THEOREM ErasureNoneLost == Spec => []NoneLostUnserved
<1>1. Service => NoneLostUnserved BY DEF Service
<1> QED BY BaseInit, BaseNext, ServiceInit, ServiceNext, <1>1, PTL DEF Spec

\* A request that goes dead was malformed, already served, or out of attempts.
THEOREM ErasureDeadForAReason == Spec => []DeadForAReason
<1>1. Service => DeadForAReason BY DEF Service
<1> QED BY BaseInit, BaseNext, ServiceInit, ServiceNext, <1>1, PTL DEF Spec

-----------------------------------------------------------------------------
(* While claims are punctual the lane serializes the erasures of a brand,    *)
(* and implements the partitioned log of ErasureLane.                        *)

\* The inductive invariant: no row has two holders, a held row is a processing
\* one that is not aged, a processing row is the head of its brand, rows become
\* visible in the order of their stamps, and a worker between ticks holds none.
Exclusive ==
  /\ \A v, w \in Workers : v # w => held[v] \cap held[w] = {}
  /\ \A w \in Workers : \A r \in held[w] : rowStatus[r] = "processing" /\ r \notin aged
  /\ \A q, r \in Reqs : rowStatus[r] = "processing" /\ Pending(q) /\ BrandOf[q] = BrandOf[r]
       => ~Older(q, r)
  /\ \A q, r \in Reqs : rowStatus[q] = "inserting" /\ Visible(r) => Older(r, q)
  /\ \A w \in Workers : pc[w] \in {"idle", "claim"} => held[w] = {}

LEMMA ExclusiveInit == Init => Exclusive
BY DEF Init, QueueInit, Exclusive, Pending, Visible, Settled

\* The worker's part of a step that moves on with the same rows, and of one that
\* lets go of the rows in D, whose claims it has settled or forgotten.
LEMMA ExclusiveMove ==
  ASSUME Base, Exclusive, NEW w \in Workers, NEW l \in Pcs \ {"idle", "claim"}, Goto(w, l),
         held' = held, UNCHANGED <<rowStatus, requestedAt, aged>>
  PROVE  Exclusive'
BY DEF Exclusive, Goto, Base, TypeOK, Pending, Visible, Settled, Older

LEMMA ExclusiveDrop ==
  ASSUME Base, Exclusive, NEW w \in Workers, NEW r \in Reqs, r \in held[w],
         NextRow(w, r),
         requestedAt' = requestedAt, aged' \subseteq aged,
         \A q \in Reqs : q # r => rowStatus'[q] = rowStatus[q],
         rowStatus'[r] \in {"requested", "done", "dead"}
  PROVE  Exclusive'
<1>0. rowStatus[r] = "processing" BY DEF Exclusive
<1>1. \A v \in Workers : held'[v] \subseteq held[v] BY DEF NextRow, Base, TypeOK
<1>2. held'[w] = held[w] \ {r} BY DEF NextRow, Base, TypeOK
<1>3. (\A v, u \in Workers : v # u => held[v] \cap held[u] = {})'
  BY <1>1 DEF Exclusive
<1>4. (\A v \in Workers : \A q \in held[v] : rowStatus[q] = "processing" /\ q \notin aged)'
  <2> SUFFICES ASSUME NEW v \in Workers, NEW q \in held'[v]
               PROVE  rowStatus'[q] = "processing" /\ q \notin aged'
    OBVIOUS
  <2>1. q \in held[v] /\ q \in Reqs BY <1>1 DEF Base, TypeOK
  <2>2. q # r BY <1>2, <2>1 DEF Exclusive
  <2> QED BY <2>1, <2>2 DEF Exclusive
<1>5. (\A q, p \in Reqs : rowStatus[p] = "processing" /\ Pending(q) /\ BrandOf[q] = BrandOf[p]
         => ~Older(q, p))'
  BY <1>0 DEF Exclusive, Pending, Older
<1>6. (\A q, p \in Reqs : rowStatus[q] = "inserting" /\ Visible(p) => Older(p, q))'
  BY <1>0 DEF Exclusive, Pending, Visible, Settled, Older
<1>7. (\A v \in Workers : pc[v] \in {"idle", "claim"} => held[v] = {})'
  BY <1>1, <1>2 DEF NextRow, Goto, Exclusive, Base, TypeOK
<1> QED BY <1>3, <1>4, <1>5, <1>6, <1>7 DEF Exclusive

LEMMA ExclusiveDropBatch ==
  ASSUME Base, Exclusive, NEW w \in Workers, DropBatch(w),
         UNCHANGED <<rowStatus, requestedAt, aged>>
  PROVE  Exclusive'
BY DEF Exclusive, DropBatch, Goto, Base, TypeOK, Pending, Visible, Settled, Older

LEMMA ExclusiveWork ==
  ASSUME Punctual, Base, Exclusive, NEW w \in Workers, NEW r \in Reqs,
         Work(w, r) \/ MarkThrows(w, r) \/ CatchThrows(w, r)
  PROVE  Exclusive'
<1>1. CASE \/ ExecuteReturns(w, r) \/ ExecuteInvalid(w, r) \/ ExecuteThrows(w, r)
           \/ ProjectConsent(w, r) \/ ProjectThrows(w, r) \/ MarkThrows(w, r)
  BY <1>1, ExclusiveMove
     DEF ExecuteReturns, ExecuteInvalid, ExecuteThrows, ProjectConsent, ProjectThrows,
         MarkThrows, Punctual, queueVars, Pcs
<1>2. CASE Finish(w, r) \/ Reject(w, r) \/ Catch(w, r)
  <2>1. r \in held[w] /\ NextRow(w, r) BY <1>2 DEF Finish, Reject, Catch, At
  <2>2. \/ MarkDone(r) \/ \E n : MarkDead(r, n) \/ MarkRetry(r, n)
    BY <1>2 DEF Finish, Reject, Catch, MarkFailed
  <2>3. /\ requestedAt' = requestedAt /\ aged' \subseteq aged
        /\ \A q \in Reqs : q # r => rowStatus'[q] = rowStatus[q]
        /\ rowStatus'[r] \in {"requested", "done", "dead"}
    BY <2>2 DEF MarkDone, MarkDead, MarkRetry, SetStatus, Base, TypeOK, QueueTypeOK
  <2> QED BY <2>1, <2>3, ExclusiveDrop
<1>3. CASE CatchThrows(w, r)
  BY <1>3, ExclusiveDropBatch DEF CatchThrows, Punctual, queueVars
<1> QED BY <1>1, <1>2, <1>3 DEF Work

LEMMA ExclusiveTick ==
  ASSUME Base, Exclusive, NEW w \in Workers, Requeue(w) \/ Claim(w) \/ Crash(w)
  PROVE  Exclusive'
<1>1. CASE Requeue(w)
  <2>1. \A r \in Reqs : rowStatus'[r] = IF r \in aged THEN "requested" ELSE rowStatus[r]
    BY <1>1 DEF Requeue, RequeueStaleProcessing
  <2>2. UNCHANGED <<requestedAt, held>> /\ aged' = {}
    BY <1>1 DEF Requeue, RequeueStaleProcessing
  <2>3. \A r \in aged : rowStatus[r] = "processing" /\ r \in Reqs
    BY DEF Base, Table, TypeOK, QueueTypeOK
  <2>4. (\A v \in Workers : \A q \in held[v] : rowStatus[q] = "processing" /\ q \notin aged)'
    BY <2>1, <2>2 DEF Exclusive, Base, TypeOK
  <2>5. (\A v \in Workers : pc[v] \in {"idle", "claim"} => held[v] = {})'
    BY <1>1, <2>2 DEF Requeue, Goto, Exclusive, Base, TypeOK
  <2>6. (\A q, p \in Reqs : rowStatus[p] = "processing" /\ Pending(q) /\ BrandOf[q] = BrandOf[p]
           => ~Older(q, p))'
    BY <2>1, <2>2, <2>3 DEF Exclusive, Pending, Older
  <2>7. (\A q, p \in Reqs : rowStatus[q] = "inserting" /\ Visible(p) => Older(p, q))'
    BY <2>1, <2>2, <2>3 DEF Exclusive, Pending, Visible, Settled, Older
  <2> QED BY <2>2, <2>4, <2>5, <2>6, <2>7 DEF Exclusive
<1>2. CASE Claim(w)
  <2>0. pc[w] = "claim" /\ held[w] = {} BY <1>2 DEF Claim, Exclusive
  <2>1. PICK S \in SUBSET Claimable :
          /\ ClaimRows(S)
          /\ held' = [held EXCEPT ![w] = S]
          /\ Goto(w, IF S = {} THEN "idle" ELSE "execute")
    BY <1>2 DEF Claim
  <2>2. \A r \in S : r \in Reqs /\ rowStatus[r] = "requested" /\ HeadOfBrand(r) BY DEF Claimable
  <2>3. /\ \A r \in Reqs : rowStatus'[r] = IF r \in S THEN "processing" ELSE rowStatus[r]
        /\ requestedAt' = requestedAt /\ aged' = aged \ S
    BY <2>1 DEF ClaimRows
  <2>4. held'[w] = S /\ \A v \in Workers : v # w => held'[v] = held[v]
    BY <2>1 DEF Base, TypeOK
  <2>5. \A v \in Workers : held[v] \cap S = {} BY <2>2 DEF Exclusive
  <2>6. (\A v, u \in Workers : v # u => held[v] \cap held[u] = {})'
    BY <2>4, <2>5 DEF Exclusive
  <2>7. (\A v \in Workers : \A q \in held[v] : rowStatus[q] = "processing" /\ q \notin aged)'
    <3> SUFFICES ASSUME NEW v \in Workers, NEW q \in held'[v]
                 PROVE  rowStatus'[q] = "processing" /\ q \notin aged'
      OBVIOUS
    <3>1. CASE v = w BY <2>2, <2>3, <2>4, <3>1
    <3>2. CASE v # w BY <2>3, <2>4, <3>2 DEF Exclusive, Base, TypeOK
    <3> QED BY <3>1, <3>2
  <2>8. (\A q, p \in Reqs : rowStatus[p] = "processing" /\ Pending(q) /\ BrandOf[q] = BrandOf[p]
           => ~Older(q, p))'
    BY <2>2, <2>3 DEF Exclusive, HeadOfBrand, Pending, Older
  <2>9. (\A q, p \in Reqs : rowStatus[q] = "inserting" /\ Visible(p) => Older(p, q))'
    BY <2>2, <2>3 DEF Exclusive, Pending, Visible, Settled, Older
  <2>10. (\A v \in Workers : pc[v] \in {"idle", "claim"} => held[v] = {})'
    BY <2>1, <2>4 DEF Goto, Exclusive, Base, TypeOK
  <2> QED BY <2>6, <2>7, <2>8, <2>9, <2>10 DEF Exclusive
<1>3. CASE Crash(w)
  BY <1>3, ExclusiveDropBatch DEF Crash, queueVars
<1> QED BY <1>1, <1>2, <1>3

LEMMA ExclusiveRow ==
  ASSUME Punctual, Base, Exclusive, NEW r \in Reqs,
         Insert(r) \/ BackoffPasses(r) \/ AbandonedClaimAges(r) \/ HeldClaimAges(r)
  PROVE  Exclusive'
<1> USE DEF workerVars
<1>1. CASE Insert(r)
  <2>0. UNCHANGED <<pc, held, aged>>
    BY <1>1 DEF Insert, BeginInsert, CommitInsert, InsertFails
  <2>1. \A v \in Workers : \A q \in held[v] : q # r
    BY <1>1 DEF Insert, BeginInsert, CommitInsert, InsertFails, Exclusive
  <2>2. \A q \in Reqs : q # r => rowStatus'[q] = rowStatus[q] /\ requestedAt'[q] = requestedAt[q]
    BY <1>1 DEF Insert, BeginInsert, CommitInsert, InsertFails, SetStatus, Base, TypeOK, QueueTypeOK
  <2>3. (\A v \in Workers : \A q \in held[v] : rowStatus[q] = "processing" /\ q \notin aged)'
    BY <2>0, <2>1, <2>2 DEF Exclusive, Base, TypeOK
  <2>4. CASE BeginInsert(r)
    <3>1. /\ rowStatus[r] = "absent" /\ rowStatus'[r] = "inserting"
          /\ \A q \in Reqs : requestedAt[q] < requestedAt'[r]
      BY <2>4 DEF BeginInsert, SetStatus, Base, TypeOK, QueueTypeOK, Stamped
    <3>2. (\A q, p \in Reqs : rowStatus[p] = "processing" /\ Pending(q) /\ BrandOf[q] = BrandOf[p]
             => ~Older(q, p))'
      BY <2>2, <3>1 DEF Exclusive, Pending, Older
    <3>3. (\A q, p \in Reqs : rowStatus[q] = "inserting" /\ Visible(p) => Older(p, q))'
      BY <2>2, <3>1 DEF Exclusive, Pending, Visible, Settled, Older
    <3> QED BY <2>0, <2>3, <3>2, <3>3 DEF Exclusive
  <2>5. CASE CommitInsert(r)
    <3>1. /\ rowStatus[r] = "inserting" /\ rowStatus'[r] = "requested"
          /\ requestedAt' = requestedAt
          /\ \A q \in Reqs : rowStatus[q] = "inserting" => ~Older(q, r)
      BY <2>5 DEF CommitInsert, SetStatus, Base, TypeOK, QueueTypeOK, Punctual
    <3>2. \A p \in Reqs : Visible(p) => Older(p, r) BY <3>1 DEF Exclusive
    <3>3. (\A q, p \in Reqs : rowStatus[p] = "processing" /\ Pending(q) /\ BrandOf[q] = BrandOf[p]
             => ~Older(q, p))'
      <4> SUFFICES ASSUME NEW q \in Reqs, NEW p \in Reqs, rowStatus'[p] = "processing",
                          Pending(q)', BrandOf[q] = BrandOf[p]
                   PROVE  ~Older(q, p)'
        OBVIOUS
      <4>1. p # r /\ rowStatus[p] = "processing" BY <2>2, <3>1
      <4>2. CASE q = r
        BY <3>1, <3>2, <4>1, <4>2 DEF Older, Visible, Pending, Base, TypeOK, QueueTypeOK
      <4>3. CASE q # r BY <2>2, <3>1, <4>1, <4>3 DEF Exclusive, Pending, Older
      <4> QED BY <4>2, <4>3
    <3>4. \A q \in Reqs : rowStatus[q] = "inserting" /\ q # r => Older(r, q)
      <4> SUFFICES ASSUME NEW q \in Reqs, rowStatus[q] = "inserting", q # r PROVE Older(r, q)
        OBVIOUS
      <4>1. requestedAt[q] \in Nat /\ requestedAt[r] \in Nat BY DEF Base, TypeOK, QueueTypeOK
      <4>2. requestedAt[q] # requestedAt[r] BY DEF Base, Stamped, Begun
      <4>3. ~Older(q, r) BY <3>1
      <4> QED BY <4>1, <4>2, <4>3 DEF Older
    <3>5. (\A q, p \in Reqs : rowStatus[q] = "inserting" /\ Visible(p) => Older(p, q))'
      BY <2>2, <3>1, <3>4 DEF Exclusive, Pending, Visible, Settled, Older
    <3> QED BY <2>0, <2>3, <3>3, <3>5 DEF Exclusive
  <2>6. CASE InsertFails(r)
    <3>1. rowStatus'[r] = "lost" /\ requestedAt' = requestedAt
      BY <2>6 DEF InsertFails, SetStatus, Base, TypeOK, QueueTypeOK
    <3> QED BY <2>0, <2>2, <2>3, <3>1 DEF Exclusive, Pending, Visible, Settled, Older
  <2> QED BY <1>1, <2>4, <2>5, <2>6 DEF Insert
<1>2. CASE BackoffPasses(r)
  BY <1>2 DEF BackoffPasses, BackoffEnds, Exclusive, Pending, Visible, Settled, Older
<1>3. CASE AbandonedClaimAges(r)
  BY <1>3 DEF AbandonedClaimAges, ClaimAges, Abandoned, Exclusive, Pending, Visible, Settled, Older
<1>4. CASE HeldClaimAges(r)
  BY <1>4 DEF HeldClaimAges, Punctual
<1> QED BY <1>1, <1>2, <1>3, <1>4

LEMMA ExclusiveStutter == Exclusive /\ UNCHANGED vars => Exclusive'
BY DEF vars, queueVars, workerVars, Exclusive, Pending, Visible, Settled, Older

LEMMA ExclusiveNext ==
  ASSUME Punctual PROVE Base /\ Exclusive /\ [Next]_vars => Exclusive'
BY ExclusiveWork, ExclusiveTick, ExclusiveRow, ExclusiveStutter DEF Next

LEMMA ExclusiveSerializes == Base /\ Exclusive => OneErasurePerBrand
<1> SUFFICES ASSUME Base, Exclusive, NEW v \in Workers, NEW w \in Workers, v # w,
                    NEW q \in Reqs, NEW r \in Reqs, Working(v, q), Working(w, r),
                    BrandOf[q] = BrandOf[r]
             PROVE  FALSE
  BY DEF OneErasurePerBrand
<1>1. q \in held[v] /\ r \in held[w] BY DEF Working, At
<1>2. rowStatus[q] = "processing" /\ rowStatus[r] = "processing" BY <1>1 DEF Exclusive
<1>3. ~Older(q, r) /\ ~Older(r, q) BY <1>2 DEF Exclusive, Pending
<1>4. requestedAt[q] = requestedAt[r]
  <2>1. requestedAt[q] \in Nat /\ requestedAt[r] \in Nat BY DEF Base, TypeOK, QueueTypeOK
  <2> QED BY <1>3, <2>1 DEF Older
<1>5. q = r BY <1>2, <1>4 DEF Base, Stamped, Begun
<1> QED BY <1>1, <1>5 DEF Exclusive

\* While claims are punctual, two replicas never run erasures of one brand at once.
THEOREM ErasuresSerialized == ASSUME Punctual PROVE Spec => []OneErasurePerBrand
BY BaseInit, BaseNext, ExclusiveInit, ExclusiveNext, ExclusiveSerializes, PTL DEF Spec

-----------------------------------------------------------------------------
(* The refinement.                                                          *)

Taken == UNION {held[w] : w \in Workers}

\* A step the log does not see.
LEMMA LaneStutter ==
  ASSUME \A r \in Reqs : Pending(r)' <=> Pending(r),
         \A r \in Reqs : Settled(r)' <=> Settled(r),
         \A r \in Reqs : Settled(r) => rowStatus'[r] = rowStatus[r],
         \A r \in Reqs : Visible(r) => requestedAt'[r] = requestedAt[r],
         Taken' = Taken
  PROVE  UNCHANGED Lane!laneVars
<1>1. UNCHANGED [r \in Reqs |-> IF Visible(r) THEN requestedAt[r] ELSE 0] BY DEF Visible
<1>2. UNCHANGED {r \in Reqs : Pending(r)} OBVIOUS
<1>3. UNCHANGED [r \in Reqs |-> IF Settled(r) THEN rowStatus[r] ELSE "none"] OBVIOUS
<1> QED BY <1>1, <1>2, <1>3 DEF Lane!laneVars, Taken

LEMMA LaneSameRows ==
  ASSUME UNCHANGED <<rowStatus, requestedAt>>, Taken' = Taken
  PROVE  UNCHANGED Lane!laneVars
BY LaneStutter DEF Pending, Settled, Visible

LEMMA LaneInit == Init => Lane!Init
BY DEF Init, QueueInit, Lane!Init, Visible, Pending, Settled

\* A worker lets go of the rows in D: the log gets them back.
LEMMA LaneGiveBack ==
  ASSUME Base, Exclusive, NEW w \in Workers, NEW D \in SUBSET held[w],
         held' = [held EXCEPT ![w] = @ \ D],
         \A r \in Reqs : Pending(r)' <=> Pending(r),
         \A r \in Reqs : Settled(r)' <=> Settled(r),
         \A r \in Reqs : Settled(r) => rowStatus'[r] = rowStatus[r],
         requestedAt' = requestedAt
  PROVE  Lane!Next
<1>1. Taken' = Taken \ D
  <2>1. \A v \in Workers : held'[v] = IF v = w THEN held[v] \ D ELSE held[v]
    BY DEF Base, TypeOK
  <2>2. \A v \in Workers : v # w => held[v] \cap D = {} BY DEF Exclusive
  <2> QED BY <2>1, <2>2 DEF Taken
<1>2. UNCHANGED [r \in Reqs |-> IF Visible(r) THEN requestedAt[r] ELSE 0] BY DEF Visible
<1>3. UNCHANGED {r \in Reqs : Pending(r)} OBVIOUS
<1>4. UNCHANGED [r \in Reqs |-> IF Settled(r) THEN rowStatus[r] ELSE "none"] OBVIOUS
<1>5. Lane!GiveBack(D) BY <1>1, <1>2, <1>3, <1>4 DEF Lane!GiveBack, Taken
<1>6. D \in SUBSET Reqs BY DEF Base, TypeOK
<1> QED BY <1>5, <1>6 DEF Lane!Next

\* A worker settles the row it is at.
LEMMA LaneSettle ==
  ASSUME Base, Exclusive, NEW w \in Workers, NEW r \in held[w], NEW f \in {"done", "dead"},
         held' = [held EXCEPT ![w] = @ \ {r}], SetStatus(r, f), requestedAt' = requestedAt
  PROVE  Lane!Next
<1>1. r \in Reqs /\ rowStatus[r] = "processing" BY DEF Base, TypeOK, Exclusive
<1>2. \A q \in Reqs : rowStatus'[q] = IF q = r THEN f ELSE rowStatus[q]
  BY DEF SetStatus, Base, TypeOK, QueueTypeOK
<1>3. Taken' = Taken \ {r} /\ r \in Taken
  <2>1. \A v \in Workers : held'[v] = IF v = w THEN held[v] \ {r} ELSE held[v]
    BY DEF Base, TypeOK
  <2>2. \A v \in Workers : v # w => r \notin held[v] BY DEF Exclusive
  <2> QED BY <2>1, <2>2 DEF Taken
<1>4. UNCHANGED [q \in Reqs |-> IF Visible(q) THEN requestedAt[q] ELSE 0]
  BY <1>1, <1>2 DEF Visible, Pending, Settled
<1>5. {q \in Reqs : Pending(q)}' = {q \in Reqs : Pending(q)} \ {r}
  BY <1>1, <1>2 DEF Pending
<1>6. [q \in Reqs |-> IF Settled(q) THEN rowStatus[q] ELSE "none"]'
      = [[q \in Reqs |-> IF Settled(q) THEN rowStatus[q] ELSE "none"] EXCEPT ![r] = f]
  BY <1>1, <1>2 DEF Settled
<1>7. Lane!Settle(r, f) BY <1>3, <1>4, <1>5, <1>6 DEF Lane!Settle, Taken
<1> QED BY <1>1, <1>7 DEF Lane!Next

LEMMA LaneWork ==
  ASSUME Punctual, Base, Exclusive, NEW w \in Workers, NEW r \in Reqs,
         Work(w, r) \/ MarkThrows(w, r) \/ CatchThrows(w, r)
  PROVE  Lane!Next \/ UNCHANGED Lane!laneVars
<1>1. CASE \/ ExecuteReturns(w, r) \/ ExecuteInvalid(w, r) \/ ExecuteThrows(w, r)
           \/ ProjectConsent(w, r) \/ ProjectThrows(w, r) \/ MarkThrows(w, r)
  <2>1. UNCHANGED <<rowStatus, requestedAt, held>>
    BY <1>1 DEF ExecuteReturns, ExecuteInvalid, ExecuteThrows, ProjectConsent, ProjectThrows,
                MarkThrows, Punctual, queueVars
  <2> QED BY <2>1, LaneSameRows DEF Taken
<1>2. CASE Finish(w, r) \/ Reject(w, r) \/ Catch(w, r)
  <2>1. r \in held[w] /\ held' = [held EXCEPT ![w] = @ \ {r}]
    BY <1>2 DEF Finish, Reject, Catch, At, NextRow
  <2>2. CASE MarkDone(r) BY <2>1, <2>2, LaneSettle DEF MarkDone
  <2>3. CASE \E n : MarkDead(r, n) BY <2>1, <2>3, LaneSettle DEF MarkDead
  <2>4. CASE \E n : MarkRetry(r, n)
    <3>1. rowStatus[r] = "processing" BY <2>1 DEF Exclusive
    <3>2. \A q \in Reqs : rowStatus'[q] = IF q = r THEN "requested" ELSE rowStatus[q]
      BY <2>4 DEF MarkRetry, SetStatus, Base, TypeOK, QueueTypeOK
    <3>3. /\ \A q \in Reqs : Pending(q)' <=> Pending(q)
          /\ \A q \in Reqs : Settled(q)' <=> Settled(q)
          /\ \A q \in Reqs : Settled(q) => rowStatus'[q] = rowStatus[q]
      BY <3>1, <3>2 DEF Pending, Settled
    <3>4. requestedAt' = requestedAt BY <2>4 DEF MarkRetry
    <3>5. {r} \in SUBSET held[w] BY <2>1
    <3> QED BY <2>1, <3>3, <3>4, <3>5, LaneGiveBack
  <2> QED BY <1>2, <2>2, <2>3, <2>4 DEF Finish, Reject, Catch, MarkFailed
<1>3. CASE CatchThrows(w, r)
  <2>1. held' = [held EXCEPT ![w] = @ \ held[w]] /\ UNCHANGED <<rowStatus, requestedAt>>
    BY <1>3 DEF CatchThrows, DropBatch, Punctual, queueVars, Base, TypeOK
  <2> QED BY <2>1, LaneGiveBack DEF Pending, Settled
<1> QED BY <1>1, <1>2, <1>3 DEF Work

LEMMA LaneTick ==
  ASSUME Base, Exclusive, NEW w \in Workers, Requeue(w) \/ Claim(w) \/ Crash(w)
  PROVE  Lane!Next \/ UNCHANGED Lane!laneVars
<1>1. CASE Requeue(w)
  <2>1. \A r \in Reqs : rowStatus'[r] = IF r \in aged THEN "requested" ELSE rowStatus[r]
    BY <1>1 DEF Requeue, RequeueStaleProcessing
  <2>2. UNCHANGED <<requestedAt, held>> BY <1>1 DEF Requeue, RequeueStaleProcessing
  <2>3. \A r \in aged : rowStatus[r] = "processing" BY DEF Base, Table
  <2>4. /\ \A q \in Reqs : Pending(q)' <=> Pending(q)
        /\ \A q \in Reqs : Settled(q)' <=> Settled(q)
        /\ \A q \in Reqs : Settled(q) => rowStatus'[q] = rowStatus[q]
    BY <2>1, <2>3 DEF Pending, Settled
  <2>5. Taken' = Taken BY <2>2 DEF Taken
  <2> QED BY <2>2, <2>4, <2>5, LaneStutter
<1>2. CASE Claim(w)
  <2>0. held[w] = {} BY <1>2 DEF Claim, Exclusive
  <2>1. PICK S \in SUBSET Claimable : ClaimRows(S) /\ held' = [held EXCEPT ![w] = S]
    BY <1>2 DEF Claim
  <2>2. \A r \in S : r \in Reqs /\ rowStatus[r] = "requested" /\ HeadOfBrand(r) BY DEF Claimable
  <2>3. /\ \A r \in Reqs : rowStatus'[r] = IF r \in S THEN "processing" ELSE rowStatus[r]
        /\ requestedAt' = requestedAt
    BY <2>1 DEF ClaimRows
  <2>4. Taken' = Taken \cup S
    <3>1. \A v \in Workers : held'[v] = IF v = w THEN S ELSE held[v]
      BY <2>1 DEF Base, TypeOK
    <3> QED BY <2>0, <3>1 DEF Taken
  <2>5. S \cap Taken = {} BY <2>2 DEF Taken, Exclusive
  <2>6. S \subseteq {r \in Reqs : Pending(r)} BY <2>2 DEF Pending
  <2>7. \A r \in S : Lane!First(r)
    <3> SUFFICES ASSUME NEW r \in S, NEW q \in Reqs, Pending(q), BrandOf[q] = BrandOf[r]
                 PROVE  [p \in Reqs |-> IF Visible(p) THEN requestedAt[p] ELSE 0][r]
                        <= [p \in Reqs |-> IF Visible(p) THEN requestedAt[p] ELSE 0][q]
      BY DEF Lane!First
    <3>1. ~Older(q, r) BY <2>2 DEF HeadOfBrand
    <3>2. Visible(q) /\ Visible(r) BY <2>2 DEF Visible, Pending
    <3>3. requestedAt[q] \in Nat /\ requestedAt[r] \in Nat
      BY <2>2 DEF Base, TypeOK, QueueTypeOK
    <3> QED BY <2>2, <3>1, <3>2, <3>3 DEF Older
  <2>8. UNCHANGED [r \in Reqs |-> IF Visible(r) THEN requestedAt[r] ELSE 0]
    BY <2>2, <2>3 DEF Visible, Pending, Settled
  <2>9. UNCHANGED {r \in Reqs : Pending(r)} BY <2>2, <2>3 DEF Pending
  <2>10. UNCHANGED [r \in Reqs |-> IF Settled(r) THEN rowStatus[r] ELSE "none"]
    BY <2>2, <2>3 DEF Settled
  <2>11. Lane!Take(S) BY <2>4, <2>5, <2>6, <2>7, <2>8, <2>9, <2>10 DEF Lane!Take, Taken
  <2>12. S \in SUBSET Reqs BY <2>2
  <2> QED BY <2>11, <2>12 DEF Lane!Next
<1>3. CASE Crash(w)
  <2>1. held' = [held EXCEPT ![w] = @ \ held[w]] /\ UNCHANGED <<rowStatus, requestedAt>>
    BY <1>3 DEF Crash, DropBatch, queueVars, Base, TypeOK
  <2> QED BY <2>1, LaneGiveBack DEF Pending, Settled
<1> QED BY <1>1, <1>2, <1>3

LEMMA LaneRow ==
  ASSUME Base, Exclusive, NEW r \in Reqs,
         Insert(r) \/ BackoffPasses(r) \/ AbandonedClaimAges(r) \/ HeldClaimAges(r)
  PROVE  Lane!Next \/ UNCHANGED Lane!laneVars
<1>0. Taken' = Taken
  BY DEF Insert, BackoffPasses, AbandonedClaimAges, HeldClaimAges, ClaimAges, workerVars, Taken
<1>1. CASE Insert(r) /\ CommitInsert(r)
  <2>1. /\ rowStatus[r] = "inserting" /\ requestedAt' = requestedAt
        /\ \A q \in Reqs : rowStatus'[q] = IF q = r THEN "requested" ELSE rowStatus[q]
    BY <1>1 DEF CommitInsert, SetStatus, Base, TypeOK, QueueTypeOK
  <2>2. \A q \in Reqs : Visible(q)' <=> Visible(q) \/ q = r
    BY <2>1 DEF Visible, Pending, Settled
  <2>3. ~Visible(r) BY <2>1 DEF Visible, Pending, Settled
  <2>4. requestedAt \in [Reqs -> Nat] /\ requestedAt[r] # 0
    BY <2>1 DEF Base, TypeOK, QueueTypeOK, Stamped, Begun
  <2>5. \A q \in Reqs : Visible(q) => Older(q, r) BY <2>1 DEF Exclusive
  <2> DEFINE st == [q \in Reqs |-> IF Visible(q) THEN requestedAt[q] ELSE 0]
             stp == [q \in Reqs |-> IF Visible(q)' THEN requestedAt'[q] ELSE 0]
  <2>6. stp = [st EXCEPT ![r] = stp[r]] BY <2>1, <2>2
  <2>7. st[r] = 0 BY <2>3
  <2>8. \A q \in Reqs : st[q] < stp[r]
    <3>1. stp[r] = requestedAt[r] BY <2>1, <2>2
    <3>2. \A q \in Reqs : Visible(q) => requestedAt[q] < requestedAt[r] BY <2>5 DEF Older
    <3> QED BY <2>4, <3>1, <3>2
  <2>9. {q \in Reqs : Pending(q)}' = {q \in Reqs : Pending(q)} \cup {r} BY <2>1 DEF Pending
  <2>10. UNCHANGED [q \in Reqs |-> IF Settled(q) THEN rowStatus[q] ELSE "none"]
    BY <2>1 DEF Settled
  <2>11. Lane!Append(r)
    BY <1>0, <2>6, <2>7, <2>8, <2>9, <2>10 DEF Lane!Append, Taken
  <2> QED BY <2>11 DEF Lane!Next
<1>2. CASE Insert(r) /\ (BeginInsert(r) \/ InsertFails(r))
  <2>1. /\ rowStatus[r] \in {"absent", "inserting"} /\ rowStatus'[r] \in {"inserting", "lost"}
        /\ \A q \in Reqs : q # r => rowStatus'[q] = rowStatus[q] /\ requestedAt'[q] = requestedAt[q]
    BY <1>2 DEF BeginInsert, InsertFails, SetStatus, Base, TypeOK, QueueTypeOK
  <2>2. /\ \A q \in Reqs : Pending(q)' <=> Pending(q)
        /\ \A q \in Reqs : Settled(q)' <=> Settled(q)
        /\ \A q \in Reqs : Settled(q) => rowStatus'[q] = rowStatus[q]
        /\ \A q \in Reqs : Visible(q) => requestedAt'[q] = requestedAt[q]
    BY <2>1 DEF Visible, Pending, Settled
  <2> QED BY <1>0, <2>2, LaneStutter
<1>3. CASE BackoffPasses(r) \/ AbandonedClaimAges(r) \/ HeldClaimAges(r)
  <2>1. UNCHANGED <<rowStatus, requestedAt>>
    BY <1>3 DEF BackoffPasses, BackoffEnds, AbandonedClaimAges, HeldClaimAges, ClaimAges
  <2> QED BY <1>0, <2>1, LaneSameRows
<1> QED BY <1>1, <1>2, <1>3 DEF Insert

LEMMA LaneNext ==
  ASSUME Punctual PROVE Base /\ Exclusive /\ [Next]_vars => [Lane!Next]_(Lane!laneVars)
<1>1. UNCHANGED vars => UNCHANGED Lane!laneVars
  BY LaneSameRows DEF vars, queueVars, workerVars, Taken
<1> QED BY <1>1, LaneWork, LaneTick, LaneRow DEF Next

\* While claims are punctual, the queue and its workers implement the log of each
\* brand they replaced: taken in order, one at a time, settled once.
THEOREM ErasureImplementsLane == ASSUME Punctual PROVE Spec => KeepsLaneContract
BY BaseInit, BaseNext, ExclusiveInit, ExclusiveNext, LaneInit, LaneNext, PTL
   DEF Spec, Lane!Spec, KeepsLaneContract
=============================================================================
