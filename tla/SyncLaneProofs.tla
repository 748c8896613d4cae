--------------------------- MODULE SyncLaneProofs ---------------------------
(***************************************************************************)
(* Theorems about SyncLane, for any number of runs and any faults.          *)
(***************************************************************************)
EXTENDS SyncLane, TLAPS

\* The Boolean parts of the state, and the others.
Flags == aged \in BOOLEAN /\ due \in BOOLEAN /\ pending \in BOOLEAN /\ owed \in BOOLEAN

Shapes ==
  /\ state \in {"connected", "syncing", "error", "reconnect"}
  /\ api \in {"idle", "read", "unqueued"}
  /\ pc \in [Runs -> Places]
  /\ watched \subseteq Runs /\ asked \subseteq Runs
  /\ overtaken \subseteq Runs /\ late \subseteq Runs
  /\ faults \in 0..MaxFaults

LEMMA TypeParts == (TypeOK <=> Flags /\ Shapes) /\ (TypeOK' <=> Flags' /\ Shapes')
BY DEF TypeOK, Flags, Shapes

LEMMA TypeInit == Init => TypeOK
<1>1. Init => Flags
  BY Zenon DEF Init, Flags
<1>2. Init => Shapes
  BY Bounds DEF Init, Shapes, Places
<1>3. QED
  BY <1>1, <1>2, TypeParts

LEMMA TypeStep == TypeOK /\ [Next]_vars => TypeOK'
<1> SUFFICES ASSUME TypeOK, [Next]_vars PROVE TypeOK'
  OBVIOUS
<1> USE Bounds DEF TypeOK, Places, Fetching, Fault, Goto, Leave, SetSyncState, Overtake,
        row, request, promise
<1>1. CASE ReadSyncState \/ CheckPendingRequest \/ EnqueueRequest
  BY <1>1 DEF ReadSyncState, CheckPendingRequest, EnqueueRequest
<1>2. CASE NextDue \/ WebhookTouch \/ Grow \/ ResetStaleSyncing
  BY <1>2 DEF NextDue, WebhookTouch, Grow, ResetStaleSyncing
<1>3. ASSUME NEW r \in Runs, ClaimDue(r) PROVE TypeOK'
  <2>1. Flags'
    BY <1>3, Zenon DEF ClaimDue, Flags
  <2>2. Shapes'
    BY <1>3 DEF ClaimDue, Shapes
  <2>3. QED
    BY <2>1, <2>2, TypeParts
<1>4. ASSUME NEW r \in Runs, ClaimSyncRequest(r) PROVE TypeOK'
  <2>1. Flags'
    BY <1>4, Zenon DEF ClaimSyncRequest, Flags
  <2>2. Shapes'
    BY <1>4 DEF ClaimSyncRequest, Shapes
  <2>3. QED
    BY <2>1, <2>2, TypeParts
<1>5. ASSUME NEW r \in Runs, Deadline(r) PROVE TypeOK'
  BY <1>5 DEF Deadline
<1>6. ASSUME NEW r \in Runs, AcquireRepullLock(r) PROVE TypeOK'
  BY <1>6 DEF AcquireRepullLock
<1>7. ASSUME NEW r \in Runs, CommitLock(r) PROVE TypeOK'
  BY <1>7 DEF CommitLock
<1>8. ASSUME NEW r \in Runs, TokenMissing(r) PROVE TypeOK'
  <2>1. Flags'
    BY <1>8, Zenon DEF TokenMissing, Flags
  <2>2. Shapes'
    BY <1>8 DEF TokenMissing, Shapes
  <2>3. QED
    BY <2>1, <2>2, TypeParts
<1>9. ASSUME NEW r \in Runs, ClaimSyncingState(r) PROVE TypeOK'
  BY <1>9 DEF ClaimSyncingState
<1>10. ASSUME NEW r \in Runs, SkipRun(r) PROVE TypeOK'
  BY <1>10 DEF SkipRun
<1>11. ASSUME NEW r \in Runs, Finish(r) PROVE TypeOK'
  <2>1. Flags'
    BY <1>11, Zenon DEF Finish, Flags
  <2>2. Shapes'
    BY <1>11 DEF Finish, Shapes
  <2>3. QED
    BY <2>1, <2>2, TypeParts
<1>12. ASSUME NEW r \in Runs, FetchFails(r) PROVE TypeOK'
  <2>1. Flags'
    BY <1>12, Zenon DEF FetchFails, Flags
  <2>2. Shapes'
    BY <1>12 DEF FetchFails, Shapes
  <2>3. QED
    BY <2>1, <2>2, TypeParts
<1>13. ASSUME NEW r \in Runs, EndTail(r) PROVE TypeOK'
  BY <1>13 DEF EndTail
<1>14. ASSUME NEW r \in Runs, Crash(r) PROVE TypeOK'
  BY <1>14 DEF Crash
<1>15. CASE UNCHANGED vars
  BY <1>15 DEF vars
<1>16. QED
  BY <1>1, <1>2, <1>3, <1>4, <1>5, <1>6, <1>7, <1>8, <1>9, <1>10, <1>11, <1>12,
     <1>13, <1>14, <1>15
  DEF Next, Advance

\* Type correctness: every transaction leaves the row and the runs well typed.
THEOREM SyncTypeCorrect == Spec => []TypeOK
BY TypeInit, TypeStep, PTL DEF Spec

-----------------------------------------------------------------------------
(* One holder.                                                              *)

LEMMA HolderInit == Init => OneHolder
BY DEF Init, OneHolder, Fetching

LEMMA HolderStep == TypeOK /\ OneHolder /\ [Next]_vars => OneHolder'
<1> SUFFICES ASSUME TypeOK, OneHolder, [Next]_vars PROVE OneHolder'
  OBVIOUS
<1> USE DEF TypeOK, Places, OneHolder, Fetching, Fault, Goto, Leave, SetSyncState, Overtake,
        row, request, promise, Stale
<1>1. CASE ReadSyncState \/ CheckPendingRequest \/ EnqueueRequest
  BY <1>1 DEF ReadSyncState, CheckPendingRequest, EnqueueRequest
<1>2. CASE NextDue \/ WebhookTouch \/ Grow \/ ResetStaleSyncing
  BY <1>2 DEF NextDue, WebhookTouch, Grow, ResetStaleSyncing
<1>3. ASSUME NEW r \in Runs, ClaimDue(r) PROVE OneHolder'
  BY <1>3 DEF ClaimDue
<1>4. ASSUME NEW r \in Runs, ClaimSyncRequest(r) PROVE OneHolder'
  BY <1>4 DEF ClaimSyncRequest
<1>5. ASSUME NEW r \in Runs, Deadline(r) PROVE OneHolder'
  BY <1>5 DEF Deadline
<1>6. ASSUME NEW r \in Runs, AcquireRepullLock(r) \/ CommitLock(r) PROVE OneHolder'
  BY <1>6 DEF AcquireRepullLock, CommitLock
<1>7. ASSUME NEW r \in Runs, TokenMissing(r) PROVE OneHolder'
  BY <1>7 DEF TokenMissing
<1>8. ASSUME NEW r \in Runs, ClaimSyncingState(r) PROVE OneHolder'
  BY <1>8 DEF ClaimSyncingState
<1>9. ASSUME NEW r \in Runs, SkipRun(r) \/ EndTail(r) PROVE OneHolder'
  BY <1>9 DEF SkipRun, EndTail
<1>10. ASSUME NEW r \in Runs, Finish(r) PROVE OneHolder'
  BY <1>10 DEF Finish
<1>11. ASSUME NEW r \in Runs, FetchFails(r) PROVE OneHolder'
  BY <1>11 DEF FetchFails
<1>12. ASSUME NEW r \in Runs, Crash(r) PROVE OneHolder'
  BY <1>12 DEF Crash
<1>13. CASE UNCHANGED vars
  BY <1>13 DEF vars
<1>14. QED
  BY <1>1, <1>2, <1>3, <1>4, <1>5, <1>6, <1>7, <1>8, <1>9, <1>10, <1>11, <1>12, <1>13
  DEF Next, Advance

\* claimSyncingState: whatever is dispatched, two runs fetch together only when
\* someone else wrote over the lease of one of them.
THEOREM OneHolderAtATime == Spec => []OneHolder
BY TypeInit, TypeStep, HolderInit, HolderStep, PTL DEF Spec
=============================================================================
