----------------------------- MODULE SyncLane -----------------------------
(***************************************************************************)
(* The live re-pull of one connector: the scheduler that dispatches it when *)
(* it is due, the claimer that dispatches it when a user asks, and the      *)
(* connector_sync_status row whose 'syncing' state is the lease that keeps  *)
(* re-pulls apart.  Webhooks, the dispatch deadline and two reapers write   *)
(* the same row.                                                            *)
(*                                                                          *)
(* A step is one database transaction, or a fault.                          *)
(***************************************************************************)
EXTENDS Naturals

CONSTANTS
  Runs,      \* calls of run() that may be under way, over all replicas
  Webhooks,  \* BOOLEAN: the connector has webhooks
  Deadlines, \* BOOLEAN: a dispatch may outlast its deadline
  Ageing,    \* BOOLEAN: the row may get older than its window
  MaxFaults  \* bound on faults

ASSUME Bounds ==
  Webhooks \in BOOLEAN /\ Deadlines \in BOOLEAN /\ Ageing \in BOOLEAN /\ MaxFaults \in Nat

VARIABLES
  state,     \* connector_sync_status.state, RECONNECT_REQUIRED set apart
  aged,      \* updated_at is older than the window that goes with the state
  due,       \* next_repull_at has come
  api,       \* where the request of a user is
  pending,   \* the sync.request row holds a request
  pc,        \* where a run is
  watched,   \* runs whose deadline timer is armed
  asked,     \* the run the claimer waits for, as a set
  overtaken, \* fetching runs whose lease another party has overwritten
  owed,      \* a request was queued and no re-pull begun since has finished
  late,      \* runs that had begun to fetch when the first such was queued
  faults     \* faults so far

row == <<state, aged>>
request == <<api, pending>>
promise == <<owed, late>>
vars == <<state, aged, due, api, pending, pc, watched, asked, overtaken, owed, late, faults>>

Places == {"free", "dispatched", "locking", "token", "fetch", "tail"}

TypeOK ==
  /\ state \in {"connected", "syncing", "error", "reconnect"}
  /\ aged \in BOOLEAN /\ due \in BOOLEAN
  /\ api \in {"idle", "read", "unqueued"} /\ pending \in BOOLEAN
  /\ pc \in [Runs -> Places]
  /\ watched \subseteq Runs /\ asked \subseteq Runs
  /\ overtaken \subseteq Runs
  /\ owed \in BOOLEAN /\ late \subseteq Runs
  /\ faults \in 0..MaxFaults

Init ==
  /\ state = "connected" /\ aged = FALSE /\ due = TRUE
  /\ api = "idle" /\ pending = FALSE
  /\ pc = [r \in Runs |-> "free"]
  /\ watched = {} /\ asked = {} /\ overtaken = {}
  /\ owed = FALSE /\ late = {}
  /\ faults = 0

Fetching == {r \in Runs : pc[r] = "fetch"}
Fault == faults < MaxFaults /\ faults' = faults + 1
Goto(r, place) == pc' = [pc EXCEPT ![r] = place]

\* run() has returned or died: nobody waits for it any more.
Leave(r) ==
  /\ Goto(r, "free")
  /\ watched' = watched \ {r} /\ asked' = asked \ {r}
  /\ late' = late \ {r}

\* setSyncState: the upsert stamps updated_at.
SetSyncState(s) == state' = s /\ aged' = FALSE

\* Every run that fetches, but r, has its lease overwritten.
Overtake(r) == overtaken' = (overtaken \cup Fetching) \ {r}

-----------------------------------------------------------------------------
(* A user asks for a sync: three transactions.                              *)

ReadSyncState ==
  /\ api = "idle" /\ state # "syncing"
  /\ api' = "read"
  /\ UNCHANGED <<row, due, pending, pc, watched, asked, overtaken, promise, faults>>

CheckPendingRequest ==
  /\ api = "read"
  /\ api' = IF pending THEN "idle" ELSE "unqueued"
  /\ UNCHANGED <<row, due, pending, pc, watched, asked, overtaken, promise, faults>>

EnqueueRequest ==
  /\ api = "unqueued"
  /\ api' = "idle" /\ pending' = TRUE
  /\ owed' = TRUE
  /\ late' = IF owed THEN late ELSE Fetching
  /\ UNCHANGED <<row, due, pc, watched, asked, overtaken, faults>>

-----------------------------------------------------------------------------
(* Dispatch.                                                                *)

\* A lease or a back-off that is too old to count.  Mutant: none is.
NeverStale == FALSE
Stale == aged

\* claim_due_repull_connectors: reaps a stale lease, parks a connector that
\* needs its user, stamps the next interval.
ClaimDue(r) ==
  /\ due /\ pc[r] = "free"
  /\ state = "reconnect" => Stale
  /\ due' = FALSE
  /\ IF state = "syncing" /\ Stale
     THEN SetSyncState("error") /\ overtaken' = overtaken \cup Fetching
     ELSE UNCHANGED <<row, overtaken>>
  /\ \/ /\ Goto(r, "dispatched")
        /\ watched' = watched \cup {r}
        /\ UNCHANGED faults
     \/ Fault /\ UNCHANGED <<pc, watched>>  \* over the provider's rate limit
  /\ UNCHANGED <<request, asked, promise>>

NextDue ==
  /\ ~due /\ due' = TRUE
  /\ UNCHANGED <<row, request, pc, watched, asked, overtaken, promise, faults>>

\* The claim is the tombstone; the claimer then awaits the run, which has no
\* deadline here.  A crash may come before the dispatch.
ClaimSyncRequest(r) ==
  /\ pending /\ asked = {} /\ pc[r] = "free"
  /\ pending' = FALSE
  /\ \/ /\ Goto(r, "dispatched")
        /\ asked' = {r}
        /\ UNCHANGED faults
     \/ Fault /\ UNCHANGED <<pc, asked>>
  /\ UNCHANGED <<row, due, api, watched, overtaken, promise>>

\* The deadline wins the race: the row is reset and the run goes on.
Deadline(r) ==
  /\ Deadlines /\ r \in watched
  /\ watched' = watched \ {r}
  /\ SetSyncState("error")
  /\ overtaken' = overtaken \cup Fetching
  /\ UNCHANGED <<due, request, pc, asked, promise, faults>>

-----------------------------------------------------------------------------
(* repullConnector.                                                         *)

\* acquireRepullLock: FOR UPDATE SKIP LOCKED, held for one transaction.
AcquireRepullLock(r) ==
  /\ pc[r] = "dispatched"
  /\ IF \E q \in Runs : pc[q] = "locking"
     THEN Leave(r)
     ELSE Goto(r, "locking") /\ UNCHANGED <<watched, asked, late>>
  /\ UNCHANGED <<row, due, request, overtaken, owed, faults>>

CommitLock(r) ==
  /\ pc[r] = "locking"
  /\ Goto(r, "token")
  /\ UNCHANGED <<row, due, request, watched, asked, overtaken, promise, faults>>

TokenMissing(r) ==
  /\ pc[r] = "token" /\ Fault
  /\ SetSyncState("reconnect")
  /\ Overtake(r)
  /\ Leave(r)
  /\ UNCHANGED <<due, request, owed>>

\* Mutant: the state is set without a look at the row, as other providers do.
SetSyncing(r) ==
  /\ pc[r] = "token"
  /\ SetSyncState("syncing")
  /\ Goto(r, "fetch")
  /\ overtaken' = (IF aged THEN overtaken \cup Fetching ELSE overtaken) \ {r}
  /\ UNCHANGED <<due, request, watched, asked, promise, faults>>

\* claimSyncingState: compare and swap, or a stale lease is taken over.
ClaimSyncingState(r) ==
  /\ pc[r] = "token"
  /\ state # "syncing" \/ Stale
  /\ SetSyncState("syncing")
  /\ Goto(r, "fetch")
  /\ overtaken' = (IF aged THEN overtaken \cup Fetching ELSE overtaken) \ {r}
  /\ UNCHANGED <<due, request, watched, asked, promise, faults>>

\* Already syncing, or no salt: run() returns and leaves the row alone.
SkipRun(r) ==
  /\ pc[r] = "token"
  /\ \/ state = "syncing" /\ ~Stale /\ UNCHANGED faults
     \/ Fault
  /\ Leave(r)
  /\ UNCHANGED <<row, due, request, overtaken, owed>>

\* The last page is emitted: connected, whoever has the lease by now.
Finish(r) ==
  /\ pc[r] = "fetch"
  /\ Goto(r, "tail")
  /\ \/ SetSyncState("connected") /\ Overtake(r) /\ UNCHANGED faults
     \/ Fault /\ overtaken' = overtaken \ {r} /\ UNCHANGED row  \* the update is lost
  /\ owed' = (owed /\ r \in late)
  /\ late' = late \ {r}
  /\ UNCHANGED <<due, request, watched, asked>>

\* A page cannot be fetched or emitted; the credential may be the reason.
FetchFails(r) ==
  /\ pc[r] = "fetch" /\ Fault
  /\ \E s \in {"error", "reconnect"} : SetSyncState(s)
  /\ Overtake(r)
  /\ Leave(r)
  /\ UNCHANGED <<due, request, owed>>

\* The resource backfills, which hold no lease.
EndTail(r) ==
  /\ pc[r] = "tail"
  /\ Leave(r)
  /\ UNCHANGED <<row, due, request, overtaken, owed, faults>>

Crash(r) ==
  /\ pc[r] # "free" /\ Fault
  /\ Leave(r)
  /\ overtaken' = overtaken \ {r}
  /\ UNCHANGED <<row, due, request, owed>>

-----------------------------------------------------------------------------
(* Others that write the row.                                               *)

\* touchSyncStatus, after each webhook that was produced.
WebhookTouch ==
  /\ Webhooks
  /\ SetSyncState("connected")
  /\ overtaken' = overtaken \cup Fetching
  /\ UNCHANGED <<due, request, pc, watched, asked, promise, faults>>

\* Fifteen minutes of a lease, thirty of a back-off.
Grow ==
  /\ Ageing /\ ~aged /\ state \in {"syncing", "reconnect"}
  /\ aged' = TRUE
  /\ UNCHANGED <<state, due, request, pc, watched, asked, overtaken, promise, faults>>

ResetStaleSyncing ==
  /\ state = "syncing" /\ Stale
  /\ SetSyncState("error")
  /\ overtaken' = overtaken \cup Fetching
  /\ UNCHANGED <<due, request, pc, watched, asked, promise, faults>>

-----------------------------------------------------------------------------
Advance(r) ==
  \/ AcquireRepullLock(r) \/ CommitLock(r) \/ ClaimSyncingState(r)
  \/ SkipRun(r) \/ Finish(r) \/ EndTail(r)

Next ==
  \/ ReadSyncState \/ CheckPendingRequest \/ EnqueueRequest
  \/ NextDue \/ WebhookTouch \/ Grow \/ ResetStaleSyncing
  \/ \E r \in Runs : \/ ClaimDue(r) \/ ClaimSyncRequest(r) \/ Advance(r)
                     \/ Deadline(r) \/ TokenMissing(r) \/ FetchFails(r) \/ Crash(r)

Spec == Init /\ [][Next]_vars

\* The timers go on, time passes, and a run that is not hit by a fault goes on.
Fairness ==
  /\ WF_vars(NextDue) /\ WF_vars(Grow) /\ WF_vars(ResetStaleSyncing)
  /\ WF_vars(\E r \in Runs : ClaimDue(r))
  /\ WF_vars(\E r \in Runs : ClaimSyncRequest(r))
  /\ \A r \in Runs : WF_vars(Advance(r))

FairSpec == Spec /\ Fairness

-----------------------------------------------------------------------------
(* Properties.                                                              *)

\* Two re-pulls fetch at the same time only after someone else has written
\* over the lease of one of them: a webhook, a deadline, a reaper, a run that
\* had lost its own, or the claim of a lease that had grown old.  The locks and
\* the compare-and-swap let no other overlap through, and an untouched lease
\* is still in the row.
OneHolder ==
  /\ \A r, q \in Fetching \ overtaken : r = q
  /\ Fetching \ overtaken # {} => state = "syncing"

\* A sync that a user was promised is done: a re-pull that began after the
\* request finishes, although the request is consumed before its dispatch and
\* dropped when the lease is held, and although a holder may die.
RequestFollowed == owed ~> ~owed

\* The claim of claimSyncingState: a re-pull in flight is never joined by
\* another ("it can never reclaim a legitimately in-flight repull").
OneRepull == \A r, q \in Fetching : r = q
=============================================================================
