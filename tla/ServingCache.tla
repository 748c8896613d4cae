--------------------------- MODULE ServingCache ---------------------------
(***************************************************************************)
(* The serving cache in front of the Gold marts: reads of one metric of one *)
(* brand by several core instances, the two guards against a stampede (one  *)
(* compute per process, one rebuild lock in Redis), stale-while-revalidate, *)
(* and the brand-wide eviction that follows each rewrite of Gold.           *)
(*                                                                          *)
(* A step is one Redis command, one query, or the synchronous code between  *)
(* two awaits.                                                              *)
(***************************************************************************)
EXTENDS Naturals, FiniteSets

CONSTANTS
  Reads,       \* the reads of a behaviour
  Instances,   \* core processes
  InstanceOf,  \* where a read is served
  None,        \* no value, no lock
  MaxCommits,  \* bound on the rewrites of Gold
  MaxFaults    \* bound on errors, crashes and locks that expire in use

ASSUME CacheBounds ==
  /\ InstanceOf \in [Reads -> Instances] /\ None \notin Reads
  /\ MaxCommits \in Nat /\ MaxFaults \in Nat

VARIABLES
  swr,    \* the deployment serves stale values while it revalidates
  gold,   \* version of the marts
  todo,   \* what the eviction after the last rewrite has still to delete
  swept,  \* last version whose eviction went through
  value,  \* the cached value in Redis
  lock,   \* the rebuild lock in Redis
  pc,     \* where a read is
  got,    \* the version it has computed, until it settles
  held,   \* reads that acquired the lock
  threw,  \* reads whose own query threw
  bg,     \* the background refresh of an instance
  faults, lost  \* faults, locks lost in use

redis == <<value, lock>>
batch == <<gold, todo, swept>>
reads == <<pc, got, held, threw>>
counts == <<faults, lost>>
vars == <<swr, batch, redis, reads, bg, counts>>

Keys == {"value", "lock"}
Versions == 0..MaxCommits
Value == [ver : Versions, soft : BOOLEAN, late : BOOLEAN]
\* From the miss to the end of the shared promise.
Leading == {"lock", "poll", "query", "store", "check", "del", "settle"}
Ended == {"done", "failed"}
Places == {"idle", "get", "missed", "joined", "direct"} \cup Leading \cup Ended
Refresh == [at : {"idle", "query", "store"}, ver : Versions]
NoRefresh == [at |-> "idle", ver |-> 0]

TypeOK ==
  /\ swr \in BOOLEAN
  /\ gold \in Versions /\ swept \in 0..gold /\ todo \subseteq Keys
  /\ value \in Value \cup {None} /\ lock \in Reads \cup {None}
  /\ pc \in [Reads -> Places] /\ got \in [Reads -> 0..gold]
  /\ held \subseteq Reads /\ threw \subseteq Reads
  /\ bg \in [Instances -> Refresh]
  /\ faults \in 0..MaxFaults /\ lost \in 0..(MaxFaults + MaxCommits)

Init ==
  /\ swr \in BOOLEAN
  /\ gold = 0 /\ swept = 0 /\ todo = {}
  /\ value = None /\ lock = None
  /\ pc = [r \in Reads |-> "idle"] /\ got = [r \in Reads |-> 0]
  /\ held = {} /\ threw = {}
  /\ bg = [i \in Instances |-> NoRefresh]
  /\ faults = 0 /\ lost = 0

Fault == faults < MaxFaults /\ faults' = faults + 1
Goto(r, place) == pc' = [pc EXCEPT ![r] = place]
Computing == {r \in held : pc[r] \in {"query", "store"}}

-----------------------------------------------------------------------------
(* ServingCacheReader.read, readSwr and getOrSet up to the shared promise.  *)

\* A stale envelope is served and refreshed, once per process at a time.
ReadEnvelope(r) ==
  /\ swr /\ pc[r] = "idle"
  /\ \/ value = None /\ Goto(r, "get") /\ UNCHANGED bg
     \/ /\ value # None
        /\ Goto(r, "done")
        /\ bg' = IF value.soft /\ bg[InstanceOf[r]].at = "idle"
                 THEN [bg EXCEPT ![InstanceOf[r]].at = "query"] ELSE bg
  /\ UNCHANGED <<swr, batch, redis, got, held, threw, counts>>

Asking(r) == pc[r] = (IF swr THEN "get" ELSE "idle")

Get(r) ==
  /\ Asking(r)
  /\ Goto(r, IF value = None THEN "missed" ELSE "done")
  /\ UNCHANGED <<swr, batch, redis, got, held, threw, bg, counts>>

InFlight(i) == \E r \in Reads : InstanceOf[r] = i /\ pc[r] \in Leading

\* The map is read and set without an await in between.
JoinOrLead(r) ==
  /\ pc[r] = "missed"
  /\ Goto(r, IF InFlight(InstanceOf[r]) THEN "joined" ELSE "lock")
  /\ UNCHANGED <<swr, batch, redis, got, held, threw, bg, counts>>

-----------------------------------------------------------------------------
(* computeWithDistributedLock.                                              *)

\* Mutant: SET without NX.
TakeLock(r) ==
  /\ pc[r] = "lock"
  /\ lock' = r /\ held' = held \cup {r}
  /\ Goto(r, "query")
  /\ UNCHANGED <<swr, batch, value, got, threw, bg, counts>>

TryLock(r) ==
  /\ pc[r] = "lock"
  /\ \/ /\ lock = None
        /\ lock' = r /\ held' = held \cup {r}
        /\ Goto(r, "query")
     \/ /\ lock # None
        /\ Goto(r, "poll")
        /\ UNCHANGED <<lock, held>>
  /\ UNCHANGED <<swr, batch, value, got, threw, bg, counts>>

\* The winner's value has landed.
PollForValue(r) ==
  /\ pc[r] = "poll" /\ value # None
  /\ Goto(r, "settle")
  /\ UNCHANGED <<swr, batch, redis, got, held, threw, bg, counts>>

\* It has not, and the last poll is over.
GiveUp(r) ==
  /\ pc[r] = "poll" /\ value = None
  /\ Goto(r, "query")
  /\ UNCHANGED <<swr, batch, redis, got, held, threw, bg, counts>>

\* A query sees the last commit: a live attach reads it without a new epoch.
Compute(r) ==
  /\ pc[r] = "query"
  /\ got' = [got EXCEPT ![r] = gold]
  /\ Goto(r, "store")
  /\ UNCHANGED <<swr, batch, redis, held, threw, bg, counts>>

\* Mutant: the value is stored without its envelope.
Bare(v) == [ver |-> v, late |-> v < gold]

Computed(v) == [ver |-> v, soft |-> FALSE, late |-> v < gold]
AfterCompute(r) == IF r \in held THEN "check" ELSE "settle"

Store(r) ==
  /\ pc[r] = "store"
  /\ value' = Computed(got[r])
  /\ Goto(r, AfterCompute(r))
  /\ UNCHANGED <<swr, batch, lock, got, held, threw, bg, counts>>

ReleaseCheck(r) ==
  /\ pc[r] = "check"
  /\ Goto(r, IF lock = r THEN "del" ELSE "settle")
  /\ UNCHANGED <<swr, batch, redis, got, held, threw, bg, counts>>

ReleaseDel(r) ==
  /\ pc[r] = "del"
  /\ lock' = None
  /\ Goto(r, "settle")
  /\ UNCHANGED <<swr, batch, value, got, held, threw, bg, counts>>

\* The promise settles for the leader and for all who joined it. When it
\* rejects, a joined read computes for itself; a stale-while-revalidate
\* read fails with it.
Settle(r) ==
  /\ pc[r] = "settle"
  /\ LET joined == {q \in Reads : pc[q] = "joined" /\ InstanceOf[q] = InstanceOf[r]}
         rejected == r \in threw
     IN /\ pc' = [q \in Reads |->
             IF q = r THEN (IF rejected THEN "failed" ELSE "done")
             ELSE IF q \in joined
                  THEN (IF ~rejected THEN "done" ELSE IF swr THEN "failed" ELSE "direct")
                  ELSE pc[q]]
  /\ got' = [got EXCEPT ![r] = 0]
  /\ held' = held \ {r}
  /\ UNCHANGED <<swr, batch, redis, threw, bg, counts>>

ComputeDirectly(r) ==
  /\ pc[r] = "direct"
  /\ Goto(r, "done")
  /\ UNCHANGED <<swr, batch, redis, got, held, threw, bg, counts>>

-----------------------------------------------------------------------------
(* scheduleRevalidate: outside of any read, without the lock.               *)

Revalidate(i) ==
  /\ bg[i].at = "query"
  /\ bg' = [bg EXCEPT ![i] = [at |-> "store", ver |-> gold]]
  /\ UNCHANGED <<swr, batch, redis, reads, counts>>

StoreEnvelope(i) ==
  /\ bg[i].at = "store"
  /\ value' = Computed(bg[i].ver)
  /\ bg' = [bg EXCEPT ![i] = NoRefresh]
  /\ UNCHANGED <<swr, batch, lock, reads, counts>>

-----------------------------------------------------------------------------
(* Gold is rewritten, then every key of the brand is deleted: the value,    *)
(* its envelope and the lock share the prefix.                              *)

RewriteGold ==
  /\ todo = {} /\ gold < MaxCommits
  /\ gold' = gold + 1 /\ todo' = Keys
  /\ UNCHANGED <<swr, swept, redis, reads, bg, counts>>

\* The owner still counts on the lock.
InUse == lock # None /\ lock \in held

\* Mutant: the value key does not match the pattern.
EvictLockOnly(k) ==
  /\ k \in todo
  /\ todo' = todo \ {k}
  /\ swept' = IF todo = {k} THEN gold ELSE swept
  /\ UNCHANGED <<swr, gold, redis, reads, bg, counts>>

Evict(k) ==
  /\ k \in todo
  /\ todo' = todo \ {k}
  /\ swept' = IF todo = {k} THEN gold ELSE swept
  /\ \/ k = "value" /\ value' = None /\ UNCHANGED <<lock, lost>>
     \/ /\ k = "lock" /\ lock' = None /\ UNCHANGED value
        /\ lost' = lost + (IF InUse THEN 1 ELSE 0)
  /\ UNCHANGED <<swr, gold, reads, bg, faults>>

-----------------------------------------------------------------------------
(* Time.                                                                    *)

SoftExpire ==
  /\ swr /\ value # None /\ ~value.soft
  /\ value' = [value EXCEPT !.soft = TRUE]
  /\ UNCHANGED <<swr, batch, lock, reads, bg, counts>>

Expire ==
  /\ value # None /\ (swr => value.soft)
  /\ value' = None
  /\ UNCHANGED <<swr, batch, lock, reads, bg, counts>>

\* A compute that outlasts the lock counts as a fault.
LockExpires ==
  /\ lock # None
  /\ lock' = None
  /\ \/ InUse /\ Fault /\ lost' = lost + 1
     \/ ~InUse /\ UNCHANGED <<faults, lost>>
  /\ UNCHANGED <<swr, batch, value, reads, bg>>

-----------------------------------------------------------------------------
(* Faults.                                                                  *)

\* The read goes on without the answer.
Onward(r) ==
  \/ swr /\ pc[r] = "idle" /\ Goto(r, "get")
  \/ Asking(r) /\ Goto(r, "missed")
  \/ pc[r] \in {"lock", "poll"} /\ Goto(r, "query")
  \/ pc[r] = "store" /\ Goto(r, AfterCompute(r))
  \/ pc[r] \in {"check", "del"} /\ Goto(r, "settle")

\* Mutant: an error of the lock rejects the promise.
CommandRejects(r) ==
  /\ Fault
  /\ IF pc[r] = "lock" THEN Goto(r, "failed") ELSE Onward(r)
  /\ UNCHANGED <<swr, batch, redis, got, held, threw, bg, lost>>

\* A Redis command fails without effect.
CommandFails(r) ==
  /\ Fault
  /\ Onward(r)
  /\ UNCHANGED <<swr, batch, redis, got, held, threw, bg, lost>>

\* It took effect, and its reply is lost.
ReplyLost(r) ==
  /\ Fault
  /\ Onward(r)
  /\ \/ pc[r] = "lock" /\ lock = None /\ lock' = r /\ UNCHANGED value
     \/ pc[r] = "store" /\ value' = Computed(got[r]) /\ UNCHANGED lock
     \/ pc[r] = "del" /\ lock' = None /\ UNCHANGED value
  /\ UNCHANGED <<swr, batch, got, held, threw, bg, lost>>

\* The finally block releases the lock of a compute that threw.
ComputeFails(r) ==
  /\ Fault
  /\ \/ pc[r] = "query" /\ Goto(r, AfterCompute(r))
     \/ pc[r] = "direct" /\ Goto(r, "failed")
  /\ threw' = threw \cup {r}
  /\ UNCHANGED <<swr, batch, redis, got, held, bg, lost>>

RefreshFails(i) ==
  /\ Fault
  /\ bg[i].at # "idle"
  /\ bg' = [bg EXCEPT ![i] = NoRefresh]
  /\ UNCHANGED <<swr, batch, redis, reads, lost>>

\* The rest of the eviction is given up.
EvictionFails ==
  /\ Fault
  /\ todo # {}
  /\ todo' = {}
  /\ UNCHANGED <<swr, gold, swept, redis, reads, bg, lost>>

\* The process dies with its reads, its promise and its refresh.
Crash(i) ==
  /\ Fault
  /\ LET here == {r \in Reads : InstanceOf[r] = i /\ pc[r] \notin {"idle"} \cup Ended}
     IN /\ here # {} \/ bg[i] # NoRefresh
        /\ pc' = [r \in Reads |-> IF r \in here THEN "failed" ELSE pc[r]]
        /\ threw' = threw \cup here
        /\ held' = held \ here
        /\ got' = [r \in Reads |-> IF r \in here THEN 0 ELSE got[r]]
  /\ bg' = [bg EXCEPT ![i] = NoRefresh]
  /\ UNCHANGED <<swr, batch, redis, lost>>

-----------------------------------------------------------------------------
Advance(r) ==
  \/ ReadEnvelope(r) \/ Get(r) \/ JoinOrLead(r) \/ TryLock(r)
  \/ PollForValue(r) \/ GiveUp(r) \/ Compute(r) \/ Store(r)
  \/ ReleaseCheck(r) \/ ReleaseDel(r) \/ Settle(r) \/ ComputeDirectly(r)

Break(r) == CommandFails(r) \/ ReplyLost(r) \/ ComputeFails(r)

Next ==
  \/ \E r \in Reads : Advance(r) \/ Break(r)
  \/ \E i \in Instances : Revalidate(i) \/ StoreEnvelope(i) \/ RefreshFails(i) \/ Crash(i)
  \/ RewriteGold \/ (\E k \in Keys : Evict(k)) \/ EvictionFails
  \/ SoftExpire \/ Expire \/ LockExpires

Spec == Init /\ [][Next]_vars

-----------------------------------------------------------------------------
(* Properties.                                                              *)

\* A value older than the last completed eviction was already old when it was
\* stored: what a rewrite of Gold leaves to be served stale is only what a
\* compute that spanned the rewrite has written (ServingCacheEvictor.evictBrand
\* after the commit, against every path that stores).
StaleWasStoredLate == (value # None /\ value.ver < swept) => value.late

\* No two reads compute under the lock but for locks that expired or were
\* evicted in use, each of which costs one more compute at a time, although
\* the release is a check and then a delete (releaseLock, "costs one duplicate
\* compute").
LostLockCostsOne == Cardinality(Computing) <= 1 + lost

\* A read fails only because a query threw or its process died: no error of
\* Redis, of the lock or of the eviction reaches it (the fail-soft catches).
CacheNeverFailsRead ==
  \A r \in Reads : pc[r] = "failed" =>
    \/ r \in threw
    \/ swr /\ \E q \in threw : InstanceOf[q] = InstanceOf[r]

\* After a completed eviction nothing older is served from the cache
\* (get-recommendations-live.ts: the next request recomputes).
CachedIsSwept == value # None => value.ver >= swept

\* A query that threw is not repeated (serving-cache.ts: "never retried").
NeverRetried == \A r \in Reads : pc[r] = "direct" => threw = {}
=============================================================================
