# Brain V3: verification notes

TLA+ models of the parts of Brain V3 where the order of steps decides whether
data is lost, duplicated or kept too long. Brain V3 is a commerce analytics
system: events and connector pulls enter through a collector and workers, a
medallion pipeline (Bronze, Silver, Gold) turns them into facts, identity
resolution joins them per customer, and a core API serves dashboards, billing,
notifications and privacy requests.

## 1. The system

| Part | State it keeps | Operations | Talks to | What makes it correct |
|---|---|---|---|---|
| Collector (`apps/collector`) | micro-batch buffer, write-ahead log (WAL) of two files and an offset sidecar, producer health | admit, batch, produce or append, flush, drain, restart | Kafka, local disk | a 200 means durable; replay is bounded; the gate reopens |
| Erasure lane (`apps/core` publisher, `apps/stream-worker` orchestrator) | `ops.erasure_request_queue`, `pii_erasure_log`, subject keyring, identity graph, identifier cache | enqueue, requeue stale, claim head, ordered erasure sequence, done / retry / dead | Postgres, Neo4j, Redis, Argo | one erasure at a time per brand; complete means every step ran; PII payload gone when done; erased stays erased |
| Identity (`apps/stream-worker` silver-identity) | watermark per brand, graph of identifiers and customers, identifier cache | window, page, resolve, side effects, advance | Neo4j, Redis, Postgres | no event skipped; a merge loses no link; watermark only after success |
| Connector ingestion (`apps/stream-worker`, `packages/connector-core`) | backfill jobs, per-resource state, cursors, sync requests | queue claim, resumable backfill, scheduled pull, sync claim | vendor APIs, Postgres, Kafka | a cursor never passes undelivered records and never goes back; no job lost |
| Webhook pipeline (`apps/core`) | dedup keys | verify, dedup, produce, release, side effect | Redis, Kafka, the providers | an acknowledged event is on the lane with its side effect, or the provider retries |
| Workspace access (`apps/core`) | session rows with families, invites | login, rotate, revoke, wipe | Postgres | a revoked user has no live session; a token is used once |
| Notification and CAPI (`apps/core`) | send log, deletion log | can-contact, queue, flush | Postgres, ad platforms | nothing sent after withdrawal, nothing sent twice |
| Billing (`apps/core`) | sealed meters, invoices | seal, issue, credit | lakehouse, Postgres | a period is billed once, on its sealed figure |
| Analytics and serving cache (`packages/metric-engine`) | Redis values and locks, in-flight map | read, compute, store, refresh, evict | Redis, DuckDB serving | one compute at a time; an eviction leaves nothing older but what spans it; a cache error never fails a read |
| Medallion runner (`db/iceberg/duckdb`) | leader lock, Iceberg tables | tick: silver, identity, gold, maintenance | Postgres, Iceberg | one writer per table |
| Pixel (`packages/pixel-sdk`: served script and npm SDK) | queue in localStorage, a tab's memory | enqueue, evict, flush, retry | collector | an event leaves the queue only when sent or counted |
| Circuit breaker (`packages/observability`) | state, failure count, deadline | fire | vendor APIs | opens at the threshold, closes only on a probe |
| Audit chain (`packages/audit`, `apps/core` checkpoint) | hash chain, WORM checkpoints | append, checkpoint | Postgres, S3 | the chain is linear |

The web application, mappers, schemas, the AI gateway, cryptography, infra and
SQL transforms hold no protocol of their own and are listed as not modelled in
`PROJECT.json`.

How they interact: the pixel posts to the collector, the collector produces to
Kafka; webhooks and pulls produce to the same topic; Kafka Connect writes
Bronze; the medallion runner builds Silver, runs silver-identity, then Gold; a
merge or an erasure in the identity graph enqueues scoped recomputes and evicts
caches; core serves from Gold through the analytics cache. Most hand-offs are
rows in Postgres that a worker polls, so the hard questions are the same
everywhere: what was true when the row was read and is no longer true when it
is written, and what a crash between two steps leaves behind.

## 2. Hard behaviour

- Crashes and restarts: torn and unsynced file writes, a half-written sidecar,
  a worker dying between an effect and its acknowledgement.
- Time-outs that give up on work which then completes: a produce past its
  deadline, a stale claim whose worker is only slow, a connector pull past its
  deadline.
- Read, wait, write: queue rows updated by id alone, persisted cursors written
  from memory, caches primed after a purge, a queue in localStorage rewritten
  after an await.
- Limits: the WAL cap, poison ceilings, claim batches, a bounded event queue.
- Progress: every request answered, every accepted event on the log, every
  erasure finished or dead, a closed gate reopening.

`PROJECT.json` lists each at its line, with the property that would catch it.

## 3. Modules

### 3.1 Collector

| Module | Stands for |
|---|---|
| `LogProducer` | `kafka-producer.ts`: connection, failure count, the disconnect event, `isHealthy`; a send that fails may have written any part of its batch (a deadline does not stop kafkajs). The broker itself is external. |
| `LocalDiskFallback` | `local-disk-fallback.ts`: active and `.flushing` files as sequences of lines, the sidecar, the byte and event accounts in memory, the lock, one program counter for the flush pass. |
| `Collector` | the process: admission gate (`producer-backpressure.ts`), micro-batcher (`produce-micro-batcher.ts`), `anchor` (`accept-event.usecase.ts`), shutdown (`shutdown-drain.ts`, `main.ts`), crash and restart. |
| `IngestContract` | the abstract promise: what is safe stays safe, only safe messages are acknowledged, the log only grows. |
| `CollectorProofs` | the theorems of section 5. |
| `MCCollector` | the request sets the runs use. |

State: `status[m]` is what the client of message `m` knows (`pending`,
`acked`, `shed`, `unanswered`, ...); `buffer`, `timerArmed`, `queue` are the
micro-batcher; `anchorPc` is where `anchor` stands in the head batch;
`activeFile`, `flushingFile`, `offset` are the disk; `activeBytes`,
`flushingBytes`, `flushingEvents` the accounts; `flushPc` the pass;
`phase` the process (`down`, `serving`, then the stages of the shutdown).
`onLog[m]` counts copies on the topic. `faults` and `tornWrites` only count:
they bound the behaviours and name what the environment did.

Every await in the code is a boundary between two actions; what runs between
two awaits is one action. `anchor` and the flush pass interleave wherever the
code's lock lets them, and the process may die at any of the boundaries.

Abstractions. A line is one unit of bytes. Admission and enqueue are one
action (no await between the gate's hook and the push that matters to the
properties). `connect` is atomic, and the three attempts at boot are one
success or one failure. The unlink of a stale sidecar before a rename succeeds.
The age gauge, partition key, headers and the linger 0 bypass are left out.
Faults (a crash, a late or partial produce, a torn or short write, a failed
sidecar write or unlink) are rationed by `MaxFaults`; broker outages are not.
`IoFaults` says which I/O faults a run allows. An exit that cuts a flush pass
short counts as a fault.

Fairness (`FairSpec`): weak fairness of the restart, the linger timer, the
steps of `anchor`, of the flush pass and of the shutdown. The orchestrator
restarts the process, Node fires timers, and I/O completes or fails. Nothing is
assumed of the broker or of clients: the two properties that need a broker say
so in their premise (`SettlesDown`).

### 3.2 Erasure queue and orchestrator

| Module | Stands for |
|---|---|
| `ErasureQueue` | `ops.erasure_request_queue` (0140): the insert of `ErasureEventPublisher` in two steps (requested_at is fixed when the insert starts, the row is seen when it commits), and the statements of `ErasureRequestQueueRepository`, one operator each. |
| `ErasureOrchestrator` | replicas of the poll loop of `erasure-orchestrator/run.ts`: requeue, claim, `processRow` row by row, the catch, the tick that ends early, the process that ends anywhere. |
| `ErasureLane` | the abstract promise: the log partitioned by brand that the queue replaced (class comment of the repository). The oldest open request of a brand is taken, given back or settled before the next one. |
| `ErasureProofs` | the theorems of section 5. |
| `MCErasure` | instances for TLC. |

State: `rowStatus`, `requestedAt`, `payload` (rows where it is not NULL),
`attempts` are the columns. Time is two sets: `parked` rows wait for
next_attempt_at, `aged` rows were claimed longer ago than the stale limit.
`pc[w]`, `held[w]`, `snapshot[w]` are a worker: where its tick is, the claimed
rows it has not finished with, and what the claim returned. `erased` and
`withdrawn` record which requests were served.

One SQL statement is one step, one await of `processRow` is one step. The three
marks name the row by id alone, so they act on whatever they find: this is the
point of the model. `MarkThrows` and `CatchThrows` are an UPDATE that failed, or
took effect while its answer was lost.

Abstractions. The erasure of one subject is a single step here; section 3.3
opens it up. A sanctioned skip counts as served. Ties of requested_at, broken
by id in the code, do not occur. The backoff is "not due, then due". A crash
is the end of a worker's tick: the restarted process is the same worker. Not
covered: a request whose own execution kills the process is claimed again for
ever, since a stale requeue does not count as an attempt (a decision the
interface comment defends).

Three switches name what the environment may do, and `Punctual` excludes them:
`SlowBatches` (a claim ages while its holder is alive; ten rows are claimed at
once and worked through one by one), `LateCommits` (rows become visible in
another order than requested_at's), `LostAnswers`. Crashes and failed updates
are always allowed, within `MaxFaults`.

Fairness (`LiveSpec`): weak fairness of the loop's two statements and of the
work on a row per worker (the loop never ends, I/O returns or throws), of a
backoff running out and of an abandoned claim growing old. Nothing is assumed
of the publisher or of the erasure succeeding.

### 3.3 Erasure of one subject, next to silver-identity

| Module | Stands for |
|---|---|
| `IdentityGraph` | the brand's graph in Neo4j (edges in both states, lifecycle, ALIAS_OF chains) and the identifier cache in Redis: the reads and writes of `Neo4jIdentityRepository` and `IdentifierCacheAdapter`, one operator each. |
| `SilverIdentity` | one event of the silver-identity job: consult the cache; re-prime, or read, resolve, write graph, write contact data, prime. |
| `SubjectErasure` | `EraseSubjectUseCase.execute`: lookup, then eleven awaited steps, any of which may throw; the orchestrator replays it from the start. Composes the three. |
| `SubjectProofs` | the theorems of section 5. |
| `MCSubject` | instances for TLC. |

State: `linked`, `active` (the edges, and those with is_active), `lifecycle`,
`alias` (who is absorbed by whom, through any number of steps), `cache`,
`contactPii`; `sPc`, `event`, `links`, `outcome` for the job; `ePc`, `req`,
`brainId`, `hashes`, `erasureLog` for the erasure. `opened` and `met` are
history variables: whose log the request has opened, and whose erasure
overlapped an event in the job.

One graph transaction is one step, one Redis call is one step. Priming the cache
is a pipeline whose errors are swallowed, so any part of it may take effect;
the purge goes key by key and throws, so a failed purge may have done any part.
Steps whose result nothing here reads back (DEK, surrogate, recompute row, Argo
submit, CAPI) are `Plain`: they may fail, and that is what matters about them.
The serving-cache invalidation is fail-open and reads nothing, so it is not a
step. UUIDs are drawn from `Brains` and never reused; which of two merged
customers survives is open, as it is for random UUIDs.

Abstractions. An identifier is a type and a hash together; the purge of a hash
across types is the purge of the identifier. One event is in the job at a time,
where the job folds a page of events over one graph read. The phone guard, the
review queue and the weak identifiers are left out; the priority and
shared-device paths are not wired in the job. Core's own synchronous erase and
its merge and unmerge routes are not modelled.

### 3.4 Connector ingestion: historical backfill

| Module | Stands for |
|---|---|
| `ResourceBackfill` | the job queue (`RequestConnectorBackfillCommand`, `BackfillJobRepository`), the claimer of `ingestion-backfill/run.ts` on every replica, the scheduled re-pull that walks the same resources without a job, and `runResumableBackfill` with its persisted state (`packages/connector-core/src/contracts/Backfill.ts`, `PgResourceBackfillStateRepository`). |
| `ResumableWalk` | the abstract promise per resource: pages are delivered in order, the checkpoint follows one page at a time and never goes back, and a resource is done only with its window delivered. |
| `IngestionProofs` | the theorems of section 5. |
| `MCIngestion` | windows and floors for TLC. |

State: `row` is `resource_backfill_state` (status, cursor, reached), `jobs` the
job table, `asked` the requests between their check and their insert; `pc`,
`job`, `res`, `mem`, `left`, `outs` are a runner: where it is, its job, the
resource, its copy of the row, the pages left of its chunk and the outcomes so
far. `landed` is what was delivered or spooled. A cursor counts the pages behind
it; `InWindow` and `BelowFloor` say which pages hold records of the window and
which end at the floor.

One transaction, one delivered page or one fault is a step. A runner writes its
whole copy of the row, by resource, without looking at what is there: this is
where two runners meet. `LongRuns` lets a live job look stale. The list of
resources, rate limits and the content of pages are left out; a page that
cannot be delivered is spooled or throws, as in the code.

Fairness (`FairSpec`): the claimer's timer goes on (requeue, claim) and a run
that is not hit by a fault goes on.

### 3.5 Connector ingestion: the live re-pull

| Module | Stands for |
|---|---|
| `SyncLane` | one connector's `connector_sync_status` row as a lease: the scheduler (`ingest-scheduler/run.ts`), the claimer of user requests (`sync-request-claimer/run.ts`), `acquireRepullLock`, `claimSyncingState`, the fetch and its end (`shopify-repull/run.ts`), the deadline, the webhook's touch and the two reapers. |
| `SyncLaneProofs` | the theorems of section 5. |
| `MCSyncLane` | the instance for TLC. |

State: `state` and `aged` are the row (its state, and whether updated_at is older
than the window that goes with it), `due` the next interval, `api` and `pending`
the request of a user and its queue row, `pc` where a run is, `watched` the runs
with an armed deadline, `asked` the run the claimer awaits. `overtaken` is
history: runs whose lease another party has written over. `owed` and `late` are
history as well: a request was queued, and no re-pull that began since then has
finished.

Modelled after the Shopify re-pull, the one with a compare-and-swap; other
providers set the state without it (the mutant `SetSyncing`).

Fairness (`FairSpec`): both timers tick, time passes, the reaper runs, and a run
that is not hit by a fault goes on. A request is followed although its queue row
is tombstoned (an UPDATE to `''`) before the dispatch, because the connector becomes due again.

### 3.6 Webhook pipeline

| Module | Stands for |
|---|---|
| `WebhookPipeline` | `WebhookPipeline.handle` from the verified request to the answer, several deliveries of one event side by side over all replicas, the dedup key in Redis (`isDuplicate`, `release`), the produce, awaited and fire-and-forget side effects, and the provider that delivers again until it has its 2xx. |
| `WebhookProofs` | the theorems of section 5. |
| `MCWebhook` | the natures of events the runs use. |

State: `nature[e]` is what the strategy makes of an event (`skip`, `malformed`,
`aged`: subject to the replay window, `blocking` or `loose` side effect), chosen
in Init for all strategies at once; `sent`, `acked`, `early`, `old` are the
provider and the clock; `pc[d]` where a delivery is; `seen` the dedup keys; `log`
the copies of an event on the live topic; `fired`, `applied` the side effects.
`extra` and `lost` are history: faults that excuse a further copy, and keys
stranded by a crash or a failed DEL.

One await is a step. The steps before the mapping (rate limit, signature, brand,
salt) change nothing and are one refusal. A Redis error lets the event pass and
may have set the key; a failed send may have delivered.

Fairness (`FairSpec`): the provider retries until its 2xx, a delivery that is not
hit by a fault goes on, a fired side effect ends. That a provider retries for
ever is an assumption; real ones give up after a day or two.

### 3.7 Pixel queue

| Module | Stands for |
|---|---|
| `PixelStorage` | what both pixel programs share: the queue in localStorage, the eviction rule, the backoff, a tab's memory. |
| `ServedPixel` | the flush of the served script (`asset/runtime.ts`): one at a time, an answer drops the head of whatever the queue is by then. |
| `SdkTransport` | the flush of the npm SDK (`transport.ts`): several may overlap, each writes back the rest of the queue it has read. |
| `PixelTabs` | tabs that load, emit, flush, fail, retry, close and reload over one storage. |
| `MCPixel` | the instance for TLC. |
| `PixelProofs` | the theorems of section 5. |

State: `queue` (numbers of events), `log` (their emission), `memory[t]` (open,
flushes under way, attempt, timer, drop count), `sent`, `evicted`; `why` is
history: which of the named overlaps has happened. JavaScript runs one handler
at a time, so a handler up to its await or callback is a step.

Assumed: a shop runs one of the two programs at a time (the guard of `Load`), and
storage works. Not modelled: a full or forbidden localStorage, the back-forward
cache, a beacon that is accepted and never delivered, the content of sessions.
No source file calls `consumeDroppedCount`, so the SDK's drop count stays where
it is (transport.ts:91-94 says the client piggybacks it).

Fairness (`FairSpec`): a send is answered and a timer fires.

### 3.8 Serving cache

| Module | Stands for |
|---|---|
| `ServingCache` | reads of one metric of one brand on several instances: `analytics-cache.ts` and `serving-cache.ts` (get, shared promise, rebuild lock, poll, query, store, release, stale-while-revalidate), and the eviction that follows a rewrite of Gold (`ServingCacheEvictor.ts`, `gold-rewritten-publish/run.ts`). |
| `ServingProofs` | the theorems of section 5. |
| `MCServing` | the instance for TLC. |

State: `gold` is the version of the marts, `todo` and `swept` the eviction;
`value` (its version, whether it is past its soft expiry, whether it was already
old when stored) and `lock` are Redis; `pc[r]`, `got`, `held`, `threw` are a
read, `bg[i]` the background refresh of an instance; `swr` chooses the mode in
Init, so one run covers both. `faults` and `lost` count.

One Redis command or one query is a step. The in-flight map is read and set in
one step, as there is no await in between. A command may fail, or take effect
and lose its reply. A lock that expires under its owner is a fault; its TTL is
chosen to outlast a query. The answer itself is reset when a read ends. A query
reads the current version: a live attach of the engine sees new commits when it
is queried again (src/db/iceberg/duckdb/serving/engine.py:11-19); only the view
of a mart that did not exist yet waits for the next epoch, and that is left out.

Not modelled: `invalidate()` (no caller), the per-brand gate of
`serving-brand-gate.ts`, the content of keys.

## 4. Runs

Collector. Three messages in two requests (a single one and a batch of two), one
line per flush batch, one fault, two restarts' worth of events; the WAL holds
two lines where the cap matters (three messages then overflow it) and three
otherwise. Two requests are enough for an append to meet a flush pass and for a
message to be written behind another's torn line; a batch of two is the least
that can be half written or half produced; one fault per behaviour isolates
which fault breaks what, and the combinations a single fault cannot show (crash
after a torn write, append after the restart) come from the ordinary steps.

| Run | Shows |
|---|---|
| `collector_safety` | type correctness; `KeepsContract`: the collector implements `IngestContract`; `ExactlyOnceWithoutFaults`; `GaugeCoversExposure`; `WalWithinCap`, also across a restart; `UnlinkOnlyProduced`; and under `FairSpec` `EveryRequestAnswered`, `AckedReachesLog`, `GateReopens` |
| `collector_faults` | `LossNeedsTornWrite`: with every I/O fault allowed, only an append cut short loses an acknowledged message |

Disagreements with the comments, one property each that TLC refutes. The first has
a configuration to run by hand; the others are the same file with another
property and `IoFaults`:

| Instance | Property | The code |
|---|---|---|
| `Collector_glued.cfg` | `AckedDurable` | `append` continues a line a crash has torn: the next acknowledged message is glued to it and skipped at replay (local-disk-fallback.ts:201, against 27-28) |
| `{"short"}` | `AckedDurable` | `append` ignores how much `write()` wrote: a short write is acknowledged (203, against the comment at 204) |
| `{}` | `ReplayWithinOneBatch` | truncating the sidecar before writing it can replay every batch of the file, not one (409, against 342-343) |
| `{}` | `DrainedMeansPassCompleted` | `drain()` says "drained" when it met a pass already in flight (289, against 277-278) |
| `{"sidecar"}` | `GaugeCoversExposure` | the pending gauge reads 0 with an acknowledged event not on the log, after a failed sidecar write (359, against 69-70) |

Erasure queue. Two replicas, two requests of one brand (and one of another where
the claim of a batch matters), one malformed; two attempts instead of
five, the least that still have a retry between the first failure and death;
one or two faults. Two requests of a brand are enough for a younger row to be
claimed before an older one; two replicas are enough for a row to change hands.
The replicas are symmetric in the safety run.

| Run | Shows |
|---|---|
| `erasure_punctual` | `OneErasurePerBrand` and `KeepsLaneContract`: while `Punctual`, the queue implements `ErasureLane`, through a crash or a failed update anywhere; in the lane a settled row stays settled |
| `erasure_live` | every switch on, two faults per behaviour: `NoneLostUnserved`, `DeadForAReason` (malformed, out of attempts, or served and without its payload), and `EveryRequestSettles` under `LiveSpec` |

By hand, as above:

| Instance | Property | The code |
|---|---|---|
| `Erasure_late.cfg` | `OneErasurePerBrand` | without any fault: a row that commits late becomes the head beside a claimed one (ErasureRequestQueueRepository.ts:109) |
| with `SlowBatches` for `LateCommits`, one fault | `OneErasurePerBrand` | the stale requeue hands a row to a second replica while the first is still erasing (90, against 18-23) |
| the same | `SettledStays` | a worker that lost its claim fails and puts a done row back to `requested` (150) |
| with `LostAnswers` for `LateCommits`, one worker and no symmetry, one fault | `DeadKeepsPayload` | a lost answer of `markDone` ends in a dead row without its payload (erasure-orchestrator/run.ts:155, against ErasureRequestQueueRepository.ts:71) |

Erasure of one subject. Two identifiers (a third, a device, where a merge has to
carry something new), two customers or three where one is erased and another
minted in its place, one request or two, one failure with its replay. Two
customers are enough for a merge and for a mint after an erasure; one failure
can hit any step.

| Run | Shows |
|---|---|
| `subject_safety` | `ErasedStaysErased`: a completed erasure leaves no edge, no cache entry, no contact row of its customer, and no later event brings one back; `ReplayFindsSubject`: no replay loses its subject to the tombstones of the first attempt |

`ErasedStaysErased` makes two exceptions, both real in the code. An event that is
in the job while the erasure runs can prime the cache after the purge
(silver-identity/run.ts:364) or set an edge active again
(Neo4jIdentityRepository.ts:755). And the purge of the graph tombstones the edges
of the survivor only: the edges of customers it has absorbed stay active and
events go on resolving to it. By hand:

| Instance | Property | The code |
|---|---|---|
| `Subject_stranded.cfg` | `NoneStranded` | the replay's lookup has a tie between two tombstoned customers and may take the wrong one (Neo4jIdentityRepository.ts:1047, against 1030-1034) |
| with `{email, phone}`, `TwoIds`, one request, no retry | `ErasedNotResolved` | the edges of absorbed customers outlive the purge (EraseSubjectUseCase.ts:18-24) |
| with `{email, phone, device}`, `Medium = {device}`, `ThreeIds`, one request, no retry | `CachedMeansLinked` | a merge primes the cache with an identifier it has not linked (side-effects.ts:133, against IdentifierCacheAdapter.ts:21-22) |

Backfill. Two resources of two or three pages, one page per chunk, one or two
jobs. Two runners are enough for one to overwrite the row of the other, three
(two claimers and the scheduled walk) for a job to change hands meanwhile. The
floor falls inside the pages, so a resource may end at the floor or at its last
page. Two requests are enough for a check to be overtaken.

| Run | Shows |
|---|---|
| `ingestion_overlap` | type correctness, `CursorPassesOnlyDelivered`, `WindowDelivered`, `CompletedJobDelivered`, with two claimers and the scheduled walk over the same rows, runs that look stale, one fault |
| `ingestion_live` | one claimer, two faults, a fetcher that may be missing: `KeepsWalk` (the rows implement `ResumableWalk`), `SettledJobStays`, `EveryJobSettles` |

By hand, each refutes one property. The last three take the pages and floors of
`Ingestion_live.cfg`:

| Instance | Property | The code |
|---|---|---|
| `Ingestion_oldest.cfg` | `WindowDelivered` | a page whose oldest record is below the floor completes the resource (Backfill.ts:248), which is wrong for the WooCommerce customers, walked oldest first (woocommerce-resource-fetchers.ts:169) |
| with `MayLack = {2}` | `CompletedJobWhole` | a resource without a fetcher is skipped and missing from the outcomes: the job completes without it (run.ts:522) |
| with `Handlers = {h1, h2}`, `MaxJobs = 2` | `OneActiveJob` | the check skips a row that is locked, and check and insert are two transactions |
| with `Scheduled = {s1}` | `KeepsWalk` | with a claimer and the scheduled walk at once a row goes back, even from completed |

Live re-pull. Two runs are enough for a lease to be taken over; a third would
only wait. Every other writer of the row is in the run, with two faults.

| Run | Shows |
|---|---|
| `sync_lane` | `OneHolder`: re-pulls overlap only when someone has written over a lease; `RequestFollowed`: a sync a user was promised is done |

By hand: `Sync_zombie.cfg` (`OneRepull`): the deadline of a run that goes on resets
the row and a second re-pull starts beside the first. With `Webhooks` in place of
`Deadlines` a webhook does the same (shopify-repull/run.ts:476-479 and
ingest-scheduler/run.ts:20-22 say it cannot happen).

Webhooks. One event and three deliveries, two of them early: one may hold the
key, one be answered 409 and one come after a release. Events do not touch each
other's keys. Three faults allow a failed send, a failed release and a crash in
one behaviour.

| Run | Shows |
|---|---|
| `webhook_faults` | every nature of event: `AckedServed`, `CopiesPaidFor`, `UnproducedKeyHeld`, and `EventLands` under `FairSpec` |
| `webhook_redact` (violated) | `EffectNotForgotten`: a skipped event is answered 200 before its side effect is looked at, so the redact request it carries is never run |

By hand: `Webhook_unmapped.cfg` (`EffectRetried`): after a failed awaited side
effect the key stays set, so the retry it asks for is answered 409.

Pixel. Two tabs of the served pixel and one of the npm SDK, never both programs
at once; a queue of two, four events, one retry, one fault. A queue of two has
a head on its way and one to be hit by mistake; four events fill it and evict.

| Run | Shows |
|---|---|
| `pixel_tabs` | type correctness; `LossNeedsReason`, `LossIsCounted`: an event is lost only in three named overlaps, and an eviction during a send loses no more than it counted; `HandedInOrder`, evictions during a send included; `OldestNoiseFirst`: in every state, an emission that does not fit leaves out the oldest of a class, and critical events only when nothing else stays; `NotStranded` |

The counted drop marker needs six events with a queue of two; the served pixel
alone with six events, two faults and two retries passes as well, and so do one
tab of each program with a queue of one and five events. By hand:

| Instance | Property | The code |
|---|---|---|
| `Pixel_second.cfg` | `OnlySentDropped` | two served tabs: the second answer drops an event neither has sent (runtime.ts:258) |
| with `Served = {p1}` | `CriticalNeverMakesRoom` | an eviction while the head is under way, then `slice(1)` drops an unsent critical event (transport.ts:17-18, runtime.ts:205-208) |
| with the SDK tab alone, two events, two flushes, one fault | `OnlySentDropped` | SDK flushes that overlap write back stale copies (transport.ts:104-106) |

Serving cache. Two reads on one instance (one leads, one joins) and one on
another (which polls), two rewrites of Gold, one fault, both modes.

| Run | Shows |
|---|---|
| `serving_cache` | type correctness; `StaleWasStoredLate`, `LostLockCostsOne`, `CacheNeverFailsRead` |

By hand: `Serving_stale.cfg` (`CachedIsSwept`: a query that spans a rewrite stores
the old answer after the eviction, against get-recommendations-live.ts:14-16). The
same file with no commit and one fault refutes `NeverRetried`: when the leader's
query throws, each reader that joined it queries again (serving-cache.ts:320-326,
against its comment at 24-25).

That every read ends is not checked: the liveness run takes too long to keep. It
has a short argument, since a leader's way to the end has no loop.

## 5. Proofs

Proved with TLAPS, for every set of messages, cap, batch size, request set,
choice of I/O faults and fault budget that meets the named assumptions of
`LogProducer`, `LocalDiskFallback` and `Collector`:

- `CollectorTypeCorrect` (`CollectorProofs`): `Spec => []TypeOK`. One lemma per
  component operation, then one step per action.
- `CollectorDurable` (`CollectorProofs`): `Spec => []LossNeedsTornWrite`. The
  property is not inductive: it says nothing of a batch that is written and not
  yet acknowledged, of the offset, or of the pass that is about to unlink. The
  invariant adds `WalOK` (every line before the sidecar's offset, and every line
  the running pass has passed, is a message on the log; a pass that is about to
  unlink has passed every line) and, for the anchor, that between write and
  acknowledgement the batch is in a file or on the log (`SyncedInFile`), both
  conditional on no append having been cut short. `Covered` is the notion that
  carries the argument: a line is on the log or will be read again, and every
  step keeps covered what was covered (`CoveredKept`, `LogGrows`).
- `CollectorUnlinkSafe`: `Spec => UnlinkOnlyProduced`, from the same invariant.

The rest of `CollectorProofs` builds on these. Each theorem excludes I/O faults by a
hypothesis on `IoFaults`, never outages, late produces, crashes or restarts; the
hypotheses are the ones under which the property holds, and the fault left out
breaks it:

- `CollectorKeepsContract` (`IoFaults \cap {"crash", "error", "short"} = {}`): the
  refinement of `IngestContract`. Besides `Kept`, the durability invariant, it
  needs to know which messages a step may tell about: a message waits in one place
  only, the buffer or one batch, and has been told nothing (`Queued`). Every step
  then publishes, anchors, acknowledges or stutters.
- `CollectorWithinCap` (`"error" \notin IoFaults`): `WalWithinCap` is a bound on the
  files, while the code compares accounts. `CapInv` says how far the accounts lag:
  by the one append being synced (`Unsynced`). An append that throws leaves in the
  file what no account holds, which is why it is excluded.
- `CollectorGaugeCovers` (`IoFaults \subseteq {"unlink"}`): the account of the active
  file is its length but for the append being synced (`BytesOK`), and the account
  of the rotated one is at least the number of its lines that are still to be read,
  or every line is on the log (`Counted`). The counting is over sets of positions.
  A sidecar write that fails makes the gauge reach 0 too early.
- `CollectorExactlyOnce` (requests do not repeat a message; the fault budget is not
  0, since an exit that cuts a pass short is only counted within it): while nothing
  has failed a message is in exactly one place (`Once`), and the sidecar is ahead
  of what was produced except between a produce and its sidecar write (`SidecarOK`).

For every set of workers, requests and brands, every claim limit, retry budget
and fault budget, from `QueueAssumption` and `WorkerAssumption`:

- `ErasureTypeCorrect` (`ErasureProofs`). The types are inductive only with
  `Base`: stamps are distinct and never ahead of the clock, an aged row is a
  processing one, a row that is not settled has attempts left, a worker holds
  only rows of the table. Without the third part a retry could pass the limit.
- `ErasureNoneLost`, `ErasureDeadForAReason`, under every fault. The invariant
  `Service` follows a row through the worker: who is at "project" has erased it,
  who is at "finish" has served it, and a claim that found no payload found a
  served row. That last part is what makes the unguarded marks harmless.
- `ErasuresSerialized` and `ErasureImplementsLane`, while
  `Punctual`. `Exclusive` says a held row is processing and held once, an aged
  row is held by nobody, and a processing row is the oldest pending one of its
  brand. Each step of a worker then maps to a take, a give-back, a settlement or
  a stutter of the log; an insert that commits maps to an append, which is where
  the order of the commits is needed.

For every set of identifiers, customers, events and requests, from
`GraphAssumption`, `EventAssumption` and `RequestAssumption` (`SubjectProofs`):

- `SubjectTypeCorrect`, `ErasedForGood` (`ErasedStaysErased`) and `ReplaysFind`
  (`ReplayFindsSubject`), all from one invariant. `ErasedStaysErased` speaks of
  completed erasures only, so the invariant says how far an open one has come
  (`Progress`), that the job is between events while an erasure has met none
  (`Overlap`, `IdleForgets`), and that nothing the job holds leads to a customer
  that is gone (`Gone`). The step that needs most is the purge of the cache: it
  deletes the identifiers the graph links to the customer, so an entry for an
  identifier it does not link would survive. `HeldMeansLinked` excludes that,
  but only for customers nobody was merged into: a merge primes identifiers it
  has not linked (`CachedMeansLinked`, section 4), and this is where
  the second premise of the property is used.

For every number of resources and pages, every set of runners and handlers, every
budget, from `Bounds` of `ResourceBackfill` (`IngestionProofs`):

- `BackfillTypeCorrect`.
- `BackfillSkipsNothing`, `BackfillWindowDelivered`, `BackfillJobsDelivered`, for
  any number of runners that overlap, fail and crash, under `NewestFirst`: once a
  page reaches the floor no later page has a record of the window. Without it the
  second is false (`Ingestion_oldest.cfg`). A stored row may be anybody's and may
  go back, so the invariant never compares a copy with the row: `Covered` says of
  any state of a resource, stored or held, that the pages behind its cursor are
  delivered and that a floor it has reached means a delivered window
  (`RowsCovered`, and the same of every copy and every outcome a runner has
  collected). Delivered pages only grow, so a write of a covered copy keeps it.
- `BackfillImplementsWalk` and `BackfillSettledStays`, with one runner: its copy
  is the row (`CopyIsRow`), and a job in its hands is running (`ClaimedRuns`).

For every set of events, deliveries and natures, from `Shape` of
`WebhookPipeline` (`WebhookProofs`):

- `WebhookTypeCorrect`; `AcknowledgedIsServed`, which needs that a delivery at its
  awaited side effect has produced; `KeysHeld`.
- `CopiesAreCounted`: the copies of an event and the deliveries that are about to
  make or undo one are at most one for its key and one per excusing fault. The
  counting is over the set of deliveries, by the theorems on finite sets.

For every set of runs, from `Bounds` of `SyncLane` (`SyncLaneProofs`):

- `SyncTypeCorrect`, and `OneHolderAtATime`, which is inductive as it stands:
  its second part, that an untouched lease is still in the row, is what the
  compare-and-swap relies on.

For every set of reads, finite or not, of instances, and all numbers of rewrites and
faults, from `CacheBounds` (`ServingProofs`):

- `ServingTypeOK`: at most as many locks are lost in use as there were faults and
  rewrites of Gold (`LostBound`: a rewrite whose eviction has yet to delete the
  lock has not cost one).
- `ServingStaleWasStoredLate`. The property compares the value with the last
  *completed* eviction; `StoredInTime` adds what is known while one is going on:
  once the value key is deleted, what is stored in time is of the last rewrite.
- `ServingLostLockCostsOne`. `Computing` alone is not inductive: a read that is
  about to delete the lock may delete another's. `Strays` counts the reads that
  still have to release and do not own the lock, the one at its delete included;
  when it deletes a foreign lock its owner becomes a stray in its place.
- `ServingNeverFailsRead`, inductive as it stands: a read that fails threw, or
  shared the promise of one that did.

For all sets of tabs of the two programs, finite or not, every capacity and backoff,
and any bound on events, flushes and faults, from `Bounds` (`PixelProofs`):

- `PixelTypeOK`. The queue and what is evicted are described by positions (`Rank`,
  `Entries`); that the ranks of a set of positions count it up, and that a position
  of each rank exists, is shown by the least counterexample (the well-foundedness
  of the naturals), since induction over data is out of reach.
- `PixelLossNeedsReason`, `PixelLossIsCounted`, `PixelHandedInOrder`,
  `PixelOldestNoiseFirst`, all from `PixelInv`. A step is first reduced to one of six
  kinds (`Kinds`: an emission, a flush that starts, a tab that stops its flushes, an
  SDK flush that goes on or gives up, a served answer that drops the head), and
  every part of the invariant is kept for each kind. The parts:
  - `Ascending`: queue and copies list events in the order they were emitted, even
    after overlapping flushes have written old copies back. The eviction walks
    positions; this is why the oldest positions are the oldest events.
  - `InStep`, while no flushes have overlapped (`Alone`): an SDK flush holds the
    queue as it is stored; a served flush sends the head of the queue, or an event
    that was evicted during the send and is older than all that is stored; what was
    delivered is older than what is kept. The order of delivery follows.
  - `Over`, when SDK flushes have overlapped: what is stored is in some flush. A
    write of an older copy loses nothing from sight, and the first failure or
    closed tab after it ends this part (history `stale`).
  - `Counted`: a step either keeps every event accounted for, or loses one by
    delivering one that was counted as evicted, which adds one to each side of
    `LossIsCounted`. `Unsent` makes the right side zero when no eviction met a send.
  - `OneProgram`, `Seen`, `SdkStays` tie the history to the tabs: why an answer to
    a served pixel meets no SDK flush unless the history says so.

The types of the erasure queue, the subject's erasure, the webhook pipeline and the
re-pull are proved and no longer part of a run; the runs check those of the others.

Only model-checked: liveness, since the prover has no fairness reasoning or ENABLED.
The properties of the violated run are refuted and nothing is proved of them.

## 6. Plan

Done: the collector; the erasure lane (queue, orchestrator, the sequence of one
subject with the graph and the cache); connector ingestion (backfill queue and
walk, live re-pull); the webhook pipeline; the pixel queue; the serving cache.
Next, the most consequential first:

1. Silver-identity: the watermark window and its slices against late rows, pages
   of events folded over one graph read, merge resolution against a reference
   union-find.
2. Sessions: rotation, wipe and revocation as overlapping transactions
   (`user-session.repository.ts`).
3. The per-brand serving gate; the circuit breaker; the medallion leader lock.
4. Proofs: what the modules of the items above promise; of the present ones only
   liveness is left to TLC.

## 7. Not modelled

The map covers a small part of the repository's lines. Most of them hold no
protocol: the web application, vendor mappers, API and event schemas, metric
definitions, the SQL transforms, model gateways, cryptography, deployment and
migrations are data definitions, pure functions or rendering, and a state machine
of them would restate them line by line. What is modelled is chosen by the
hazards, not by volume.

Postgres, Kafka, Redis and Neo4j appear only through the statements the code sends
them; a single statement or an explicit transaction is atomic, and what the code
reads in one and writes in another is not.

Left out of the parts that are modelled:

- Webhooks: the 48 hours a dedup key lives, loss of Redis data, the rate limiter's
  count, the raw archive, the secret cache, the content of mapped events.
- Backfill: listing of resources, rate limits, the spool's own replay.
- Re-pull: pages and cursors of the vendors, providers other than Shopify.
- Identity: the watermark window, batches, the phone guard, the review queue.
- Erasure: core's synchronous erase, merge and unmerge routes.
- Serving cache: the gate, keys of several metrics at once.
