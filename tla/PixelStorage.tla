--------------------------- MODULE PixelStorage ---------------------------
(***************************************************************************)
(* What every tab with a pixel shares and keeps: the event queue in the     *)
(* localStorage of the shop's origin, and the tab's own memory of sends     *)
(* under way, retry timer and drop count.  The served pixel and the npm SDK *)
(* use one storage key, one eviction rule and one backoff, which are here;  *)
(* how they flush differs (ServedPixel, SdkTransport).                      *)
(*                                                                          *)
(* JavaScript runs one handler of a tab at a time, so a step is a handler   *)
(* up to its next await or callback.  A send is answered in a later step,   *)
(* also when sendBeacon accepts it at once.  Storage always works: a full   *)
(* or forbidden localStorage is left out.                                   *)
(***************************************************************************)
EXTENDS Naturals, Sequences, FiniteSets, SequencesExt

CONSTANTS
  Served,     \* tabs that run the served pixel
  Sdk,        \* tabs that run the npm SDK
  MaxQueue,   \* MAX_QUEUE
  MaxRetries, \* number of RETRY_DELAYS
  MaxEvents,  \* bound on the events of a behaviour
  MaxFlushes, \* bound on the flushes a page may start on top of others
  MaxFaults   \* bound on failed sends and closed tabs

ASSUME Bounds ==
  /\ Served \cap Sdk = {}
  /\ {MaxQueue, MaxRetries, MaxEvents, MaxFlushes} \subseteq Nat \ {0} /\ MaxFaults \in Nat

Tabs == Served \cup Sdk

VARIABLES
  queue,   \* localStorage[QUEUE_KEY]: events, by number
  log,     \* the events minted so far; the number of an event is its place
  memory,  \* of each tab: open, the flushes under way, backoff, drop count
  sent,    \* events whose send was answered with success
  evicted, \* events dropped to keep the queue within MAX_QUEUE
  faults   \* failed sends and closed tabs so far

Event == [critical : BOOLEAN, by : Tabs]

\* A flush under way is the queue it holds in memory; its head is being sent.
Fresh == [open |-> FALSE, flushes |-> <<>>, attempt |-> 0, timer |-> FALSE, dropped |-> 0]

StorageInit ==
  /\ queue = <<>> /\ log = <<>> /\ sent = {} /\ evicted = {} /\ faults = 0
  /\ memory = [t \in Tabs |-> Fresh]

(***************************************************************************)
(* writeQueue, writeQ: the oldest events that are not critical go first,    *)
(* then the oldest ones.                                                    *)
(***************************************************************************)
Rank(P, k) == Cardinality({j \in P : j <= k})

\* The positions of the n oldest events that are not critical.
OldestNoise(q, l, n) ==
  LET noise == {k \in DOMAIN q : ~l[q[k]].critical}
  IN {k \in noise : Rank(noise, k) <= n}

\* The entries of q at the positions P, in their order.
Entries(q, P) == [i \in 1..Cardinality(P) |-> q[CHOOSE k \in P : Rank(P, k) = i]]

\* Mutants: one event too many stays; the oldest ones go, critical or not.
EvictLate(q, l) == IF Len(q) <= MaxQueue + 1 THEN q ELSE SubSeq(q, Len(q) - MaxQueue, Len(q))
EvictOldest(q, l) == IF Len(q) <= MaxQueue THEN q ELSE SubSeq(q, Len(q) - MaxQueue + 1, Len(q))
EvictToCap(q, l) ==
  LET over == Len(q) - MaxQueue
      kept == Entries(q, DOMAIN q \ OldestNoise(q, l, over))
  IN IF over <= 0 THEN q
     ELSE IF Len(kept) <= MaxQueue THEN kept
     ELSE SubSeq(kept, Len(kept) - MaxQueue + 1, Len(kept))

\* The queue q goes to storage; what does not fit is gone.
Write(q, l) ==
  /\ queue' = EvictToCap(q, l)
  /\ evicted' = evicted \cup (ToSet(q) \ ToSet(EvictToCap(q, l)))

Excess(q, l) == Len(q) - Len(EvictToCap(q, l))

(***************************************************************************)
(* Backoff: one timer, a bounded number of retries, both reset by any       *)
(* successful send.                                                         *)
(***************************************************************************)
\* Mutant: the last delay of the schedule is never used.
ScheduleOneLess(m) ==
  IF m.timer \/ m.attempt + 1 >= MaxRetries THEN m
  ELSE [m EXCEPT !.attempt = @ + 1, !.timer = TRUE]
ScheduleRetry(m) ==
  IF m.timer \/ m.attempt >= MaxRetries THEN m
  ELSE [m EXCEPT !.attempt = @ + 1, !.timer = TRUE]

ResetRetry(m) == [m EXCEPT !.attempt = 0, !.timer = FALSE]

Fault == faults < MaxFaults /\ faults' = faults + 1
=============================================================================
