----------------------------- MODULE PixelTabs -----------------------------
(***************************************************************************)
(* Tabs of one shop over one storage: each loads the page, emits events,    *)
(* flushes when an event, the retry timer or the page says so, and may be   *)
(* closed at any moment.  A closed tab forgets its memory; a send it had    *)
(* under way is never answered, and its event stays where storage has it.   *)
(***************************************************************************)
EXTENDS ServedPixel, SdkTransport

VARIABLE
  why  \* history: what may have cost an event that nobody counted

vars == <<queue, log, memory, sent, evicted, faults, why>>

Flush(t, m) == IF t \in Served THEN ServedFlush(m, queue) ELSE SdkFlush(m, queue)
Emission(t, m, critical) ==
  /\ IF t \in Served THEN ServedEmit(t, m, critical) ELSE SdkEmit(t, m, critical)
  /\ UNCHANGED <<sent, faults>>

Busy(t) == memory[t].flushes /= <<>>

\* What a tab remembers: copies of the queue that are not empty, backoff, drops.
Memory ==
  [open : BOOLEAN, flushes : Seq(Seq(1..Len(log)) \ {<<>>}),
   attempt : 0..MaxRetries, timer : BOOLEAN, dropped : Nat]

TypeOK ==
  /\ log \in Seq(Event) /\ Len(log) <= MaxEvents
  /\ queue \in Seq(1..Len(log)) /\ Len(queue) <= MaxQueue
  /\ sent \subseteq 1..Len(log) /\ evicted \subseteq 1..Len(log)
  /\ faults \in 0..MaxFaults
  /\ why \subseteq {"overlap", "tabs", "eviction", "stale"}
  /\ memory \in [Tabs -> Memory]
  /\ \A t \in Tabs :
       /\ t \in Served => Len(memory[t].flushes) <= 1
       /\ ~memory[t].open => memory[t] = Fresh

Init == StorageInit /\ why = {}

\* The page loads and emits its page view.  A shop has one of the two programs
\* on its pages at a time; it may go from one to the other.
Load(t) ==
  /\ ~memory[t].open
  /\ \A u \in Tabs : memory[u].open => (u \in Served <=> t \in Served)
  /\ Emission(t, [Fresh EXCEPT !.open = TRUE], FALSE)

Emit(t, critical) ==
  /\ memory[t].open
  /\ Emission(t, memory[t], critical)

\* pagehide, visibilitychange, or the merchant calls flush().
Trigger(t) ==
  /\ memory[t].open /\ Len(memory[t].flushes) < MaxFlushes
  /\ memory' = [memory EXCEPT ![t] = Flush(t, @)]
  /\ UNCHANGED <<queue, log, sent, evicted, faults>>

RetryFires(t) ==
  /\ memory[t].timer
  /\ memory' = [memory EXCEPT ![t] = Flush(t, [@ EXCEPT !.timer = FALSE])]
  /\ UNCHANGED <<queue, log, sent, evicted, faults>>

Close(t) ==
  /\ memory[t].open
  /\ Fault
  /\ memory' = [memory EXCEPT ![t] = Fresh]
  /\ UNCHANGED <<queue, log, sent, evicted>>

AnswerOk(t) ==
  \/ t \in Served /\ ServedAnswerOk(t)
  \/ t \in Sdk /\ \E i \in DOMAIN memory[t].flushes : SdkAnswerOk(t, i)

AnswerFail(t) ==
  \/ t \in Served /\ ServedAnswerFail(t)
  \/ t \in Sdk /\ \E i \in DOMAIN memory[t].flushes : SdkAnswerFail(t, i)

Flushes == UNION {{t} \X (DOMAIN memory[t].flushes) : t \in Tabs}
Overlapping == \E f, g \in Flushes : f /= g

\* The history: flushes that overlap, with a served pixel among them or not;
\* an eviction while a send is under way; a failure or a closed tab after
\* SDK flushes have overlapped.
Observe ==
  why' = why \cup
    {w \in {"overlap", "tabs", "eviction", "stale"} :
       CASE w = "overlap" -> Overlapping'
         [] w = "tabs" -> Overlapping' /\ \E f \in Flushes' : f[1] \in Served
         [] w = "eviction" -> evicted' /= evicted /\ \E t \in Tabs : Busy(t)
         [] w = "stale" -> faults' > faults /\ "overlap" \in why}

Step(t) ==
  \/ Load(t) \/ (\E c \in BOOLEAN : Emit(t, c)) \/ Trigger(t) \/ RetryFires(t) \/ Close(t)
  \/ AnswerOk(t) \/ AnswerFail(t)

Next == \E t \in Tabs : Step(t) /\ Observe
Spec == Init /\ [][Next]_vars

\* A send is answered in the end and a timer fires.
Fairness ==
  \A t \in Tabs :
    /\ WF_vars((AnswerOk(t) \/ AnswerFail(t)) /\ Observe)
    /\ WF_vars(RetryFires(t) /\ Observe)
FairSpec == Spec /\ Fairness

-----------------------------------------------------------------------------
Carried == UNION {ToSet(f) : f \in UNION {ToSet(memory[t].flushes) : t \in Tabs}}
Kept == ToSet(queue) \cup Carried
Lost == (1..Len(log)) \ (sent \cup Kept \cup evicted)

\* An event that no send delivered and no eviction counted is in storage or in
\* a flush, whatever is emitted, retried, closed and reloaded meanwhile.  What
\* costs one is named: a served pixel and another tab flushing at once, an
\* eviction during a send, or a failure after SDK flushes have overlapped
\* (runtime.ts flush, transport.ts flush).
LossNeedsReason == why \subseteq {"overlap"} => Lost = {}

\* An eviction during a send costs no more events than it counted in vain: the
\* head it dropped was on its way, and the answer drops another one instead.
LossIsCounted == why \subseteq {"overlap", "eviction"} => Cardinality(Lost) <= Cardinality(evicted \cap sent)

\* While no two flushes overlap, events are handed over in the order they were
\* emitted, whatever is emitted or evicted during a send, fails, is retried or
\* closed.
HandedInOrder ==
  [][why' \subseteq {"eviction"} => \A e \in sent' \ sent : \A d \in sent : d < e]_vars

\* What an emission leaves out of storage is older than what stays of its class,
\* and a critical event is left out only when all that stays is critical: in
\* whatever order flushes of several tabs have written the queue back before
\* (writeQueue, writeQ: the walk from oldest to newest takes the queue's order
\* for that of the emissions).
Offered == ToSet(queue) \cup (Len(log) + 1)..Len(log')
OldestNoiseFirst ==
  [][log' /= log =>
       \A e \in Offered \ ToSet(queue'), d \in ToSet(queue') :
         /\ log'[e].critical => log'[d].critical
         /\ log'[e].critical = log'[d].critical => e < d]_vars

\* An event in storage whose tab stays open leaves it without any further
\* event or page trigger, if no more sends fail than there are retries.
NotStranded ==
  \A e \in 1..MaxEvents :
    (e \in ToSet(queue) /\ memory[log[e].by].open)
      ~> (e \notin ToSet(queue) \/ ~memory[log[e].by].open \/ "tabs" \in why)

\* The comment at runtime.ts:258: only the event just sent is dropped.
OnlySentDropped == Lost = {}
\* The comment at transport.ts:17-18: critical events make no room for others.
Gone == {e \in 1..Len(log) : log[e].critical} \ (sent \cup Kept)
CriticalNeverMakesRoom ==
  [][Gone' \ Gone /= {} => \A e \in ToSet(queue') : log'[e].critical]_vars
=============================================================================
