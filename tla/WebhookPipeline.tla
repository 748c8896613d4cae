-------------------------- MODULE WebhookPipeline --------------------------
(***************************************************************************)
(* Inbound webhooks of one provider: deliveries of the same event run side  *)
(* by side, guarded by a dedup key in Redis that is set before the event is *)
(* produced to the live lane and taken back when the produce fails.         *)
(*                                                                          *)
(* A step is what a delivery does from one await to the next, an answer to  *)
(* the provider included, or a fault.  A non-2xx answer makes the provider  *)
(* deliver the event again.                                                 *)
(***************************************************************************)
EXTENDS Naturals, FiniteSets

CONSTANTS
  Events,     \* distinct webhook events of one connector
  Deliveries, \* requests that may be in flight together, over all replicas
  EventOf,    \* the event each of them delivers
  Natures,    \* what an event may be: subsets of Traits
  MaxEarly,   \* bound on deliveries sent while an earlier one is in flight
  MaxFaults   \* bound on faults

\* skip: mapped to nothing to produce.  malformed: fails the envelope's schema.
\* aged: subject to the five-minute replay window.  blocking: its side effect
\* is awaited and a failure answers 500.  loose: it is fired and forgotten.
Traits == {"skip", "malformed", "aged", "blocking", "loose"}

ASSUME Shape ==
  /\ IsFiniteSet(Deliveries) /\ EventOf \in [Deliveries -> Events]
  /\ Natures \subseteq SUBSET Traits
  /\ MaxEarly \in Nat /\ MaxFaults \in Nat

VARIABLES
  nature,  \* what the strategy makes of each event
  sent,    \* events delivered at least once
  early,   \* deliveries sent early so far
  acked,   \* events the provider has a 2xx for
  old,     \* events that have left the replay window
  pc,      \* where a delivery is
  seen,    \* dedup keys set in Redis
  log,     \* copies of each event on the live topic
  fired,   \* fire-and-forget side effects in flight
  applied, \* events whose side effect took place
  extra,   \* per event: faults that excuse a further copy
  lost,    \* events whose key was stranded by a crash or a failed DEL
  faults   \* faults so far

provider == <<nature, sent, early, acked, old>>
effects == <<fired, applied>>
ghosts == <<extra, lost>>
vars == <<nature, sent, early, acked, old, pc, seen, log, fired, applied, extra, lost, faults>>

Places == {"idle", "verify", "claim", "send", "release", "effect"}

Skipped == {e \in Events : "skip" \in nature[e]}
Malformed == {e \in Events : "malformed" \in nature[e]}
Aged == {e \in Events : "aged" \in nature[e]}
Blocking == {e \in Events : "blocking" \in nature[e]}
Loose == {e \in Events : "loose" \in nature[e]}

TypeOK ==
  /\ nature \in [Events -> Natures]
  /\ sent \subseteq Events /\ acked \subseteq Events /\ old \subseteq Events
  /\ early \in 0..MaxEarly
  /\ pc \in [Deliveries -> Places]
  /\ seen \subseteq Events
  /\ log \in [Events -> Nat]
  /\ fired \subseteq Events /\ applied \subseteq Events
  /\ extra \in [Events -> Nat]
  /\ lost \subseteq Events
  /\ faults \in 0..MaxFaults

Init ==
  /\ nature \in [Events -> Natures]
  /\ sent = {} /\ early = 0 /\ acked = {} /\ old = {}
  /\ pc = [d \in Deliveries |-> "idle"]
  /\ seen = {}
  /\ log = [e \in Events |-> 0]
  /\ fired = {} /\ applied = {}
  /\ extra = [e \in Events |-> 0]
  /\ lost = {}
  /\ faults = 0

Fault == faults < MaxFaults /\ faults' = faults + 1
Goto(d, place) == pc' = [pc EXCEPT ![d] = place]

\* The answer to the provider: a 2xx ends its retries unless it gets lost.
Refuse(d) == Goto(d, "idle") /\ UNCHANGED acked
Ack(d) ==
  /\ Goto(d, "idle")
  /\ \/ acked' = acked \cup {EventOf[d]} /\ UNCHANGED faults
     \/ Fault /\ UNCHANGED acked

-----------------------------------------------------------------------------
(* The provider.                                                            *)

InFlight(e) == {d \in Deliveries : pc[d] # "idle" /\ EventOf[d] = e}

Deliver(e) ==
  /\ \E d \in Deliveries :
       EventOf[d] = e /\ pc[d] = "idle" /\ Goto(d, "verify")
  /\ sent' = sent \cup {e}
  /\ UNCHANGED <<nature, acked, old, seen, log, effects, ghosts, faults>>

\* The first delivery, or the next one after a refusal or a lost answer.
Attempt(e) ==
  /\ e \notin acked /\ InFlight(e) = {}
  /\ Deliver(e)
  /\ UNCHANGED early

\* The provider does not wait for an answer that is late.
AttemptEarly(e) ==
  /\ e \notin acked /\ InFlight(e) # {}
  /\ early < MaxEarly /\ early' = early + 1
  /\ Deliver(e)

\* Five minutes pass.
Age(e) ==
  /\ e \in sent \ old
  /\ old' = old \cup {e}
  /\ UNCHANGED <<nature, sent, early, acked, pc, seen, log, effects, ghosts, faults>>

-----------------------------------------------------------------------------
(* handle(): rate limit, signature, brand, salt and mapping come first and  *)
(* change nothing here.                                                     *)

\* 429, 401, 400 or 500 on the way to the mapped payload.
Reject(d) ==
  /\ pc[d] = "verify"
  /\ Fault
  /\ Refuse(d)
  /\ UNCHANGED <<nature, sent, early, old, seen, log, effects, ghosts>>

\* mapped.skip answers at once, whatever else the strategy returned.
Skip(d) ==
  /\ pc[d] = "verify"
  /\ EventOf[d] \in Skipped
  /\ Ack(d)
  /\ UNCHANGED <<nature, sent, early, old, seen, log, effects, ghosts>>

\* Mutant: every event has to be inside the replay window.
TooOldForAll(e) == e \in old

TooOld(e) == e \in old /\ e \in Aged

AgeGate(d) ==
  /\ pc[d] = "verify"
  /\ EventOf[d] \notin Skipped
  /\ IF TooOld(EventOf[d]) THEN Refuse(d) ELSE Goto(d, "claim") /\ UNCHANGED acked
  /\ UNCHANGED <<nature, sent, early, old, seen, log, effects, ghosts, faults>>

\* isDuplicate: SET NX.  A key that was there answers 409.
Duplicate(d) ==
  /\ pc[d] = "claim"
  /\ EventOf[d] \in seen
  /\ Refuse(d)
  /\ UNCHANGED <<nature, sent, early, old, seen, log, effects, ghosts, faults>>

\* An envelope that does not parse throws past the key that is now set.
ClaimKey(d) ==
  /\ pc[d] = "claim"
  /\ EventOf[d] \notin seen
  /\ seen' = seen \cup {EventOf[d]}
  /\ IF EventOf[d] \in Malformed THEN Refuse(d) ELSE Goto(d, "send") /\ UNCHANGED acked
  /\ UNCHANGED <<nature, sent, early, old, log, effects, ghosts, faults>>

\* A Redis error lets the event pass; the SET may have been carried out.
ClaimFailsOpen(d) ==
  /\ pc[d] = "claim"
  /\ Fault
  /\ seen' \in {seen, seen \cup {EventOf[d]}}
  /\ IF EventOf[d] \in Malformed THEN Refuse(d) ELSE Goto(d, "send") /\ UNCHANGED acked
  /\ extra' = [extra EXCEPT ![EventOf[d]] = @ + 1]
  /\ UNCHANGED <<nature, sent, early, old, log, effects, lost>>

\* The side effect, then 200.
AfterProduce(d) ==
  IF EventOf[d] \in Blocking
  THEN Goto(d, "effect") /\ UNCHANGED <<acked, fired, faults>>
  ELSE /\ Ack(d)
       /\ fired' = IF EventOf[d] \in Loose THEN fired \cup {EventOf[d]} ELSE fired

Produce(d) ==
  /\ pc[d] = "send"
  /\ log' = [log EXCEPT ![EventOf[d]] = @ + 1]
  /\ AfterProduce(d)
  /\ UNCHANGED <<nature, sent, early, old, seen, applied, ghosts>>

\* Mutants: the error is swallowed; the key stays.
ProduceFailsQuietly(d) ==
  /\ pc[d] = "send"
  /\ faults < MaxFaults
  /\ Ack(d)
  /\ UNCHANGED <<nature, sent, early, old, seen, log, effects, ghosts>>
ProduceFailsKeepsKey(d) ==
  /\ pc[d] = "send"
  /\ Fault
  /\ Refuse(d)
  /\ UNCHANGED <<nature, sent, early, old, seen, log, effects, ghosts>>

\* send() rejects; the broker may hold the message all the same.
ProduceFails(d) ==
  /\ pc[d] = "send"
  /\ Fault
  /\ Goto(d, "release")
  /\ \/ UNCHANGED <<log, extra>>
     \/ /\ log' = [log EXCEPT ![EventOf[d]] = @ + 1]
        /\ extra' = [extra EXCEPT ![EventOf[d]] = @ + 1]
  /\ UNCHANGED <<provider, seen, effects, lost>>

\* release: DEL, then 500.
Release(d) ==
  /\ pc[d] = "release"
  /\ seen' = seen \ {EventOf[d]}
  /\ Refuse(d)
  /\ UNCHANGED <<nature, sent, early, old, log, effects, ghosts, faults>>

ReleaseFails(d) ==
  /\ pc[d] = "release"
  /\ Fault
  /\ lost' = lost \cup {EventOf[d]}
  /\ Refuse(d)
  /\ UNCHANGED <<nature, sent, early, old, seen, log, effects, extra>>

EffectDone(d) ==
  /\ pc[d] = "effect"
  /\ applied' = applied \cup {EventOf[d]}
  /\ Ack(d)
  /\ UNCHANGED <<nature, sent, early, old, seen, log, fired, ghosts>>

\* Mutant: the key is released here as well.
EffectFailsReleases(d) ==
  /\ pc[d] = "effect"
  /\ Fault
  /\ seen' = seen \ {EventOf[d]}
  /\ Refuse(d)
  /\ UNCHANGED <<nature, sent, early, old, log, effects, ghosts>>

\* 500 so the provider retries; the key stays set.
EffectFails(d) ==
  /\ pc[d] = "effect"
  /\ Fault
  /\ Refuse(d)
  /\ UNCHANGED <<nature, sent, early, old, seen, log, effects, ghosts>>

LooseEnds(e) ==
  /\ e \in fired
  /\ fired' = fired \ {e}
  /\ \/ applied' = applied \cup {e} /\ UNCHANGED faults
     \/ Fault /\ UNCHANGED applied
  /\ UNCHANGED <<provider, pc, seen, log, ghosts>>

\* The replica of a delivery dies; a SET on its way may still be carried out.
Crash(d) ==
  /\ pc[d] # "idle"
  /\ Fault
  /\ Refuse(d)
  /\ \/ UNCHANGED seen
     \/ pc[d] = "claim" /\ seen' = seen \cup {EventOf[d]}
  /\ lost' = IF pc[d] \in {"claim", "send", "release"}
             THEN lost \cup {EventOf[d]} ELSE lost
  /\ UNCHANGED <<nature, sent, early, old, log, effects, extra>>

-----------------------------------------------------------------------------
Handle(d) ==
  \/ Skip(d) \/ AgeGate(d) \/ Duplicate(d) \/ ClaimKey(d) \/ Produce(d)
  \/ Release(d) \/ EffectDone(d)

Fail(d) ==
  \/ Reject(d) \/ ClaimFailsOpen(d) \/ ProduceFails(d) \/ ReleaseFails(d)
  \/ EffectFails(d) \/ Crash(d)

Next ==
  \/ \E e \in Events : Attempt(e) \/ AttemptEarly(e) \/ Age(e) \/ LooseEnds(e)
  \/ \E d \in Deliveries : Handle(d) \/ Fail(d)

Spec == Init /\ [][Next]_vars

\* A provider delivers again until it has its 2xx, and a request that is not
\* hit by a fault goes on.
Fairness ==
  /\ \A e \in Events : WF_vars(Attempt(e)) /\ WF_vars(LooseEnds(e))
  /\ \A d \in Deliveries : WF_vars(Handle(d))

FairSpec == Spec /\ Fairness

-----------------------------------------------------------------------------
(* Properties.                                                              *)

\* A 2xx, after which the provider never delivers again, is given only for an
\* event that is on the live topic and, where it is awaited, whose side effect
\* took place (WebhookPipeline, "Fail -> 500 so provider retries").
AckedServed ==
  \A e \in acked \ Skipped :
    /\ log[e] > 0
    /\ e \in Blocking => e \in applied

\* Every further copy of an event is owed to a fault: a Redis error that let a
\* delivery pass, or a send that failed although the broker had the message.
CopiesPaidFor == \A e \in Events : log[e] <= 1 + extra[e]

\* A key of an event that was never produced is in the hands of a delivery
\* that will produce it or take the key back, or was stranded by a crash or a
\* failed DEL: no other failure turns retries into duplicates of nothing.  An
\* envelope that does not parse keeps its key as well; a retry could not help it.
UnproducedKeyHeld ==
  \A e \in seen \ Malformed :
    \/ log[e] > 0 \/ e \in lost
    \/ \E d \in InFlight(e) : pc[d] \in {"send", "release"}

\* An event that is delivered reaches the live topic, if it is not stranded and
\* not shut out by the replay window: refusals alone never end its delivery.
EventLands ==
  \A e \in Events :
    (e \in sent \ (Skipped \cup Malformed))
      ~> (log[e] > 0 \/ e \in lost \/ e \in Aged \cap old)

\* The side effect of an acknowledged event took place or is under way; checked
\* without faults (ShopifyWebhookStrategy, customers/redact: "the pipeline runs
\* the sideEffect").
EffectNotForgotten ==
  \A e \in acked \cap (Loose \cup Blocking) : e \in applied \cup fired

\* A failed side effect is made up for by the retry it asks for
\* (RazorpayWebhookStrategy, "500 so Razorpay retries").
EffectRetried ==
  \A e \in Events : (e \in sent \cap Blocking) ~> (e \in applied \cup old \cup lost)
=============================================================================
