--------------------------- MODULE WebhookProofs ---------------------------
(***************************************************************************)
(* Theorems about WebhookPipeline, for any events, deliveries and faults.   *)
(***************************************************************************)
EXTENDS WebhookPipeline, FiniteSetTheorems, TLAPS

LEMMA TypeInit == Init => TypeOK
BY Shape DEF Init, TypeOK, Places

LEMMA TypeStep == TypeOK /\ [Next]_vars => TypeOK'
<1> SUFFICES ASSUME TypeOK, [Next]_vars PROVE TypeOK'
  OBVIOUS
<1> USE Shape DEF TypeOK, Places, Goto, Fault, Refuse, Ack, provider, effects, ghosts
<1>1. ASSUME NEW e \in Events, Attempt(e) PROVE TypeOK'
  BY <1>1 DEF Attempt, Deliver
<1>2. ASSUME NEW e \in Events, AttemptEarly(e) PROVE TypeOK'
  BY <1>2 DEF AttemptEarly, Deliver
<1>3. ASSUME NEW e \in Events, Age(e) PROVE TypeOK'
  BY <1>3 DEF Age
<1>4. ASSUME NEW e \in Events, LooseEnds(e) PROVE TypeOK'
  BY <1>4 DEF LooseEnds
<1>5. ASSUME NEW d \in Deliveries, Skip(d) PROVE TypeOK'
  BY <1>5 DEF Skip
<1>6. ASSUME NEW d \in Deliveries, AgeGate(d) PROVE TypeOK'
  BY <1>6 DEF AgeGate
<1>7. ASSUME NEW d \in Deliveries, Duplicate(d) PROVE TypeOK'
  BY <1>7 DEF Duplicate
<1>8. ASSUME NEW d \in Deliveries, ClaimKey(d) PROVE TypeOK'
  BY <1>8 DEF ClaimKey
<1>9. ASSUME NEW d \in Deliveries, Produce(d) PROVE TypeOK'
  BY <1>9 DEF Produce, AfterProduce
<1>10. ASSUME NEW d \in Deliveries, Release(d) PROVE TypeOK'
  BY <1>10 DEF Release
<1>11. ASSUME NEW d \in Deliveries, EffectDone(d) PROVE TypeOK'
  BY <1>11 DEF EffectDone
<1>12. ASSUME NEW d \in Deliveries, Reject(d) PROVE TypeOK'
  BY <1>12 DEF Reject
<1>13. ASSUME NEW d \in Deliveries, ClaimFailsOpen(d) PROVE TypeOK'
  BY <1>13 DEF ClaimFailsOpen
<1>14. ASSUME NEW d \in Deliveries, ProduceFails(d) PROVE TypeOK'
  BY <1>14 DEF ProduceFails
<1>15. ASSUME NEW d \in Deliveries, ReleaseFails(d) PROVE TypeOK'
  BY <1>15 DEF ReleaseFails
<1>16. ASSUME NEW d \in Deliveries, EffectFails(d) PROVE TypeOK'
  BY <1>16 DEF EffectFails
<1>17. ASSUME NEW d \in Deliveries, Crash(d) PROVE TypeOK'
  BY <1>17 DEF Crash
<1>18. CASE UNCHANGED vars
  BY <1>18 DEF vars
<1>19. QED
  BY <1>1, <1>2, <1>3, <1>4, <1>5, <1>6, <1>7, <1>8, <1>9, <1>10, <1>11,
     <1>12, <1>13, <1>14, <1>15, <1>16, <1>17, <1>18 DEF Next, Handle, Fail

\* Type correctness: every step of every delivery keeps the state well typed.
THEOREM WebhookTypeCorrect == Spec => []TypeOK
BY TypeInit, TypeStep, PTL DEF Spec

-----------------------------------------------------------------------------
(* Acknowledged events are served.                                          *)

\* A delivery that awaits its side effect has produced its event.
EffectAfterProduce ==
  \A d \in Deliveries : pc[d] = "effect" => log[EventOf[d]] > 0

Served == EffectAfterProduce /\ AckedServed

LEMMA ServedInit == Init => Served
BY DEF Init, Served, EffectAfterProduce, AckedServed, Skipped

LEMMA ServedStep == TypeOK /\ Served /\ [Next]_vars => Served'
<1> SUFFICES ASSUME TypeOK, Served, [Next]_vars PROVE Served'
  OBVIOUS
<1> USE Shape DEF TypeOK, Places, Goto, Fault, Refuse, Ack, provider, effects, ghosts,
        Served, EffectAfterProduce, AckedServed, Skipped, Blocking
<1>1. ASSUME NEW e \in Events, Attempt(e) \/ AttemptEarly(e) PROVE Served'
  BY <1>1 DEF Attempt, AttemptEarly, Deliver
<1>2. ASSUME NEW e \in Events, Age(e) \/ LooseEnds(e) PROVE Served'
  BY <1>2 DEF Age, LooseEnds
<1>3. ASSUME NEW d \in Deliveries, Skip(d) PROVE Served'
  BY <1>3 DEF Skip
<1>4. ASSUME NEW d \in Deliveries, AgeGate(d) \/ Duplicate(d) PROVE Served'
  BY <1>4 DEF AgeGate, Duplicate
<1>5. ASSUME NEW d \in Deliveries, ClaimKey(d) \/ ClaimFailsOpen(d) PROVE Served'
  BY <1>5 DEF ClaimKey, ClaimFailsOpen
<1>6. ASSUME NEW d \in Deliveries, Produce(d) PROVE Served'
  BY <1>6 DEF Produce, AfterProduce
<1>7. ASSUME NEW d \in Deliveries, Release(d) \/ ReleaseFails(d) \/ Reject(d) PROVE Served'
  BY <1>7 DEF Release, ReleaseFails, Reject
<1>8. ASSUME NEW d \in Deliveries, EffectDone(d) PROVE Served'
  BY <1>8 DEF EffectDone
<1>9. ASSUME NEW d \in Deliveries, ProduceFails(d) PROVE Served'
  BY <1>9 DEF ProduceFails
<1>10. ASSUME NEW d \in Deliveries, EffectFails(d) \/ Crash(d) PROVE Served'
  BY <1>10 DEF EffectFails, Crash
<1>11. CASE UNCHANGED vars
  BY <1>11 DEF vars
<1>12. QED
  BY <1>1, <1>2, <1>3, <1>4, <1>5, <1>6, <1>7, <1>8, <1>9, <1>10, <1>11
  DEF Next, Handle, Fail

\* The 200 of the pipeline: an acknowledged event is on the live topic and its
\* awaited side effect took place.
THEOREM AcknowledgedIsServed == Spec => []AckedServed
<1>1. TypeOK /\ Served => AckedServed
  BY DEF Served
<1>2. QED
  BY <1>1, TypeInit, TypeStep, ServedInit, ServedStep, PTL DEF Spec

-----------------------------------------------------------------------------
(* A key without its event has a holder.                                    *)

LEMMA HeldInit == Init => UnproducedKeyHeld
BY DEF Init, UnproducedKeyHeld

LEMMA HeldStep == TypeOK /\ UnproducedKeyHeld /\ [Next]_vars => UnproducedKeyHeld'
<1> SUFFICES ASSUME TypeOK, UnproducedKeyHeld, [Next]_vars PROVE UnproducedKeyHeld'
  OBVIOUS
<1> USE Shape DEF TypeOK, Places, Goto, Fault, Refuse, Ack, provider, effects, ghosts,
        UnproducedKeyHeld, InFlight, Malformed
<1>1. ASSUME NEW e \in Events, Attempt(e) \/ AttemptEarly(e) PROVE UnproducedKeyHeld'
  BY <1>1 DEF Attempt, AttemptEarly, Deliver
<1>2. ASSUME NEW e \in Events, Age(e) \/ LooseEnds(e) PROVE UnproducedKeyHeld'
  BY <1>2 DEF Age, LooseEnds
<1>3. ASSUME NEW d \in Deliveries, Skip(d) \/ AgeGate(d) PROVE UnproducedKeyHeld'
  BY <1>3 DEF Skip, AgeGate
<1>4. ASSUME NEW d \in Deliveries, Duplicate(d) \/ Reject(d) PROVE UnproducedKeyHeld'
  BY <1>4 DEF Duplicate, Reject
<1>5. ASSUME NEW d \in Deliveries, ClaimKey(d) PROVE UnproducedKeyHeld'
  BY <1>5 DEF ClaimKey
<1>6. ASSUME NEW d \in Deliveries, ClaimFailsOpen(d) PROVE UnproducedKeyHeld'
  BY <1>6 DEF ClaimFailsOpen
<1>7. ASSUME NEW d \in Deliveries, Produce(d) PROVE UnproducedKeyHeld'
  BY <1>7 DEF Produce, AfterProduce
<1>8. ASSUME NEW d \in Deliveries, ProduceFails(d) PROVE UnproducedKeyHeld'
  BY <1>8 DEF ProduceFails
<1>9. ASSUME NEW d \in Deliveries, Release(d) PROVE UnproducedKeyHeld'
  BY <1>9 DEF Release
<1>10. ASSUME NEW d \in Deliveries, ReleaseFails(d) PROVE UnproducedKeyHeld'
  BY <1>10 DEF ReleaseFails
<1>11. ASSUME NEW d \in Deliveries, EffectDone(d) \/ EffectFails(d) PROVE UnproducedKeyHeld'
  BY <1>11 DEF EffectDone, EffectFails
<1>12. ASSUME NEW d \in Deliveries, Crash(d) PROVE UnproducedKeyHeld'
  BY <1>12 DEF Crash
<1>13. CASE UNCHANGED vars
  BY <1>13 DEF vars
<1>14. QED
  BY <1>1, <1>2, <1>3, <1>4, <1>5, <1>6, <1>7, <1>8, <1>9, <1>10, <1>11, <1>12, <1>13
  DEF Next, Handle, Fail

\* isDuplicate and release: a key whose event was never produced is held by a
\* delivery at work, or a crash or a failed DEL stranded it.
THEOREM KeysHeld == Spec => []UnproducedKeyHeld
BY TypeInit, TypeStep, HeldInit, HeldStep, PTL DEF Spec

-----------------------------------------------------------------------------
(* Copies are counted.                                                      *)

\* Deliveries of e that hold or pass its key, for a value of pc.
Senders(place, e) ==
  {d \in Deliveries : EventOf[d] = e /\ place[d] \in {"send", "release"}}

\* What a delivery at a place adds to the senders of e.
Sends(place, d, e) == IF EventOf[d] = e /\ place \in {"send", "release"} THEN 1 ELSE 0

\* Membership as a number.
One(x, S) == IF x \in S THEN 1 ELSE 0

\* The key of an event pays for one copy, made or in the making, each fault
\* in extra for another.
CopiesCounted ==
  \A e \in Events : log[e] + Cardinality(Senders(pc, e)) <= One(e, seen) + extra[e]

\* There is a number of them.
LEMMA SendersFinite ==
  ASSUME NEW f, NEW e
  PROVE  IsFiniteSet(Senders(f, e)) /\ Cardinality(Senders(f, e)) \in Nat
BY Shape, FS_Subset, FS_CardinalityType DEF Senders

\* What the move of one delivery does to that number.
LEMMA MoveCounts ==
  ASSUME NEW f \in [Deliveries -> Places], NEW d \in Deliveries, NEW p \in Places,
         NEW e \in Events, NEW g, g = [f EXCEPT ![d] = p]
  PROVE  Cardinality(Senders(g, e)) + Sends(f[d], d, e)
           = Cardinality(Senders(f, e)) + Sends(p, d, e)
<1>1. IsFiniteSet(Senders(f, e)) /\ IsFiniteSet(Senders(g, e))
  BY SendersFinite
<1>2. Cardinality(Senders(f, e)) \in Nat /\ Cardinality(Senders(g, e)) \in Nat
  BY SendersFinite
<1>3. CASE EventOf[d] = e /\ p \in {"send", "release"}
  <2>1. Senders(g, e) = Senders(f, e) \cup {d}
    BY <1>3 DEF Senders
  <2>2. Cardinality(Senders(g, e)) = IF d \in Senders(f, e) THEN Cardinality(Senders(f, e))
                                      ELSE Cardinality(Senders(f, e)) + 1
    BY <1>1, <2>1, FS_AddElement, Zenon
  <2>3. Sends(p, d, e) = 1 /\ Sends(f[d], d, e) = (IF d \in Senders(f, e) THEN 1 ELSE 0)
    BY <1>3 DEF Senders, Sends
  <2>4. QED
    BY <1>2, <2>2, <2>3
<1>4. CASE ~(EventOf[d] = e /\ p \in {"send", "release"})
  <2>1. Senders(g, e) = Senders(f, e) \ {d}
    BY <1>4 DEF Senders
  <2>2. Cardinality(Senders(g, e)) = IF d \in Senders(f, e) THEN Cardinality(Senders(f, e)) - 1
                                      ELSE Cardinality(Senders(f, e))
    BY <1>1, <2>1, FS_RemoveElement, Zenon
  <2>3. Sends(p, d, e) = 0 /\ Sends(f[d], d, e) = (IF d \in Senders(f, e) THEN 1 ELSE 0)
    BY <1>4 DEF Senders, Sends
  <2>4. QED
    BY <1>2, <2>2, <2>3
<1>5. QED
  BY <1>2, <1>3, <1>4

LEMMA MoveCountsPc ==
  ASSUME pc \in [Deliveries -> Places], NEW d \in Deliveries, NEW p \in Places,
         NEW e \in Events, pc' = [pc EXCEPT ![d] = p]
  PROVE  Cardinality(Senders(pc', e)) + Sends(pc[d], d, e)
           = Cardinality(Senders(pc, e)) + Sends(p, d, e)
BY MoveCounts, Zenon

LEMMA CountInit == Init => CopiesCounted
<1> SUFFICES ASSUME Init, NEW e \in Events
             PROVE  log[e] + Cardinality(Senders(pc, e)) <= One(e, seen) + extra[e]
  BY DEF CopiesCounted
<1>1. Senders(pc, e) = {}
  BY DEF Init, Senders
<1>2. Cardinality(Senders(pc, e)) = 0
  BY <1>1, FS_EmptySet
<1>3. log[e] = 0 /\ extra[e] = 0 /\ seen = {}
  BY DEF Init
<1>4. QED
  BY <1>2, <1>3 DEF One

LEMMA CountStep == TypeOK /\ CopiesCounted /\ [Next]_vars => CopiesCounted'
<1> SUFFICES ASSUME TypeOK, CopiesCounted, [Next]_vars PROVE CopiesCounted'
  OBVIOUS
<1> USE Shape DEF TypeOK, Goto, Fault, Refuse, Ack, provider, effects, ghosts
<1>t. TypeOK'
  BY TypeStep
\* A step that moves one delivery.
<1>1. ASSUME NEW d \in Deliveries, NEW p \in Places, Goto(d, p),
             \A e \in Events :
               log'[e] + Sends(p, d, e) + One(e, seen) + extra[e]
                 <= log[e] + Sends(pc[d], d, e) + One(e, seen') + extra'[e]
      PROVE  CopiesCounted'
  <2> SUFFICES ASSUME NEW e \in Events
               PROVE  log'[e] + Cardinality(Senders(pc', e)) <= One(e, seen') + extra'[e]
    BY DEF CopiesCounted
  <2>1. Cardinality(Senders(pc', e)) + Sends(pc[d], d, e)
          = Cardinality(Senders(pc, e)) + Sends(p, d, e)
    BY <1>1, MoveCountsPc
  <2>n. Cardinality(Senders(pc, e)) \in Nat /\ Cardinality(Senders(pc', e)) \in Nat
    BY SendersFinite
  <2>2. log[e] + Cardinality(Senders(pc, e)) <= One(e, seen) + extra[e]
    BY DEF CopiesCounted
  <2>3. log[e] \in Nat /\ log'[e] \in Nat /\ extra[e] \in Nat /\ extra'[e] \in Nat
    BY <1>t
  <2>4. log'[e] + Sends(p, d, e) + One(e, seen) + extra[e]
          <= log[e] + Sends(pc[d], d, e) + One(e, seen') + extra'[e]
    BY <1>1
  <2>5. QED
    BY <2>1, <2>n, <2>2, <2>3, <2>4 DEF One, Sends
<1> USE DEF Places, One, Sends
<1>2. ASSUME NEW e \in Events, Attempt(e) \/ AttemptEarly(e) PROVE CopiesCounted'
  <2>1. PICK d \in Deliveries : EventOf[d] = e /\ pc[d] = "idle" /\ Goto(d, "verify")
    BY <1>2 DEF Attempt, AttemptEarly, Deliver
  <2>2. UNCHANGED <<log, seen, extra>>
    BY <1>2 DEF Attempt, AttemptEarly, Deliver
  <2>3. \A x \in Events :
         log'[x] + Sends("verify", d, x) + One(x, seen) + extra[x]
           <= log[x] + Sends(pc[d], d, x) + One(x, seen') + extra'[x]
    BY <2>1, <2>2
  <2>4. "verify" \in Places
    OBVIOUS
  <2>5. QED
    BY <2>1, <2>3, <2>4, <1>1
<1>3. ASSUME NEW e \in Events, Age(e) \/ LooseEnds(e) PROVE CopiesCounted'
  BY <1>3 DEF Age, LooseEnds, CopiesCounted
<1>4. ASSUME NEW d \in Deliveries, Skip(d) PROVE CopiesCounted'
  <2>1. Goto(d, "idle") /\ UNCHANGED <<log, seen, extra>>
    BY <1>4 DEF Skip
  <2>2. \A e \in Events :
         log'[e] + Sends("idle", d, e) + One(e, seen) + extra[e]
           <= log[e] + Sends(pc[d], d, e) + One(e, seen') + extra'[e]
    BY <2>1
  <2>3. QED
    BY <2>1, <2>2, <1>1
<1>5. ASSUME NEW d \in Deliveries, AgeGate(d) PROVE CopiesCounted'
  BY <1>5, <1>1 DEF AgeGate
<1>6. ASSUME NEW d \in Deliveries, Duplicate(d) \/ Reject(d) PROVE CopiesCounted'
  BY <1>6, <1>1 DEF Duplicate, Reject
<1>7. ASSUME NEW d \in Deliveries, ClaimKey(d) PROVE CopiesCounted'
  BY <1>7, <1>1 DEF ClaimKey
<1>8. ASSUME NEW d \in Deliveries, ClaimFailsOpen(d) PROVE CopiesCounted'
  BY <1>8, <1>1 DEF ClaimFailsOpen
<1>9. ASSUME NEW d \in Deliveries, Produce(d) PROVE CopiesCounted'
  BY <1>9, <1>1 DEF Produce, AfterProduce
<1>10. ASSUME NEW d \in Deliveries, ProduceFails(d) PROVE CopiesCounted'
  <2>1. pc[d] = "send" /\ Goto(d, "release") /\ seen' = seen
    BY <1>10 DEF ProduceFails
  <2>2. \A e \in Events : log'[e] + extra[e] = log[e] + extra'[e]
    BY <1>10 DEF ProduceFails
  <2>3. \A e \in Events :
         log'[e] + Sends("release", d, e) + One(e, seen) + extra[e]
           <= log[e] + Sends(pc[d], d, e) + One(e, seen') + extra'[e]
    BY <2>1, <2>2, <1>t
  <2>4. QED
    BY <2>1, <2>3, <1>1
<1>11. ASSUME NEW d \in Deliveries, Release(d) \/ ReleaseFails(d) PROVE CopiesCounted'
  BY <1>11, <1>1 DEF Release, ReleaseFails
<1>12. ASSUME NEW d \in Deliveries, EffectDone(d) \/ EffectFails(d) PROVE CopiesCounted'
  BY <1>12, <1>1 DEF EffectDone, EffectFails
<1>13. ASSUME NEW d \in Deliveries, Crash(d) PROVE CopiesCounted'
  <2>1. Goto(d, "idle") /\ UNCHANGED <<log, extra>> /\ seen \subseteq seen'
    BY <1>13 DEF Crash
  <2>2. \A e \in Events :
         log'[e] + Sends("idle", d, e) + One(e, seen) + extra[e]
           <= log[e] + Sends(pc[d], d, e) + One(e, seen') + extra'[e]
    BY <2>1
  <2>3. QED
    BY <2>1, <2>2, <1>1
<1>14. CASE UNCHANGED vars
  BY <1>14 DEF vars, CopiesCounted
<1>15. QED
  BY <1>2, <1>3, <1>4, <1>5, <1>6, <1>7, <1>8, <1>9, <1>10, <1>11, <1>12, <1>13, <1>14
  DEF Next, Handle, Fail

\* The live topic holds one copy of an event, and a further one for each Redis
\* error that let a delivery pass and each failed send the broker had carried out.
THEOREM CopiesAreCounted == Spec => []CopiesPaidFor
<1>1. TypeOK /\ CopiesCounted => CopiesPaidFor
  <2>1. \A e \in Events : Cardinality(Senders(pc, e)) \in Nat
    BY SendersFinite
  <2>2. QED
    BY <2>1 DEF TypeOK, CopiesCounted, CopiesPaidFor, One
<1>2. QED
  BY <1>1, TypeInit, TypeStep, CountInit, CountStep, PTL DEF Spec
=============================================================================
