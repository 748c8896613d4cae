--------------------------- MODULE ServingProofs ---------------------------
(***************************************************************************)
(* The safety invariants of the serving cache, for every number of reads,   *)
(* instances, rewrites of Gold and faults.  Nothing is assumed of the set   *)
(* of reads, not even that it is finite: what counts reads counts those     *)
(* that acquired the lock, which are finitely many in every state.          *)
(***************************************************************************)
EXTENDS ServingCache, FiniteSetTheorems, TLAPS

\* Reads whose release is still to come: they computed under the lock, or
\* are about to release it.
Holders == {r \in held : pc[r] \in {"query", "store", "check", "del"}}

\* A lock is lost to a fault, or to the eviction of a rewrite whose lock key
\* is no longer to be deleted.
LostBound == lost <= faults + gold - (IF "lock" \in todo THEN 1 ELSE 0)

\* Between acquiring the lock and settling: the release is only reached by
\* a read that acquired it.
HeldPlaces ==
  /\ \A r \in held : pc[r] \in {"query", "store", "check", "del", "settle"}
  /\ \A r \in Reads : pc[r] \in {"check", "del"} => r \in held

\* Each lock lost in use leaves at most one holder without the lock.
Strays == Cardinality(Holders \ {lock}) <= lost

\* A value stored in time is not older than the last eviction; once the
\* eviction in progress has deleted the value key, it is of the last rewrite.
StoredInTime ==
  value # None /\ ~value.late =>
    /\ value.ver >= swept
    /\ (todo # {} /\ "value" \notin todo) => value.ver >= gold

Inv ==
  /\ TypeOK
  /\ LostBound
  /\ IsFiniteSet(held)
  /\ HeldPlaces
  /\ Strays
  /\ StoredInTime
  /\ CacheNeverFailsRead

-----------------------------------------------------------------------------
(* Initial states, and the places of reads.                                 *)

USE DEF Ended, Leading, Places, Keys

\* The steps of a read, those of an instance, those of the batch and of time.
ReadStep == \E r \in Reads : Advance(r) \/ Break(r)
InstanceStep ==
  \E i \in Instances : Revalidate(i) \/ StoreEnvelope(i) \/ RefreshFails(i) \/ Crash(i)
SharedStep ==
  \/ RewriteGold \/ (\E k \in Keys : Evict(k)) \/ EvictionFails
  \/ SoftExpire \/ Expire \/ LockExpires

LEMMA NextIsOneOf == Next <=> ReadStep \/ InstanceStep \/ SharedStep
BY Zenon DEF Next, ReadStep, InstanceStep, SharedStep

LEMMA InitInv == Init => Inv
<1> SUFFICES ASSUME Init PROVE Inv
  OBVIOUS
<1>1. TypeOK
  BY CacheBounds DEF Init, TypeOK, Versions, Refresh, NoRefresh
<1>2. LostBound /\ HeldPlaces /\ StoredInTime
  BY DEF Init, LostBound, HeldPlaces, StoredInTime
<1>3. IsFiniteSet(held) /\ Strays
  <2>1. held = {} /\ Holders \ {lock} = {} /\ lost = 0
    BY DEF Init, Holders
  <2> QED
    BY <2>1, FS_EmptySet DEF Strays
<1>4. CacheNeverFailsRead
  BY DEF Init, CacheNeverFailsRead
<1> QED
  BY <1>1, <1>2, <1>3, <1>4 DEF Inv

LEMMA GotoType ==
  ASSUME pc \in [Reads -> Places], NEW r \in Reads, NEW place \in Places, Goto(r, place)
  PROVE  pc' \in [Reads -> Places]
BY DEF Goto

\* Going on without the answer leads to a place a read may be in.
LEMMA OnwardType ==
  ASSUME pc \in [Reads -> Places], NEW r \in Reads, Onward(r)
  PROVE  pc' \in [Reads -> Places]
BY DEF Onward, Goto, AfterCompute

-----------------------------------------------------------------------------
(* Types, and the bound on the locks lost.                                  *)

\* What a compute stores is a value.
LEMMA ComputedType ==
  ASSUME gold \in Versions, NEW v \in 0..gold
  PROVE  /\ Computed(v) \in Value
         /\ Computed(v) # None => Computed(v).ver = v /\ Computed(v).late = (v < gold)
BY CacheBounds DEF Computed, Value, Versions

LEMMA TypeRead ==
  ASSUME TypeOK, ReadStep
  PROVE  TypeOK'
<1> USE CacheBounds
<1> PICK r \in Reads : Advance(r) \/ Break(r)
  BY Zenon DEF ReadStep
<1>1. CASE ReadEnvelope(r)
  <2> DEFINE i == InstanceOf[r]
  <2>1. i \in Instances /\ bg[i] \in Refresh
    BY DEF TypeOK
  <2>2. [bg[i] EXCEPT !.at = "query"] \in Refresh
    BY <2>1 DEF Refresh
  <2>3. bg' = bg \/ bg' = [bg EXCEPT ![i] = [bg[i] EXCEPT !.at = "query"]]
    BY <1>1, Zenon DEF ReadEnvelope
  <2>4. bg' \in [Instances -> Refresh]
    BY <2>1, <2>2, <2>3 DEF TypeOK
  <2>5. pc' \in [Reads -> Places]
    BY <1>1 DEF TypeOK, ReadEnvelope, Goto
  <2> QED
    BY <1>1, <2>4, <2>5 DEF TypeOK, ReadEnvelope, batch, redis, counts
<1>2. CASE Get(r)
  BY <1>2 DEF TypeOK, Get, Goto, batch, redis, counts
<1>3. CASE JoinOrLead(r)
  BY <1>3 DEF TypeOK, JoinOrLead, Goto, batch, redis, counts
<1>4. CASE TryLock(r)
  BY <1>4 DEF TypeOK, TryLock, Goto, batch, counts
<1>5. CASE PollForValue(r) \/ GiveUp(r)
  BY <1>5 DEF TypeOK, PollForValue, GiveUp, Goto, batch, redis, counts
<1>6. CASE Compute(r)
  BY <1>6 DEF TypeOK, Compute, Goto, batch, redis, counts, Versions
<1>7. CASE Store(r)
  <2>1. got[r] \in 0..gold /\ gold \in Versions
    BY DEF TypeOK
  <2>2. value' \in Value
    BY <1>7, <2>1, ComputedType DEF Store
  <2> QED
    BY <1>7, <2>2 DEF TypeOK, Store, Goto, AfterCompute, batch, counts
<1>8. CASE ReleaseCheck(r) \/ ReleaseDel(r)
  BY <1>8 DEF TypeOK, ReleaseCheck, ReleaseDel, Goto, batch, redis, counts
<1>9. CASE Settle(r)
  BY <1>9 DEF TypeOK, Settle, batch, redis, counts, Versions
<1>10. CASE ComputeDirectly(r)
  BY <1>10 DEF TypeOK, ComputeDirectly, Goto, batch, redis, counts
<1>11. CASE CommandFails(r)
  BY <1>11, OnwardType DEF TypeOK, CommandFails, Fault, batch, redis
<1>12. CASE ReplyLost(r)
  <2>1. got[r] \in 0..gold /\ gold \in Versions
    BY DEF TypeOK
  <2>2. pc' \in [Reads -> Places]
    BY <1>12, OnwardType DEF TypeOK, ReplyLost
  <2>3. value' \in Value \cup {None} /\ lock' \in Reads \cup {None}
    BY <1>12, <2>1, ComputedType DEF TypeOK, ReplyLost
  <2> QED
    BY <1>12, <2>2, <2>3 DEF TypeOK, ReplyLost, Fault, batch
<1>13. CASE ComputeFails(r)
  BY <1>13 DEF TypeOK, ComputeFails, Goto, AfterCompute, Fault, batch, redis
<1> QED
  BY Zenon, <1>1, <1>2, <1>3, <1>4, <1>5, <1>6, <1>7, <1>8, <1>9, <1>10, <1>11, <1>12, <1>13
  DEF Advance, Break

LEMMA TypeInstance ==
  ASSUME TypeOK, InstanceStep
  PROVE  TypeOK'
<1> USE CacheBounds
<1> PICK i \in Instances : Revalidate(i) \/ StoreEnvelope(i) \/ RefreshFails(i) \/ Crash(i)
  BY Zenon DEF InstanceStep
<1>0. NoRefresh \in Refresh
  BY DEF NoRefresh, Refresh, Versions
<1>1. CASE Revalidate(i)
  BY <1>1 DEF TypeOK, Revalidate, Refresh, Versions, batch, redis, reads, counts
<1>2. CASE StoreEnvelope(i)
  <2>1. value' \in Value
    BY <1>2 DEF TypeOK, StoreEnvelope, Refresh, Computed, Value
  <2> QED
    BY <1>0, <1>2, <2>1 DEF TypeOK, StoreEnvelope, batch, reads, counts
<1>3. CASE RefreshFails(i)
  BY <1>0, <1>3 DEF TypeOK, RefreshFails, Fault, batch, redis, reads
<1>4. CASE Crash(i)
  BY <1>0, <1>4 DEF TypeOK, Crash, Fault, batch, redis, Versions
<1> QED
  BY Zenon, <1>1, <1>2, <1>3, <1>4

LEMMA TypeShared ==
  ASSUME TypeOK, LostBound, SharedStep
  PROVE  TypeOK'
<1> USE CacheBounds
<1>1. CASE RewriteGold
  BY <1>1 DEF TypeOK, RewriteGold, Versions, redis, reads, counts
<1>2. CASE \E k \in Keys : Evict(k)
  <2> PICK k \in Keys : Evict(k)
    BY <1>2
  <2>1. lost' \in 0..(MaxFaults + MaxCommits)
    BY DEF TypeOK, LostBound, Evict, Versions
  <2> QED
    BY <2>1 DEF TypeOK, Evict, Versions, reads
<1>3. CASE EvictionFails
  BY <1>3 DEF TypeOK, EvictionFails, Fault, redis, reads
<1>4. CASE SoftExpire
  BY <1>4 DEF TypeOK, SoftExpire, Value, batch, reads, counts
<1>5. CASE Expire
  BY <1>5 DEF TypeOK, Expire, batch, reads, counts
<1>6. CASE LockExpires
  BY <1>6 DEF TypeOK, LostBound, LockExpires, Fault, Versions, batch, reads
<1> QED
  BY Zenon, <1>1, <1>2, <1>3, <1>4, <1>5, <1>6 DEF SharedStep

LEMMA SumGrows ==
  ASSUME NEW l \in Nat, NEW g \in Nat, NEW n \in Nat, NEW a \in Nat, NEW b \in Nat,
         a <= b, l <= a + g - n
  PROVE  l <= b + g - n
OBVIOUS

\* A step that leaves the batch and the locks lost alone keeps the bound.
LEMMA BoundRead ==
  ASSUME TypeOK, LostBound, ReadStep \/ InstanceStep
  PROVE  LostBound'
<1>1. batch' = batch /\ lost' = lost /\ faults' \in {faults, faults + 1}
  BY DEF ReadStep, InstanceStep, Advance, Break, ReadEnvelope, Get, JoinOrLead, TryLock,
     PollForValue, GiveUp, Compute, Store, ReleaseCheck, ReleaseDel, Settle, ComputeDirectly,
     CommandFails, ReplyLost, ComputeFails, Revalidate, StoreEnvelope, RefreshFails, Crash,
     Fault, counts
<1>2. gold' = gold /\ todo' = todo
  BY <1>1 DEF batch
<1>3. faults \in Nat /\ lost \in Nat /\ gold \in Nat
  BY CacheBounds DEF TypeOK, Versions
<1>4. faults' \in Nat /\ faults <= faults'
  BY <1>1, <1>3
<1>5. PICK n \in {0, 1} : n = IF "lock" \in todo THEN 1 ELSE 0
  OBVIOUS
<1>6. lost <= faults + gold - n
  BY <1>5 DEF LostBound
<1>7. lost' <= faults' + gold' - n
  <2>1. n \in Nat /\ lost' = lost /\ gold' = gold
    BY <1>1, <1>2
  <2> QED
    BY <2>1, <1>3, <1>4, <1>6, SumGrows
<1>8. n = IF "lock" \in todo' THEN 1 ELSE 0
  BY <1>2, <1>5
<1> QED
  BY <1>7, <1>8, Zenon DEF LostBound

LEMMA BoundShared ==
  ASSUME TypeOK, LostBound, SharedStep
  PROVE  LostBound'
BY CacheBounds DEF SharedStep, TypeOK, LostBound, RewriteGold, Evict, EvictionFails, SoftExpire,
   Expire, LockExpires, Fault, Versions, batch, counts

-----------------------------------------------------------------------------
(* The rebuild lock.                                                        *)

LEMMA HeldFinite ==
  ASSUME IsFiniteSet(held), Next
  PROVE  IsFiniteSet(held')
<1>1. held' \subseteq held \/ \E r \in Reads : held' = held \cup {r}
  BY NextIsOneOf DEF ReadStep, InstanceStep, SharedStep, Advance, Break, ReadEnvelope, Get,
     JoinOrLead, TryLock, PollForValue, GiveUp, Compute, Store, ReleaseCheck, ReleaseDel, Settle,
     ComputeDirectly, CommandFails, ReplyLost, ComputeFails, Revalidate, StoreEnvelope,
     RefreshFails, Crash, RewriteGold, Evict, EvictionFails, SoftExpire, Expire, LockExpires, reads
<1> QED
  BY <1>1, FS_Subset, FS_AddElement

\* The release is reached by the reads that acquired the lock, and they keep
\* it in mind until they settle.
LEMMA PlacesNext ==
  ASSUME TypeOK, HeldPlaces, Next
  PROVE  HeldPlaces'
<1>1. CASE ReadStep
  <2> PICK r \in Reads : Advance(r) \/ Break(r)
    BY <1>1, Zenon DEF ReadStep
  <2>1. CASE ReadEnvelope(r) \/ Get(r) \/ JoinOrLead(r) \/ TryLock(r) \/ PollForValue(r) \/ GiveUp(r)
    BY <2>1 DEF TypeOK, HeldPlaces, ReadEnvelope, Get, Asking, JoinOrLead, TryLock, PollForValue,
       GiveUp, Goto
  <2>2. CASE Compute(r) \/ Store(r) \/ ReleaseCheck(r) \/ ReleaseDel(r) \/ ComputeDirectly(r)
    BY <2>2 DEF TypeOK, HeldPlaces, Compute, Store, ReleaseCheck, ReleaseDel, ComputeDirectly,
       AfterCompute, Goto
  <2>3. CASE Settle(r)
    BY <2>3 DEF TypeOK, HeldPlaces, Settle
  <2>4. CASE CommandFails(r) \/ ReplyLost(r)
    BY <2>4 DEF TypeOK, HeldPlaces, CommandFails, ReplyLost, Onward, Asking, AfterCompute, Goto
  <2>5. CASE ComputeFails(r)
    BY <2>5 DEF TypeOK, HeldPlaces, ComputeFails, AfterCompute, Goto
  <2> QED
    BY Zenon, <2>1, <2>2, <2>3, <2>4, <2>5 DEF Advance, Break
<1>2. CASE InstanceStep
  <2> PICK i \in Instances : Revalidate(i) \/ StoreEnvelope(i) \/ RefreshFails(i) \/ Crash(i)
    BY <1>2, Zenon DEF InstanceStep
  <2>1. CASE Revalidate(i) \/ StoreEnvelope(i) \/ RefreshFails(i)
    BY <2>1 DEF HeldPlaces, Revalidate, StoreEnvelope, RefreshFails, reads
  <2>2. CASE Crash(i)
    BY <2>2 DEF TypeOK, HeldPlaces, Crash
  <2> QED
    BY Zenon, <2>1, <2>2
<1>3. CASE SharedStep
  BY <1>3 DEF SharedStep, HeldPlaces, RewriteGold, Evict, EvictionFails, SoftExpire, Expire,
     LockExpires, reads
<1> QED
  BY NextIsOneOf, <1>1, <1>2, <1>3

\* What adding one element does to the size of a set.
LEMMA OneMore ==
  ASSUME NEW S, NEW x, IsFiniteSet(S), NEW T, T \subseteq S \cup {x}
  PROVE  /\ IsFiniteSet(T)
         /\ Cardinality(T) \in Nat /\ Cardinality(S) \in Nat
         /\ Cardinality(T) <= Cardinality(S) + 1
<1>1. Cardinality(S) \in Nat
  BY FS_CardinalityType
<1>2. IsFiniteSet(S \cup {x}) /\ Cardinality(S \cup {x}) <= Cardinality(S) + 1
  <2>1. /\ IsFiniteSet(S \cup {x})
        /\ Cardinality(S \cup {x}) = IF x \in S THEN Cardinality(S) ELSE Cardinality(S) + 1
    BY FS_AddElement
  <2> QED
    BY <1>1, <2>1
<1>3. IsFiniteSet(T) /\ Cardinality(T) <= Cardinality(S \cup {x})
  BY <1>2, FS_Subset
<1>4. Cardinality(T) \in Nat /\ Cardinality(S \cup {x}) \in Nat
  BY <1>2, <1>3, FS_CardinalityType
<1> QED
  BY <1>1, <1>2, <1>3, <1>4

\* Counting the strays: none is added, or one lock more is lost.
LEMMA StraysShrink ==
  ASSUME TypeOK, IsFiniteSet(held), Strays, lost' = lost,
         (Holders \ {lock})' \subseteq Holders \ {lock}
  PROVE  Strays'
<1>1. IsFiniteSet(Holders \ {lock})
  BY FS_Subset DEF Holders
<1>2. Cardinality((Holders \ {lock})') <= Cardinality(Holders \ {lock})
  BY <1>1, FS_Subset
<1>3. Cardinality((Holders \ {lock})') \in Nat /\ Cardinality(Holders \ {lock}) \in Nat
  BY <1>1, FS_Subset, FS_CardinalityType
<1> QED
  BY <1>2, <1>3, CacheBounds DEF Strays, TypeOK

LEMMA StraysGrow ==
  ASSUME TypeOK, IsFiniteSet(held), Strays, lost' = lost + 1,
         (Holders \ {lock})' \subseteq (Holders \ {lock}) \cup {lock}
  PROVE  Strays'
<1>1. IsFiniteSet(Holders \ {lock})
  BY FS_Subset DEF Holders
<1>2. /\ Cardinality((Holders \ {lock})') \in Nat /\ Cardinality(Holders \ {lock}) \in Nat
      /\ Cardinality((Holders \ {lock})') <= Cardinality(Holders \ {lock}) + 1
  BY <1>1, OneMore
<1> QED
  BY <1>2, CacheBounds DEF Strays, TypeOK

\* The lock a read deletes may be of another, who becomes a stray: the read
\* was itself one until then.
LEMMA StraysRelease ==
  ASSUME TypeOK, IsFiniteSet(held), HeldPlaces, Strays, 
         NEW r \in Reads, pc[r] = "del", Goto(r, "settle"),
         held' = held, lost' = lost, lock' = None
  PROVE  Strays'
<1>1. r \in Holders
  BY DEF HeldPlaces, Holders
<1>2. Holders' = Holders \ {r}
  BY DEF TypeOK, Holders, Goto
<1>3. None \notin Holders
  BY CacheBounds DEF TypeOK, Holders
<1>4. (Holders \ {lock})' = Holders \ {r}
  BY <1>2, <1>3
<1>5. IsFiniteSet(Holders) /\ Cardinality(Holders) \in Nat
  BY FS_Subset, FS_CardinalityType DEF Holders
<1>6. Cardinality(Holders \ {r}) = Cardinality(Holders) - 1
  BY <1>1, <1>5, FS_RemoveElement
<1>7. Cardinality(Holders \ {lock}) >= Cardinality(Holders) - 1
  <2>1. Cardinality(Holders \ {lock})
          = IF lock \in Holders THEN Cardinality(Holders) - 1 ELSE Cardinality(Holders)
    BY <1>5, FS_RemoveElement
  <2> QED
    BY <1>5, <2>1
<1>8. Cardinality(Holders \ {lock}) \in Nat
  BY <1>5, FS_Subset, FS_CardinalityType
<1>9. Cardinality(Holders \ {r}) <= lost
  BY <1>5, <1>6, <1>7, <1>8, CacheBounds DEF TypeOK, Strays
<1> QED
  BY <1>2, <1>4, <1>9 DEF Strays

LEMMA StraysNext ==
  ASSUME TypeOK, IsFiniteSet(held), HeldPlaces, Strays, Next
  PROVE  Strays'
<1>1. CASE ReadStep
  <2> PICK r \in Reads : Advance(r) \/ Break(r)
    BY <1>1, Zenon DEF ReadStep
  <2>4. CASE ReleaseDel(r) \/ (ReplyLost(r) /\ pc[r] = "del")
    <3>1. /\ pc[r] = "del" /\ Goto(r, "settle")
          /\ held' = held /\ lost' = lost /\ lock' = None
      BY <2>4 DEF ReleaseDel, ReplyLost, Onward, Asking, counts
    <3> QED
      BY <3>1, StraysRelease
  <2> SUFFICES ASSUME ~ReleaseDel(r), ~(ReplyLost(r) /\ pc[r] = "del")
               PROVE  lost' = lost /\ (Holders \ {lock})' \subseteq Holders \ {lock}
    BY <2>4, StraysShrink
  <2>1. CASE ReadEnvelope(r) \/ Get(r) \/ JoinOrLead(r) \/ PollForValue(r) \/ GiveUp(r)
    BY <2>1 DEF TypeOK, HeldPlaces, Holders, ReadEnvelope, Get, Asking, JoinOrLead, PollForValue,
       GiveUp, Goto, redis, counts
  <2>2. CASE TryLock(r)
    BY <2>2, CacheBounds DEF TypeOK, HeldPlaces, Holders, TryLock, Goto, counts
  <2>3. CASE Compute(r) \/ Store(r) \/ ReleaseCheck(r) \/ ComputeDirectly(r)
    BY <2>3 DEF TypeOK, HeldPlaces, Holders, Compute, Store, ReleaseCheck, ComputeDirectly,
       AfterCompute, Goto, redis, counts
  <2>5. CASE Settle(r)
    BY <2>5 DEF TypeOK, HeldPlaces, Holders, Settle, redis, counts
  <2>6. CASE CommandFails(r)
    BY <2>6 DEF TypeOK, HeldPlaces, Holders, CommandFails, Onward, Asking, AfterCompute, Goto, redis
  <2>7. CASE ReplyLost(r)
    <3>1. held' = held /\ lost' = lost /\ pc[r] \in {"lock", "store", "del"}
      BY <2>7 DEF ReplyLost
    <3>2. CASE pc[r] = "lock"
      <4>1. r \notin held /\ lock = None /\ lock' = r
        BY <2>7, <3>2 DEF HeldPlaces, ReplyLost
      <4>2. \A q \in held : pc'[q] = pc[q]
        BY <2>7, <3>2, <4>1 DEF TypeOK, ReplyLost, Onward, Asking, Goto
      <4> QED
        BY <3>1, <4>1, <4>2, CacheBounds DEF TypeOK, Holders
    <3>3. CASE pc[r] = "store"
      <4>1. lock' = lock /\ pc' = [pc EXCEPT ![r] = AfterCompute(r)]
        BY <2>7, <3>3 DEF ReplyLost, Onward, Asking, Goto
      <4> QED
        BY <3>1, <3>3, <4>1 DEF TypeOK, Holders
    <3> QED
      BY <2>7, <3>1, <3>2, <3>3
  <2>8. CASE ComputeFails(r)
    BY <2>8 DEF TypeOK, HeldPlaces, Holders, ComputeFails, AfterCompute, Goto, redis
  <2> QED
    BY Zenon, <2>1, <2>2, <2>3, <2>4, <2>5, <2>6, <2>7, <2>8 DEF Advance, Break
<1>2. CASE InstanceStep
  <2> PICK i \in Instances : Revalidate(i) \/ StoreEnvelope(i) \/ RefreshFails(i) \/ Crash(i)
    BY <1>2, Zenon DEF InstanceStep
  <2> SUFFICES lost' = lost /\ (Holders \ {lock})' \subseteq Holders \ {lock}
    BY StraysShrink
  <2>1. CASE Revalidate(i) \/ StoreEnvelope(i) \/ RefreshFails(i)
    BY <2>1 DEF Holders, Revalidate, StoreEnvelope, RefreshFails, reads, redis, counts
  <2>2. CASE Crash(i)
    BY <2>2 DEF TypeOK, Holders, Crash, redis
  <2> QED
    BY Zenon, <2>1, <2>2
<1>3. CASE RewriteGold \/ EvictionFails \/ SoftExpire \/ Expire
  <2>1. lost' = lost /\ (Holders \ {lock})' \subseteq Holders \ {lock}
    BY <1>3 DEF Holders, RewriteGold, EvictionFails, SoftExpire, Expire, redis, reads, counts
  <2> QED
    BY <2>1, StraysShrink
<1>4. CASE LockExpires \/ \E k \in Keys : Evict(k)
  <2>1. Holders' = Holders
    BY <1>4 DEF Holders, LockExpires, Evict, reads
  <2>2. CASE lost' = lost
    <3>1. lock' = lock \/ (lock' = None /\ lock \notin held)
      BY <1>4, <2>2, CacheBounds DEF TypeOK, LockExpires, Evict, InUse
    <3>2. (Holders \ {lock})' \subseteq Holders \ {lock}
      BY <2>1, <3>1 DEF Holders
    <3> QED
      BY <2>2, <3>2, StraysShrink
  <2>3. CASE lost' = lost + 1
    BY <2>1, <2>3, StraysGrow
  <2> QED
    BY <1>4, <2>2, <2>3, CacheBounds DEF TypeOK, LockExpires, Evict, counts
<1> QED
  BY Zenon, NextIsOneOf, <1>1, <1>2, <1>3, <1>4 DEF SharedStep

-----------------------------------------------------------------------------
(* The cached value.                                                        *)

\* Whatever a read or a refresh stores is marked late unless Gold is still
\* what it computed from.
LEMMA StoresComputed ==
  ASSUME TypeOK, ReadStep \/ InstanceStep
  PROVE  batch' = batch /\ (value' = value \/ \E v \in Versions : value' = Computed(v))
<1>1. gold \in Nat /\ 0..gold \subseteq Versions
  BY CacheBounds DEF TypeOK, Versions
<1>2. CASE ReadStep
  <2> PICK r \in Reads : Advance(r) \/ Break(r)
    BY <1>2, Zenon DEF ReadStep
  <2>1. got[r] \in Versions
    BY <1>1 DEF TypeOK
  <2>2. CASE Store(r) \/ ReplyLost(r)
    BY <2>1, <2>2 DEF Store, ReplyLost
  <2>3. CASE ~(Store(r) \/ ReplyLost(r))
    BY <2>3 DEF Advance, Break, ReadEnvelope, Get, JoinOrLead, TryLock, PollForValue, GiveUp,
       Compute, ReleaseCheck, ReleaseDel, Settle, ComputeDirectly, CommandFails, ComputeFails, redis
  <2> QED
    BY <2>2, <2>3
<1>3. CASE InstanceStep
  <2> PICK i \in Instances : Revalidate(i) \/ StoreEnvelope(i) \/ RefreshFails(i) \/ Crash(i)
    BY <1>3, Zenon DEF InstanceStep
  <2>1. bg[i].ver \in Versions
    BY DEF TypeOK, Refresh
  <2> QED
    BY <2>1 DEF Revalidate, StoreEnvelope, RefreshFails, Crash, redis
<1> QED
  BY <1>2, <1>3

LEMMA StoredNext ==
  ASSUME TypeOK, StoredInTime, Next
  PROVE  StoredInTime'
<1>1. CASE ReadStep \/ InstanceStep
  <2>1. batch' = batch /\ (value' = value \/ \E v \in Versions : value' = Computed(v))
    BY <1>1, StoresComputed
  <2>2. gold' = gold /\ todo' = todo /\ swept' = swept
    BY <2>1 DEF batch
  <2>3. CASE value' = value
    BY <2>2, <2>3 DEF StoredInTime
  <2>4. CASE \E v \in Versions : value' = Computed(v)
    <3>1. PICK v \in Versions : value' = Computed(v)
      BY <2>4
    <3>2. value'.ver = v /\ value'.late = (v < gold)
      BY <3>1 DEF Computed
    <3>3. gold \in Nat /\ swept \in Nat /\ swept <= gold /\ v \in Nat
      BY CacheBounds DEF TypeOK, Versions
    <3>4. CASE v < gold
      BY <3>2, <3>4 DEF StoredInTime
    <3>5. CASE v >= gold
      BY <2>2, <3>2, <3>3, <3>5 DEF StoredInTime
    <3> QED
      BY <3>3, <3>4, <3>5
  <2> QED
    BY <2>1, <2>3, <2>4
<1>2. CASE RewriteGold
  BY <1>2 DEF StoredInTime, RewriteGold, redis
<1>3. CASE \E k \in Keys : Evict(k)
  <2> PICK k \in Keys : Evict(k)
    BY <1>3
  <2>1. CASE k = "value"
    BY <2>1 DEF StoredInTime, Evict
  <2>2. CASE k = "lock"
    BY <2>2 DEF TypeOK, StoredInTime, Evict
  <2> QED
    BY <2>1, <2>2
<1>4. CASE EvictionFails
  BY <1>4 DEF StoredInTime, EvictionFails, redis
<1>5. CASE SoftExpire
  BY <1>5 DEF TypeOK, Value, StoredInTime, SoftExpire, batch
<1>6. CASE Expire \/ LockExpires
  BY <1>6 DEF StoredInTime, Expire, LockExpires, batch
<1> QED
  BY Zenon, NextIsOneOf, <1>1, <1>2, <1>3, <1>4, <1>5, <1>6 DEF SharedStep

-----------------------------------------------------------------------------
(* Reads that fail.                                                         *)

\* What made a read fail is remembered.
LEMMA ThrewGrows ==
  ASSUME Next
  PROVE  swr' = swr /\ threw \subseteq threw'
BY NextIsOneOf DEF ReadStep, InstanceStep, SharedStep, Advance, Break, ReadEnvelope, Get,
   JoinOrLead, TryLock, PollForValue, GiveUp, Compute, Store, ReleaseCheck, ReleaseDel, Settle,
   ComputeDirectly, CommandFails, ReplyLost, ComputeFails, Revalidate, StoreEnvelope,
   RefreshFails, Crash, RewriteGold, Evict, EvictionFails, SoftExpire, Expire, LockExpires, reads

LEMMA FailNext ==
  ASSUME TypeOK, CacheNeverFailsRead, Next
  PROVE  CacheNeverFailsRead'
<1> SUFFICES ASSUME NEW q \in Reads, pc'[q] = "failed", pc[q] # "failed"
             PROVE  \/ q \in threw'
                    \/ swr /\ \E o \in threw' : InstanceOf[o] = InstanceOf[q]
  BY ThrewGrows DEF CacheNeverFailsRead
<1>1. CASE ReadStep
  <2> PICK r \in Reads : Advance(r) \/ Break(r)
    BY <1>1, Zenon DEF ReadStep
  <2>1. CASE Advance(r) /\ ~Settle(r)
    BY <2>1 DEF TypeOK, Advance, ReadEnvelope, Get, JoinOrLead, TryLock, PollForValue, GiveUp,
       Compute, Store, ReleaseCheck, ReleaseDel, ComputeDirectly, AfterCompute, Goto
  <2>2. CASE Settle(r)
    BY <2>2 DEF TypeOK, Settle
  <2>3. CASE CommandFails(r) \/ ReplyLost(r)
    BY <2>3 DEF TypeOK, CommandFails, ReplyLost, Onward, AfterCompute, Goto
  <2>4. CASE ComputeFails(r)
    BY <2>4 DEF TypeOK, ComputeFails, AfterCompute, Goto
  <2> QED
    BY Zenon, <2>1, <2>2, <2>3, <2>4 DEF Break
<1>2. CASE InstanceStep
  BY <1>2 DEF TypeOK, InstanceStep, Revalidate, StoreEnvelope, RefreshFails, Crash, reads
<1>3. CASE SharedStep
  BY <1>3 DEF SharedStep, RewriteGold, Evict, EvictionFails, SoftExpire, Expire, LockExpires, reads
<1> QED
  BY NextIsOneOf, <1>1, <1>2, <1>3

-----------------------------------------------------------------------------
(* The invariant, and what follows from it.                                 *)

\* Every reachable state of the cache satisfies the inductive invariant.
THEOREM ServingInvariant == Spec => []Inv
<1>1. Inv /\ [Next]_vars => Inv'
  <2> SUFFICES ASSUME Inv, [Next]_vars PROVE Inv'
    OBVIOUS
  <2>1. CASE Next
    <3> USE <2>1
    <3>1. TypeOK'
      BY NextIsOneOf, TypeRead, TypeInstance, TypeShared DEF Inv
    <3>2. LostBound'
      BY NextIsOneOf, BoundRead, BoundShared DEF Inv
    <3>3. IsFiniteSet(held)'
      BY HeldFinite DEF Inv
    <3>4. HeldPlaces' /\ Strays'
      BY PlacesNext, StraysNext DEF Inv
    <3>5. StoredInTime' /\ CacheNeverFailsRead'
      BY StoredNext, FailNext DEF Inv
    <3> QED
      BY <3>1, <3>2, <3>3, <3>4, <3>5 DEF Inv
  <2>2. CASE UNCHANGED vars
    BY <2>2 DEF Inv, vars, batch, redis, reads, counts, TypeOK, LostBound, HeldPlaces, Strays,
       Holders, StoredInTime, CacheNeverFailsRead
  <2> QED
    BY <2>1, <2>2
<1> QED
  BY InitInv, <1>1, PTL DEF Spec

\* The variables keep their types; at most as many locks are lost in use as
\* there were faults and rewrites of Gold (the lock's TTL, and the brand-wide
\* pattern of ServingCacheEvictor.evictBrand, which covers the lock key).
THEOREM ServingTypeOK == Spec => []TypeOK
<1>1. Inv => TypeOK
  BY DEF Inv
<1> QED
  BY ServingInvariant, <1>1, PTL

\* What is older than the last completed eviction was stored late: only a
\* compute that spanned the rewrite of Gold leaves a stale value behind
\* (ServingCacheEvictor.evictBrand after the commit).
THEOREM ServingStaleWasStoredLate == Spec => []StaleWasStoredLate
<1>1. Inv => StaleWasStoredLate
  BY CacheBounds DEF Inv, TypeOK, StoredInTime, StaleWasStoredLate, Value, Versions
<1> QED
  BY ServingInvariant, <1>1, PTL

\* Each lock lost in use costs at most one more compute under the lock at a
\* time, however the checks and the deletes of releaseLock interleave.
THEOREM ServingLostLockCostsOne == Spec => []LostLockCostsOne
<1>1. Inv => LostLockCostsOne
  <2> SUFFICES ASSUME Inv PROVE Cardinality(Computing) <= 1 + lost
    BY DEF LostLockCostsOne
  <2>1. IsFiniteSet(Holders \ {lock})
    BY FS_Subset DEF Inv, Holders
  <2>2. Computing \subseteq (Holders \ {lock}) \cup {lock}
    BY DEF Computing, Holders
  <2>3. /\ Cardinality(Computing) \in Nat /\ Cardinality(Holders \ {lock}) \in Nat
        /\ Cardinality(Computing) <= Cardinality(Holders \ {lock}) + 1
    BY <2>1, <2>2, OneMore
  <2> QED
    BY <2>3, CacheBounds DEF Inv, TypeOK, Strays
<1> QED
  BY ServingInvariant, <1>1, PTL

\* No error of Redis, of the lock or of the eviction makes a read fail: its own
\* query threw, its process died, or it shared the promise of one of these
\* (the fail-soft catches of ServingCacheReader).
THEOREM ServingNeverFailsRead == Spec => []CacheNeverFailsRead
<1>1. Inv => CacheNeverFailsRead
  BY DEF Inv
<1> QED
  BY ServingInvariant, <1>1, PTL
=============================================================================
