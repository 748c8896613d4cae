---------------------------- MODULE PixelProofs ----------------------------
(***************************************************************************)
(* The safety properties of the pixel queue, for every number of tabs of    *)
(* each program, every capacity, every backoff and any number of events,    *)
(* flushes and faults.                                                      *)
(***************************************************************************)
EXTENDS PixelTabs, FiniteSetTheorems, WellFoundedInduction, TLAPS

-----------------------------------------------------------------------------
(* The k-th position of a set of positions.                                 *)

LEMMA LeastNatural ==
  ASSUME NEW T, T \subseteq Nat, T # {}
  PROVE  \E x \in T : \A y \in T : x <= y
<1> DEFINE R == {ss \in Nat \X Nat : ss[1] < ss[2]}
<1>1. IsWellFoundedOn(R, Nat)
  BY NatLessThanWellFounded, Zenon DEF OpToRel
<1> HIDE DEF R
<1>2. PICK x \in T : \A y \in T : ~ (<<y, x>> \in R)
  BY <1>1, WFMin, Zenon
<1>3. \A y \in T : y < x => <<y, x>> \in R
  BY <1>2 DEF R
<1>4. \A y \in T : ~ (y < x) => x <= y
  BY <1>2
<1> QED
  BY <1>2, <1>3, <1>4

\* A set of positions up to n is finite, and its ranks count it up.
LEMMA RankSteps ==
  ASSUME NEW n \in Nat, NEW P, P \subseteq 1..n
  PROVE  /\ IsFiniteSet(P) /\ Cardinality(P) \in Nat
         /\ Rank(P, 0) = 0 /\ Rank(P, n) = Cardinality(P)
         /\ \A k \in 0..n : Rank(P, k) \in Nat
         /\ \A k \in 1..n : Rank(P, k) = Rank(P, k - 1) + (IF k \in P THEN 1 ELSE 0)
<1>1. IsFiniteSet(1..n)
  <2>1. 1 \in Int /\ n \in Int
    OBVIOUS
  <2> QED
    BY <2>1, FS_Interval
<1>2. IsFiniteSet(P) /\ Cardinality(P) \in Nat
  BY <1>1, FS_Subset, FS_CardinalityType
<1>3. \A k : IsFiniteSet({j \in P : j <= k}) /\ Cardinality({j \in P : j <= k}) \in Nat
  <2> TAKE k
  <2>1. {j \in P : j <= k} \in SUBSET P
    OBVIOUS
  <2> QED
    BY <1>2, <2>1, FS_Subset, FS_CardinalityType
<1>4. Rank(P, 0) = 0
  <2>1. \A j \in P : ~ (j <= 0)
    OBVIOUS
  <2>2. {j \in P : j <= 0} = {}
    BY <2>1
  <2> QED
    BY <2>2, FS_EmptySet DEF Rank
<1>5. Rank(P, n) = Cardinality(P)
  <2>1. \A j \in P : j <= n
    OBVIOUS
  <2>2. {j \in P : j <= n} = P
    BY <2>1
  <2> QED
    BY <2>2 DEF Rank
<1>6. ASSUME NEW k \in 1..n
      PROVE  Rank(P, k) = Rank(P, k - 1) + (IF k \in P THEN 1 ELSE 0)
  <2> DEFINE A == {j \in P : j <= k - 1}
             B == {j \in P : j <= k}
  <2>0. \A j \in P : j <= k <=> (j <= k - 1 \/ j = k)
    OBVIOUS
  <2>1. k \notin A
    OBVIOUS
  <2>2. IsFiniteSet(A) /\ Cardinality(A) \in Nat
    BY <1>3
  <2>3. Rank(P, k) = Cardinality(B) /\ Rank(P, k - 1) = Cardinality(A)
    BY DEF Rank
  <2>4. CASE k \in P
    <3>1. B = A \cup {k}
      BY <2>0, <2>4
    <3> HIDE DEF A, B
    <3>2. Cardinality(B) = Cardinality(A) + 1
      BY <2>1, <2>2, <3>1, FS_AddElement
    <3> QED
      BY <2>3, <2>4, <3>2
  <2>5. CASE k \notin P
    <3>1. B = A
      BY <2>0, <2>5
    <3> HIDE DEF A, B
    <3> QED
      BY <2>2, <2>3, <2>5, <3>1
  <2> QED
    BY <2>4, <2>5
<1>7. \A k \in 0..n : Rank(P, k) \in Nat
  BY <1>3 DEF Rank
<1> QED
  BY <1>2, <1>4, <1>5, <1>6, <1>7

LEMMA RankGrows ==
  ASSUME NEW n \in Nat, NEW P, P \subseteq 1..n, NEW j \in 0..n, NEW k \in 0..n, j <= k
  PROVE  /\ Rank(P, j) <= Rank(P, k)
         /\ j < k /\ k \in P => Rank(P, j) < Rank(P, k)
<1>0. IsFiniteSet(P) /\ \A i \in 0..n : Rank(P, i) \in Nat
  BY RankSteps, Zenon
<1>1. IsFiniteSet({i \in P : i <= k}) /\ IsFiniteSet({i \in P : i <= j})
  BY <1>0, FS_Subset
<1>2. Rank(P, j) \in Nat /\ Rank(P, k) \in Nat
  BY <1>0
<1>3. {i \in P : i <= j} \in SUBSET {i \in P : i <= k}
  <2>1. \A i \in P : i <= j => i <= k
    OBVIOUS
  <2> QED
    BY <2>1
<1>4. Rank(P, j) <= Rank(P, k)
  BY <1>1, <1>3, FS_Subset DEF Rank
<1>5. ASSUME j < k, k \in P PROVE Rank(P, j) # Rank(P, k)
  <2>1. k \in {i \in P : i <= k} /\ k \notin {i \in P : i <= j}
    BY <1>5
  <2> QED
    BY <1>1, <1>3, <2>1, FS_Subset DEF Rank
<1> QED
  BY <1>2, <1>4, <1>5

LEMMA RankOrder ==
  ASSUME NEW n \in Nat, NEW P, P \subseteq 1..n
  PROVE  \A j, k \in 0..n :
           /\ j <= k => Rank(P, j) <= Rank(P, k)
           /\ j < k /\ k \in P => Rank(P, j) < Rank(P, k)
<1> TAKE j, k \in 0..n
<1>1. CASE j <= k
  BY <1>1, RankGrows
<1>2. CASE ~ (j <= k)
  BY <1>2
<1> QED
  BY <1>1, <1>2

LEMMA RankHit ==
  ASSUME NEW n \in Nat, NEW P, P \subseteq 1..n, NEW i \in 1..Cardinality(P)
  PROVE  \E k \in P : Rank(P, k) = i
<1>0. /\ Cardinality(P) \in Nat /\ Rank(P, 0) = 0 /\ Rank(P, n) = Cardinality(P)
      /\ \A k \in 0..n : Rank(P, k) \in Nat
      /\ \A k \in 1..n : Rank(P, k) = Rank(P, k - 1) + (IF k \in P THEN 1 ELSE 0)
  BY RankSteps, Zenon
<1> DEFINE K == {k \in 0..n : Rank(P, k) >= i}
<1>1. n \in K
  BY <1>0
<1>2. PICK k \in K : \A j \in K : k <= j
  <2>1. K \subseteq Nat /\ K # {}
    BY <1>1
  <2> HIDE DEF K
  <2> QED
    BY <2>1, LeastNatural
<1>3. k # 0
  BY <1>0
<1>4. k \in 1..n /\ k - 1 \in 0..n /\ k - 1 \notin K
  BY <1>2, <1>3
<1>5. Rank(P, k - 1) < i /\ Rank(P, k) >= i /\ Rank(P, k - 1) \in Nat /\ Rank(P, k) \in Nat
  BY <1>0, <1>2, <1>4
<1>6. Rank(P, k) = Rank(P, k - 1) + (IF k \in P THEN 1 ELSE 0)
  BY <1>0, <1>4
<1>7. k \in P /\ Rank(P, k) = i
  BY <1>0, <1>5, <1>6
<1> QED
  BY <1>7

-----------------------------------------------------------------------------
(* The eviction rule (writeQ, evictToCap).                                  *)

\* Events wait in the order they were emitted.
Increasing(s) == \A i, j \in DOMAIN s : i < j => s[i] < s[j]

LEMMA MadeSeq ==
  ASSUME NEW S, NEW n \in Nat, NEW f, f = [i \in 1..n |-> f[i]], \A i \in 1..n : f[i] \in S
  PROVE  f \in Seq(S) /\ Len(f) = n /\ DOMAIN f = 1..n
OBVIOUS

\* s lists the entries of q at the positions P, in their order.
Lists(s, q, P) ==
  /\ Len(s) = Cardinality(P) /\ Cardinality(P) \in Nat
  /\ \A i \in 1..Cardinality(P) : \E k \in P : Rank(P, k) = i /\ s[i] = q[k]
  /\ \A k \in P : Rank(P, k) \in 1..Cardinality(P) /\ s[Rank(P, k)] = q[k]

LEMMA EntriesAre ==
  ASSUME NEW S, NEW q \in Seq(S), NEW P, P \subseteq 1..Len(q)
  PROVE  Entries(q, P) \in Seq(S) /\ Lists(Entries(q, P), q, P)
<1> DEFINE n == Len(q)
           c == Cardinality(P)
           s == Entries(q, P)
<1>0. n \in Nat /\ P \subseteq 1..n
  OBVIOUS
<1>1. /\ c \in Nat /\ Rank(P, 0) = 0 /\ Rank(P, n) = c
      /\ \A k \in 0..n : Rank(P, k) \in Nat
  BY <1>0, RankSteps, Zenon
<1>2. \A i \in 1..c : \E k \in P : Rank(P, k) = i
  BY <1>0, RankHit, Zenon
<1>8. \A j, k \in 0..n :
        /\ j <= k => Rank(P, j) <= Rank(P, k)
        /\ j < k /\ k \in P => Rank(P, j) < Rank(P, k)
  BY <1>0, RankOrder, Zenon
<1>3. s = [i \in 1..c |-> q[CHOOSE k \in P : Rank(P, k) = i]]
  BY DEF Entries
<1>4. ASSUME NEW i \in 1..c PROVE \E k \in P : Rank(P, k) = i /\ s[i] = q[k]
  <2>1. s[i] = q[CHOOSE k \in P : Rank(P, k) = i]
    BY <1>3
  <2> QED
    BY <1>2, <2>1
<1>5. \A k \in P : q[k] \in S
  BY <1>0
<1>6. s \in Seq(S) /\ Len(s) = c
  <2>1. \A i \in 1..c : s[i] \in S
    BY <1>4, <1>5
  <2>2. s = [i \in 1..c |-> s[i]]
    BY <1>3
  <2> HIDE DEF s, c
  <2> QED
    BY <1>1, <2>1, <2>2, MadeSeq
<1>7. ASSUME NEW k \in P PROVE Rank(P, k) \in 1..c /\ s[Rank(P, k)] = q[k]
  <2>0. k \in 0..n /\ 0 \in 0..n /\ n \in 0..n /\ 0 < k /\ 0 <= k /\ k <= n
    BY <1>0
  <2>1. Rank(P, 0) < Rank(P, k) /\ Rank(P, k) <= Rank(P, n)
    BY <1>8, <2>0
  <2>2. Rank(P, k) \in 1..c
    BY <1>1, <2>0, <2>1
  <2>3. PICK j \in P : Rank(P, j) = Rank(P, k) /\ s[Rank(P, k)] = q[j]
    BY <1>4, <2>2
  <2>4. j \in 0..n
    BY <1>0
  <2>5. j = k
    <3>0. Rank(P, j) \in Nat /\ Rank(P, k) \in Nat
      BY <1>1, <2>0, <2>4
    <3>1. ~ (j < k)
      BY <1>8, <2>0, <2>3, <2>4, <3>0
    <3>2. ~ (k < j)
      BY <1>8, <2>0, <2>3, <2>4, <3>0
    <3> QED
      BY <2>0, <2>4, <3>1, <3>2
  <2> QED
    BY <2>2, <2>3, <2>5
<1> QED
  BY <1>1, <1>4, <1>6, <1>7 DEF Lists

LEMMA EntriesIncreasing ==
  ASSUME NEW q \in Seq(Nat), NEW P, P \subseteq 1..Len(q), Increasing(q)
  PROVE  Increasing(Entries(q, P))
<1> DEFINE s == Entries(q, P)
           c == Cardinality(P)
<1>0. s \in Seq(Nat) /\ Lists(s, q, P)
  BY EntriesAre
<1> HIDE DEF s
<1>1. /\ s \in Seq(Nat) /\ Len(s) = c /\ c \in Nat
      /\ \A i \in 1..c : \E k \in P : Rank(P, k) = i /\ s[i] = q[k]
  BY <1>0 DEF Lists
<1>2. DOMAIN s = 1..c
  BY <1>1
<1> SUFFICES ASSUME NEW i \in 1..c, NEW j \in 1..c, i < j PROVE s[i] < s[j]
  BY <1>2 DEF Increasing, s
<1>3. PICK k \in P : Rank(P, k) = i /\ s[i] = q[k]
  BY <1>1
<1>4. PICK m \in P : Rank(P, m) = j /\ s[j] = q[m]
  BY <1>1
<1>5. ~ (m <= k)
  <2>0. Len(q) \in Nat /\ m \in 0..Len(q) /\ k \in 0..Len(q)
    OBVIOUS
  <2> SUFFICES ASSUME m <= k PROVE FALSE
    OBVIOUS
  <2>1. Rank(P, m) <= Rank(P, k)
    BY <2>0, RankGrows
  <2> QED
    BY <1>1, <1>3, <1>4, <2>1
<1>6. k \in DOMAIN q /\ m \in DOMAIN q /\ k < m
  BY <1>5
<1> QED
  BY <1>3, <1>4, <1>6 DEF Increasing

\* The first n positions of a set: n of them, or all.
LEMMA FirstRanked ==
  ASSUME NEW m \in Nat, NEW N, N \subseteq 1..m, NEW n \in Nat,
         NEW D, \A k : k \in D <=> k \in N /\ Rank(N, k) <= n
  PROVE  /\ Cardinality(D) \in Nat /\ Cardinality(D) <= n
         /\ D = N \/ Cardinality(D) = n
<1>1. /\ IsFiniteSet(N) /\ Cardinality(N) \in Nat
      /\ Rank(N, 0) = 0 /\ Rank(N, m) = Cardinality(N)
      /\ \A k \in 0..m : Rank(N, k) \in Nat
  BY RankSteps, Zenon
<1>2. \A j, k \in 0..m :
        /\ j <= k => Rank(N, j) <= Rank(N, k)
        /\ j < k /\ k \in N => Rank(N, j) < Rank(N, k)
  BY RankOrder, Zenon
<1>3. \A k \in N : Rank(N, k) \in Nat /\ Rank(N, k) <= Cardinality(N) /\ Rank(N, k) > 0
  <2> TAKE k \in N
  <2>1. k \in 0..m /\ m \in 0..m /\ 0 \in 0..m /\ k <= m /\ 0 < k
    OBVIOUS
  <2> QED
    BY <1>1, <1>2, <2>1
<1>4. CASE Cardinality(N) <= n
  <2>1. \A k \in N : Rank(N, k) <= n
    BY <1>1, <1>3, <1>4
  <2>2. D = N
    BY <2>1, Zenon
  <2> QED
    BY <1>1, <1>4, <2>2
<1>5. CASE n = 0
  <2>1. \A k \in N : ~ (Rank(N, k) <= n)
    BY <1>3, <1>5
  <2>2. D = {}
    BY <2>1, Zenon
  <2>3. Cardinality(D) = 0
    BY <2>2, FS_EmptySet
  <2> QED
    BY <1>5, <2>3
<1>6. CASE 0 < n /\ n < Cardinality(N)
  <2>1. n \in 1..Cardinality(N)
    BY <1>1, <1>6
  <2>2. PICK k \in N : Rank(N, k) = n
    BY <2>1, RankHit, Zenon
  <2>3. ASSUME NEW j \in N PROVE Rank(N, j) <= n <=> j <= k
    <3>1. j \in 0..m /\ k \in 0..m /\ Rank(N, j) \in Nat
      BY <1>3
    <3>2. j <= k => Rank(N, j) <= n
      BY <1>2, <2>2, <3>1
    <3>3. k < j => n < Rank(N, j)
      BY <1>2, <2>2, <3>1
    <3> QED
      BY <3>1, <3>2, <3>3
  <2>4. D = {j \in N : j <= k}
    <3>1. \A j : j \in D <=> j \in {i \in N : i <= k}
      BY <2>3
    <3> QED
      BY <3>1, Zenon
  <2>5. Cardinality(D) = n
    BY <2>2, <2>4, Zenon DEF Rank
  <2> QED
    BY <2>5
<1> QED
  BY <1>1, <1>4, <1>5, <1>6

\* At most n events make room, and n unless all that are not critical do.
Noise(q, l) == {k \in DOMAIN q : ~l[q[k]].critical}
LEMMA NoiseCount ==
  ASSUME NEW S, NEW q \in Seq(S), NEW l, NEW n \in Nat
  PROVE  /\ OldestNoise(q, l, n) \subseteq Noise(q, l) /\ Noise(q, l) \subseteq 1..Len(q)
         /\ Cardinality(OldestNoise(q, l, n)) \in Nat
         /\ Cardinality(OldestNoise(q, l, n)) <= n
         /\ OldestNoise(q, l, n) = Noise(q, l) \/ Cardinality(OldestNoise(q, l, n)) = n
<1>1. Len(q) \in Nat /\ Noise(q, l) \subseteq 1..Len(q)
  BY DEF Noise
<1>2. \A k : k \in OldestNoise(q, l, n) <=> k \in Noise(q, l) /\ Rank(Noise(q, l), k) <= n
  BY DEF OldestNoise, Noise
<1>3. /\ Cardinality(OldestNoise(q, l, n)) \in Nat
      /\ Cardinality(OldestNoise(q, l, n)) <= n
      /\ OldestNoise(q, l, n) = Noise(q, l) \/ Cardinality(OldestNoise(q, l, n)) = n
  BY <1>1, <1>2, FirstRanked, Zenon
<1>4. OldestNoise(q, l, n) \subseteq Noise(q, l)
  BY <1>2
<1> QED
  BY <1>1, <1>3, <1>4

LEMMA SetOf ==
  ASSUME NEW S, NEW q \in Seq(S)
  PROVE  /\ \A e : e \in ToSet(q) <=> \E k \in 1..Len(q) : e = q[k]
         /\ ToSet(q) \subseteq S
<1>1. DOMAIN q = 1..Len(q) /\ \A k \in 1..Len(q) : q[k] \in S
  OBVIOUS
<1> QED
  BY <1>1 DEF ToSet

\* s is the last n entries of q.
Ends(s, q, n) ==
  /\ Len(s) = n
  /\ \A i \in 1..n : Len(q) - n + i \in 1..Len(q) /\ s[i] = q[Len(q) - n + i]

LEMMA LastOnes ==
  ASSUME NEW S, NEW q \in Seq(S), NEW n \in Nat, n <= Len(q)
  PROVE  /\ SubSeq(q, Len(q) - n + 1, Len(q)) \in Seq(S)
         /\ Ends(SubSeq(q, Len(q) - n + 1, Len(q)), q, n)
<1> DEFINE s == SubSeq(q, Len(q) - n + 1, Len(q))
<1>1. Len(q) \in Nat
  OBVIOUS
<1>2. \A i \in (Len(q) - n + 1)..Len(q) : q[i] \in S
  BY <1>1
<1>3. s = [i \in 1..n |-> q[i + (Len(q) - n + 1) - 1]]
  BY <1>1
<1>4. \A i \in 1..n : i + (Len(q) - n + 1) - 1 = Len(q) - n + i /\ Len(q) - n + i \in 1..Len(q)
  BY <1>1
<1>5. \A i \in 1..n : s[i] = q[Len(q) - n + i] /\ s[i] \in S
  BY <1>1, <1>3, <1>4
<1>6. s \in Seq(S) /\ Len(s) = n
  <2>1. s = [i \in 1..n |-> s[i]]
    BY <1>3
  <2> HIDE DEF s
  <2> QED
    BY <1>5, <2>1, MadeSeq
<1> QED
  BY <1>4, <1>5, <1>6 DEF Ends

\* What a write keeps: as much as fits, in order; a critical event goes only if
\* all that stays is critical, and an event that goes is older than what stays,
\* unless it is noise and what stays is critical.
Keeps(w, q, l) ==
  /\ Len(w) = IF Len(q) <= MaxQueue THEN Len(q) ELSE MaxQueue
  /\ Len(q) <= MaxQueue => w = q
  /\ ToSet(w) \subseteq ToSet(q)
  /\ Increasing(q) => Increasing(w)
  /\ \A e \in ToSet(q) \ ToSet(w) :
       l[e].critical => \A d \in ToSet(w) : l[d].critical
  /\ Increasing(q) => \A e \in ToSet(q) \ ToSet(w), d \in ToSet(w) :
                        e < d \/ (~l[e].critical /\ l[d].critical)

LEMMA EvictKeeps ==
  ASSUME Bounds, NEW N \in Nat, NEW q \in Seq(1..N), NEW l
  PROVE  EvictToCap(q, l) \in Seq(1..N) /\ Keeps(EvictToCap(q, l), q, l)
<1> DEFINE n == Len(q)
           w == EvictToCap(q, l)
           over == n - MaxQueue
           D == OldestNoise(q, l, over)
           P == DOMAIN q \ D
           kept == Entries(q, P)
<1>0. n \in Nat /\ MaxQueue \in Nat \ {0} /\ DOMAIN q = 1..n /\ over \in Int
  BY DEF Bounds
<1>1. w = IF over <= 0 THEN q
          ELSE IF Len(kept) <= MaxQueue THEN kept
          ELSE SubSeq(kept, Len(kept) - MaxQueue + 1, Len(kept))
  BY DEF EvictToCap
<1> HIDE DEF w
<1>2. CASE Len(q) <= MaxQueue
  <2> SUFFICES w \in Seq(1..N) /\ Keeps(w, q, l)
    BY DEF w
  <2>1. w = q
    BY <1>0, <1>1, <1>2
  <2>2. w \in Seq(1..N) /\ Len(w) = Len(q) /\ ToSet(w) = ToSet(q)
    BY <2>1
  <2> HIDE DEF D, P, kept, over, n
  <2> QED
    BY <1>2, <2>1, <2>2, Zenon DEF Keeps
<1>3. CASE ~ (Len(q) <= MaxQueue)
  <2> SUFFICES w \in Seq(1..N) /\ Keeps(w, q, l)
    BY DEF w
  <2>0. over \in Nat /\ over > 0 /\ over + MaxQueue = n
    BY <1>0, <1>3
  <2>1. /\ D \subseteq Noise(q, l) /\ Noise(q, l) \subseteq 1..n
        /\ Cardinality(D) \in Nat /\ Cardinality(D) <= over
        /\ D = Noise(q, l) \/ Cardinality(D) = over
    BY <2>0, NoiseCount, Zenon
  <2>15. \A k : k \in D <=> k \in Noise(q, l) /\ Rank(Noise(q, l), k) <= over
    BY DEF OldestNoise, Noise
  <2>2. P \subseteq 1..n /\ D \subseteq 1..n
    BY <1>0, <2>1
  <2>3. Cardinality(P) \in Nat /\ Cardinality(P) + Cardinality(D) = n
    <3>1. IsFiniteSet(1..n) /\ Cardinality(1..n) = n
      <4>1. 1 \in Int /\ n \in Int
        BY <1>0
      <4>2. IsFiniteSet(1..n) /\ Cardinality(1..n) = IF 1 > n THEN 0 ELSE n - 1 + 1
        BY <4>1, FS_Interval, Zenon
      <4> HIDE DEF n
      <4> QED
        BY <1>0, <4>2
    <3> HIDE DEF n, D
    <3>2. (1..n) \cap D = D
      BY <2>2
    <3>3. Cardinality((1..n) \ D) = n - Cardinality(D) /\ IsFiniteSet((1..n) \ D)
      BY <3>1, <3>2, FS_Difference
    <3>4. Cardinality((1..n) \ D) \in Nat
      BY <3>3, FS_CardinalityType
    <3> QED
      BY <1>0, <2>1, <3>3, <3>4
  <2>4. /\ kept \in Seq(1..N) /\ Len(kept) = Cardinality(P)
        /\ \A i \in 1..Cardinality(P) : \E k \in P : Rank(P, k) = i /\ kept[i] = q[k]
        /\ \A k \in P : Rank(P, k) \in 1..Cardinality(P) /\ kept[Rank(P, k)] = q[k]
    <3>1. P \subseteq 1..Len(q)
      BY <2>2
    <3> HIDE DEF D, P, n
    <3>2. kept \in Seq(1..N) /\ Lists(kept, q, P)
      BY <3>1, EntriesAre, Zenon
    <3> HIDE DEF kept
    <3> QED
      BY <3>2 DEF Lists
  <2>5. Increasing(q) => Increasing(kept)
    <3>1. q \in Seq(Nat)
      <4>1. \A i \in 1..n : q[i] \in Nat
        BY <1>0
      <4> QED
        BY <1>0, <4>1
    <3> HIDE DEF D
    <3> QED
      BY <2>2, <3>1, EntriesIncreasing, Zenon
  <2>6. Len(kept) >= MaxQueue
    BY <1>0, <2>0, <2>1, <2>3, <2>4
  <2> HIDE DEF over, D, P, kept, n
  <2>7. w = SubSeq(kept, Len(kept) - MaxQueue + 1, Len(kept))
    <3>1. CASE Len(kept) <= MaxQueue
      <4>1. w = kept /\ Len(kept) = MaxQueue
        BY <1>0, <1>1, <2>0, <2>3, <2>4, <2>6, <3>1
      <4>2. Len(kept) - MaxQueue + 1 = 1
        BY <1>0, <4>1
      <4>3. SubSeq(kept, 1, Len(kept)) = kept
        BY <2>4
      <4> QED
        BY <4>1, <4>2, <4>3
    <3>2. CASE ~ (Len(kept) <= MaxQueue)
      <4>1. ~ (over <= 0)
        BY <2>0
      <4> QED
        BY <1>1, <3>2, <4>1, Zenon
    <3> QED
      BY <3>1, <3>2
  <2>8. /\ w \in Seq(1..N) /\ Len(w) = MaxQueue
        /\ \A i \in 1..MaxQueue : /\ Len(kept) - MaxQueue + i \in 1..Len(kept)
                                  /\ w[i] = kept[Len(kept) - MaxQueue + i]
    <3>1. MaxQueue \in Nat /\ MaxQueue <= Len(kept)
      BY <1>0, <2>3, <2>4, <2>6
    <3>2. kept \in Seq(1..N)
      BY <2>4
    <3>3. w \in Seq(1..N) /\ Ends(w, kept, MaxQueue)
      BY <2>7, <3>1, <3>2, LastOnes, Zenon
    <3> QED
      BY <3>3 DEF Ends
  <2>9. DOMAIN w = 1..MaxQueue /\ DOMAIN kept = 1..Len(kept)
    BY <2>4, <2>8
  <2>10. ASSUME Increasing(kept) PROVE Increasing(w)
    <3> SUFFICES ASSUME NEW i \in 1..MaxQueue, NEW j \in 1..MaxQueue, i < j
                 PROVE  w[i] < w[j]
      BY <2>9 DEF Increasing
    <3>1. Len(kept) - MaxQueue + i < Len(kept) - MaxQueue + j
      BY <1>0, <2>3, <2>4
    <3>2. /\ Len(kept) - MaxQueue + i \in 1..Len(kept) /\ w[i] = kept[Len(kept) - MaxQueue + i]
          /\ Len(kept) - MaxQueue + j \in 1..Len(kept) /\ w[j] = kept[Len(kept) - MaxQueue + j]
      BY <2>8
    <3> QED
      BY <2>9, <2>10, <3>1, <3>2 DEF Increasing
  <2>14. \A i \in 1..MaxQueue : \E k \in P : w[i] = q[k]
    <3> TAKE i \in 1..MaxQueue
    <3>1. PICK j \in 1..Cardinality(P) : w[i] = kept[j]
      BY <2>4, <2>8
    <3> QED
      BY <2>4, <3>1
  <2>11. \A d \in ToSet(w) : \E k \in P : d = q[k]
    BY <2>9, <2>14, Zenon DEF ToSet
  <2>12. ToSet(w) \subseteq ToSet(q)
    BY <1>0, <2>2, <2>11 DEF ToSet
  <2>13. ASSUME NEW e \in ToSet(q) \ ToSet(w), l[e].critical, NEW d \in ToSet(w)
         PROVE  l[d].critical
    <3>1. PICK k \in 1..n : e = q[k]
      BY <1>0, <2>13 DEF ToSet
    <3>2. k \notin Noise(q, l)
      BY <2>13, <3>1 DEF Noise
    <3>3. k \in P
      BY <1>0, <2>1, <3>2 DEF P
    <3>4. \E i \in 1..Len(kept) : kept[i] = e
      BY <2>4, <3>1, <3>3
    <3>5. D = Noise(q, l)
      <4> SUFFICES ASSUME Cardinality(D) = over PROVE FALSE
        BY <2>1
      <4>1. Len(kept) = MaxQueue
        BY <1>0, <2>0, <2>3, <2>4
      <4>2. e \in ToSet(w)
        <5>1. PICK i \in 1..MaxQueue : kept[i] = e
          BY <3>4, <4>1
        <5>2. Len(kept) - MaxQueue + i = i
          BY <1>0, <4>1
        <5>3. w[i] = e
          BY <2>8, <5>1, <5>2
        <5> QED
          BY <2>9, <5>3 DEF ToSet
      <4> QED
        BY <2>13, <4>2
    <3>6. PICK j \in P : d = q[j]
      BY <2>11
    <3>7. j \in DOMAIN q /\ j \notin Noise(q, l)
      BY <3>5, <3>6 DEF P
    <3> QED
      BY <3>6, <3>7 DEF Noise
  <2>16. ASSUME Increasing(q), NEW e \in ToSet(q) \ ToSet(w), NEW d \in ToSet(w),
                ~ (~l[e].critical /\ l[d].critical)
         PROVE  e < d
    <3> DEFINE cut == Len(kept) - MaxQueue
    <3>0. cut \in Nat /\ Len(kept) \in Nat /\ n \in Nat
      BY <1>0, <2>3, <2>4, <2>6
    <3>1. PICK k \in 1..n : e = q[k]
      BY <1>0, <2>16 DEF ToSet
    <3>2. CASE k \in P
      <4>1. PICK r \in 1..Len(kept) : kept[r] = e
        BY <2>4, <3>1, <3>2
      <4>2. PICK i \in 1..MaxQueue : d = w[i]
        BY <2>9, <2>16 DEF ToSet
      <4>3. cut + i \in 1..Len(kept) /\ d = kept[cut + i]
        BY <2>8, <4>2
      <4>4. r <= cut
        <5>1. ASSUME cut < r PROVE FALSE
          <6>1. r - cut \in 1..MaxQueue /\ cut + (r - cut) = r
            BY <1>0, <3>0, <4>1, <5>1
          <6>2. w[r - cut] = kept[r]
            BY <2>8, <6>1
          <6>3. e \in ToSet(w)
            BY <2>9, <4>1, <6>1, <6>2 DEF ToSet
          <6> QED
            BY <2>16, <6>3
        <5> QED
          BY <3>0, <4>1, <5>1
      <4>5. r < cut + i
        BY <3>0, <4>2, <4>4
      <4> HIDE DEF cut
      <4> QED
        BY <2>5, <2>9, <2>16, <4>1, <4>3, <4>5 DEF Increasing
    <3>3. CASE k \notin P
      <4>1. k \in D
        BY <1>0, <3>1, <3>3 DEF P
      <4>2. k \in Noise(q, l) /\ Rank(Noise(q, l), k) <= over
        BY <2>15, <4>1
      <4>3. PICK j \in P : d = q[j]
        BY <2>11
      <4>4. j \in DOMAIN q /\ j \notin D
        BY <4>3 DEF P
      <4>5. ~l[d].critical
        BY <2>16, <3>1, <4>2 DEF Noise
      <4>6. j \in Noise(q, l)
        BY <4>3, <4>4, <4>5 DEF Noise
      <4>7. ~ (Rank(Noise(q, l), j) <= over)
        BY <2>15, <4>4, <4>6
      <4>8. j \in 1..n /\ j \in 0..n /\ k \in 0..n
        BY <1>0, <3>0, <3>1, <4>4
      <4>9. j <= k => Rank(Noise(q, l), j) <= Rank(Noise(q, l), k)
        BY <2>1, <3>0, <4>8, RankOrder
      <4>10. Rank(Noise(q, l), j) \in Nat /\ Rank(Noise(q, l), k) \in Nat
        <5> DEFINE M == Noise(q, l)
        <5>1. n \in Nat /\ M \subseteq 1..n
          BY <2>1, <3>0
        <5> HIDE DEF M, cut
        <5>2. \A i \in 0..n : Rank(M, i) \in Nat
          BY <5>1, RankSteps, Zenon
        <5>3. Rank(M, j) \in Nat /\ Rank(M, k) \in Nat
          BY <4>8, <5>2
        <5> QED
          BY <5>3 DEF M
      <4>11. k < j
        <5>1. ~ (j <= k)
          BY <2>0, <4>2, <4>7, <4>9, <4>10
        <5> QED
          BY <4>8, <5>1
      <4> QED
        BY <1>0, <2>16, <3>1, <4>3, <4>8, <4>11 DEF Increasing
    <3> QED
      BY <3>2, <3>3
  <2>17. Increasing(q) => \A e \in ToSet(q) \ ToSet(w), d \in ToSet(w) :
                            e < d \/ (~l[e].critical /\ l[d].critical)
    BY <2>16
  <2> QED
    BY <1>3, <2>5, <2>8, <2>10, <2>12, <2>13, <2>17 DEF Keeps
<1> QED
  BY <1>2, <1>3 DEF w

-----------------------------------------------------------------------------
(* Queues and the copies of them that flushes hold.                         *)

LEMMA SeqGrows ==
  ASSUME NEW A, NEW B, A \subseteq B
  PROVE  Seq(A) \subseteq Seq(B)
<1> SUFFICES ASSUME NEW s \in Seq(A) PROVE s \in Seq(B)
  OBVIOUS
<1>1. Len(s) \in Nat /\ s = [i \in 1..Len(s) |-> s[i]] /\ \A i \in 1..Len(s) : s[i] \in A
  OBVIOUS
<1> QED
  BY <1>1, MadeSeq

LEMMA EmptyLen ==
  ASSUME NEW S, NEW s \in Seq(S)
  PROVE  s = <<>> <=> Len(s) = 0
OBVIOUS

LEMMA TailOf ==
  ASSUME NEW N \in Nat, NEW q \in Seq(1..N), q # <<>>
  PROVE  /\ Head(q) \in 1..N /\ Tail(q) \in Seq(1..N) /\ Len(Tail(q)) = Len(q) - 1
         /\ Len(q) >= 1 /\ (Tail(q) = <<>> <=> Len(q) = 1)
         /\ \A e : e \in ToSet(q) <=> e = Head(q) \/ e \in ToSet(Tail(q))
         /\ Increasing(q) => /\ Increasing(Tail(q))
                             /\ \A d \in ToSet(Tail(q)) : Head(q) < d
<1>1. Len(q) \in Nat /\ Len(q) >= 1 /\ DOMAIN q = 1..Len(q)
  OBVIOUS
<1>2. /\ Head(q) = q[1] /\ Head(q) \in 1..N /\ Tail(q) \in Seq(1..N) /\ Len(Tail(q)) = Len(q) - 1
      /\ DOMAIN Tail(q) = 1..(Len(q) - 1)
      /\ \A i \in 1..(Len(q) - 1) : Tail(q)[i] = q[i + 1]
  OBVIOUS
<1>3. ASSUME NEW e PROVE e \in ToSet(q) <=> e = Head(q) \/ e \in ToSet(Tail(q))
  <2>1. ASSUME NEW i \in 1..Len(q) PROVE q[i] = Head(q) \/ q[i] \in ToSet(Tail(q))
    <3>1. CASE i = 1
      BY <1>2, <3>1
    <3>2. CASE i # 1
      <4>1. i - 1 \in 1..(Len(q) - 1) /\ Tail(q)[i - 1] = q[i]
        BY <1>1, <1>2, <3>2
      <4> QED
        BY <1>2, <4>1 DEF ToSet
    <3> QED
      BY <3>1, <3>2
  <2>2. ASSUME NEW i \in 1..(Len(q) - 1) PROVE Tail(q)[i] \in ToSet(q)
    <3>1. i + 1 \in 1..Len(q)
      BY <1>1
    <3> QED
      BY <1>1, <1>2, <3>1 DEF ToSet
  <2>3. Head(q) \in ToSet(q)
    BY <1>1, <1>2 DEF ToSet
  <2>4. e \in ToSet(q) => \E i \in 1..Len(q) : e = q[i]
    BY <1>1 DEF ToSet
  <2>5. e \in ToSet(Tail(q)) => \E i \in 1..(Len(q) - 1) : e = Tail(q)[i]
    BY <1>2 DEF ToSet
  <2> QED
    BY <2>1, <2>2, <2>3, <2>4, <2>5
<1>4. ASSUME Increasing(q)
      PROVE  Increasing(Tail(q)) /\ \A d \in ToSet(Tail(q)) : Head(q) < d
  <2>1. \A i, j \in 1..Len(q) : i < j => q[i] < q[j]
    BY <1>1, <1>4 DEF Increasing
  <2>2. \A i \in 1..(Len(q) - 1) : 1 \in 1..Len(q) /\ i + 1 \in 1..Len(q) /\ 1 < i + 1
    BY <1>1
  <2>3. \A i \in 1..(Len(q) - 1) : Head(q) < Tail(q)[i]
    BY <1>2, <2>1, <2>2
  <2>4. ASSUME NEW i \in 1..(Len(q) - 1), NEW j \in 1..(Len(q) - 1), i < j
        PROVE  Tail(q)[i] < Tail(q)[j]
    <3>1. i + 1 < j + 1
      BY <2>4
    <3> QED
      BY <1>2, <2>1, <2>2, <3>1
  <2> QED
    BY <1>2, <2>3, <2>4 DEF Increasing, ToSet
<1>5. Tail(q) = <<>> <=> Len(q) = 1
  <2> DEFINE n == Len(q)
             w == Tail(q)
  <2>1. w \in Seq(1..N) /\ Len(w) = n - 1 /\ n \in Nat
    BY <1>1, <1>2
  <2> HIDE DEF n, w
  <2>2. w = <<>> <=> Len(w) = 0
    BY <2>1, EmptyLen, Zenon
  <2>3. w = <<>> <=> n = 1
    BY <2>1, <2>2
  <2> QED
    BY <2>3 DEF n, w
<1> QED
  BY <1>1, <1>2, <1>3, <1>4, <1>5

\* New events are numbered past all others and wait behind them.
LEMMA Joins ==
  ASSUME NEW S, NEW a \in Seq(S), NEW b \in Seq(S)
  PROVE  /\ a \o b \in Seq(S) /\ Len(a \o b) = Len(a) + Len(b)
         /\ DOMAIN (a \o b) = 1..(Len(a) + Len(b))
         /\ \A i \in 1..Len(a) : (a \o b)[i] = a[i]
         /\ \A i \in 1..Len(b) : (a \o b)[Len(a) + i] = b[i]
<1>1. a \o b \in Seq(S) /\ Len(a \o b) = Len(a) + Len(b) /\ DOMAIN (a \o b) = 1..(Len(a) + Len(b))
  OBVIOUS
<1>2. \A i \in 1..Len(a) : (a \o b)[i] = a[i]
  OBVIOUS
<1>3. \A i \in 1..Len(b) : (a \o b)[Len(a) + i] = b[i]
  OBVIOUS
<1> QED
  BY <1>1, <1>2, <1>3

LEMMA Behind ==
  ASSUME NEW N \in Nat, NEW q \in Seq(1..N), NEW n \in Nat, NEW m,
         m = [i \in 1..n |-> m[i]], \A i \in 1..n : m[i] = N + i
  PROVE  /\ q \o m \in Seq(1..(N + n)) /\ Len(q \o m) = Len(q) + n
         /\ \A e : e \in ToSet(q \o m) <=> e \in ToSet(q) \/ e \in (N + 1)..(N + n)
         /\ Increasing(q) => Increasing(q \o m)
<1>1. /\ Len(q) \in Nat /\ DOMAIN q = 1..Len(q) /\ \A i \in 1..Len(q) : q[i] \in 1..N
      /\ \A i \in 1..n : m[i] = N + i /\ m[i] \in 1..(N + n)
  OBVIOUS
<1>2. m \in Seq(1..(N + n)) /\ Len(m) = n
  <2>1. \A i \in 1..n : m[i] \in 1..(N + n)
    BY <1>1
  <2>2. m = [i \in 1..n |-> m[i]]
    OBVIOUS
  <2> DEFINE S == 1..(N + n)
  <2>3. \A i \in 1..n : m[i] \in S
    BY <2>1
  <2> HIDE DEF S
  <2>4. m \in Seq(S) /\ Len(m) = n
    BY <2>2, <2>3, MadeSeq
  <2> QED
    BY <2>4 DEF S
<1>3. q \in Seq(1..(N + n))
  <2>1. 1..N \subseteq 1..(N + n)
    OBVIOUS
  <2> QED
    BY <2>1, SeqGrows
<1>4. /\ q \o m \in Seq(1..(N + n)) /\ Len(q \o m) = Len(q) + n
      /\ DOMAIN (q \o m) = 1..(Len(q) + n)
      /\ \A i \in 1..Len(q) : (q \o m)[i] = q[i]
      /\ \A i \in 1..n : (q \o m)[Len(q) + i] = N + i
  <2>1. /\ q \o m \in Seq(1..(N + n)) /\ Len(q \o m) = Len(q) + Len(m)
        /\ DOMAIN (q \o m) = 1..(Len(q) + Len(m))
        /\ \A i \in 1..Len(q) : (q \o m)[i] = q[i]
        /\ \A i \in 1..Len(m) : (q \o m)[Len(q) + i] = m[i]
    <3> DEFINE S == 1..(N + n)
    <3>1. m \in Seq(S) /\ q \in Seq(S)
      BY <1>2, <1>3
    <3> HIDE DEF S
    <3>2. /\ q \o m \in Seq(S) /\ Len(q \o m) = Len(q) + Len(m)
          /\ DOMAIN (q \o m) = 1..(Len(q) + Len(m))
          /\ \A i \in 1..Len(q) : (q \o m)[i] = q[i]
          /\ \A i \in 1..Len(m) : (q \o m)[Len(q) + i] = m[i]
      BY <3>1, Joins
    <3> QED
      BY <3>2 DEF S
  <2> DEFINE s == q \o m
  <2>2. /\ s \in Seq(1..(N + n)) /\ Len(s) = Len(q) + n /\ DOMAIN s = 1..(Len(q) + n)
        /\ \A i \in 1..Len(q) : s[i] = q[i]
        /\ \A i \in 1..n : s[Len(q) + i] = m[i]
    BY <1>2, <2>1, Zenon
  <2> HIDE DEF s
  <2>3. \A i \in 1..n : s[Len(q) + i] = N + i
    BY <1>1, <2>2
  <2> QED
    BY <2>2, <2>3, Zenon DEF s
<1> DEFINE s == q \o m
<1> HIDE DEF s
<1>5. /\ s = q \o m /\ Len(s) = Len(q) + n /\ DOMAIN s = 1..(Len(q) + n)
      /\ \A i \in 1..Len(q) : s[i] = q[i]
      /\ \A i \in 1..n : s[Len(q) + i] = N + i
  BY <1>4, Zenon DEF s
<1>6. ASSUME NEW i \in 1..(Len(q) + n)
      PROVE  \/ i \in 1..Len(q) /\ s[i] = q[i] /\ s[i] \in 1..N
             \/ i - Len(q) \in 1..n /\ s[i] = N + (i - Len(q))
  <2>1. CASE i <= Len(q)
    BY <1>1, <1>5, <2>1
  <2>2. CASE ~ (i <= Len(q))
    <3>1. i - Len(q) \in 1..n /\ Len(q) + (i - Len(q)) = i
      BY <1>1, <2>2
    <3> QED
      BY <1>5, <3>1
  <2> QED
    BY <2>1, <2>2
<1>7. ASSUME NEW e PROVE e \in ToSet(s) <=> e \in ToSet(q) \/ e \in (N + 1)..(N + n)
  <2>1. ASSUME e \in ToSet(s) PROVE e \in ToSet(q) \/ e \in (N + 1)..(N + n)
    <3>1. PICK i \in 1..(Len(q) + n) : e = s[i]
      BY <1>5, <2>1 DEF ToSet
    <3>2. CASE i \in 1..Len(q) /\ s[i] = q[i]
      BY <1>1, <3>1, <3>2 DEF ToSet
    <3>3. CASE i - Len(q) \in 1..n /\ s[i] = N + (i - Len(q))
      BY <1>1, <3>1, <3>3
    <3> QED
      BY <1>6, <3>2, <3>3
  <2>2. ASSUME e \in ToSet(q) PROVE e \in ToSet(s)
    <3>1. PICK i \in 1..Len(q) : e = q[i]
      BY <1>1, <2>2 DEF ToSet
    <3>2. i \in DOMAIN s /\ s[i] = e
      BY <1>1, <1>5, <3>1
    <3> QED
      BY <3>2 DEF ToSet
  <2>3. ASSUME e \in (N + 1)..(N + n) PROVE e \in ToSet(s)
    <3>1. e - N \in 1..n /\ N + (e - N) = e
      BY <2>3
    <3>2. Len(q) + (e - N) \in DOMAIN s /\ s[Len(q) + (e - N)] = e
      BY <1>1, <1>5, <3>1
    <3> QED
      BY <3>2 DEF ToSet
  <2> QED
    BY <2>1, <2>2, <2>3
<1>8. ASSUME Increasing(q) PROVE Increasing(s)
  <2> SUFFICES ASSUME NEW i \in 1..(Len(q) + n), NEW j \in 1..(Len(q) + n), i < j
               PROVE  s[i] < s[j]
    BY <1>5 DEF Increasing
  <2>1. CASE i \in 1..Len(q) /\ j \in 1..Len(q)
    BY <1>1, <1>5, <1>8, <2>1 DEF Increasing
  <2>2. CASE ~ (i \in 1..Len(q) /\ j \in 1..Len(q))
    BY <1>1, <1>6, <2>2
  <2> QED
    BY <2>1, <2>2
<1> QED
  BY <1>4, <1>5, <1>7, <1>8

LEMMA Appended ==
  ASSUME NEW S, NEW q \in Seq(S), NEW e \in S
  PROVE  /\ Append(q, e) \in Seq(S) /\ Len(Append(q, e)) = Len(q) + 1
         /\ DOMAIN Append(q, e) = 1..(Len(q) + 1) /\ DOMAIN q = 1..Len(q) /\ Len(q) \in Nat
         /\ \A i \in 1..Len(q) : Append(q, e)[i] = q[i]
         /\ Append(q, e)[Len(q) + 1] = e
OBVIOUS

LEMMA Removed ==
  ASSUME NEW S, NEW q \in Seq(S), NEW i \in DOMAIN q
  PROVE  /\ RemoveAt(q, i) \in Seq(S) /\ Len(RemoveAt(q, i)) = Len(q) - 1
         /\ DOMAIN RemoveAt(q, i) = 1..(Len(q) - 1) /\ DOMAIN q = 1..Len(q) /\ Len(q) \in Nat
         /\ \A j \in 1..(Len(q) - 1) : RemoveAt(q, i)[j] = IF j < i THEN q[j] ELSE q[j + 1]
<1>1. Len(q) \in Nat /\ DOMAIN q = 1..Len(q) /\ i \in 1..Len(q)
  OBVIOUS
<1> DEFINE a == SubSeq(q, 1, i - 1)
           b == SubSeq(q, i + 1, Len(q))
<1>2. a \in Seq(S) /\ Len(a) = i - 1 /\ \A j \in 1..(i - 1) : a[j] = q[j]
  <2>1. \A j \in 1..(i - 1) : q[j] \in S
    BY <1>1
  <2>2. a = [j \in 1..(i - 1) |-> q[j + 1 - 1]]
    BY <1>1
  <2>3. \A j \in 1..(i - 1) : a[j] = q[j]
    BY <1>1, <2>2
  <2>4. i - 1 \in Nat /\ a = [j \in 1..(i - 1) |-> a[j]] /\ \A j \in 1..(i - 1) : a[j] \in S
    BY <1>1, <2>1, <2>2, <2>3
  <2> HIDE DEF a
  <2> QED
    BY <2>3, <2>4, MadeSeq
<1>3. b \in Seq(S) /\ Len(b) = Len(q) - i /\ \A j \in 1..(Len(q) - i) : b[j] = q[i + j]
  <2>1. \A j \in 1..(Len(q) - i) : i + j \in 1..Len(q) /\ q[i + j] \in S /\ j + (i + 1) - 1 = i + j
    BY <1>1
  <2>2. Len(q) - (i + 1) + 1 = Len(q) - i /\ Len(q) - i \in Nat
    BY <1>1
  <2>3. b = [j \in 1..(Len(q) - i) |-> q[j + (i + 1) - 1]]
    BY <1>1, <2>2
  <2>4. \A j \in 1..(Len(q) - i) : b[j] = q[i + j] /\ b[j] \in S
    BY <2>1, <2>3
  <2>5. b = [j \in 1..(Len(q) - i) |-> b[j]]
    BY <2>3
  <2> HIDE DEF b
  <2> QED
    BY <2>2, <2>4, <2>5, MadeSeq
<1>4. RemoveAt(q, i) = a \o b
  BY DEF RemoveAt
<1> HIDE DEF a, b
<1> DEFINE r == a \o b
<1>5. r \in Seq(S) /\ Len(r) = Len(q) - 1 /\ DOMAIN r = 1..(Len(q) - 1)
  <2>1. r \in Seq(S) /\ Len(r) = Len(a) + Len(b)
    <3>1. a \in Seq(S) /\ b \in Seq(S)
      BY <1>2, <1>3
    <3>2. a \o b \in Seq(S)
      BY <3>1
    <3>3. Len(a \o b) = Len(a) + Len(b)
      BY <3>1
    <3> QED
      BY <3>2, <3>3
  <2>2. Len(a) + Len(b) = Len(q) - 1
    BY <1>1, <1>2, <1>3
  <2> HIDE DEF r
  <2> QED
    BY <2>1, <2>2
<1>6. ASSUME NEW j \in 1..(Len(q) - 1) PROVE r[j] = IF j < i THEN q[j] ELSE q[j + 1]
  <2>1. CASE j < i
    <3>1. j \in 1..Len(a) /\ j \in 1..(i - 1)
      BY <1>1, <1>2, <2>1
    <3>2. r[j] = a[j]
      BY <1>2, <1>3, <3>1
    <3> QED
      BY <1>2, <2>1, <3>1, <3>2
  <2>2. CASE ~ (j < i)
    <3>1. j - (i - 1) \in 1..(Len(q) - i) /\ i + (j - (i - 1)) = j + 1
      BY <1>1, <2>2
    <3>2. r[j] = b[j - Len(a)]
      BY <1>1, <1>2, <1>3, <2>2
    <3> QED
      BY <1>2, <1>3, <2>2, <3>1, <3>2
  <2> QED
    BY <2>1, <2>2
<1> QED
  BY <1>1, <1>4, <1>5, <1>6

LEMMA BehindOne ==
  ASSUME NEW N \in Nat, NEW q \in Seq(1..N)
  PROVE  /\ Append(q, N + 1) \in Seq(1..(N + 1)) /\ Len(Append(q, N + 1)) = Len(q) + 1
         /\ \A e : e \in ToSet(Append(q, N + 1)) <=> e \in ToSet(q) \/ e = N + 1
         /\ Increasing(q) => Increasing(Append(q, N + 1))
<1> DEFINE s == Append(q, N + 1)
<1>1. q \in Seq(1..(N + 1)) /\ \A i \in 1..Len(q) : q[i] \in 1..N
  <2>1. 1..N \subseteq 1..(N + 1)
    OBVIOUS
  <2> QED
    BY <2>1, SeqGrows
<1>2. /\ s \in Seq(1..(N + 1)) /\ Len(s) = Len(q) + 1
      /\ DOMAIN s = 1..(Len(q) + 1) /\ DOMAIN q = 1..Len(q) /\ Len(q) \in Nat
      /\ \A i \in 1..Len(q) : s[i] = q[i]
      /\ s[Len(q) + 1] = N + 1
  BY <1>1, Appended
<1> HIDE DEF s
<1>3. \A i \in 1..(Len(q) + 1) : i \in 1..Len(q) \/ i = Len(q) + 1
  BY <1>2
<1>4. \A e : e \in ToSet(s) <=> e \in ToSet(q) \/ e = N + 1
  <2> TAKE e
  <2>1. e \in ToSet(s) <=> \E i \in 1..(Len(q) + 1) : e = s[i]
    BY <1>2 DEF ToSet
  <2>2. e \in ToSet(q) <=> \E i \in 1..Len(q) : e = q[i]
    BY <1>2 DEF ToSet
  <2>3. 1..Len(q) \subseteq 1..(Len(q) + 1) /\ Len(q) + 1 \in 1..(Len(q) + 1)
    BY <1>2
  <2> QED
    BY <1>2, <1>3, <2>1, <2>2, <2>3
<1>5. ASSUME Increasing(q) PROVE Increasing(s)
  <2> SUFFICES ASSUME NEW i \in 1..(Len(q) + 1), NEW j \in 1..(Len(q) + 1), i < j
               PROVE  s[i] < s[j]
    BY <1>2 DEF Increasing
  <2>1. i \in 1..Len(q) /\ s[i] \in 1..N
    BY <1>1, <1>2
  <2>2. CASE j \in 1..Len(q)
    BY <1>2, <1>5, <2>1, <2>2 DEF Increasing
  <2>3. CASE j = Len(q) + 1
    BY <1>2, <2>1, <2>3
  <2> QED
    BY <1>3, <2>2, <2>3
<1> QED
  BY <1>2, <1>4, <1>5 DEF s

\* What Joins says of the front, for queues of events.
LEMMA Joined ==
  ASSUME NEW S, NEW a \in Seq(S), NEW b \in Seq(S)
  PROVE  /\ a \o b \in Seq(S) /\ Len(a \o b) = Len(a) + Len(b)
         /\ \A i \in 1..Len(a) : (a \o b)[i] = a[i]
OBVIOUS

-----------------------------------------------------------------------------
(* What a tab remembers.                                                    *)

Memories(n) ==
  [open : BOOLEAN, flushes : Seq(Seq(1..n) \ {<<>>}),
   attempt : 0..MaxRetries, timer : BOOLEAN, dropped : Nat]

LEMMA BoundsAre ==
  ASSUME Bounds
  PROVE  /\ Served \cap Sdk = {}
         /\ MaxQueue \in Nat /\ MaxQueue >= 1 /\ MaxRetries \in Nat /\ MaxRetries >= 1
         /\ MaxEvents \in Nat /\ MaxFlushes \in Nat /\ MaxFaults \in Nat
BY DEF Bounds

LEMMA MemoriesGrow ==
  ASSUME NEW n \in Nat, NEW k \in Nat, n <= k
  PROVE  Memories(n) \subseteq Memories(k)
<1>1. Seq(1..n) \subseteq Seq(1..k)
  <2>1. 1..n \subseteq 1..k
    OBVIOUS
  <2> QED
    BY <2>1, SeqGrows
<1>2. Seq(1..n) \ {<<>>} \subseteq Seq(1..k) \ {<<>>}
  BY <1>1
<1>3. Seq(Seq(1..n) \ {<<>>}) \subseteq Seq(Seq(1..k) \ {<<>>})
  <2> DEFINE A == Seq(1..n) \ {<<>>}
             B == Seq(1..k) \ {<<>>}
  <2>1. A \subseteq B
    BY <1>2
  <2> HIDE DEF A, B
  <2>2. Seq(A) \subseteq Seq(B)
    BY <2>1, SeqGrows
  <2> QED
    BY <2>2 DEF A, B
<1> QED
  BY <1>3 DEF Memories

LEMMA FreshIs ==
  ASSUME Bounds, NEW n \in Nat
  PROVE  /\ Fresh \in Memories(n) /\ ~Fresh.open /\ Fresh.flushes = <<>>
         /\ [Fresh EXCEPT !.open = TRUE] \in Memories(n)
         /\ [Fresh EXCEPT !.open = TRUE].open
         /\ [Fresh EXCEPT !.open = TRUE].flushes = <<>>
<1>1. 0 \in 0..MaxRetries
  BY BoundsAre
<1>2. <<>> \in Seq(Seq(1..n) \ {<<>>})
  OBVIOUS
<1>3. Fresh \in Memories(n)
  BY <1>1, <1>2 DEF Fresh, Memories
<1>4. ~Fresh.open /\ Fresh.flushes = <<>>
  BY DEF Fresh
<1>5. \A m \in Memories(n) :
        /\ [m EXCEPT !.open = TRUE] \in Memories(n)
        /\ [m EXCEPT !.open = TRUE].open /\ [m EXCEPT !.open = TRUE].flushes = m.flushes
  <2> TAKE m \in Memories(n)
  <2>1. [m EXCEPT !.open = TRUE] \in Memories(n)
    BY DEF Memories
  <2>2. [m EXCEPT !.open = TRUE].open
    BY DEF Memories
  <2>3. [m EXCEPT !.open = TRUE].flushes = m.flushes
    BY DEF Memories
  <2> QED
    BY <2>1, <2>2, <2>3
<1> QED
  BY <1>3, <1>4, <1>5

LEMMA OneCopy ==
  ASSUME NEW n \in Nat, NEW q \in Seq(1..n), q # <<>>
  PROVE  << <<Head(q)>> >> \in Seq(Seq(1..n) \ {<<>>})
<1>1. Head(q) \in 1..n
  OBVIOUS
<1>2. <<Head(q)>> \in Seq(1..n) \ {<<>>}
  BY <1>1
<1> QED
  BY <1>2

\* A timer set or reset leaves the rest of the memory as it is.
LEMMA RetryMeans ==
  ASSUME Bounds, NEW n \in Nat, NEW m \in Memories(n)
  PROVE  /\ ScheduleRetry(m) \in Memories(n) /\ ScheduleRetry(m).open = m.open
         /\ ScheduleRetry(m).flushes = m.flushes
         /\ ResetRetry(m) \in Memories(n) /\ ResetRetry(m).open = m.open
         /\ ResetRetry(m).flushes = m.flushes
         /\ [m EXCEPT !.timer = FALSE] \in Memories(n)
         /\ [m EXCEPT !.timer = FALSE].open = m.open
         /\ [m EXCEPT !.timer = FALSE].flushes = m.flushes
<1>0. MaxRetries \in Nat
  BY BoundsAre
<1>1. /\ ResetRetry(m) \in Memories(n) /\ ResetRetry(m).open = m.open
      /\ ResetRetry(m).flushes = m.flushes
      /\ [m EXCEPT !.timer = FALSE] \in Memories(n)
      /\ [m EXCEPT !.timer = FALSE].open = m.open
      /\ [m EXCEPT !.timer = FALSE].flushes = m.flushes
  <2>0. 0 \in 0..MaxRetries
    BY <1>0
  <2>1. ResetRetry(m) \in Memories(n)
    BY <2>0 DEF ResetRetry, Memories
  <2>2. ResetRetry(m).open = m.open /\ ResetRetry(m).flushes = m.flushes
    BY DEF ResetRetry, Memories
  <2>3. [m EXCEPT !.timer = FALSE] \in Memories(n)
    BY DEF Memories
  <2>4. /\ [m EXCEPT !.timer = FALSE].open = m.open
        /\ [m EXCEPT !.timer = FALSE].flushes = m.flushes
    BY DEF Memories
  <2> QED
    BY <2>1, <2>2, <2>3, <2>4
<1>2. /\ ScheduleRetry(m) \in Memories(n) /\ ScheduleRetry(m).open = m.open
      /\ ScheduleRetry(m).flushes = m.flushes
  <2>1. CASE m.timer \/ m.attempt >= MaxRetries
    BY <2>1 DEF ScheduleRetry
  <2>2. CASE ~ (m.timer \/ m.attempt >= MaxRetries)
    <3>1. m.attempt + 1 \in 0..MaxRetries
      BY <1>0, <2>2 DEF Memories
    <3>2. ScheduleRetry(m) = [m EXCEPT !.attempt = m.attempt + 1, !.timer = TRUE]
      BY <2>2 DEF ScheduleRetry
    <3> QED
      BY <3>1, <3>2 DEF Memories
  <2> QED
    BY <2>1, <2>2
<1> QED
  BY <1>1, <1>2
LEMMA ServedFlushMeans ==
  ASSUME Bounds, NEW n \in Nat, NEW m \in Memories(n), NEW q \in Seq(1..n)
  PROVE  /\ ServedFlush(m, q) \in Memories(n) /\ ServedFlush(m, q).open = m.open
         /\ ServedFlush(m, q).flushes =
              IF m.flushes = <<>> /\ q # <<>> THEN << <<Head(q)>> >> ELSE m.flushes
<1> DEFINE r == ServedFlush(m, q)
<1>1. CASE m.flushes # <<>>
  BY <1>1 DEF ServedFlush
<1>2. CASE m.flushes = <<>> /\ q = <<>>
  BY <1>2, RetryMeans DEF ServedFlush
<1>3. CASE m.flushes = <<>> /\ q # <<>>
  <2>1. r = [m EXCEPT !.flushes = << <<Head(q)>> >>]
    BY <1>3 DEF ServedFlush
  <2>2. << <<Head(q)>> >> \in Seq(Seq(1..n) \ {<<>>})
    BY <1>3, OneCopy
  <2> QED
    BY <1>3, <2>1, <2>2 DEF Memories
<1> QED
  BY <1>1, <1>2, <1>3

LEMMA SdkFlushMeans ==
  ASSUME NEW n \in Nat, NEW m \in Memories(n), NEW q \in Seq(1..n)
  PROVE  /\ SdkFlush(m, q) \in Memories(n) /\ SdkFlush(m, q).open = m.open
         /\ SdkFlush(m, q).flushes = IF q = <<>> THEN m.flushes ELSE Append(m.flushes, q)
<1>1. CASE q = <<>>
  BY <1>1 DEF SdkFlush
<1>2. CASE q # <<>>
  <2>1. m.flushes \in Seq(Seq(1..n) \ {<<>>}) /\ q \in Seq(1..n) \ {<<>>}
    BY <1>2 DEF Memories
  <2>2. Append(m.flushes, q) \in Seq(Seq(1..n) \ {<<>>})
    BY <2>1, Appended
  <2> QED
    BY <1>2, <2>2 DEF SdkFlush, Memories
<1> QED
  BY <1>1, <1>2


LEMMA TypedMemory ==
  ASSUME TypeOK
  PROVE  /\ Len(log) \in Nat /\ memory \in [Tabs -> Memories(Len(log))]
         /\ \A t \in Tabs :
              /\ memory[t] \in Memories(Len(log)) /\ memory[t].open \in BOOLEAN
              /\ memory[t].flushes \in Seq(Seq(1..Len(log)) \ {<<>>})
              /\ memory[t].timer => memory[t].open
              /\ memory[t].flushes # <<>> => memory[t].open
              /\ t \in Served => Len(memory[t].flushes) <= 1
              /\ \A i \in DOMAIN memory[t].flushes :
                   memory[t].flushes[i] \in Seq(1..Len(log)) /\ memory[t].flushes[i] # <<>>
<1>1. Len(log) \in Nat
  BY DEF TypeOK
<1>2. memory \in [Tabs -> Memories(Len(log))]
  BY DEF TypeOK, Memory, Memories
<1>3. ASSUME NEW t \in Tabs
      PROVE  /\ memory[t] \in Memories(Len(log)) /\ memory[t].open \in BOOLEAN
             /\ memory[t].flushes \in Seq(Seq(1..Len(log)) \ {<<>>})
  BY <1>2 DEF Memories
<1>4. ASSUME NEW t \in Tabs, NEW i \in DOMAIN memory[t].flushes
      PROVE  memory[t].flushes[i] \in Seq(1..Len(log)) /\ memory[t].flushes[i] # <<>>
  <2>1. memory[t].flushes[i] \in Seq(1..Len(log)) \ {<<>>}
    BY <1>3
  <2> QED
    BY <2>1
<1>5. ASSUME NEW t \in Tabs, ~memory[t].open PROVE ~memory[t].timer /\ memory[t].flushes = <<>>
  <2>1. memory[t] = Fresh
    BY <1>5 DEF TypeOK
  <2> QED
    BY <2>1 DEF Fresh
<1>6. ASSUME NEW t \in Tabs PROVE t \in Served => Len(memory[t].flushes) <= 1
  BY DEF TypeOK
<1> QED
  BY <1>1, <1>2, <1>3, <1>4, <1>5, <1>6

\* A step writes the memory of one tab.
Others(t) == \A u \in Tabs : u # t => memory'[u] = memory[u]

LEMMA Remembers ==
  ASSUME TypeOK, NEW t \in Tabs, NEW r, memory' = [memory EXCEPT ![t] = r],
         NEW k \in Nat, Len(log) <= k, r \in Memories(k),
         t \in Served => Len(r.flushes) <= 1, r.open \/ r = Fresh
  PROVE  /\ memory' \in [Tabs -> Memories(k)] /\ memory'[t] = r /\ Others(t)
         /\ \A u \in Tabs : /\ u \in Served => Len(memory'[u].flushes) <= 1
                            /\ ~memory'[u].open => memory'[u] = Fresh
<1>1. Memories(Len(log)) \subseteq Memories(k)
  BY TypedMemory, MemoriesGrow
<1>2. memory \in [Tabs -> Memories(k)]
  BY <1>1, TypedMemory
<1>3. memory'[t] = r /\ Others(t)
  BY <1>2 DEF Others
<1>4. memory' \in [Tabs -> Memories(k)]
  BY <1>2
<1>5. \A u \in Tabs : /\ u \in Served => Len(memory'[u].flushes) <= 1
                      /\ ~memory'[u].open => memory'[u] = Fresh
  BY <1>3 DEF Others, TypeOK
<1> QED
  BY <1>3, <1>4, <1>5

\* The flushes of a tab after it has started one with what storage holds.
Begun(t, f, q) ==
  IF t \in Served THEN IF f = <<>> /\ q # <<>> THEN << <<Head(q)>> >> ELSE f
  ELSE IF q = <<>> THEN f ELSE Append(f, q)

\* Events join the queue, q; storage takes what fits, and a flush may start.
Emits(t, q) ==
  /\ Len(log) < Len(log') /\ \A e \in 1..Len(log) : log'[e] = log[e]
  /\ q \in Seq(1..Len(log')) /\ q # <<>>
  /\ t \in Sdk => Len(q) = Len(queue) + 1
  /\ \A e : e \in ToSet(q) <=> e \in ToSet(queue) \/ e \in (Len(log) + 1)..Len(log')
  /\ Increasing(queue) => Increasing(q)
  /\ queue' = EvictToCap(q, log')
  /\ evicted' = evicted \cup (ToSet(q) \ ToSet(queue'))
  /\ memory'[t].open /\ memory'[t].flushes = Begun(t, memory[t].flushes, queue')
  /\ Others(t) /\ sent' = sent /\ faults' = faults

\* A trigger or the retry timer starts a flush, or finds nothing to send.
Starts(t) ==
  /\ memory[t].open /\ memory'[t].open
  /\ memory'[t].flushes = Begun(t, memory[t].flushes, queue)
  /\ Others(t) /\ UNCHANGED <<queue, log, sent, evicted, faults>>

\* A send of the served pixel fails, or the tab is closed.
Stops(t) ==
  /\ memory[t].open /\ memory'[t].flushes = <<>>
  /\ faults' > faults
  /\ Others(t) /\ UNCHANGED <<queue, log, sent, evicted>>

\* An SDK flush delivers its head and writes back the rest of what it read.
GoesOn(t, i) ==
  LET q == memory[t].flushes[i]
  IN /\ memory[t].open /\ memory'[t].open /\ i \in DOMAIN memory[t].flushes
     /\ memory'[t].flushes = IF Len(q) = 1 THEN RemoveAt(memory[t].flushes, i)
                             ELSE [memory[t].flushes EXCEPT ![i] = Tail(q)]
     /\ queue' = Tail(q) /\ sent' = sent \cup {Head(q)}
     /\ Others(t) /\ UNCHANGED <<log, evicted, faults>>

\* A send of an SDK flush fails: what the flush still has is written back.
GivesUp(t, i) ==
  /\ memory[t].open /\ memory'[t].open /\ i \in DOMAIN memory[t].flushes
  /\ memory'[t].flushes = RemoveAt(memory[t].flushes, i)
  /\ queue' = memory[t].flushes[i]
  /\ faults' > faults
  /\ Others(t) /\ UNCHANGED <<log, sent, evicted>>

\* A served pixel delivers, and drops whatever is the head of the queue by then.
Drops(t) ==
  /\ memory[t].open /\ memory'[t].open /\ memory[t].flushes # <<>>
  /\ sent' = sent \cup {memory[t].flushes[1][1]}
  /\ queue' = IF queue = <<>> THEN <<>> ELSE Tail(queue)
  /\ memory'[t].flushes = Begun(t, <<>>, queue')
  /\ Others(t) /\ UNCHANGED <<log, evicted, faults>>

-----------------------------------------------------------------------------
(* Each step keeps the types and has the effect its kind says.              *)

LEMMA Typed ==
  ASSUME TypeOK, Observe, log' \in Seq(Event), Len(log') <= MaxEvents,
         queue' \in Seq(1..Len(log')), Len(queue') <= MaxQueue,
         sent' \subseteq 1..Len(log'), evicted' \subseteq 1..Len(log'), faults' \in 0..MaxFaults,
         memory' \in [Tabs -> Memories(Len(log'))],
         \A u \in Tabs : /\ u \in Served => Len(memory'[u].flushes) <= 1
                         /\ ~memory'[u].open => memory'[u] = Fresh
  PROVE  TypeOK'
<1>1. why' \subseteq {"overlap", "tabs", "eviction", "stale"}
  BY DEF TypeOK, Observe
<1>2. memory' \in [Tabs -> Memory']
  BY DEF Memory, Memories
<1> QED
  BY <1>1, <1>2 DEF TypeOK

\* Events that nobody minted are in no set of the state.
LEMMA Numbers ==
  ASSUME TypeOK, NEW k \in Nat, Len(log) <= k
  PROVE  1..Len(log) \subseteq 1..k
BY TypedMemory

LEMMA SdkEmits ==
  ASSUME Bounds, TypeOK, Observe, NEW t \in Sdk, NEW m \in Memories(Len(log)), m.open,
         m.flushes = memory[t].flushes, NEW c \in BOOLEAN, SdkEmit(t, m, c),
         sent' = sent, faults' = faults
  PROVE  TypeOK' /\ \E q : Emits(t, q)
<1> DEFINE N == Len(log)
           K == Len(log')
           e == [critical |-> c, by |-> t]
           q == Append(queue, N + 1)
           w == EvictToCap(q, log')
<1>0. /\ N \in Nat /\ log \in Seq(Event) /\ t \in Tabs /\ t \notin Served /\ MaxQueue \in Nat
      /\ MaxQueue >= 1 /\ queue \in Seq(1..N) /\ Len(queue) <= MaxQueue
      /\ sent \subseteq 1..N /\ evicted \subseteq 1..N /\ faults \in 0..MaxFaults
  BY BoundsAre, TypedMemory DEF TypeOK, Tabs
<1>1. log' = Append(log, e) /\ e \in Event
  BY <1>0 DEF SdkEmit, Event
<1>2. /\ log' \in Seq(Event) /\ K = N + 1 /\ K \in Nat /\ N <= K /\ \A i \in 1..N : log'[i] = log[i]
  BY <1>0, <1>1, Appended
<1>3. Len(log') <= MaxEvents
  BY <1>1 DEF SdkEmit
<1>4. /\ queue' = w /\ evicted' = evicted \cup (ToSet(q) \ ToSet(w))
      /\ memory' = [memory EXCEPT ![t] = SdkFlush([m EXCEPT !.dropped = @ + Excess(q, log')], w)]
  BY <1>1, <1>2 DEF SdkEmit, Write
<1> HIDE DEF K
<1>5. /\ q \in Seq(1..K) /\ Len(q) = Len(queue) + 1
      /\ \A d : d \in ToSet(q) <=> d \in ToSet(queue) \/ d = N + 1
      /\ Increasing(queue) => Increasing(q)
  BY <1>0, <1>2, BehindOne
<1>6. q # <<>>
  <2> HIDE DEF q
  <2>1. Len(q) # 0
    BY <1>0, <1>5
  <2> QED
    BY <1>5, <2>1
<1> HIDE DEF q, w, e
<1>7. /\ w \in Seq(1..K) /\ Len(w) = IF Len(q) <= MaxQueue THEN Len(q) ELSE MaxQueue
      /\ ToSet(w) \subseteq ToSet(q)
  <2>1. w \in Seq(1..K) /\ Keeps(w, q, log')
    BY <1>2, <1>5, EvictKeeps DEF w
  <2> QED
    BY <2>1 DEF Keeps
<1>8. Len(w) <= MaxQueue /\ w # <<>> /\ Excess(q, log') \in Nat
  <2>1. Len(w) <= Len(q) /\ Len(w) <= MaxQueue /\ Len(w) >= 1
    BY <1>0, <1>5, <1>7
  <2>2. Excess(q, log') = Len(q) - Len(w)
    BY DEF Excess, w
  <2> QED
    BY <1>5, <1>7, <2>1, <2>2
<1> DEFINE p == [m EXCEPT !.dropped = @ + Excess(q, log')]
           r == SdkFlush(p, w)
<1>9. p \in Memories(K) /\ p.open /\ p.flushes = m.flushes
  <2>1. m \in Memories(K)
    BY <1>0, <1>2, MemoriesGrow
  <2>2. m.dropped + Excess(q, log') \in Nat
    BY <1>8, <2>1 DEF Memories
  <2>3. p \in Memories(K)
    BY <2>1, <2>2 DEF Memories
  <2>4. p.open = m.open /\ p.flushes = m.flushes
    BY <2>1 DEF Memories
  <2> QED
    BY <2>3, <2>4
<1> HIDE DEF p
<1>10. r \in Memories(K) /\ r.open /\ r.flushes = Append(memory[t].flushes, w)
  <2>1. K \in Nat /\ p \in Memories(K) /\ w \in Seq(1..K)
    BY <1>2, <1>7, <1>9
  <2>2. /\ r \in Memories(K) /\ r.open = p.open
        /\ r.flushes = IF w = <<>> THEN p.flushes ELSE Append(p.flushes, w)
    BY <2>1, SdkFlushMeans
  <2> HIDE DEF r
  <2> QED
    BY <1>8, <1>9, <2>2
<1>11. memory' = [memory EXCEPT ![t] = r]
  BY <1>4 DEF p
<1> HIDE DEF r
<1>12. /\ memory' \in [Tabs -> Memories(K)] /\ memory'[t] = r /\ Others(t)
       /\ \A u \in Tabs : /\ u \in Served => Len(memory'[u].flushes) <= 1
                          /\ ~memory'[u].open => memory'[u] = Fresh
  BY <1>0, <1>2, <1>10, <1>11, Remembers
<1>13. ToSet(q) \subseteq 1..K
  BY <1>5, SetOf
<1>14. TypeOK'
  <2>1. sent' \subseteq 1..K /\ evicted' \subseteq 1..K
    BY <1>0, <1>2, <1>4, <1>13
  <2> QED
    BY <1>0, <1>2, <1>3, <1>4, <1>7, <1>8, <1>12, <2>1, Typed DEF K
<1>15. Emits(t, q)
  <2>1. \A d : d \in (N + 1)..K <=> d = N + 1
    BY <1>0, <1>2
  <2>2. memory'[t].flushes = Begun(t, memory[t].flushes, queue')
    BY <1>0, <1>4, <1>8, <1>10, <1>12 DEF Begun
  <2>3. Len(log) < Len(log')
    BY <1>0, <1>2 DEF K
  <2> QED
    BY <1>2, <1>4, <1>5, <1>6, <1>10, <1>12, <2>1, <2>2, <2>3 DEF Emits, w, K
<1> QED
  BY <1>14, <1>15

LEMMA ServedEmits ==
  ASSUME Bounds, TypeOK, Observe, NEW t \in Served, NEW m \in Memories(Len(log)), m.open,
         m.flushes = memory[t].flushes, NEW c \in BOOLEAN, ServedEmit(t, m, c),
         sent' = sent, faults' = faults
  PROVE  TypeOK' /\ \E q : Emits(t, q)
<1> DEFINE N == Len(log)
           K == Len(log')
           minted == IF m.dropped > 0 THEN <<c, TRUE>> ELSE <<c>>
           n == Len(minted)
           es == [i \in DOMAIN minted |-> [critical |-> minted[i], by |-> t]]
           ks == [i \in DOMAIN minted |-> N + i]
           q == queue \o ks
           w == EvictToCap(q, log')
           p == [m EXCEPT !.dropped = (IF m.dropped > 0 THEN 0 ELSE @) + Excess(q, log')]
           r == ServedFlush(p, queue')
<1>0. /\ N \in Nat /\ log \in Seq(Event) /\ t \in Tabs /\ t \notin Sdk /\ MaxQueue \in Nat
      /\ MaxQueue >= 1 /\ queue \in Seq(1..N) /\ Len(queue) <= MaxQueue
      /\ sent \subseteq 1..N /\ evicted \subseteq 1..N /\ faults \in 0..MaxFaults
      /\ Len(memory[t].flushes) <= 1
  BY BoundsAre, TypedMemory DEF TypeOK, Tabs
<1>1. /\ log' = log \o es /\ K <= MaxEvents
      /\ queue' = w /\ evicted' = evicted \cup (ToSet(q) \ ToSet(w))
      /\ memory' = [memory EXCEPT ![t] = r]
  BY Zenon DEF ServedEmit, Write
<1>2. minted \in Seq(BOOLEAN) /\ n \in Nat /\ n >= 1 /\ DOMAIN minted = 1..n
  <2>1. CASE m.dropped > 0
    <3>1. minted = <<c, TRUE>>
      BY <2>1
    <3> HIDE DEF minted
    <3> QED
      BY <3>1
  <2>2. CASE ~ (m.dropped > 0)
    <3>1. minted = <<c>>
      BY <2>2
    <3> HIDE DEF minted
    <3> QED
      BY <3>1
  <2> QED
    BY <2>1, <2>2
<1> HIDE DEF minted, n
<1>3. es \in Seq(Event) /\ Len(es) = n
  <2>1. \A i \in 1..n : es[i] \in Event
    BY <1>0, <1>2 DEF Event
  <2>2. es = [i \in 1..n |-> es[i]]
    BY <1>2
  <2> HIDE DEF es
  <2> QED
    BY <1>2, <2>1, <2>2, MadeSeq
<1>4. ks = [i \in 1..n |-> ks[i]] /\ \A i \in 1..n : ks[i] = N + i
  BY <1>2
<1> HIDE DEF es, ks, w, p, r
<1>5. log' \in Seq(Event) /\ K = N + n /\ \A i \in 1..N : log'[i] = log[i]
  <2>1. log' = log \o es /\ log \in Seq(Event) /\ es \in Seq(Event) /\ Len(es) = n
    BY <1>0, <1>1, <1>3, Zenon
  <2>2. /\ log \o es \in Seq(Event) /\ Len(log \o es) = Len(log) + Len(es)
        /\ \A i \in 1..Len(log) : (log \o es)[i] = log[i]
    BY <2>1, Joined, Zenon
  <2> QED
    BY <2>1, <2>2, Zenon
<1>6. K \in Nat /\ N <= K /\ N < K
  BY <1>0, <1>2, <1>5
<1>7. /\ q \in Seq(1..K) /\ Len(q) = Len(queue) + n
      /\ \A d : d \in ToSet(q) <=> d \in ToSet(queue) \/ d \in (N + 1)..K
      /\ Increasing(queue) => Increasing(q)
  <2>1. /\ q \in Seq(1..(N + n)) /\ Len(q) = Len(queue) + n
        /\ \A d : d \in ToSet(q) <=> d \in ToSet(queue) \/ d \in (N + 1)..(N + n)
        /\ Increasing(queue) => Increasing(q)
    BY <1>0, <1>2, <1>4, Behind, Zenon
  <2> HIDE DEF q
  <2> QED
    BY <1>5, <2>1
<1> HIDE DEF q, K
<1>8. q # <<>>
  <2>1. Len(q) # 0
    BY <1>0, <1>2, <1>7
  <2> QED
    BY <1>7, <2>1
<1>9. /\ w \in Seq(1..K) /\ Len(w) = IF Len(q) <= MaxQueue THEN Len(q) ELSE MaxQueue
      /\ ToSet(w) \subseteq ToSet(q)
  <2>1. w \in Seq(1..K) /\ Keeps(w, q, log')
    BY <1>6, <1>7, EvictKeeps DEF w
  <2> QED
    BY <2>1 DEF Keeps
<1>10. Len(w) <= MaxQueue /\ w # <<>> /\ Excess(q, log') \in Nat
  <2>1. Len(w) <= Len(q) /\ Len(w) <= MaxQueue /\ Len(w) >= 1
    BY <1>0, <1>2, <1>7, <1>9
  <2>2. Excess(q, log') = Len(q) - Len(w)
    BY DEF Excess, w
  <2> QED
    BY <1>7, <1>9, <2>1, <2>2
<1>11. p \in Memories(K) /\ p.open /\ p.flushes = m.flushes
  <2>1. m \in Memories(K)
    BY <1>0, <1>6, MemoriesGrow
  <2> DEFINE x == (IF m.dropped > 0 THEN 0 ELSE m.dropped) + Excess(q, log')
  <2>2. x \in Nat
    BY <1>10, <2>1 DEF Memories
  <2>3. p = [m EXCEPT !.dropped = x]
    BY DEF p
  <2> HIDE DEF x
  <2>4. p \in Memories(K)
    BY <2>1, <2>2, <2>3 DEF Memories
  <2>5. p.open = m.open /\ p.flushes = m.flushes
    BY <2>1, <2>3 DEF Memories
  <2> QED
    BY <2>4, <2>5
<1>12. r \in Memories(K) /\ r.open /\ r.flushes = Begun(t, memory[t].flushes, queue')
  <2>1. K \in Nat /\ p \in Memories(K) /\ queue' \in Seq(1..K)
    BY <1>1, <1>6, <1>9, <1>11
  <2>2. /\ r \in Memories(K) /\ r.open = p.open
        /\ r.flushes = IF p.flushes = <<>> /\ queue' # <<>> THEN << <<Head(queue')>> >>
                       ELSE p.flushes
    BY <2>1, ServedFlushMeans, Zenon DEF r
  <2> QED
    BY <1>11, <2>2 DEF Begun
<1>13. Len(r.flushes) <= 1
  <2>1. Len(<< <<Head(queue')>> >>) = 1
    OBVIOUS
  <2> QED
    BY <1>0, <1>12, <2>1 DEF Begun
<1>14. /\ memory' \in [Tabs -> Memories(K)] /\ memory'[t] = r /\ Others(t)
       /\ \A u \in Tabs : /\ u \in Served => Len(memory'[u].flushes) <= 1
                          /\ ~memory'[u].open => memory'[u] = Fresh
  BY <1>0, <1>1, <1>6, <1>12, <1>13, Remembers
<1>15. ToSet(q) \subseteq 1..K
  BY <1>7, SetOf
<1>16. TypeOK'
  <2>1. sent' \subseteq 1..K /\ evicted' \subseteq 1..K
    <3>1. 1..N \subseteq 1..K
      BY <1>0, <1>6
    <3> QED
      BY <1>0, <1>1, <1>15, <3>1
  <2> QED
    BY <1>0, <1>1, <1>5, <1>9, <1>10, <1>14, <2>1, Typed DEF K
<1>17. Emits(t, q)
  <2>1. Len(log) < Len(log')
    BY <1>6 DEF K
  <2>2. t \in Sdk => Len(q) = Len(queue) + 1
    BY <1>0
  <2>3. memory'[t].open /\ memory'[t].flushes = Begun(t, memory[t].flushes, queue')
    BY <1>12, <1>14
  <2> QED
    BY <1>1, <1>5, <1>7, <1>8, <1>14, <2>1, <2>2, <2>3 DEF Emits, w, K
<1> QED
  BY <1>16, <1>17

LEMMA EmissionMeans ==
  ASSUME Bounds, TypeOK, Observe, NEW t \in Tabs, NEW m \in Memories(Len(log)), m.open,
         m.flushes = memory[t].flushes, NEW c \in BOOLEAN, Emission(t, m, c)
  PROVE  TypeOK' /\ \E q : Emits(t, q)
<1>1. CASE t \in Served
  BY <1>1, ServedEmits DEF Emission
<1>2. CASE t \notin Served
  <2>1. t \in Sdk
    BY <1>2 DEF Tabs
  <2> QED
    BY <1>2, <2>1, SdkEmits DEF Emission
<1> QED
  BY <1>1, <1>2

\* A tab that emits has the program of every open tab.
SameProgram(t) == \A u \in Tabs : memory[u].open => (u \in Served <=> t \in Served)

LEMMA LoadMeans ==
  ASSUME Bounds, TypeOK, Observe, NEW t \in Tabs, Load(t)
  PROVE  TypeOK' /\ SameProgram(t) /\ \E q : Emits(t, q)
<1>1. memory[t] = Fresh
  BY DEF Load, TypeOK
<1>2. /\ [Fresh EXCEPT !.open = TRUE] \in Memories(Len(log))
      /\ [Fresh EXCEPT !.open = TRUE].open
      /\ [Fresh EXCEPT !.open = TRUE].flushes = memory[t].flushes
  BY <1>1, FreshIs, TypedMemory
<1>3. Emission(t, [Fresh EXCEPT !.open = TRUE], FALSE)
  BY DEF Load
<1>4. TypeOK' /\ \E q : Emits(t, q)
  BY <1>2, <1>3, EmissionMeans
<1> QED
  BY <1>4 DEF Load, SameProgram

LEMMA EmitMeans ==
  ASSUME Bounds, TypeOK, Observe, NEW t \in Tabs, NEW c \in BOOLEAN, Emit(t, c)
  PROVE  TypeOK' /\ memory[t].open /\ \E q : Emits(t, q)
<1>1. memory[t] \in Memories(Len(log)) /\ memory[t].open /\ Emission(t, memory[t], c)
  BY TypedMemory DEF Emit
<1> QED
  BY <1>1, EmissionMeans

\* What a step that mints no event must show.
LEMMA NothingMinted ==
  ASSUME Bounds, TypeOK, Observe, log' = log, NEW t \in Tabs, NEW r \in Memories(Len(log)),
         memory' = [memory EXCEPT ![t] = r], t \in Served => Len(r.flushes) <= 1,
         r.open \/ r = Fresh, queue' \in Seq(1..Len(log)), Len(queue') <= MaxQueue,
         sent' \subseteq 1..Len(log), evicted' = evicted, faults' \in 0..MaxFaults
  PROVE  TypeOK' /\ memory'[t] = r /\ Others(t)
<1>1. Len(log) \in Nat /\ Len(log) <= Len(log)
  BY TypedMemory
<1>2. /\ memory' \in [Tabs -> Memories(Len(log))] /\ memory'[t] = r /\ Others(t)
      /\ \A u \in Tabs : /\ u \in Served => Len(memory'[u].flushes) <= 1
                         /\ ~memory'[u].open => memory'[u] = Fresh
  BY <1>1, Remembers
<1>3. log' \in Seq(Event) /\ Len(log') <= MaxEvents /\ evicted' \subseteq 1..Len(log)
  BY DEF TypeOK
<1>4. TypeOK'
  BY <1>2, <1>3, Typed
<1> QED
  BY <1>2, <1>4

Flushed(t, m, q) == IF t \in Served THEN ServedFlush(m, q) ELSE SdkFlush(m, q)

LEMMA FlushedMeans ==
  ASSUME Bounds, NEW n \in Nat, NEW m \in Memories(n), NEW q \in Seq(1..n), NEW t \in Tabs,
         t \in Served => Len(m.flushes) <= 1
  PROVE  /\ Flushed(t, m, q) \in Memories(n) /\ Flushed(t, m, q).open = m.open
         /\ Flushed(t, m, q).flushes = Begun(t, m.flushes, q)
         /\ t \in Served => Len(Flushed(t, m, q).flushes) <= 1
<1> DEFINE r == Flushed(t, m, q)
<1>1. CASE t \in Served
  <2>1. r = ServedFlush(m, q)
    BY <1>1 DEF Flushed
  <2>2. /\ ServedFlush(m, q) \in Memories(n) /\ ServedFlush(m, q).open = m.open
        /\ ServedFlush(m, q).flushes =
             IF m.flushes = <<>> /\ q # <<>> THEN << <<Head(q)>> >> ELSE m.flushes
    BY ServedFlushMeans, Zenon
  <2> HIDE DEF r
  <2>3. Begun(t, m.flushes, q) =
          IF m.flushes = <<>> /\ q # <<>> THEN << <<Head(q)>> >> ELSE m.flushes
    BY <1>1 DEF Begun
  <2>4. Len(<< <<Head(q)>> >>) = 1
    OBVIOUS
  <2>5. r \in Memories(n) /\ r.open = m.open /\ r.flushes = Begun(t, m.flushes, q)
    BY <2>1, <2>2, <2>3
  <2>6. Len(r.flushes) <= 1
    BY <1>1, <2>3, <2>4, <2>5
  <2> QED
    BY <2>5, <2>6 DEF r
<1>2. CASE t \notin Served
  <2>1. r = SdkFlush(m, q)
    BY <1>2 DEF Flushed
  <2>2. /\ SdkFlush(m, q) \in Memories(n) /\ SdkFlush(m, q).open = m.open
        /\ SdkFlush(m, q).flushes = IF q = <<>> THEN m.flushes ELSE Append(m.flushes, q)
    BY SdkFlushMeans, Zenon
  <2> QED
    BY <1>2, <2>1, <2>2 DEF Begun
<1> QED
  BY <1>1, <1>2

LEMMA StateIs ==
  ASSUME TypeOK
  PROVE  /\ queue \in Seq(1..Len(log)) /\ Len(queue) <= MaxQueue /\ Len(queue) \in Nat
         /\ sent \subseteq 1..Len(log) /\ evicted \subseteq 1..Len(log)
         /\ faults \in 0..MaxFaults /\ Len(log) \in Nat
BY TypedMemory DEF TypeOK

LEMMA TriggerMeans ==
  ASSUME Bounds, TypeOK, Observe, NEW t \in Tabs, Trigger(t)
  PROVE  TypeOK' /\ Starts(t)
<1> DEFINE m == memory[t]
           r == Flush(t, m)
<1>0. /\ Len(log) \in Nat /\ m \in Memories(Len(log)) /\ m.open
      /\ t \in Served => Len(m.flushes) <= 1
      /\ queue \in Seq(1..Len(log))
  BY TypedMemory, StateIs DEF Trigger
<1>1. /\ memory' = [memory EXCEPT ![t] = r]
      /\ queue' = queue /\ log' = log /\ sent' = sent /\ evicted' = evicted /\ faults' = faults
  BY DEF Trigger
<1>2. r = Flushed(t, m, queue)
  BY DEF Flush, Flushed
<1> HIDE DEF r, m
<1>3. /\ r \in Memories(Len(log)) /\ r.open = m.open
      /\ r.flushes = Begun(t, m.flushes, queue)
      /\ t \in Served => Len(r.flushes) <= 1
  <2>1. /\ Flushed(t, m, queue) \in Memories(Len(log)) /\ Flushed(t, m, queue).open = m.open
        /\ Flushed(t, m, queue).flushes = Begun(t, m.flushes, queue)
        /\ t \in Served => Len(Flushed(t, m, queue).flushes) <= 1
    BY <1>0, FlushedMeans, Zenon
  <2> QED
    BY <1>2, <2>1
<1>4. TypeOK' /\ memory'[t] = r /\ Others(t)
  BY <1>0, <1>1, <1>3, StateIs, NothingMinted
<1> QED
  BY <1>0, <1>1, <1>3, <1>4 DEF Starts, m

LEMMA RetryFiresMeans ==
  ASSUME Bounds, TypeOK, Observe, NEW t \in Tabs, RetryFires(t)
  PROVE  TypeOK' /\ Starts(t)
<1> DEFINE m == [memory[t] EXCEPT !.timer = FALSE]
           r == Flush(t, m)
<1>0. /\ Len(log) \in Nat /\ memory[t] \in Memories(Len(log)) /\ memory[t].open
      /\ t \in Served => Len(memory[t].flushes) <= 1
      /\ queue \in Seq(1..Len(log))
  BY TypedMemory, StateIs DEF RetryFires
<1>1. /\ memory' = [memory EXCEPT ![t] = r]
      /\ queue' = queue /\ log' = log /\ sent' = sent /\ evicted' = evicted /\ faults' = faults
  BY DEF RetryFires
<1>2. r = Flushed(t, m, queue)
  BY DEF Flush, Flushed
<1>3. m \in Memories(Len(log)) /\ m.open = memory[t].open /\ m.flushes = memory[t].flushes
  BY <1>0, RetryMeans
<1> HIDE DEF r, m
<1>4. /\ r \in Memories(Len(log)) /\ r.open = m.open
      /\ r.flushes = Begun(t, m.flushes, queue)
      /\ t \in Served => Len(r.flushes) <= 1
  <2>0. t \in Served => Len(m.flushes) <= 1
    BY <1>0, <1>3
  <2>1. /\ Flushed(t, m, queue) \in Memories(Len(log)) /\ Flushed(t, m, queue).open = m.open
        /\ Flushed(t, m, queue).flushes = Begun(t, m.flushes, queue)
        /\ t \in Served => Len(Flushed(t, m, queue).flushes) <= 1
    BY <1>0, <1>3, <2>0, FlushedMeans, Zenon
  <2> QED
    BY <1>2, <2>1
<1>5. TypeOK' /\ memory'[t] = r /\ Others(t)
  BY <1>0, <1>1, <1>3, <1>4, StateIs, NothingMinted
<1> QED
  BY <1>0, <1>1, <1>3, <1>4, <1>5 DEF Starts

LEMMA FaultIs ==
  ASSUME Bounds, TypeOK, Fault
  PROVE  faults' \in 0..MaxFaults /\ faults' > faults
BY BoundsAre DEF TypeOK, Fault

LEMMA CloseMeans ==
  ASSUME Bounds, TypeOK, Observe, NEW t \in Tabs, Close(t)
  PROVE  TypeOK' /\ Stops(t)
<1>0. Len(log) \in Nat /\ memory[t].open
  BY TypedMemory DEF Close
<1>1. /\ memory' = [memory EXCEPT ![t] = Fresh]
      /\ queue' = queue /\ log' = log /\ sent' = sent /\ evicted' = evicted
      /\ faults' \in 0..MaxFaults /\ faults' > faults
  BY FaultIs DEF Close
<1>2. Fresh \in Memories(Len(log)) /\ Fresh.flushes = <<>> /\ Len(<<>>) = 0
  BY <1>0, FreshIs
<1>3. TypeOK' /\ memory'[t] = Fresh /\ Others(t)
  <2>1. /\ t \in Served => Len(Fresh.flushes) <= 1
        /\ queue' \in Seq(1..Len(log)) /\ Len(queue') <= MaxQueue /\ sent' \subseteq 1..Len(log)
    BY <1>1, <1>2, StateIs
  <2> QED
    BY <1>1, <1>2, <2>1, NothingMinted
<1> QED
  BY <1>0, <1>1, <1>2, <1>3 DEF Stops

LEMMA ServedAnswerFailMeans ==
  ASSUME Bounds, TypeOK, Observe, NEW t \in Served, ServedAnswerFail(t)
  PROVE  TypeOK' /\ Stops(t)
<1> DEFINE m == [memory[t] EXCEPT !.flushes = <<>>]
           r == ScheduleRetry(m)
<1>0. Len(log) \in Nat /\ memory[t].open /\ memory[t] \in Memories(Len(log)) /\ t \in Tabs
  BY TypedMemory DEF ServedAnswerFail, Tabs
<1>1. /\ memory' = [memory EXCEPT ![t] = r]
      /\ queue' = queue /\ log' = log /\ sent' = sent /\ evicted' = evicted
      /\ faults' \in 0..MaxFaults /\ faults' > faults
  BY FaultIs DEF ServedAnswerFail
<1>2. m \in Memories(Len(log)) /\ m.open = memory[t].open /\ m.flushes = <<>>
  <2>1. <<>> \in Seq(Seq(1..Len(log)) \ {<<>>})
    OBVIOUS
  <2>2. m \in Memories(Len(log))
    BY <1>0, <2>1 DEF Memories
  <2>3. m.open = memory[t].open /\ m.flushes = <<>>
    BY <1>0 DEF Memories
  <2> QED
    BY <2>2, <2>3
<1> HIDE DEF m
<1>3. r \in Memories(Len(log)) /\ r.open = m.open /\ r.flushes = m.flushes /\ Len(<<>>) = 0
  BY <1>0, <1>2, RetryMeans
<1> HIDE DEF r
<1>4. TypeOK' /\ memory'[t] = r /\ Others(t)
  <2>1. /\ t \in Served => Len(r.flushes) <= 1
        /\ queue' \in Seq(1..Len(log)) /\ Len(queue') <= MaxQueue /\ sent' \subseteq 1..Len(log)
    BY <1>1, <1>2, <1>3, StateIs
  <2>2. r.open
    BY <1>0, <1>2, <1>3
  <2> QED
    BY <1>0, <1>1, <1>3, <2>1, <2>2, NothingMinted
<1> QED
  BY <1>0, <1>1, <1>2, <1>3, <1>4 DEF Stops

\* Every queue and every copy of it is in the order of emission and fits.
Ascending ==
  /\ Increasing(queue)
  /\ \A t \in Tabs : \A f \in ToSet(memory[t].flushes) : Increasing(f) /\ Len(f) <= MaxQueue

LEMMA WriteFits ==
  ASSUME Bounds, NEW N \in Nat, NEW q \in Seq(1..N), Len(q) <= MaxQueue, NEW l, Write(q, l)
  PROVE  queue' = q /\ evicted' = evicted
<1>1. Keeps(EvictToCap(q, l), q, l)
  BY EvictKeeps
<1>2. EvictToCap(q, l) = q
  BY <1>1 DEF Keeps
<1> QED
  BY <1>2 DEF Write

Copies(n) == Seq(Seq(1..n) \ {<<>>})
With(m, f) == [m EXCEPT !.flushes = f]

LEMMA FlushesReplaced ==
  ASSUME NEW n \in Nat, NEW m \in Memories(n), NEW f \in Copies(n)
  PROVE  /\ With(m, f) \in Memories(n)
         /\ With(m, f).open = m.open /\ With(m, f).flushes = f
<1>1. With(m, f) \in Memories(n)
  BY DEF Memories, Copies, With
<1>2. With(m, f).open = m.open /\ With(m, f).flushes = f
  BY DEF Memories, Copies, With
<1> QED
  BY <1>1, <1>2

LEMMA SdkAnswerFailMeans ==
  ASSUME Bounds, TypeOK, Ascending, Observe, NEW t \in Sdk, NEW i \in DOMAIN memory[t].flushes,
         SdkAnswerFail(t, i)
  PROVE  TypeOK' /\ GivesUp(t, i)
<1> DEFINE n == Len(log)
           F == memory[t].flushes
           q == F[i]
           m == With(memory[t], RemoveAt(F, i))
           r == ScheduleRetry(m)
<1>0. /\ n \in Nat /\ memory[t] \in Memories(n) /\ t \in Tabs /\ t \notin Served
      /\ F \in Seq(Seq(1..n) \ {<<>>}) /\ F # <<>> /\ memory[t].open
      /\ q \in Seq(1..n) /\ Len(q) <= MaxQueue
  <2>1. t \in Tabs /\ t \notin Served
    BY BoundsAre DEF Tabs
  <2>2. F # <<>>
    OBVIOUS
  <2> QED
    BY <2>1, <2>2, TypedMemory DEF Ascending, ToSet
<1>1. /\ Write(q, log) /\ log' = log /\ sent' = sent
      /\ memory' = [memory EXCEPT ![t] = r]
      /\ faults' \in 0..MaxFaults /\ faults' > faults
  BY FaultIs DEF SdkAnswerFail, With
<1>2. queue' = q /\ evicted' = evicted
  BY <1>0, <1>1, WriteFits
<1>3. RemoveAt(F, i) \in Seq(Seq(1..n) \ {<<>>})
  BY <1>0, Removed
<1>4. m \in Memories(n) /\ m.open = memory[t].open /\ m.flushes = RemoveAt(F, i)
  <2> DEFINE mm == memory[t]
             f == RemoveAt(F, i)
  <2>1. n \in Nat /\ mm \in Memories(n) /\ f \in Copies(n)
    BY <1>0, <1>3 DEF Copies
  <2> HIDE DEF mm, f
  <2>2. With(mm, f) \in Memories(n) /\ With(mm, f).open = mm.open /\ With(mm, f).flushes = f
    BY <2>1, FlushesReplaced
  <2> QED
    BY <2>2 DEF mm, f
<1> HIDE DEF m
<1>5. r \in Memories(n) /\ r.open = m.open /\ r.flushes = m.flushes
  BY <1>0, <1>4, RetryMeans
<1> HIDE DEF r
<1>6. TypeOK' /\ memory'[t] = r /\ Others(t)
  <2>1. /\ t \in Served => Len(r.flushes) <= 1
        /\ queue' \in Seq(1..n) /\ Len(queue') <= MaxQueue /\ sent' \subseteq 1..n
    BY <1>0, <1>1, <1>2, StateIs
  <2>2. r.open
    BY <1>0, <1>4, <1>5
  <2> QED
    BY <1>0, <1>1, <1>2, <1>5, <2>1, <2>2, NothingMinted
<1>7. memory'[t].open /\ memory'[t].flushes = RemoveAt(F, i)
  BY <1>0, <1>4, <1>5, <1>6
<1> QED
  BY <1>0, <1>1, <1>2, <1>6, <1>7 DEF GivesUp

\* What is left of the flushes when the head of the i-th was delivered.
Left(F, i) == IF Len(F[i]) = 1 THEN RemoveAt(F, i) ELSE [F EXCEPT ![i] = Tail(F[i])]

LEMMA Replaced ==
  ASSUME NEW S, NEW F \in Seq(S), NEW i \in DOMAIN F, NEW x \in S
  PROVE  [F EXCEPT ![i] = x] \in Seq(S) /\ Len([F EXCEPT ![i] = x]) = Len(F)
<1> DEFINE G == [F EXCEPT ![i] = x]
<1>1. /\ Len(F) \in Nat /\ DOMAIN F = 1..Len(F) /\ G = [j \in 1..Len(F) |-> G[j]]
      /\ \A j \in 1..Len(F) : G[j] \in S
  OBVIOUS
<1> HIDE DEF G
<1>2. G \in Seq(S) /\ Len(G) = Len(F)
  BY <1>1, MadeSeq
<1> QED
  BY <1>2 DEF G

LEMMA LeftTyped ==
  ASSUME NEW n \in Nat, NEW F \in Seq(Seq(1..n) \ {<<>>}), NEW i \in DOMAIN F
  PROVE  /\ Left(F, i) \in Seq(Seq(1..n) \ {<<>>})
         /\ F[i] \in Seq(1..n) /\ F[i] # <<>> /\ Len(F[i]) \in Nat
         /\ Head(F[i]) \in 1..n /\ Tail(F[i]) \in Seq(1..n)
         /\ Len(Tail(F[i])) = Len(F[i]) - 1
         /\ (Tail(F[i]) = <<>> <=> Len(F[i]) = 1)
<1> DEFINE q == F[i]
<1>1. q \in Seq(1..n) /\ q # <<>>
  <2>1. F[i] \in Seq(1..n) \ {<<>>}
    OBVIOUS
  <2> QED
    BY <2>1
<1> HIDE DEF q
<1>2. /\ Len(q) \in Nat /\ Head(q) \in 1..n /\ Tail(q) \in Seq(1..n)
      /\ Len(Tail(q)) = Len(q) - 1 /\ (Tail(q) = <<>> <=> Len(q) = 1)
  <2>1. Len(q) \in Nat
    BY <1>1
  <2>2. /\ Head(q) \in 1..n /\ Tail(q) \in Seq(1..n)
        /\ Len(Tail(q)) = Len(q) - 1 /\ (Tail(q) = <<>> <=> Len(q) = 1)
    BY <1>1, TailOf, Zenon
  <2> QED
    BY <2>1, <2>2
<1>3. Left(F, i) \in Seq(Seq(1..n) \ {<<>>})
  <2>1. CASE Len(q) = 1
    <3>1. Left(F, i) = RemoveAt(F, i)
      BY <2>1 DEF Left, q
    <3> QED
      BY <3>1, Removed
  <2>2. CASE Len(q) # 1
    <3>1. Left(F, i) = [F EXCEPT ![i] = Tail(q)]
      BY <2>2 DEF Left, q
    <3> DEFINE x == Tail(q)
               S == Seq(1..n) \ {<<>>}
    <3>2. x \in S /\ F \in Seq(S)
      BY <1>2, <2>2
    <3> HIDE DEF x, S
    <3>3. [F EXCEPT ![i] = x] \in Seq(S)
      BY <3>2, Replaced
    <3> QED
      BY <3>1, <3>3 DEF x, S
  <2> QED
    BY <2>1, <2>2
<1> QED
  BY <1>1, <1>2, <1>3 DEF q

LEMMA SdkAnswerOkMeans ==
  ASSUME Bounds, TypeOK, Ascending, Observe, NEW t \in Sdk, NEW i \in DOMAIN memory[t].flushes,
         SdkAnswerOk(t, i)
  PROVE  TypeOK' /\ GoesOn(t, i)
<1> DEFINE n == Len(log)
           F == memory[t].flushes
           q == F[i]
           left == IF Len(q) = 1 THEN RemoveAt(F, i) ELSE [F EXCEPT ![i] = Tail(q)]
           m == With(memory[t], left)
           r == ResetRetry(m)
<1>0. /\ n \in Nat /\ memory[t] \in Memories(n) /\ t \in Tabs /\ t \notin Served
      /\ F \in Seq(Seq(1..n) \ {<<>>}) /\ F # <<>> /\ memory[t].open
      /\ q \in Seq(1..n) /\ q # <<>> /\ Len(q) <= MaxQueue
  <2>1. t \in Tabs /\ t \notin Served
    BY BoundsAre DEF Tabs
  <2>2. F # <<>>
    OBVIOUS
  <2> QED
    BY <2>1, <2>2, TypedMemory DEF Ascending, ToSet
<1>1. /\ Write(Tail(q), log) /\ log' = log /\ sent' = sent \cup {Head(q)} /\ faults' = faults
      /\ memory' = [memory EXCEPT ![t] = r]
  BY DEF SdkAnswerOk, With
<1>2. /\ Head(q) \in 1..n /\ Tail(q) \in Seq(1..n) /\ Len(Tail(q)) <= MaxQueue
      /\ left \in Seq(Seq(1..n) \ {<<>>})
  <2>1. /\ left \in Seq(Seq(1..n) \ {<<>>})
        /\ Len(q) \in Nat /\ Head(q) \in 1..n /\ Tail(q) \in Seq(1..n)
        /\ Len(Tail(q)) = Len(q) - 1
    <3> HIDE DEF F
    <3>1. i \in DOMAIN F
      BY DEF F
    <3> QED
      BY <1>0, <3>1, LeftTyped DEF Left
  <2> HIDE DEF q, left
  <2> QED
    BY <1>0, <2>1, BoundsAre
<1>3. queue' = Tail(q) /\ evicted' = evicted
  BY <1>0, <1>1, <1>2, WriteFits
<1>4. left \in Seq(Seq(1..n) \ {<<>>})
  BY <1>2
<1> HIDE DEF left
<1>5. m \in Memories(n) /\ m.open = memory[t].open /\ m.flushes = left
  <2> DEFINE mm == memory[t]
             f == left
  <2>1. n \in Nat /\ mm \in Memories(n) /\ f \in Copies(n)
    BY <1>0, <1>4 DEF Copies
  <2> HIDE DEF mm, f
  <2>2. With(mm, f) \in Memories(n) /\ With(mm, f).open = mm.open /\ With(mm, f).flushes = f
    BY <2>1, FlushesReplaced
  <2> QED
    BY <2>2 DEF mm, f
<1> HIDE DEF m
<1>6. r \in Memories(n) /\ r.open = m.open /\ r.flushes = m.flushes
  BY <1>0, <1>5, RetryMeans
<1> HIDE DEF r
<1>7. TypeOK' /\ memory'[t] = r /\ Others(t)
  <2>1. /\ t \in Served => Len(r.flushes) <= 1
        /\ queue' \in Seq(1..n) /\ Len(queue') <= MaxQueue /\ sent' \subseteq 1..n
        /\ faults' \in 0..MaxFaults
    BY <1>0, <1>1, <1>2, <1>3, StateIs
  <2>2. r.open
    BY <1>0, <1>5, <1>6
  <2> QED
    BY <1>0, <1>1, <1>3, <1>6, <2>1, <2>2, NothingMinted
<1>8. memory'[t].open /\ memory'[t].flushes = left
  BY <1>0, <1>5, <1>6, <1>7
<1> QED
  BY <1>0, <1>1, <1>3, <1>7, <1>8 DEF GoesOn, left

LEMMA ServedAnswerOkMeans ==
  ASSUME Bounds, TypeOK, Observe, NEW t \in Served, ServedAnswerOk(t)
  PROVE  TypeOK' /\ Drops(t)
<1> DEFINE n == Len(log)
           m == With(memory[t], <<>>)
           p == ResetRetry(m)
           r == ServedFlush(p, queue')
           e == memory[t].flushes[1][1]
           q == IF queue = <<>> THEN <<>> ELSE Tail(queue)
<1>0. /\ n \in Nat /\ memory[t] \in Memories(n) /\ t \in Tabs
      /\ memory[t].flushes # <<>> /\ memory[t].open /\ MaxQueue \in Nat
  BY TypedMemory, BoundsAre DEF ServedAnswerOk, Tabs
<1>1. /\ Write(q, log) /\ log' = log /\ sent' = sent \cup {e} /\ faults' = faults
      /\ memory' = [memory EXCEPT ![t] = r]
  BY DEF ServedAnswerOk, With
<1>2. q \in Seq(1..n) /\ Len(q) <= MaxQueue
  <2>1. queue \in Seq(1..n) /\ Len(queue) <= MaxQueue /\ Len(queue) \in Nat
    BY StateIs
  <2>2. CASE queue = <<>>
    BY <1>0, <2>1, <2>2
  <2>3. CASE queue # <<>>
    <3>1. Tail(queue) \in Seq(1..n) /\ Len(Tail(queue)) = Len(queue) - 1
      BY <1>0, <2>1, <2>3, TailOf
    <3> QED
      BY <1>0, <2>1, <2>3, <3>1
  <2> QED
    BY <2>2, <2>3
<1>3. queue' = q /\ evicted' = evicted
  BY <1>0, <1>1, <1>2, WriteFits
<1>4. e \in 1..n
  <2>1. 1 \in DOMAIN memory[t].flushes
    BY <1>0, TypedMemory
  <2>2. memory[t].flushes[1] \in Seq(1..n) /\ memory[t].flushes[1] # <<>>
    BY <1>0, <2>1, TypedMemory
  <2> QED
    BY <2>2
<1> HIDE DEF e, q
<1>5. m \in Memories(n) /\ m.open = memory[t].open /\ m.flushes = <<>>
  <2> DEFINE mm == memory[t]
             f == <<>>
  <2>1. n \in Nat /\ mm \in Memories(n) /\ f \in Copies(n)
    BY <1>0 DEF Copies
  <2> HIDE DEF mm, f
  <2>2. With(mm, f) \in Memories(n) /\ With(mm, f).open = mm.open /\ With(mm, f).flushes = f
    BY <2>1, FlushesReplaced
  <2> QED
    BY <2>2 DEF mm, f
<1> HIDE DEF m
<1>6. p \in Memories(n) /\ p.open = m.open /\ p.flushes = m.flushes
  BY <1>0, <1>5, RetryMeans
<1> HIDE DEF p
<1>7. /\ r \in Memories(n) /\ r.open = memory[t].open
      /\ r.flushes = Begun(t, <<>>, queue') /\ Len(r.flushes) <= 1
  <2>1. n \in Nat /\ p \in Memories(n) /\ queue' \in Seq(1..n)
    BY <1>0, <1>2, <1>3, <1>6
  <2>2. /\ r \in Memories(n) /\ r.open = p.open
        /\ r.flushes = IF p.flushes = <<>> /\ queue' # <<>> THEN << <<Head(queue')>> >>
                       ELSE p.flushes
    BY <2>1, ServedFlushMeans, Zenon
  <2> HIDE DEF r
  <2>3. r.flushes = IF queue' # <<>> THEN << <<Head(queue')>> >> ELSE <<>>
    BY <1>5, <1>6, <2>2
  <2>4. Len(<< <<Head(queue')>> >>) = 1 /\ Len(<<>>) = 0
    OBVIOUS
  <2>5. r.flushes = Begun(t, <<>>, queue')
    BY <2>3 DEF Begun
  <2>6. Len(r.flushes) <= 1
    <3>1. CASE queue' # <<>>
      <4>1. r.flushes = << <<Head(queue')>> >>
        BY <2>3, <3>1
      <4> QED
        BY <2>4, <4>1
    <3>2. CASE queue' = <<>>
      BY <2>3, <2>4, <3>2
    <3> QED
      BY <3>1, <3>2
  <2> QED
    BY <1>5, <1>6, <2>2, <2>5, <2>6
<1> HIDE DEF r
<1>8. TypeOK' /\ memory'[t] = r /\ Others(t)
  <2>1. /\ queue' \in Seq(1..n) /\ Len(queue') <= MaxQueue /\ sent' \subseteq 1..n
        /\ faults' \in 0..MaxFaults
    BY <1>0, <1>1, <1>2, <1>3, <1>4, StateIs
  <2> QED
    BY <1>0, <1>1, <1>3, <1>7, <2>1, NothingMinted
<1> QED
  BY <1>0, <1>1, <1>3, <1>7, <1>8 DEF Drops, e, q

-----------------------------------------------------------------------------
(* The copies under way after a step, and the events they carry.            *)

LEMMA BegunCopies ==
  ASSUME NEW S, NEW F \in Seq(S), NEW t, NEW q
  PROVE  /\ q = <<>> => Begun(t, F, q) = F
         /\ t \in Served /\ F # <<>> => Begun(t, F, q) = F
         /\ t \in Served /\ F = <<>> /\ q # <<>> => Begun(t, F, q) = << <<Head(q)>> >>
         /\ t \notin Served /\ q # <<>> =>
              /\ Begun(t, F, q) = Append(F, q)
              /\ ToSet(Append(F, q)) = ToSet(F) \cup {q}
              /\ DOMAIN Append(F, q) = 1..(Len(F) + 1) /\ Len(F) \in Nat
<1>1. /\ Len(F) \in Nat /\ DOMAIN F = 1..Len(F) /\ DOMAIN Append(F, q) = 1..(Len(F) + 1)
      /\ Append(F, q)[Len(F) + 1] = q
      /\ \A i \in 1..Len(F) : Append(F, q)[i] = F[i]
  OBVIOUS
<1> DEFINE G == Append(F, q)
<1>2. /\ DOMAIN G = 1..(Len(F) + 1) /\ G[Len(F) + 1] = q /\ \A i \in 1..Len(F) : G[i] = F[i]
  BY <1>1
<1> HIDE DEF G
<1>3. ToSet(G) = ToSet(F) \cup {q}
  <2>1. \A i \in 1..(Len(F) + 1) : i \in 1..Len(F) \/ i = Len(F) + 1
    BY <1>1
  <2>2. 1..Len(F) \subseteq 1..(Len(F) + 1) /\ Len(F) + 1 \in 1..(Len(F) + 1)
    BY <1>1
  <2>3. ToSet(G) = {G[i] : i \in 1..(Len(F) + 1)} /\ ToSet(F) = {F[i] : i \in 1..Len(F)}
    BY <1>1, <1>2 DEF ToSet
  <2> QED
    BY <1>2, <2>1, <2>2, <2>3
<1> QED
  BY <1>1, <1>3 DEF Begun, G

LEMMA RemovedCopies ==
  ASSUME NEW S, NEW F \in Seq(S), NEW i \in DOMAIN F
  PROVE  /\ ToSet(RemoveAt(F, i)) \subseteq ToSet(F)
         /\ ToSet(F) \subseteq ToSet(RemoveAt(F, i)) \cup {F[i]}
         /\ Len(F) = 1 => RemoveAt(F, i) = <<>>
<1> DEFINE G == RemoveAt(F, i)
<1>1. /\ Len(F) \in Nat /\ DOMAIN F = 1..Len(F) /\ DOMAIN G = 1..(Len(F) - 1)
      /\ G \in Seq(S) /\ Len(G) = Len(F) - 1
      /\ \A j \in 1..(Len(F) - 1) : G[j] = IF j < i THEN F[j] ELSE F[j + 1]
  BY Removed
<1> HIDE DEF G
<1>2. ASSUME NEW j \in 1..(Len(F) - 1) PROVE G[j] \in ToSet(F)
  <2>1. j \in DOMAIN F /\ j + 1 \in DOMAIN F
    BY <1>1
  <2> QED
    BY <1>1, <2>1 DEF ToSet
<1>3. ASSUME NEW k \in DOMAIN F, k # i PROVE \E j \in DOMAIN G : G[j] = F[k]
  <2>1. CASE k < i
    <3>1. k \in 1..(Len(F) - 1) /\ G[k] = F[k]
      BY <1>1, <2>1
    <3> QED
      BY <1>1, <3>1
  <2>2. CASE i < k
    <3>1. k - 1 \in 1..(Len(F) - 1) /\ ~ (k - 1 < i) /\ (k - 1) + 1 = k
      BY <1>1, <2>2
    <3> QED
      BY <1>1, <3>1
  <2> QED
    BY <1>1, <1>3, <2>1, <2>2
<1>4. ToSet(G) \subseteq ToSet(F)
  BY <1>1, <1>2 DEF ToSet
<1>5. ToSet(F) \subseteq ToSet(G) \cup {F[i]}
  BY <1>3 DEF ToSet
<1>6. Len(F) = 1 => G = <<>>
  BY <1>1
<1> QED
  BY <1>4, <1>5, <1>6 DEF G

LEMMA LeftCopies ==
  ASSUME NEW S, NEW F \in Seq(S), NEW i \in DOMAIN F
  PROVE  /\ Len(F[i]) = 1 => ToSet(Left(F, i)) \subseteq ToSet(F)
         /\ ToSet(Left(F, i)) \subseteq ToSet(F) \cup {Tail(F[i])}
         /\ ToSet(F) \subseteq ToSet(Left(F, i)) \cup {F[i]}
         /\ Len(F[i]) # 1 => Tail(F[i]) \in ToSet(Left(F, i))
         /\ Len(F) = 1 => Left(F, i) = IF Len(F[i]) = 1 THEN <<>> ELSE << Tail(F[i]) >>
<1>1. CASE Len(F[i]) = 1
  <2>1. Left(F, i) = RemoveAt(F, i)
    BY <1>1 DEF Left
  <2> QED
    BY <1>1, <2>1, RemovedCopies
<1>2. CASE Len(F[i]) # 1
  <2> DEFINE x == Tail(F[i])
             G == [F EXCEPT ![i] = x]
  <2>1. Left(F, i) = G
    BY <1>2 DEF Left
  <2> HIDE DEF x
  <2>2. DOMAIN G = DOMAIN F /\ G[i] = x /\ \A j \in DOMAIN F : j # i => G[j] = F[j]
    OBVIOUS
  <2>3. Len(F) = 1 => G = << x >>
    <3> SUFFICES ASSUME Len(F) = 1 PROVE G = << x >>
      OBVIOUS
    <3>1. DOMAIN F = {1} /\ i = 1
      OBVIOUS
    <3> QED
      BY <2>2, <3>1
  <2> HIDE DEF G
  <2>4. ToSet(G) \subseteq ToSet(F) \cup {x}
    BY <2>2 DEF ToSet
  <2>5. ToSet(F) \subseteq ToSet(G) \cup {F[i]}
    BY <2>2 DEF ToSet
  <2>6. x \in ToSet(G)
    BY <2>2 DEF ToSet
  <2> QED
    BY <1>2, <2>1, <2>3, <2>4, <2>5, <2>6 DEF x
<1> QED
  BY <1>1, <1>2

LEMMA CarriedIs ==
  ASSUME NEW m
  PROVE  \A e : e \in UNION {ToSet(f) : f \in UNION {ToSet(m[t].flushes) : t \in Tabs}} <=>
                \E t \in Tabs : \E f \in ToSet(m[t].flushes) : e \in ToSet(f)
OBVIOUS

\* What is carried changes with the copies of the one tab that takes the step.
LEMMA CarriedChange ==
  ASSUME NEW t \in Tabs, Others(t)
  PROVE  /\ \A e \in Carried : \/ e \in Carried'
                               \/ \E f \in ToSet(memory[t].flushes) \ ToSet(memory'[t].flushes) :
                                    e \in ToSet(f)
         /\ \A e \in Carried' : \/ e \in Carried
                                \/ \E f \in ToSet(memory'[t].flushes) \ ToSet(memory[t].flushes) :
                                     e \in ToSet(f)
         /\ \A f \in ToSet(memory[t].flushes) : ToSet(f) \subseteq Carried
         /\ \A f \in ToSet(memory'[t].flushes) : ToSet(f) \subseteq Carried'
<1>1. \A e : e \in Carried <=>
             \E u \in Tabs : \E f \in ToSet(memory[u].flushes) : e \in ToSet(f)
  BY CarriedIs DEF Carried
<1>2. \A e : e \in Carried' <=>
             \E u \in Tabs : \E f \in ToSet(memory'[u].flushes) : e \in ToSet(f)
  BY CarriedIs DEF Carried
<1>3. \A u \in Tabs : u # t => memory'[u].flushes = memory[u].flushes
  BY DEF Others
<1> QED
  BY <1>1, <1>2, <1>3

-----------------------------------------------------------------------------
(* The six kinds of step.                                                   *)

\* The two programs are not on the pages at once; a served pixel sends one event.
OneProgram ==
  /\ \A t \in Served, u \in Sdk : ~(memory[t].open /\ memory[u].open)
  /\ \A t \in Served : \A f \in ToSet(memory[t].flushes) : Len(f) = 1

Kinds(t) ==
  \/ SameProgram(t) /\ \E q : Emits(t, q)
  \/ Starts(t)
  \/ Stops(t)
  \/ t \in Sdk /\ \E i \in DOMAIN memory[t].flushes : GoesOn(t, i) \/ GivesUp(t, i)
  \/ t \in Served /\ Drops(t)

LEMMA OpenProgram ==
  ASSUME Bounds, OneProgram, NEW t \in Tabs, memory[t].open
  PROVE  SameProgram(t)
<1>1. ASSUME NEW u \in Tabs, memory[u].open PROVE u \in Served <=> t \in Served
  <2>1. (u \in Served \/ u \in Sdk) /\ (t \in Served \/ t \in Sdk)
    BY DEF Tabs
  <2>2. ~(u \in Served /\ t \in Sdk) /\ ~(t \in Served /\ u \in Sdk)
    BY <1>1 DEF OneProgram
  <2> QED
    BY <2>1, <2>2
<1> QED
  BY <1>1 DEF SameProgram

LEMMA StepKinds ==
  ASSUME Bounds, TypeOK, Ascending, OneProgram, NEW t \in Tabs, Step(t), Observe
  PROVE  TypeOK' /\ Kinds(t)
<1>1. CASE Load(t)
  BY <1>1, LoadMeans DEF Kinds
<1>2. ASSUME NEW c \in BOOLEAN, Emit(t, c) PROVE TypeOK' /\ Kinds(t)
  BY <1>2, EmitMeans, OpenProgram DEF Kinds
<1>3. CASE Trigger(t)
  BY <1>3, TriggerMeans DEF Kinds
<1>4. CASE RetryFires(t)
  BY <1>4, RetryFiresMeans DEF Kinds
<1>5. CASE Close(t)
  BY <1>5, CloseMeans DEF Kinds
<1>6. CASE t \in Served /\ ServedAnswerOk(t)
  BY <1>6, ServedAnswerOkMeans DEF Kinds
<1>7. CASE t \in Served /\ ServedAnswerFail(t)
  BY <1>7, ServedAnswerFailMeans DEF Kinds
<1>8. ASSUME t \in Sdk, NEW i \in DOMAIN memory[t].flushes, SdkAnswerOk(t, i)
      PROVE  TypeOK' /\ Kinds(t)
  <2>1. TypeOK' /\ GoesOn(t, i)
    BY <1>8, SdkAnswerOkMeans
  <2> QED
    BY <1>8, <2>1 DEF Kinds
<1>9. ASSUME t \in Sdk, NEW i \in DOMAIN memory[t].flushes, SdkAnswerFail(t, i)
      PROVE  TypeOK' /\ Kinds(t)
  <2>1. TypeOK' /\ GivesUp(t, i)
    BY <1>9, SdkAnswerFailMeans
  <2> QED
    BY <1>9, <2>1 DEF Kinds
<1> QED
  BY <1>1, <1>2, <1>3, <1>4, <1>5, <1>6, <1>7, <1>8, <1>9 DEF Step, AnswerOk, AnswerFail

\* A copy that a step makes is of the queue it leaves, or of its head.
NewCopies(t) ==
  \A f \in ToSet(memory'[t].flushes) :
    \/ f \in ToSet(memory[t].flushes)
    \/ t \in Sdk /\ f = queue'
    \/ t \in Served /\ queue' # <<>> /\ f = <<Head(queue')>>

LEMMA BegunAfter ==
  ASSUME Bounds, NEW S, NEW F \in Seq(S), NEW t \in Tabs, NEW q,
         NEW f \in ToSet(Begun(t, F, q))
  PROVE  \/ f \in ToSet(F)
         \/ t \in Sdk /\ f = q
         \/ t \in Served /\ q # <<>> /\ f = <<Head(q)>>
<1>1. t \in Served \/ (t \in Sdk /\ t \notin Served)
  BY BoundsAre DEF Tabs
<1>2. CASE q = <<>>
  BY <1>2, BegunCopies
<1>3. CASE q # <<>> /\ t \in Served /\ F # <<>>
  BY <1>3, BegunCopies
<1>4. CASE q # <<>> /\ t \in Served /\ F = <<>>
  <2>1. Begun(t, F, q) = << <<Head(q)>> >>
    BY <1>4, BegunCopies
  <2>2. \A x : x \in ToSet(<< <<Head(q)>> >>) => x = <<Head(q)>>
    BY DEF ToSet
  <2> QED
    BY <1>4, <2>1, <2>2
<1>5. CASE q # <<>> /\ t \in Sdk /\ t \notin Served
  <2>1. Begun(t, F, q) = Append(F, q) /\ ToSet(Append(F, q)) = ToSet(F) \cup {q}
    BY <1>5, BegunCopies, Zenon
  <2> QED
    BY <1>5, <2>1
<1> QED
  BY <1>1, <1>2, <1>3, <1>4, <1>5

LEMMA CopiesMade ==
  ASSUME Bounds, TypeOK, NEW t \in Tabs, Kinds(t)
  PROVE  NewCopies(t) /\ Others(t)
<1> DEFINE F == memory[t].flushes
<1>1. F \in Seq(Seq(1..Len(log)) \ {<<>>})
  BY TypedMemory
<1>2. ASSUME NEW q, Emits(t, q) PROVE NewCopies(t) /\ Others(t)
  <2>1. memory'[t].flushes = Begun(t, F, queue') /\ Others(t)
    BY <1>2 DEF Emits
  <2> HIDE DEF F
  <2>2. \A f \in ToSet(memory'[t].flushes) :
           \/ f \in ToSet(F)
           \/ t \in Sdk /\ f = queue'
           \/ t \in Served /\ queue' # <<>> /\ f = <<Head(queue')>>
    BY <1>1, <2>1, BegunAfter, Zenon
  <2> QED
    BY <2>1, <2>2 DEF NewCopies, F
<1>3. CASE Starts(t)
  <2>1. memory'[t].flushes = Begun(t, F, queue') /\ Others(t)
    BY <1>3 DEF Starts
  <2> HIDE DEF F
  <2>2. \A f \in ToSet(memory'[t].flushes) :
           \/ f \in ToSet(F)
           \/ t \in Sdk /\ f = queue'
           \/ t \in Served /\ queue' # <<>> /\ f = <<Head(queue')>>
    BY <1>1, <2>1, BegunAfter, Zenon
  <2> QED
    BY <2>1, <2>2 DEF NewCopies, F
<1>4. CASE Stops(t)
  <2>1. memory'[t].flushes = <<>> /\ Others(t)
    BY <1>4 DEF Stops
  <2>2. ToSet(<<>>) = {}
    BY DEF ToSet
  <2> QED
    BY <2>1, <2>2 DEF NewCopies
<1>5. ASSUME t \in Sdk, NEW i \in DOMAIN memory[t].flushes, GoesOn(t, i)
      PROVE  NewCopies(t) /\ Others(t)
  <2>1. memory'[t].flushes = Left(F, i) /\ queue' = Tail(F[i]) /\ Others(t)
    BY <1>5 DEF GoesOn, Left
  <2>2. i \in DOMAIN F
    BY <1>5
  <2> HIDE DEF F
  <2>3. ToSet(Left(F, i)) \subseteq ToSet(F) \cup {Tail(F[i])}
    BY <1>1, <2>2, LeftCopies, Zenon
  <2> QED
    BY <1>5, <2>1, <2>3 DEF NewCopies, F
<1>6. ASSUME t \in Sdk, NEW i \in DOMAIN memory[t].flushes, GivesUp(t, i)
      PROVE  NewCopies(t) /\ Others(t)
  <2>1. memory'[t].flushes = RemoveAt(F, i) /\ Others(t)
    BY <1>6 DEF GivesUp
  <2>2. i \in DOMAIN F
    BY <1>6
  <2> HIDE DEF F
  <2>3. ToSet(RemoveAt(F, i)) \subseteq ToSet(F)
    BY <1>1, <2>2, RemovedCopies, Zenon
  <2> QED
    BY <2>1, <2>3 DEF NewCopies, F
<1>7. CASE t \in Served /\ Drops(t)
  <2>1. memory'[t].flushes = Begun(t, <<>>, queue') /\ Others(t)
    BY <1>7 DEF Drops
  <2>2. <<>> \in Seq({}) /\ ToSet(<<>>) = {}
    BY DEF ToSet
  <2>3. \A f \in ToSet(memory'[t].flushes) :
           \/ f \in ToSet(<<>>)
           \/ t \in Sdk /\ f = queue'
           \/ t \in Served /\ queue' # <<>> /\ f = <<Head(queue')>>
    BY <2>1, <2>2, BegunAfter, Zenon
  <2> QED
    BY <2>1, <2>2, <2>3 DEF NewCopies
<1> QED
  BY <1>2, <1>3, <1>4, <1>5, <1>6, <1>7 DEF Kinds

LEMMA AscendingKept ==
  ASSUME Bounds, TypeOK, TypeOK', Ascending, NEW t \in Tabs, Kinds(t)
  PROVE  Ascending'
<1>1. NewCopies(t) /\ Others(t)
  BY CopiesMade
<1>2. queue' \in Seq(1..Len(log')) /\ Len(queue') <= MaxQueue
  BY DEF TypeOK
<1>3. Increasing(queue')
  <2>1. ASSUME NEW q, Emits(t, q) PROVE Increasing(queue')
    <3>1. /\ q \in Seq(1..Len(log')) /\ queue' = EvictToCap(q, log') /\ Increasing(q)
          /\ Len(log') \in Nat
      BY <2>1, TypedMemory DEF Emits, Ascending, TypeOK
    <3>2. Keeps(EvictToCap(q, log'), q, log')
      BY <3>1, EvictKeeps, Zenon
    <3> QED
      BY <3>1, <3>2 DEF Keeps
  <2>2. CASE Starts(t) \/ Stops(t)
    BY <2>2 DEF Starts, Stops, Ascending
  <2>3. ASSUME NEW i \in DOMAIN memory[t].flushes, GoesOn(t, i) \/ GivesUp(t, i)
        PROVE  Increasing(queue')
    <3> DEFINE f == memory[t].flushes[i]
    <3>1. f \in ToSet(memory[t].flushes)
      BY DEF ToSet
    <3>2. Increasing(f) /\ f \in Seq(1..Len(log)) /\ f # <<>> /\ Len(log) \in Nat
      BY <3>1, TypedMemory DEF Ascending
    <3>3. queue' = Tail(f) \/ queue' = f
      BY <2>3 DEF GoesOn, GivesUp
    <3> HIDE DEF f
    <3>4. Increasing(Tail(f))
      BY <3>2, TailOf, Zenon
    <3> QED
      BY <3>2, <3>3, <3>4
  <2>4. CASE Drops(t)
    <3>1. CASE queue = <<>>
      BY <2>4, <3>1 DEF Drops, Ascending
    <3>2. CASE queue # <<>>
      <4>1. Increasing(Tail(queue))
        BY <3>2, TailOf, StateIs DEF Ascending
      <4> QED
        BY <2>4, <3>2, <4>1 DEF Drops
    <3> QED
      BY <3>1, <3>2
  <2> QED
    BY <2>1, <2>2, <2>3, <2>4 DEF Kinds
<1>6. Increasing(<<Head(queue')>>) /\ Len(<<Head(queue')>>) <= MaxQueue
  BY BoundsAre DEF Increasing
<1>7. ASSUME NEW f \in ToSet(memory'[t].flushes) PROVE Increasing(f) /\ Len(f) <= MaxQueue
  <2>1. \/ f \in ToSet(memory[t].flushes) \/ f = queue' \/ f = <<Head(queue')>>
    BY <1>1, <1>7 DEF NewCopies
  <2> QED
    BY <1>2, <1>3, <1>6, <2>1 DEF Ascending
<1>8. ASSUME NEW u \in Tabs, NEW f \in ToSet(memory'[u].flushes)
      PROVE  Increasing(f) /\ Len(f) <= MaxQueue
  <2>1. CASE u = t
    BY <1>7, <1>8, <2>1
  <2>2. CASE u # t
    BY <1>1, <1>8, <2>2 DEF Others, Ascending
  <2> QED
    BY <2>1, <2>2
<1> QED
  BY <1>3, <1>8 DEF Ascending

\* Every step is of the program that is on the pages.
LEMMA StepProgram ==
  ASSUME Bounds, OneProgram, NEW t \in Tabs, Kinds(t)
  PROVE  SameProgram(t)
<1>1. SameProgram(t) \/ memory[t].open
  BY DEF Kinds, Starts, Stops, GoesOn, GivesUp, Drops
<1> QED
  BY <1>1, OpenProgram

LEMMA OneProgramKept ==
  ASSUME Bounds, TypeOK, OneProgram, NEW t \in Tabs, Kinds(t)
  PROVE  OneProgram'
<1>1. NewCopies(t) /\ Others(t) /\ SameProgram(t)
  BY CopiesMade, StepProgram
<1>2. Served \cap Sdk = {}
  BY BoundsAre
<1>3. ASSUME NEW u \in Served, NEW v \in Sdk, memory'[u].open, memory'[v].open
      PROVE  FALSE
  <2>1. u \in Tabs /\ v \in Tabs /\ u # v /\ u \notin Sdk /\ v \notin Served
    BY <1>2 DEF Tabs
  <2>2. CASE u # t /\ v # t
    BY <1>1, <1>3, <2>1, <2>2 DEF Others, OneProgram
  <2>3. CASE u = t
    BY <1>1, <1>3, <2>1, <2>3 DEF Others, SameProgram
  <2>4. CASE v = t
    BY <1>1, <1>3, <2>1, <2>4 DEF Others, SameProgram
  <2> QED
    BY <2>2, <2>3, <2>4
<1>4. ASSUME NEW u \in Served, NEW f \in ToSet(memory'[u].flushes) PROVE Len(f) = 1
  <2>1. u \in Tabs /\ u \notin Sdk
    BY <1>2 DEF Tabs
  <2>2. f \in ToSet(memory[u].flushes) \/ f = <<Head(queue')>>
    BY <1>1, <1>4, <2>1 DEF Others, NewCopies
  <2> QED
    BY <2>2 DEF OneProgram
<1> QED
  BY <1>3, <1>4 DEF OneProgram

-----------------------------------------------------------------------------
(* What the history of a behaviour records.                                 *)

\* At most one flush is under way.
Single(m) ==
  \A u \in Tabs : m[u].flushes # <<>> =>
     Len(m[u].flushes) = 1 /\ \A v \in Tabs : v # u => m[v].flushes = <<>>

PairsOf(m) == UNION {{t} \X (DOMAIN m[t].flushes) : t \in Tabs}

LEMMA SingleIs ==
  ASSUME NEW m, NEW S, \A u \in Tabs : m[u].flushes \in Seq(S)
  PROVE  (\E f, g \in PairsOf(m) : f # g) <=> ~Single(m)
<1>1. \A f : f \in PairsOf(m) <=> \E u \in Tabs : \E i \in DOMAIN m[u].flushes : f = <<u, i>>
  BY DEF PairsOf
<1>2. \A u \in Tabs : /\ Len(m[u].flushes) \in Nat
                      /\ DOMAIN m[u].flushes = 1..Len(m[u].flushes)
                      /\ m[u].flushes = <<>> <=> Len(m[u].flushes) = 0
  OBVIOUS
<1>3. ASSUME Single(m), NEW f \in PairsOf(m), NEW g \in PairsOf(m) PROVE f = g
  <2>1. PICK u \in Tabs : \E i \in DOMAIN m[u].flushes : f = <<u, i>>
    BY <1>1
  <2>a. PICK i \in DOMAIN m[u].flushes : f = <<u, i>>
    BY <2>1
  <2>2. PICK v \in Tabs : \E j \in DOMAIN m[v].flushes : g = <<v, j>>
    BY <1>1
  <2>b. PICK j \in DOMAIN m[v].flushes : g = <<v, j>>
    BY <2>2
  <2>3. m[u].flushes # <<>> /\ m[v].flushes # <<>>
    BY <1>2
  <2>4. u = v /\ Len(m[u].flushes) = 1
    BY <1>3, <2>3 DEF Single
  <2>5. i = 1 /\ j = 1
    BY <1>2, <2>4
  <2> QED
    BY <2>a, <2>b, <2>4, <2>5
<1>4. ASSUME ~Single(m) PROVE \E f, g \in PairsOf(m) : f # g
  <2>1. PICK u \in Tabs : /\ m[u].flushes # <<>>
                          /\ \/ Len(m[u].flushes) # 1
                             \/ \E v \in Tabs : v # u /\ m[v].flushes # <<>>
    BY <1>4 DEF Single
  <2>2. 1 \in DOMAIN m[u].flushes
    BY <1>2, <2>1
  <2>3. <<u, 1>> \in PairsOf(m)
    BY <1>1, <2>2
  <2>4. CASE Len(m[u].flushes) # 1
    <3> DEFINE n == Len(m[u].flushes)
    <3>a. n \in Nat /\ DOMAIN m[u].flushes = 1..n /\ n # 0 /\ n # 1
      BY <1>2, <2>1, <2>4
    <3> HIDE DEF n
    <3>1. 2 \in DOMAIN m[u].flushes
      BY <3>a
    <3>2. <<u, 2>> \in PairsOf(m)
      BY <1>1, <3>1
    <3>3. <<u, 1>> # <<u, 2>>
      OBVIOUS
    <3> QED
      BY <2>3, <3>2, <3>3
  <2>5. ASSUME NEW v \in Tabs, v # u, m[v].flushes # <<>>
        PROVE  \E f, g \in PairsOf(m) : f # g
    <3>1. 1 \in DOMAIN m[v].flushes
      BY <1>2, <2>5
    <3>2. <<v, 1>> \in PairsOf(m)
      BY <1>1, <3>1
    <3>3. <<u, 1>> # <<v, 1>>
      BY <2>5
    <3> QED
      BY <2>3, <3>2, <3>3
  <2> QED
    BY <2>1, <2>4, <2>5
<1> QED
  BY <1>3, <1>4

Regular == why \subseteq {"overlap", "eviction"}
ServedBusy(m) == \E t \in Served : m[t].flushes # <<>>

LEMMA ObserveMeans ==
  ASSUME Bounds, TypeOK', Observe
  PROVE  /\ why \subseteq why'
         /\ "overlap" \in why' => "overlap" \in why \/ ~Single(memory')
         /\ ~Single(memory') => "overlap" \in why'
         /\ ~Single(memory') /\ ServedBusy(memory') => "tabs" \in why'
         /\ evicted' # evicted /\ (\E t \in Tabs : memory[t].flushes # <<>>) =>
              "eviction" \in why'
         /\ faults' > faults /\ "overlap" \in why => "stale" \in why'
<1>1. memory' \in [Tabs -> Memories(Len(log'))]
  BY DEF TypeOK, Memory, Memories
<1> DEFINE S == Seq(1..Len(log')) \ {<<>>}
<1>2. \A u \in Tabs : memory'[u].flushes \in Seq(S)
  BY <1>1 DEF Memories
<1>3. Flushes' = PairsOf(memory')
  BY DEF Flushes, PairsOf
<1> HIDE DEF S
<1>4. Overlapping' <=> ~Single(memory')
  <2>1. (\E f, g \in PairsOf(memory') : f # g) <=> ~Single(memory')
    BY <1>2, SingleIs, Zenon
  <2> QED
    BY <1>3, <2>1 DEF Overlapping
<1>5. ServedBusy(memory') => \E f \in Flushes' : f[1] \in Served
  <2> SUFFICES ASSUME NEW u \in Served, memory'[u].flushes # <<>>
               PROVE  \E f \in Flushes' : f[1] \in Served
    BY DEF ServedBusy
  <2>1. u \in Tabs /\ 1 \in DOMAIN memory'[u].flushes
    BY <1>2 DEF Tabs
  <2>2. <<u, 1>> \in Flushes' /\ <<u, 1>>[1] = u
    BY <1>3, <2>1 DEF PairsOf
  <2> QED
    BY <2>2
<1>6. /\ "overlap" \in {"overlap", "tabs", "eviction", "stale"}
      /\ "tabs" \in {"overlap", "tabs", "eviction", "stale"}
      /\ "eviction" \in {"overlap", "tabs", "eviction", "stale"}
      /\ "stale" \in {"overlap", "tabs", "eviction", "stale"}
  OBVIOUS
<1>7. "overlap" \in why' <=> "overlap" \in why \/ Overlapping'
  BY DEF Observe
<1>8. "tabs" \in why' <=> "tabs" \in why \/ (Overlapping' /\ \E f \in Flushes' : f[1] \in Served)
  BY DEF Observe
<1>9. "eviction" \in why' <=>
        "eviction" \in why \/ (evicted' # evicted /\ \E t \in Tabs : Busy(t))
  BY DEF Observe
<1>10. "stale" \in why' <=> "stale" \in why \/ (faults' > faults /\ "overlap" \in why)
  BY DEF Observe
<1>11. why \subseteq why'
  BY DEF Observe
<1> QED
  BY <1>4, <1>5, <1>7, <1>8, <1>9, <1>10, <1>11 DEF Busy

-----------------------------------------------------------------------------
(* The invariant.                                                           *)

\* Flushes that overlap are on record, and so are those of a served pixel.
Seen ==
  /\ "overlap" \notin why => Single(memory)
  /\ "tabs" \notin why => ~ServedBusy(memory) \/ Single(memory)

\* While SDK flushes that have overlapped cost nothing, an SDK tab is open.
SdkStays ==
  "overlap" \in why /\ "tabs" \notin why /\ "stale" \notin why => \E u \in Sdk : memory[u].open

\* A served pixel sends the head of the queue, or an event evicted meanwhile.
AtHead(e, q, gone) ==
  \/ q # <<>> /\ e = Head(q)
  \/ e \in gone /\ \A d \in ToSet(q) : e < d

InStep ==
  /\ \A u \in Sdk : memory[u].flushes # <<>> => memory[u].flushes = <<queue>>
  /\ \A u \in Served : memory[u].flushes # <<>> => AtHead(memory[u].flushes[1][1], queue, evicted)
  /\ \A d \in sent, e \in Kept : d < e
  /\ \A e \in evicted : e \notin ToSet(queue)

\* One flush at a time is in step with storage.
Alone == Regular /\ "overlap" \notin why => InStep

\* SDK flushes that overlap carry all that storage has.
Over == Regular /\ "overlap" \in why => ToSet(queue) \subseteq Carried

Counted == Regular => Cardinality(Lost) <= Cardinality(evicted \cap sent)

\* Nothing that was evicted is still sent, unless it was on its way.
Unsent == why \subseteq {"overlap"} => \A e \in evicted : e \notin sent \cup Kept

PixelInv ==
  /\ TypeOK /\ Ascending /\ OneProgram /\ Seen /\ SdkStays
  /\ Alone /\ Over /\ Counted /\ Unsent

LEMMA RegularWas ==
  ASSUME Bounds, TypeOK', Observe, Regular'
  PROVE  Regular /\ "tabs" \notin why' /\ "stale" \notin why' /\ "tabs" \notin why /\ "stale" \notin why
<1>1. why \subseteq why'
  BY ObserveMeans
<1> QED
  BY <1>1 DEF Regular

LEMMA SeenKept ==
  ASSUME Bounds, TypeOK', Observe
  PROVE  Seen'
BY ObserveMeans DEF Seen

LEMMA SdkStaysKept ==
  ASSUME Bounds, TypeOK', Observe, SdkStays, NEW t \in Tabs, Kinds(t), Others(t)
  PROVE  SdkStays'
<1>1. SUFFICES ASSUME "overlap" \in why', "tabs" \notin why', "stale" \notin why'
               PROVE  \E u \in Sdk : memory'[u].open
  BY DEF SdkStays
<1>2. CASE "overlap" \in why
  <2>1. "tabs" \notin why /\ "stale" \notin why /\ ~ (faults' > faults)
    BY <1>1, <1>2, ObserveMeans
  <2>2. PICK u \in Sdk : memory[u].open
    BY <1>2, <2>1 DEF SdkStays
  <2>3. memory'[t].open
    BY <2>1 DEF Kinds, Emits, Starts, Stops, GoesOn, GivesUp, Drops
  <2>4. u \in Tabs
    BY DEF Tabs
  <2> QED
    BY <2>2, <2>3, <2>4 DEF Others
<1>3. CASE "overlap" \notin why
  <2>1. ~Single(memory') /\ ~ServedBusy(memory')
    BY <1>1, <1>3, ObserveMeans
  <2>2. PICK u \in Tabs : memory'[u].flushes # <<>>
    BY <2>1 DEF Single
  <2>3. u \in Sdk
    BY <2>1, <2>2 DEF ServedBusy, Tabs
  <2>4. memory'[u].open
    <3>1. ~memory'[u].open => memory'[u] = Fresh
      BY DEF TypeOK
    <3> QED
      BY <2>2, <3>1 DEF Fresh
  <2> QED
    BY <2>3, <2>4
<1> QED
  BY <1>2, <1>3

-----------------------------------------------------------------------------
(* What is kept after a step.                                               *)

\* An emission: the new events, what stays of the queue, what is evicted.
Minted(t) ==
  /\ Len(log) < Len(log') /\ \A e \in 1..Len(log) : log'[e] = log[e]
  /\ queue' # <<>> /\ memory'[t].flushes # <<>>
  /\ memory'[t].flushes = Begun(t, memory[t].flushes, queue')
  /\ \A e \in ToSet(queue') : e \in ToSet(queue) \/ e \in (Len(log) + 1)..Len(log')
  /\ \A e \in ToSet(queue) : e \in ToSet(queue') \/ e \in evicted'
  /\ \A e \in (Len(log) + 1)..Len(log') : e \in ToSet(queue') \/ e \in evicted'
  /\ evicted \subseteq evicted'
  /\ \A e \in evicted' \ evicted :
       /\ e \notin ToSet(queue')
       /\ e \in ToSet(queue) \/ e \in (Len(log) + 1)..Len(log')
  /\ Others(t) /\ sent' = sent /\ faults' = faults

LEMMA BegunGrows ==
  ASSUME NEW S, NEW F \in Seq(S), NEW t, NEW q
  PROVE  /\ ToSet(F) \subseteq ToSet(Begun(t, F, q))
         /\ q # <<>> => Begun(t, F, q) # <<>>
<1>1. CASE q = <<>>
  BY <1>1, BegunCopies
<1>2. CASE q # <<>> /\ t \in Served /\ F # <<>>
  BY <1>2, BegunCopies
<1>3. CASE q # <<>> /\ t \in Served /\ F = <<>>
  <2>1. Begun(t, F, q) = << <<Head(q)>> >>
    BY <1>3, BegunCopies
  <2>2. ToSet(<<>>) = {} /\ << <<Head(q)>> >> # <<>>
    BY DEF ToSet
  <2> QED
    BY <1>3, <2>1, <2>2
<1>4. CASE q # <<>> /\ t \notin Served
  <2>1. /\ Begun(t, F, q) = Append(F, q) /\ ToSet(Append(F, q)) = ToSet(F) \cup {q}
    BY <1>4, BegunCopies, Zenon
  <2>2. ToSet(<<>>) = {} /\ q \in ToSet(Append(F, q))
    BY <2>1 DEF ToSet
  <2>3. Append(F, q) # <<>>
    BY <2>2
  <2> QED
    BY <2>1, <2>3
<1> QED
  BY <1>1, <1>2, <1>3, <1>4

LEMMA EmitsMeans ==
  ASSUME Bounds, TypeOK, TypeOK', NEW t \in Tabs, NEW q, Emits(t, q)
  PROVE  Minted(t)
<1>1. /\ q \in Seq(1..Len(log')) /\ q # <<>> /\ Len(log') \in Nat
      /\ \A e : e \in ToSet(q) <=> e \in ToSet(queue) \/ e \in (Len(log) + 1)..Len(log')
      /\ queue' = EvictToCap(q, log')
      /\ evicted' = evicted \cup (ToSet(q) \ ToSet(queue'))
  BY DEF Emits, TypeOK
<1>2. Keeps(queue', q, log')
  <2>1. Keeps(EvictToCap(q, log'), q, log')
    BY <1>1, EvictKeeps, Zenon
  <2> QED
    BY <1>1, <2>1
<1>3. Len(queue') = IF Len(q) <= MaxQueue THEN Len(q) ELSE MaxQueue
  BY <1>2 DEF Keeps
<1>4. queue' # <<>>
  <2>1. Len(q) \in Nat /\ Len(q) # 0
    BY <1>1
  <2> QED
    BY <1>3, <2>1, BoundsAre
<1>5. memory'[t].flushes # <<>>
  <2>1. memory[t].flushes \in Seq(Seq(1..Len(log)) \ {<<>>})
    BY TypedMemory
  <2>2. Begun(t, memory[t].flushes, queue') # <<>>
    BY <1>4, <2>1, BegunGrows
  <2> QED
    BY <2>2 DEF Emits
<1>6. ToSet(queue') \subseteq ToSet(q)
  BY <1>2 DEF Keeps
<1>7. /\ Len(log) < Len(log') /\ \A e \in 1..Len(log) : log'[e] = log[e]
      /\ memory'[t].flushes = Begun(t, memory[t].flushes, queue')
      /\ Others(t) /\ sent' = sent /\ faults' = faults
  BY DEF Emits
<1> QED
  BY <1>1, <1>4, <1>5, <1>6, <1>7 DEF Minted

LEMMA KeptIs ==
  /\ \A e : e \in Kept <=> e \in ToSet(queue) \/ e \in Carried
  /\ \A e : e \in Kept' <=> e \in ToSet(queue') \/ e \in Carried'
BY DEF Kept

\* What is kept was kept, or is in storage.
LEMMA KeptChange ==
  ASSUME Bounds, TypeOK, TypeOK', NEW t \in Tabs, NewCopies(t), Others(t)
  PROVE  \A e \in Kept' : e \in Kept \/ e \in ToSet(queue')
<1>1. SUFFICES ASSUME NEW e \in Carried' PROVE e \in Carried \/ e \in ToSet(queue')
  BY KeptIs
<1>2. \/ e \in Carried
      \/ \E f \in ToSet(memory'[t].flushes) \ ToSet(memory[t].flushes) : e \in ToSet(f)
  BY CarriedChange
<1>3. ASSUME NEW f \in ToSet(memory'[t].flushes) \ ToSet(memory[t].flushes), e \in ToSet(f)
      PROVE  e \in ToSet(queue')
  <2>1. f = queue' \/ (queue' # <<>> /\ f = <<Head(queue')>>)
    BY <1>3 DEF NewCopies
  <2>2. CASE f = queue'
    BY <1>3, <2>2
  <2>3. CASE queue' # <<>> /\ f = <<Head(queue')>>
    <3>1. e = Head(queue')
      BY <1>3, <2>3 DEF ToSet
    <3>2. queue' \in Seq(1..Len(log')) /\ Len(log') \in Nat
      BY DEF TypeOK
    <3>3. Head(queue') \in ToSet(queue')
      BY <2>3, <3>2, TailOf
    <3> QED
      BY <3>1, <3>3
  <2> QED
    BY <2>1, <2>2, <2>3
<1> QED
  BY <1>2, <1>3

-----------------------------------------------------------------------------
(* One flush at a time stays in step.                                       *)

LEMMA HeadLeast ==
  ASSUME NEW N \in Nat, NEW q \in Seq(1..N), q # <<>>, Increasing(q)
  PROVE  /\ Head(q) \in ToSet(q) /\ Head(q) \in 1..N
         /\ \A e \in ToSet(q) : e = Head(q) \/ Head(q) < e
         /\ \A e : e \in ToSet(q) <=> e = Head(q) \/ e \in ToSet(Tail(q))
         /\ \A e \in ToSet(Tail(q)) : Head(q) < e
BY TailOf

LEMMA Numbered ==
  ASSUME TypeOK
  PROVE  /\ \A e \in ToSet(queue) : e \in 1..Len(log)
         /\ \A e \in Kept : e \in 1..Len(log)
         /\ \A e \in sent \cup evicted : e \in 1..Len(log)
         /\ Len(log) \in Nat
<1>1. \A e \in ToSet(queue) : e \in 1..Len(log)
  BY SetOf, StateIs
<1>2. ASSUME NEW e \in Carried PROVE e \in 1..Len(log)
  <2>1. PICK u \in Tabs : \E f \in ToSet(memory[u].flushes) : e \in ToSet(f)
    BY <1>2, CarriedIs DEF Carried
  <2>2. PICK f \in ToSet(memory[u].flushes) : e \in ToSet(f)
    BY <2>1
  <2>3. memory[u].flushes \in Seq(Seq(1..Len(log)) \ {<<>>})
    BY TypedMemory
  <2>4. f \in Seq(1..Len(log))
    BY <2>3, SetOf
  <2> QED
    BY <2>2, <2>4, SetOf
<1> QED
  BY <1>1, <1>2, KeptIs, StateIs

\* A copy of one event.
LEMMA OneOf ==
  ASSUME NEW x
  PROVE  << <<x>> >>[1][1] = x /\ <<x>>[1] = x /\ Len(<<x>>) = 1 /\ Head(<<x>>) = x
OBVIOUS

LEMMA InStepMinted ==
  ASSUME Bounds, TypeOK, TypeOK', Ascending, Ascending', InStep, Single(memory'),
         NEW t \in Tabs, Minted(t), NewCopies(t)
  PROVE  InStep'
<1> DEFINE N == Len(log')
<1>1. /\ queue \in Seq(1..Len(log)) /\ queue' \in Seq(1..N) /\ N \in Nat
      /\ Increasing(queue) /\ Increasing(queue') /\ Len(log) \in Nat /\ Len(log) < N
      /\ queue' # <<>>
  BY StateIs DEF TypeOK, Ascending, Minted
<1> HIDE DEF N
<1>2. \A u \in Tabs : u # t => memory'[u].flushes = <<>> /\ memory[u].flushes = <<>>
  BY DEF Single, Minted, Others
<1>3. /\ Head(queue') \in ToSet(queue')
      /\ \A e \in ToSet(queue') : e = Head(queue') \/ Head(queue') < e
  BY <1>1, HeadLeast, Zenon
<1>4. /\ \A e \in ToSet(queue) : e \in 1..Len(log)
      /\ \A e \in sent \cup evicted : e \in 1..Len(log)
  BY Numbered
<1>5. \A e \in ToSet(queue') : e \in ToSet(queue) \/ e \in (Len(log) + 1)..Len(log')
  BY DEF Minted
<1>6. ASSUME t \in Sdk PROVE memory'[t].flushes = <<queue'>>
  <2>1. t \notin Served
    BY <1>6, BoundsAre
  <2> DEFINE F == memory[t].flushes
  <2>2. F \in Seq(Seq(1..Len(log)) \ {<<>>})
    BY TypedMemory
  <2>3. memory'[t].flushes = Begun(t, F, queue') /\ Len(memory'[t].flushes) = 1
    BY DEF Minted, Single
  <2> HIDE DEF F
  <2>4. Begun(t, F, queue') = Append(F, queue')
    BY <1>1, <2>1, <2>2, BegunCopies, Zenon
  <2>5. Len(Append(F, queue')) = Len(F) + 1 /\ Len(F) \in Nat
    BY <2>2
  <2>6. F = <<>>
    BY <2>2, <2>3, <2>4, <2>5
  <2> QED
    BY <2>3, <2>4, <2>6
<1>7. ASSUME t \in Served PROVE AtHead(memory'[t].flushes[1][1], queue', evicted')
  <2> DEFINE F == memory[t].flushes
  <2>1. F \in Seq(Seq(1..Len(log)) \ {<<>>}) /\ memory'[t].flushes = Begun(t, F, queue')
    BY TypedMemory DEF Minted
  <2>2. CASE F = <<>>
    <3> HIDE DEF F
    <3>0. Begun(t, F, queue') = << <<Head(queue')>> >>
      <4> DEFINE S == Seq(1..Len(log)) \ {<<>>}
      <4>1. F \in Seq(S)
        BY <2>1, Zenon
      <4>2. queue' # <<>>
        BY <1>1, Zenon
      <4> HIDE DEF S
      <4> QED
        BY <1>7, <2>2, <4>1, <4>2, BegunCopies, Zenon
    <3>1. memory'[t].flushes = << <<Head(queue')>> >>
      BY <2>1, <3>0, Zenon
    <3>2. memory'[t].flushes[1][1] = Head(queue')
      <4>1. << <<Head(queue')>> >>[1][1] = Head(queue')
        OBVIOUS
      <4> QED
        BY <3>1, <4>1, Zenon
    <3> QED
      BY <1>1, <3>2 DEF AtHead
  <2>3. CASE F # <<>>
    <3> DEFINE e == F[1][1]
    <3>1. AtHead(e, queue, evicted)
      BY <1>7, <2>3 DEF InStep
    <3> HIDE DEF F
    <3>2. memory'[t].flushes = F
      BY <1>7, <2>1, <2>3, BegunCopies
    <3>a. SUFFICES AtHead(e, queue', evicted')
      BY <3>2 DEF e
    <3> HIDE DEF e
    <3>3. CASE queue # <<>> /\ e = Head(queue)
      <4>1. e \in ToSet(queue) /\ \A d \in ToSet(queue) : d = e \/ e < d
        BY <1>1, <3>3, HeadLeast
      <4>2. e \in 1..Len(log) /\ \A d \in (Len(log) + 1)..Len(log') : e < d
        BY <1>1, <1>4, <4>1
      <4>3. \A d \in ToSet(queue') : d = e \/ e < d
        BY <1>5, <4>1, <4>2
      <4>4. CASE e \in ToSet(queue')
        <5>1. e = Head(queue') \/ Head(queue') < e
          BY <1>3, <4>4
        <5>2. Head(queue') = e \/ e < Head(queue')
          BY <1>3, <4>3
        <5>3. Head(queue') \in 1..N
          BY <1>1, HeadLeast
        <5>4. e = Head(queue')
          BY <1>1, <4>2, <5>1, <5>2, <5>3
        <5> QED
          BY <1>1, <5>4 DEF AtHead
      <4>5. CASE e \notin ToSet(queue')
        <5>1. e \in evicted'
          BY <4>1, <4>5 DEF Minted
        <5>2. \A d \in ToSet(queue') : e < d
          BY <4>3, <4>5
        <5> QED
          BY <5>1, <5>2 DEF AtHead
      <4> QED
        BY <4>4, <4>5
    <3>4. CASE e \in evicted /\ \A d \in ToSet(queue) : e < d
      <4>1. e \in 1..Len(log) /\ \A d \in (Len(log) + 1)..Len(log') : e < d
        BY <1>1, <1>4, <3>4
      <4>2. e \in evicted'
        BY <3>4 DEF Minted
      <4>3. \A d \in ToSet(queue') : e < d
        BY <1>5, <3>4, <4>1
      <4> QED
        BY <4>2, <4>3 DEF AtHead
    <3> QED
      BY <3>1, <3>3, <3>4 DEF AtHead
  <2> QED
    BY <2>2, <2>3
<1>8. ASSUME NEW d \in sent', NEW e \in Kept' PROVE d < e
  <2>1. d \in sent /\ d \in 1..Len(log)
    BY <1>4 DEF Minted
  <2>2. e \in Kept \/ e \in ToSet(queue')
    BY KeptChange DEF Minted
  <2>3. e \in Kept \/ e \in (Len(log) + 1)..Len(log')
    BY <1>5, <2>2, KeptIs
  <2>4. CASE e \in Kept
    BY <2>1, <2>4 DEF InStep
  <2>5. CASE e \in (Len(log) + 1)..Len(log')
    BY <1>1, <2>1, <2>5
  <2> QED
    BY <2>3, <2>4, <2>5
<1>9. ASSUME NEW e \in evicted' PROVE e \notin ToSet(queue')
  <2>1. CASE e \in evicted
    <3>1. e \notin ToSet(queue) /\ e \in 1..Len(log)
      BY <1>4, <2>1 DEF InStep
    <3>2. e \notin (Len(log) + 1)..Len(log')
      BY <1>1, <3>1
    <3> QED
      BY <1>5, <3>1, <3>2
  <2>2. CASE e \notin evicted
    BY <1>9, <2>2 DEF Minted
  <2> QED
    BY <2>1, <2>2
<1>10. ASSUME NEW u \in Sdk, memory'[u].flushes # <<>> PROVE memory'[u].flushes = <<queue'>>
  BY <1>2, <1>6, <1>10 DEF Tabs
<1>11. ASSUME NEW u \in Served, memory'[u].flushes # <<>>
       PROVE  AtHead(memory'[u].flushes[1][1], queue', evicted')
  <2>1. u = t
    BY <1>2, <1>11 DEF Tabs
  <2> QED
    BY <1>7, <2>1
<1> QED
  BY <1>8, <1>9, <1>10, <1>11 DEF InStep

LEMMA CarriedLess ==
  ASSUME NEW t \in Tabs, Others(t), ToSet(memory'[t].flushes) \subseteq ToSet(memory[t].flushes)
  PROVE  \A e \in Carried' : e \in Carried
BY CarriedChange

LEMMA InStepStarts ==
  ASSUME Bounds, TypeOK, InStep, Single(memory'), NEW t \in Tabs, Starts(t),
         TypeOK', NewCopies(t)
  PROVE  InStep'
<1> DEFINE F == memory[t].flushes
<1>1. /\ F \in Seq(Seq(1..Len(log)) \ {<<>>}) /\ memory'[t].flushes = Begun(t, F, queue)
      /\ Others(t) /\ UNCHANGED <<queue, log, sent, evicted, faults>>
  BY TypedMemory DEF Starts
<1>2. ASSUME t \in Sdk, memory'[t].flushes # <<>> PROVE memory'[t].flushes = <<queue'>>
  <2>1. t \notin Served
    BY <1>2, BoundsAre
  <2>2. F # <<>> => F = <<queue>>
    BY <1>2 DEF InStep
  <2>3. Len(memory'[t].flushes) = 1
    BY <1>2 DEF Single
  <2> HIDE DEF F
  <2>4. CASE queue = <<>>
    <3>1. memory'[t].flushes = F
      BY <1>1, <2>4, BegunCopies
    <3> QED
      BY <1>1, <1>2, <2>2, <3>1
  <2>5. CASE queue # <<>>
    <3>1. Begun(t, F, queue) = Append(F, queue)
      BY <1>1, <2>1, <2>5, BegunCopies, Zenon
    <3>2. Len(Append(F, queue)) = Len(F) + 1 /\ Len(F) \in Nat
      BY <1>1
    <3>3. F = <<>>
      BY <1>1, <2>3, <3>1, <3>2
    <3> QED
      BY <1>1, <3>1, <3>3
  <2> QED
    BY <2>4, <2>5
<1>3. ASSUME t \in Served, memory'[t].flushes # <<>>
      PROVE  AtHead(memory'[t].flushes[1][1], queue', evicted')
  <2>1. CASE F = <<>>
    <3>1. queue # <<>>
      <4> HIDE DEF F
      <4>1. queue = <<>> => Begun(t, F, queue) = F
        BY <1>1, BegunCopies, Zenon
      <4> QED
        BY <1>1, <1>3, <2>1, <4>1
    <3>2. memory'[t].flushes = << <<Head(queue)>> >>
      <4> HIDE DEF F
      <4> QED
        BY <1>1, <1>3, <2>1, <3>1, BegunCopies
    <3>3. memory'[t].flushes[1][1] = Head(queue')
      BY <1>1, <3>2
    <3> QED
      BY <1>1, <3>1, <3>3 DEF AtHead
  <2>2. CASE F # <<>>
    <3>1. memory'[t].flushes = memory[t].flushes
      BY <1>1, <1>3, <2>2, BegunCopies
    <3> QED
      BY <1>1, <1>3, <3>1 DEF InStep
  <2> QED
    BY <2>1, <2>2
<1>4. ASSUME NEW d \in sent', NEW e \in Kept' PROVE d < e
  <2>1. e \in Kept \/ e \in ToSet(queue')
    BY <1>1, KeptChange
  <2>2. e \in Kept
    BY <1>1, <2>1, KeptIs
  <2> QED
    BY <1>1, <2>2 DEF InStep
<1>5. \A e \in evicted' : e \notin ToSet(queue')
  BY <1>1 DEF InStep
<1>6. ASSUME NEW u \in Sdk, memory'[u].flushes # <<>> PROVE memory'[u].flushes = <<queue'>>
  <2>1. u # t => memory'[u] = memory[u]
    BY <1>1 DEF Others, Tabs
  <2> QED
    BY <1>1, <1>2, <1>6, <2>1 DEF InStep
<1>7. ASSUME NEW u \in Served, memory'[u].flushes # <<>>
      PROVE  AtHead(memory'[u].flushes[1][1], queue', evicted')
  <2>1. u # t => memory'[u] = memory[u]
    BY <1>1 DEF Others, Tabs
  <2> QED
    BY <1>1, <1>3, <1>7, <2>1 DEF InStep
<1> QED
  BY <1>4, <1>5, <1>6, <1>7 DEF InStep

LEMMA InStepStops ==
  ASSUME Bounds, TypeOK, InStep, NEW t \in Tabs, Stops(t)
  PROVE  InStep'
<1>1. /\ memory'[t].flushes = <<>>
      /\ Others(t) /\ UNCHANGED <<queue, log, sent, evicted>>
  BY DEF Stops
<1>2. ToSet(memory'[t].flushes) \subseteq ToSet(memory[t].flushes)
  BY <1>1 DEF ToSet
<1>3. ASSUME NEW d \in sent', NEW e \in Kept' PROVE d < e
  BY <1>1, <1>2, CarriedLess, KeptIs DEF InStep
<1>4. \A u \in Tabs : memory'[u].flushes # <<>> => memory'[u] = memory[u]
  BY <1>1 DEF Others
<1>5. \A e \in evicted' : e \notin ToSet(queue')
  BY <1>1 DEF InStep
<1>6. ASSUME NEW u \in Sdk, memory'[u].flushes # <<>> PROVE memory'[u].flushes = <<queue'>>
  BY <1>1, <1>4, <1>6 DEF InStep, Tabs
<1>7. ASSUME NEW u \in Served, memory'[u].flushes # <<>>
      PROVE  AtHead(memory'[u].flushes[1][1], queue', evicted')
  BY <1>1, <1>4, <1>7 DEF InStep, Tabs
<1> QED
  BY <1>3, <1>5, <1>6, <1>7 DEF InStep

\* An SDK flush that is alone is of the queue.
LEMMA AloneSdk ==
  ASSUME Bounds, TypeOK, InStep, Single(memory), NEW t \in Sdk, NEW i \in DOMAIN memory[t].flushes
  PROVE  /\ memory[t].flushes = <<queue>> /\ i = 1 /\ memory[t].flushes[i] = queue
         /\ queue # <<>> /\ ToSet(memory[t].flushes) = {queue}
         /\ \A u \in Tabs : u # t => memory[u].flushes = <<>>
<1>1. t \in Tabs /\ memory[t].flushes \in Seq(Seq(1..Len(log)) \ {<<>>})
  BY TypedMemory DEF Tabs
<1>2. memory[t].flushes # <<>>
  BY <1>1
<1>3. memory[t].flushes = <<queue>> /\ \A u \in Tabs : u # t => memory[u].flushes = <<>>
  BY <1>1, <1>2 DEF InStep, Single
<1>4. i = 1
  BY <1>3
<1>5. queue # <<>>
  BY <1>3, <1>4, <1>1, TypedMemory
<1>6. ToSet(memory[t].flushes) = {queue}
  BY <1>3 DEF ToSet
<1> QED
  BY <1>3, <1>4, <1>5, <1>6

LEMMA InStepGoesOn ==
  ASSUME Bounds, TypeOK, Ascending, InStep, Single(memory),
         NEW t \in Sdk, NEW i \in DOMAIN memory[t].flushes, GoesOn(t, i)
  PROVE  InStep'
<1>0. t \in Tabs /\ t \notin Served
  BY BoundsAre DEF Tabs
<1>1. /\ memory[t].flushes = <<queue>> /\ i = 1 /\ memory[t].flushes[i] = queue
      /\ queue # <<>> /\ \A u \in Tabs : u # t => memory[u].flushes = <<>>
  BY AloneSdk
<1>2. /\ queue' = Tail(queue) /\ sent' = sent \cup {Head(queue)}
      /\ Others(t) /\ UNCHANGED <<log, evicted, faults>>
  BY <1>1 DEF GoesOn
<1>3. memory'[t].flushes = IF Len(queue) = 1 THEN <<>> ELSE <<queue'>>
  <2>1. memory'[t].flushes = Left(<<queue>>, 1)
    BY <1>1 DEF GoesOn, Left
  <2>2. <<queue>> \in Seq({queue}) /\ 1 \in DOMAIN <<queue>> /\ Len(<<queue>>) = 1 /\ <<queue>>[1] = queue
    OBVIOUS
  <2> DEFINE G == <<queue>>
  <2> HIDE DEF G
  <2>3. Left(G, 1) = IF Len(G[1]) = 1 THEN <<>> ELSE << Tail(G[1]) >>
    BY <2>2, LeftCopies DEF G
  <2> QED
    BY <1>2, <2>1, <2>2, <2>3 DEF G
<1>4. /\ queue \in Seq(1..Len(log)) /\ Increasing(queue) /\ Len(log) \in Nat
  BY StateIs DEF Ascending
<1>5. /\ Head(queue) \in ToSet(queue)
      /\ \A e : e \in ToSet(queue) <=> e = Head(queue) \/ e \in ToSet(Tail(queue))
      /\ \A e \in ToSet(Tail(queue)) : Head(queue) < e
  BY <1>1, <1>4, HeadLeast
<1>6. ASSUME NEW e \in Carried' PROVE e \in ToSet(queue')
  <2>1. PICK u \in Tabs : \E f \in ToSet(memory'[u].flushes) : e \in ToSet(f)
    BY <1>6, CarriedIs DEF Carried
  <2>2. PICK f \in ToSet(memory'[u].flushes) : e \in ToSet(f)
    BY <2>1
  <2>3. memory'[u].flushes # <<>>
    BY <2>2 DEF ToSet
  <2>4. u = t
    BY <1>1, <1>2, <2>3 DEF Others
  <2>5. memory'[u].flushes = <<queue'>>
    BY <1>3, <2>3, <2>4
  <2>6. f = queue'
    BY <2>2, <2>5 DEF ToSet
  <2> QED
    BY <2>2, <2>6
<1>7. \A e \in Kept' : e \in ToSet(Tail(queue))
  BY <1>2, <1>6, KeptIs
<1>8. ASSUME NEW d \in sent', NEW e \in Kept' PROVE d < e
  <2>1. e \in ToSet(Tail(queue)) /\ e \in Kept
    BY <1>5, <1>7, KeptIs
  <2> QED
    BY <1>2, <1>5, <2>1 DEF InStep
<1>9. \A e \in evicted' : e \notin ToSet(queue')
  BY <1>2, <1>5 DEF InStep
<1>10. ASSUME NEW u \in Sdk, memory'[u].flushes # <<>> PROVE memory'[u].flushes = <<queue'>>
  <2>1. u = t
    BY <1>1, <1>2, <1>10 DEF Others, Tabs
  <2> QED
    BY <1>3, <1>10, <2>1
<1>11. ASSUME NEW u \in Served, memory'[u].flushes # <<>>
       PROVE  AtHead(memory'[u].flushes[1][1], queue', evicted')
  BY <1>0, <1>1, <1>2, <1>11 DEF Others, Tabs
<1> QED
  BY <1>8, <1>9, <1>10, <1>11 DEF InStep

LEMMA InStepGivesUp ==
  ASSUME Bounds, TypeOK, InStep, Single(memory),
         NEW t \in Sdk, NEW i \in DOMAIN memory[t].flushes, GivesUp(t, i)
  PROVE  InStep' /\ queue' = queue /\ memory'[t].flushes = <<>>
<1>1. /\ memory[t].flushes = <<queue>> /\ i = 1 /\ memory[t].flushes[i] = queue
      /\ queue # <<>>
  BY AloneSdk
<1>2. /\ queue' = queue /\ memory'[t].flushes = RemoveAt(<<queue>>, 1)
      /\ Others(t) /\ UNCHANGED <<log, sent, evicted>>
  BY <1>1 DEF GivesUp
<1>3. memory'[t].flushes = <<>>
  <2> DEFINE G == <<queue>>
  <2>1. G \in Seq({queue}) /\ 1 \in DOMAIN G /\ Len(G) = 1
    OBVIOUS
  <2> HIDE DEF G
  <2>2. RemoveAt(G, 1) = <<>>
    BY <2>1, RemovedCopies
  <2> QED
    BY <1>2, <2>2 DEF G
<1>4. ToSet(memory'[t].flushes) \subseteq ToSet(memory[t].flushes)
  BY <1>3 DEF ToSet
<1>5. t \in Tabs
  BY DEF Tabs
<1>6. ASSUME NEW d \in sent', NEW e \in Kept' PROVE d < e
  BY <1>2, <1>4, <1>5, CarriedLess, KeptIs DEF InStep
<1>7. \A u \in Tabs : memory'[u].flushes # <<>> => memory'[u] = memory[u]
  BY <1>2, <1>3 DEF Others
<1>8. \A e \in evicted' : e \notin ToSet(queue')
  BY <1>2 DEF InStep
<1>9. ASSUME NEW u \in Sdk, memory'[u].flushes # <<>> PROVE memory'[u].flushes = <<queue'>>
  BY <1>2, <1>7, <1>9 DEF InStep, Tabs
<1>10. ASSUME NEW u \in Served, memory'[u].flushes # <<>>
       PROVE  AtHead(memory'[u].flushes[1][1], queue', evicted')
  BY <1>2, <1>7, <1>10 DEF InStep, Tabs
<1> QED
  BY <1>2, <1>3, <1>6, <1>8, <1>9, <1>10 DEF InStep

LEMMA OneEntry ==
  ASSUME NEW S, NEW F \in Seq(S), Len(F) = 1
  PROVE  \A g : g \in ToSet(F) <=> g = F[1]
<1>1. DOMAIN F = {1}
  OBVIOUS
<1> QED
  BY <1>1 DEF ToSet

\* A served pixel's flush that is alone is of one event.
LEMMA AloneServed ==
  ASSUME Bounds, TypeOK, OneProgram, InStep, Single(memory), NEW t \in Served,
         memory[t].flushes # <<>>
  PROVE  /\ \A e \in Carried : e = memory[t].flushes[1][1]
         /\ memory[t].flushes[1][1] \in Kept
         /\ AtHead(memory[t].flushes[1][1], queue, evicted)
         /\ \A u \in Tabs : u # t => memory[u].flushes = <<>>
<1>1. t \in Tabs /\ memory[t].flushes \in Seq(Seq(1..Len(log)) \ {<<>>})
  BY TypedMemory DEF Tabs
<1>2. Len(memory[t].flushes) = 1 /\ \A u \in Tabs : u # t => memory[u].flushes = <<>>
  BY <1>1 DEF Single
<1> DEFINE f == memory[t].flushes[1]
<1>3. \A g : g \in ToSet(memory[t].flushes) <=> g = f
  BY <1>1, <1>2, OneEntry, Zenon
<1>4. Len(f) = 1 /\ f \in Seq(1..Len(log))
  <2>1. f \in ToSet(memory[t].flushes)
    BY <1>3
  <2>2. ToSet(memory[t].flushes) \subseteq Seq(1..Len(log)) \ {<<>>}
    BY <1>1, SetOf, Zenon
  <2> HIDE DEF f
  <2> QED
    BY <2>1, <2>2 DEF OneProgram
<1>5. \A e : e \in ToSet(f) <=> e = f[1]
  <2> HIDE DEF f
  <2> QED
    BY <1>4, OneEntry, Zenon
<1>6. \A e \in Carried : e = f[1]
  <2> TAKE e \in Carried
  <2>1. PICK u \in Tabs : \E g \in ToSet(memory[u].flushes) : e \in ToSet(g)
    BY CarriedIs DEF Carried
  <2>2. PICK g \in ToSet(memory[u].flushes) : e \in ToSet(g)
    BY <2>1
  <2>3. memory[u].flushes # <<>>
    BY <2>2 DEF ToSet
  <2>4. u = t
    BY <1>2, <2>3
  <2>5. g = f
    BY <1>3, <2>2, <2>4
  <2> QED
    BY <1>5, <2>2, <2>5
<1>7. f[1] \in Carried
  <2>1. f \in ToSet(memory[t].flushes) /\ f[1] \in ToSet(f)
    BY <1>3, <1>5
  <2> HIDE DEF f
  <2>2. \E u \in Tabs : \E g \in ToSet(memory[u].flushes) : f[1] \in ToSet(g)
    BY <1>1, <2>1
  <2> QED
    BY <2>2, CarriedIs DEF Carried
<1> QED
  BY <1>2, <1>6, <1>7, KeptIs DEF InStep

LEMMA InStepDrops ==
  ASSUME Bounds, TypeOK, TypeOK', Ascending, OneProgram, InStep, Single(memory),
         NEW t \in Served, Drops(t), NewCopies(t)
  PROVE  InStep'
<1>0. t \in Tabs /\ t \notin Sdk
  BY BoundsAre DEF Tabs
<1> DEFINE e == memory[t].flushes[1][1]
<1>1. memory[t].flushes # <<>>
  BY DEF Drops
<1>2. /\ \A d \in Carried : d = e
      /\ e \in Kept /\ AtHead(e, queue, evicted)
      /\ \A u \in Tabs : u # t => memory[u].flushes = <<>>
  BY <1>1, AloneServed
<1>3. /\ queue' = (IF queue = <<>> THEN <<>> ELSE Tail(queue)) /\ sent' = sent \cup {e}
      /\ memory'[t].flushes = Begun(t, <<>>, queue')
      /\ Others(t) /\ UNCHANGED <<log, evicted, faults>>
  BY DEF Drops
<1> HIDE DEF e
<1>4. queue \in Seq(1..Len(log)) /\ Increasing(queue) /\ Len(log) \in Nat
  BY StateIs DEF Ascending
<1>5. queue # <<>> =>
        /\ Head(queue) \in ToSet(queue)
        /\ \A d : d \in ToSet(queue) <=> d = Head(queue) \/ d \in ToSet(Tail(queue))
        /\ \A d \in ToSet(Tail(queue)) : Head(queue) < d
  BY <1>4, HeadLeast
<1>6. \A d \in ToSet(queue') : d \in ToSet(queue) /\ e < d
  <2>1. CASE queue = <<>>
    BY <1>3, <2>1 DEF ToSet
  <2>2. CASE queue # <<>>
    BY <1>2, <1>3, <1>5, <2>2 DEF AtHead
  <2> QED
    BY <2>1, <2>2
<1>7. ASSUME memory'[t].flushes # <<>>
      PROVE  AtHead(memory'[t].flushes[1][1], queue', evicted')
  <2>0. <<>> \in Seq({})
    OBVIOUS
  <2>1. queue' = <<>> => Begun(t, <<>>, queue') = <<>>
    BY <2>0, BegunCopies, Zenon
  <2>2. queue' # <<>> => Begun(t, <<>>, queue') = << <<Head(queue')>> >>
    BY <2>0, BegunCopies, Zenon
  <2>3. queue' # <<>> /\ memory'[t].flushes[1][1] = Head(queue')
    BY <1>3, <1>7, <2>1, <2>2
  <2> QED
    BY <2>3 DEF AtHead
<1>8. \A d \in Kept' : d \in ToSet(queue')
  <2>1. SUFFICES ASSUME NEW d \in Carried' PROVE d \in ToSet(queue')
    BY KeptIs
  <2>2. PICK u \in Tabs : \E g \in ToSet(memory'[u].flushes) : d \in ToSet(g)
    BY <2>1, CarriedIs DEF Carried
  <2>3. PICK g \in ToSet(memory'[u].flushes) : d \in ToSet(g)
    BY <2>2
  <2>4. memory'[u].flushes # <<>>
    BY <2>3 DEF ToSet
  <2>5. u = t
    BY <1>2, <1>3, <2>4 DEF Others
  <2>6. <<>> \in Seq({})
    OBVIOUS
  <2>7. queue' = <<>> => Begun(t, <<>>, queue') = <<>>
    BY <2>6, BegunCopies, Zenon
  <2>8. queue' # <<>> => Begun(t, <<>>, queue') = << <<Head(queue')>> >>
    BY <2>6, BegunCopies, Zenon
  <2>9. queue' # <<>> /\ memory'[t].flushes = << <<Head(queue')>> >>
    BY <1>3, <2>4, <2>5, <2>7, <2>8
  <2>10. g = <<Head(queue')>>
    BY <2>3, <2>5, <2>9 DEF ToSet
  <2>11. d = Head(queue')
    BY <2>3, <2>10 DEF ToSet
  <2>12. queue' \in Seq(1..Len(log')) /\ Len(log') \in Nat
    BY DEF TypeOK
  <2>13. Head(queue') \in ToSet(queue')
    BY <2>9, <2>12, TailOf
  <2> QED
    BY <2>11, <2>13
<1>9. ASSUME NEW d \in sent', NEW k \in Kept' PROVE d < k
  <2>1. k \in ToSet(queue') /\ k \in ToSet(queue) /\ e < k
    BY <1>6, <1>8
  <2>2. k \in Kept
    BY <2>1, KeptIs
  <2> QED
    BY <1>3, <2>1, <2>2 DEF InStep
<1>10. \A d \in evicted' : d \notin ToSet(queue')
  BY <1>3, <1>6 DEF InStep
<1>11. ASSUME NEW u \in Sdk, memory'[u].flushes # <<>> PROVE memory'[u].flushes = <<queue'>>
  BY <1>0, <1>2, <1>3, <1>11 DEF Others, Tabs
<1>12. ASSUME NEW u \in Served, memory'[u].flushes # <<>>
       PROVE  AtHead(memory'[u].flushes[1][1], queue', evicted')
  <2>1. u = t
    BY <1>2, <1>3, <1>12 DEF Others, Tabs
  <2> QED
    BY <1>7, <1>12, <2>1
<1> QED
  BY <1>9, <1>10, <1>11, <1>12 DEF InStep

LEMMA AloneKept ==
  ASSUME Bounds, TypeOK, TypeOK', Ascending, Ascending', OneProgram, Seen, Alone, Observe,
         NEW t \in Tabs, Kinds(t)
  PROVE  Alone'
<1>1. SUFFICES ASSUME Regular', "overlap" \notin why' PROVE InStep'
  BY DEF Alone
<1>2. Regular /\ "overlap" \notin why /\ Single(memory')
  BY <1>1, RegularWas, ObserveMeans
<1>3. InStep /\ Single(memory)
  BY <1>2 DEF Alone, Seen
<1>4. NewCopies(t) /\ Others(t)
  BY CopiesMade
<1>5. ASSUME NEW q, Emits(t, q) PROVE InStep'
  <2>1. Minted(t)
    BY <1>5, EmitsMeans
  <2> QED
    BY <1>2, <1>3, <1>4, <2>1, InStepMinted
<1>6. CASE Starts(t)
  BY <1>2, <1>3, <1>4, <1>6, InStepStarts
<1>7. CASE Stops(t)
  BY <1>3, <1>7, InStepStops
<1>8. ASSUME t \in Sdk, NEW i \in DOMAIN memory[t].flushes, GoesOn(t, i) PROVE InStep'
  BY <1>3, <1>8, InStepGoesOn
<1>9. ASSUME t \in Sdk, NEW i \in DOMAIN memory[t].flushes, GivesUp(t, i) PROVE InStep'
  BY <1>3, <1>9, InStepGivesUp
<1>10. CASE t \in Served /\ Drops(t)
  BY <1>3, <1>4, <1>10, InStepDrops
<1> QED
  BY <1>5, <1>6, <1>7, <1>8, <1>9, <1>10 DEF Kinds

-----------------------------------------------------------------------------
(* Flushes that overlap carry the queue.                                    *)

LEMMA Emptied ==
  ASSUME NEW t \in Tabs, Others(t), memory'[t].flushes = <<>>, Single(memory)
  PROVE  Single(memory')
<1>1. \A u \in Tabs : memory'[u].flushes # <<>> => u # t /\ memory'[u] = memory[u]
  BY DEF Others
<1>2. \A u, v \in Tabs : memory[u].flushes # <<>> /\ v # u => memory[v].flushes = <<>>
  BY DEF Single
<1>3. \A u \in Tabs : memory[u].flushes # <<>> => Len(memory[u].flushes) = 1
  BY DEF Single
<1>4. ASSUME NEW u \in Tabs, memory'[u].flushes # <<>>
      PROVE  Len(memory'[u].flushes) = 1 /\ \A v \in Tabs : v # u => memory'[v].flushes = <<>>
  <2>1. u # t /\ memory'[u] = memory[u] /\ memory[u].flushes # <<>>
    BY <1>1, <1>4
  <2>2. \A v \in Tabs : v # u => memory[v].flushes = <<>>
    BY <1>2, <2>1
  <2>3. ASSUME NEW v \in Tabs, v # u PROVE memory'[v].flushes = <<>>
    BY <1>1, <2>2, <2>3
  <2> QED
    BY <1>3, <2>1, <2>3
<1> QED
  BY <1>4 DEF Single

\* What overlaps anew or still does, without a loss, is of the SDK.
LEMMA SdkOverlap ==
  ASSUME Bounds, TypeOK', Observe, Regular', Seen, SdkStays, NEW t \in Tabs, Others(t),
         SameProgram(t), "overlap" \in why',
         "overlap" \notin why => memory'[t].flushes # <<>> \/ t \in Sdk
  PROVE  t \in Sdk /\ t \notin Served
<1>1. t \in Sdk \/ t \in Served
  BY DEF Tabs
<1>2. ~(t \in Sdk /\ t \in Served)
  BY BoundsAre
<1>3. "tabs" \notin why' /\ "stale" \notin why' /\ "tabs" \notin why /\ "stale" \notin why
  BY RegularWas
<1>4. ASSUME t \in Served PROVE FALSE
  <2>1. CASE "overlap" \in why
    <3>1. PICK u \in Sdk : memory[u].open
      BY <1>3, <2>1 DEF SdkStays
    <3>2. u \in Tabs /\ u \notin Served
      BY BoundsAre DEF Tabs
    <3> QED
      BY <1>4, <3>1, <3>2 DEF SameProgram
  <2>2. CASE "overlap" \notin why
    <3>1. memory'[t].flushes # <<>>
      BY <1>2, <1>4, <2>2
    <3>2. ServedBusy(memory')
      BY <1>4, <3>1 DEF ServedBusy
    <3>3. ~Single(memory')
      BY <2>2, ObserveMeans
    <3> QED
      BY <1>3, <3>2, <3>3, ObserveMeans
  <2> QED
    BY <2>1, <2>2
<1> QED
  BY <1>1, <1>2, <1>4

\* A copy under way carries its events.
LEMMA CopyCarried ==
  ASSUME NEW u \in Tabs, NEW f
  PROVE  /\ f \in ToSet(memory[u].flushes) => ToSet(f) \subseteq Carried
         /\ f \in ToSet(memory'[u].flushes) => ToSet(f) \subseteq Carried'
<1>1. \A e : e \in Carried <=>
             \E v \in Tabs : \E g \in ToSet(memory[v].flushes) : e \in ToSet(g)
  BY CarriedIs DEF Carried
<1>2. \A e : e \in Carried' <=>
             \E v \in Tabs : \E g \in ToSet(memory'[v].flushes) : e \in ToSet(g)
  BY CarriedIs DEF Carried
<1> QED
  BY <1>1, <1>2

LEMMA BegunSdk ==
  ASSUME NEW S, NEW F \in Seq(S), NEW t, t \notin Served, NEW q, q # <<>>
  PROVE  q \in ToSet(Begun(t, F, q))
<1>1. Begun(t, F, q) = Append(F, q) /\ ToSet(Append(F, q)) = ToSet(F) \cup {q}
  BY BegunCopies, Zenon
<1> QED
  BY <1>1

\* A new SDK flush carries the queue.
LEMMA BegunCarries ==
  ASSUME Bounds, TypeOK, NEW t \in Tabs, t \in Sdk, t \notin Served, NEW q,
         memory'[t].flushes = Begun(t, memory[t].flushes, q)
  PROVE  ToSet(q) \subseteq Carried'
<1> DEFINE F == memory[t].flushes
<1>1. F \in Seq(Seq(1..Len(log)) \ {<<>>})
  BY TypedMemory
<1>2. memory'[t].flushes = Begun(t, F, q)
  OBVIOUS
<1> HIDE DEF F
<1>3. CASE q = <<>>
  BY <1>3 DEF ToSet
<1>4. CASE q # <<>>
  <2>1. q \in ToSet(Begun(t, F, q))
    BY <1>1, <1>4, BegunSdk
  <2>2. q \in ToSet(memory'[t].flushes)
    BY <1>2, <2>1
  <2> QED
    BY <2>2, CopyCarried
<1> QED
  BY <1>3, <1>4

LEMMA GoesOnCarries ==
  ASSUME Bounds, TypeOK, NEW t \in Sdk, NEW i \in DOMAIN memory[t].flushes, GoesOn(t, i)
  PROVE  /\ ToSet(queue') \subseteq Carried'
         /\ \A e \in Carried : e \in Carried' \/ e \in sent'
         /\ sent \subseteq sent' /\ \A e \in sent' : e \in sent \/ e \in Carried
         /\ \A e \in ToSet(queue') : e \in Carried
<1> DEFINE F == memory[t].flushes
           q == F[i]
<1>1. t \in Tabs /\ F \in Seq(Seq(1..Len(log)) \ {<<>>}) /\ i \in DOMAIN F /\ Len(log) \in Nat
  BY TypedMemory DEF Tabs
<1>2. /\ memory'[t].flushes = Left(F, i) /\ queue' = Tail(q)
      /\ sent' = sent \cup {Head(q)} /\ Others(t)
  BY DEF GoesOn, Left
<1>3. F[i] \in Seq(1..Len(log)) /\ F[i] # <<>> /\ F[i] \in ToSet(F)
  <2> HIDE DEF F
  <2> QED
    BY <1>1 DEF ToSet
<1>4. ToSet(q) \subseteq Carried
  BY <1>1, <1>3, CopyCarried
<1> DEFINE G == F
<1>5. G \in Seq(Seq(1..Len(log)) \ {<<>>}) /\ i \in DOMAIN G /\ q = G[i] /\ G = F
  BY <1>1
<1> HIDE DEF G
<1>a. G \in Seq(Seq(1..Len(log)) \ {<<>>}) /\ i \in DOMAIN G
  BY <1>5
<1>6. /\ ToSet(G) \subseteq ToSet(Left(G, i)) \cup {G[i]}
      /\ Len(G[i]) # 1 => Tail(G[i]) \in ToSet(Left(G, i))
  BY <1>a, LeftCopies
<1>7. q \in Seq(1..Len(log)) /\ q # <<>>
  BY <1>3
<1> HIDE DEF q
<1>8. /\ (Tail(q) = <<>> <=> Len(q) = 1)
      /\ \A e : e \in ToSet(q) <=> e = Head(q) \/ e \in ToSet(Tail(q))
  BY <1>1, <1>7, TailOf
<1>9. ToSet(queue') \subseteq Carried'
  <2>1. CASE Len(q) = 1
    BY <1>2, <1>8, <2>1 DEF ToSet
  <2>2. CASE Len(q) # 1
    <3>1. Tail(q) \in ToSet(memory'[t].flushes)
      BY <1>2, <1>5, <1>6, <2>2
    <3> QED
      BY <1>1, <1>2, <3>1, CopyCarried
  <2> QED
    BY <2>1, <2>2
<1>10. ASSUME NEW e \in Carried PROVE e \in Carried' \/ e \in sent'
  <2>1. \/ e \in Carried'
        \/ \E f \in ToSet(memory[t].flushes) \ ToSet(memory'[t].flushes) : e \in ToSet(f)
    BY <1>1, <1>2, CarriedChange
  <2>2. ASSUME NEW f \in ToSet(memory[t].flushes) \ ToSet(memory'[t].flushes), e \in ToSet(f)
        PROVE  e \in Carried' \/ e \in sent'
    <3>1. f = q
      BY <1>2, <1>5, <1>6, <2>2
    <3>2. e = Head(q) \/ e \in ToSet(queue')
      BY <1>2, <1>8, <2>2, <3>1
    <3> QED
      BY <1>2, <1>9, <3>2
  <2> QED
    BY <2>1, <2>2
<1>11. \A e \in sent' : e \in sent \/ e \in Carried
  BY <1>2, <1>4, <1>8
<1>12. \A e \in ToSet(queue') : e \in Carried
  BY <1>2, <1>4, <1>8
<1> QED
  BY <1>2, <1>9, <1>10, <1>11, <1>12

LEMMA OverKept ==
  ASSUME Bounds, TypeOK, TypeOK', OneProgram, Seen, SdkStays, Alone, Observe,
         NEW t \in Tabs, Kinds(t)
  PROVE  Over'
<1>1. SUFFICES ASSUME Regular', "overlap" \in why' PROVE ToSet(queue') \subseteq Carried'
  BY DEF Over
<1>2. Regular /\ "stale" \notin why'
  BY <1>1, RegularWas
<1>3. Others(t) /\ SameProgram(t)
  BY CopiesMade, StepProgram
<1>4. "overlap" \notin why => Single(memory) /\ ~Single(memory') /\ InStep
  BY <1>1, <1>2, ObserveMeans DEF Seen, Alone
<1>5. "overlap" \notin why => memory'[t].flushes # <<>>
  BY <1>3, <1>4, Emptied
<1>6. t \in Sdk /\ t \notin Served
  BY <1>1, <1>3, <1>5, SdkOverlap
<1>7. ~(faults' > faults)
  <2>1. ASSUME faults' > faults PROVE "overlap" \notin why
    BY <1>2, <2>1, ObserveMeans
  <2>2. ASSUME Stops(t), "overlap" \notin why PROVE FALSE
    BY <1>5, <2>2 DEF Stops
  <2>3. ASSUME NEW i \in DOMAIN memory[t].flushes, GivesUp(t, i), "overlap" \notin why PROVE FALSE
    <3>1. memory'[t].flushes = <<>>
      BY <1>4, <1>6, <2>3, InStepGivesUp
    <3> QED
      BY <1>5, <2>3, <3>1
  <2>4. ASSUME faults' > faults
        PROVE  Stops(t) \/ \E i \in DOMAIN memory[t].flushes : GivesUp(t, i)
    <3>1. faults' # faults
      BY <2>4 DEF TypeOK
    <3> QED
      BY <3>1 DEF Kinds, Emits, Starts, GoesOn, Drops
  <2> QED
    BY <2>1, <2>2, <2>3, <2>4
<1>8. ASSUME NEW q, Emits(t, q) PROVE ToSet(queue') \subseteq Carried'
  <2>1. memory'[t].flushes = Begun(t, memory[t].flushes, queue')
    BY <1>8 DEF Emits
  <2> QED
    BY <1>6, <2>1, BegunCarries
<1>9. CASE Starts(t)
  <2>1. memory'[t].flushes = Begun(t, memory[t].flushes, queue')
    BY <1>9 DEF Starts
  <2> QED
    BY <1>6, <2>1, BegunCarries
<1>10. ASSUME NEW i \in DOMAIN memory[t].flushes, GoesOn(t, i) PROVE ToSet(queue') \subseteq Carried'
  BY <1>6, <1>10, GoesOnCarries
<1> QED
  BY <1>6, <1>7, <1>8, <1>9, <1>10 DEF Kinds, Stops, GivesUp

-----------------------------------------------------------------------------
(* What is lost, and what it was counted for.                               *)

Covered(e) == e \in sent \/ e \in Kept \/ e \in evicted
CoveredNext(e) == e \in sent' \/ e \in Kept' \/ e \in evicted'
StaysCovered == \A e : Covered(e) => CoveredNext(e)
\* An event counted as evicted was sent instead of another one.
OneSwapped ==
  \E x, h : /\ x \in evicted /\ x \notin sent /\ x \in sent'
            /\ \A e : Covered(e) => e = h \/ CoveredNext(e)

LEMMA CarriedMore ==
  ASSUME NEW t \in Tabs, Others(t), ToSet(memory[t].flushes) \subseteq ToSet(memory'[t].flushes)
  PROVE  \A e \in Carried : e \in Carried'
BY CarriedChange

LEMMA BegunKeeps ==
  ASSUME TypeOK, NEW t \in Tabs, Others(t), NEW q, memory'[t].flushes = Begun(t, memory[t].flushes, q)
  PROVE  \A e \in Carried : e \in Carried'
<1>1. memory[t].flushes \in Seq(Seq(1..Len(log)) \ {<<>>})
  BY TypedMemory
<1>2. ToSet(memory[t].flushes) \subseteq ToSet(memory'[t].flushes)
  BY <1>1, BegunGrows
<1> QED
  BY <1>2, CarriedMore

LEMMA CoverMinted ==
  ASSUME TypeOK, NEW t \in Tabs, Minted(t)
  PROVE  StaysCovered
<1>1. \A e \in Carried : e \in Carried'
  BY BegunKeeps DEF Minted
<1> QED
  BY <1>1, KeptIs DEF Minted, StaysCovered, Covered, CoveredNext

LEMMA CoverStarts ==
  ASSUME TypeOK, NEW t \in Tabs, Starts(t)
  PROVE  StaysCovered
<1>1. \A e \in Carried : e \in Carried'
  BY BegunKeeps DEF Starts
<1> QED
  BY <1>1, KeptIs DEF Starts, StaysCovered, Covered, CoveredNext

\* A tab closed, or a flush given up, while nothing overlaps.
LEMMA CoverStops ==
  ASSUME Bounds, TypeOK, OneProgram, InStep, Single(memory), NEW t \in Tabs, Stops(t)
  PROVE  StaysCovered
<1>1. /\ memory'[t].flushes = <<>> /\ Others(t)
      /\ queue' = queue /\ sent' = sent /\ evicted' = evicted
  BY DEF Stops
<1>2. CASE memory[t].flushes = <<>>
  <2>1. ToSet(memory[t].flushes) \subseteq ToSet(memory'[t].flushes)
    BY <1>1, <1>2
  <2>2. \A e \in Carried : e \in Carried'
    BY <1>1, <2>1, CarriedMore
  <2> QED
    BY <1>1, <2>2, KeptIs DEF StaysCovered, Covered, CoveredNext
<1>3. CASE memory[t].flushes # <<>> /\ t \in Sdk
  <2>1. memory[t].flushes \in Seq(Seq(1..Len(log)) \ {<<>>})
    BY TypedMemory
  <2>2. 1 \in DOMAIN memory[t].flushes
    BY <1>3, <2>1
  <2>3. ToSet(memory[t].flushes) = {queue}
    BY <1>3, <2>2, AloneSdk
  <2>4. \A e \in Carried : e \in Carried' \/ e \in ToSet(queue)
    BY <1>1, <2>3, CarriedChange
  <2> QED
    BY <1>1, <2>4, KeptIs DEF StaysCovered, Covered, CoveredNext
<1>4. CASE memory[t].flushes # <<>> /\ t \in Served
  <2> DEFINE x == memory[t].flushes[1][1]
  <2>1. (\A e \in Carried : e = x) /\ AtHead(x, queue, evicted)
    BY <1>4, AloneServed
  <2> HIDE DEF x
  <2>2. x \in ToSet(queue) \/ x \in evicted
    <3>1. queue \in Seq(1..Len(log)) /\ Len(log) \in Nat
      BY StateIs
    <3>2. queue # <<>> => Head(queue) \in ToSet(queue)
      BY <3>1, TailOf
    <3> QED
      BY <2>1, <3>2 DEF AtHead
  <2> QED
    BY <1>1, <2>1, <2>2, KeptIs DEF StaysCovered, Covered, CoveredNext
<1> QED
  BY <1>2, <1>3, <1>4 DEF Tabs

LEMMA CoverGoesOn ==
  ASSUME Bounds, TypeOK, NEW t \in Sdk, NEW i \in DOMAIN memory[t].flushes, GoesOn(t, i),
         (InStep /\ Single(memory)) \/ ToSet(queue) \subseteq Carried
  PROVE  StaysCovered
<1>1. (\A e \in Carried : e \in Carried' \/ e \in sent') /\ sent \subseteq sent'
  BY GoesOnCarries
<1>2. ToSet(queue) \subseteq Carried
  <2>1. CASE InStep /\ Single(memory)
    <3>1. queue \in ToSet(memory[t].flushes) /\ t \in Tabs
      BY <2>1, AloneSdk DEF Tabs
    <3> QED
      BY <3>1, CopyCarried
  <2> QED
    BY <2>1
<1>3. evicted' = evicted
  BY DEF GoesOn
<1> QED
  BY <1>1, <1>2, <1>3, KeptIs DEF StaysCovered, Covered, CoveredNext

LEMMA CoverGivesUp ==
  ASSUME Bounds, TypeOK, InStep, Single(memory), NEW t \in Sdk,
         NEW i \in DOMAIN memory[t].flushes, GivesUp(t, i)
  PROVE  StaysCovered
<1>1. queue' = queue /\ memory'[t].flushes = <<>> /\ t \in Tabs
  BY InStepGivesUp DEF Tabs
<1>2. Others(t) /\ sent' = sent /\ evicted' = evicted
  BY DEF GivesUp
<1>3. ToSet(memory[t].flushes) = {queue}
  BY AloneSdk
<1>4. \A e \in Carried : e \in Carried' \/ e \in ToSet(queue)
  BY <1>1, <1>2, <1>3, CarriedChange
<1> QED
  BY <1>1, <1>2, <1>4, KeptIs DEF StaysCovered, Covered, CoveredNext

LEMMA CoverDrops ==
  ASSUME Bounds, TypeOK, OneProgram, InStep, Single(memory), NEW t \in Served, Drops(t)
  PROVE  StaysCovered \/ OneSwapped
<1> DEFINE x == memory[t].flushes[1][1]
<1>1. memory[t].flushes # <<>> /\ sent' = sent \cup {x} /\ evicted' = evicted
  BY DEF Drops
<1>2. (\A e \in Carried : e = x) /\ x \in Kept /\ AtHead(x, queue, evicted)
  BY <1>1, AloneServed
<1>3. queue' = IF queue = <<>> THEN <<>> ELSE Tail(queue)
  BY DEF Drops
<1> HIDE DEF x
<1>4. queue \in Seq(1..Len(log)) /\ Len(log) \in Nat
  BY StateIs
<1>5. \A e \in ToSet(queue) : queue # <<>> /\ (e = Head(queue) \/ e \in ToSet(queue'))
  <2>1. CASE queue = <<>>
    BY <2>1 DEF ToSet
  <2>2. CASE queue # <<>>
    <3>1. \A e : e \in ToSet(queue) <=> e = Head(queue) \/ e \in ToSet(Tail(queue))
      BY <1>4, <2>2, TailOf
    <3> QED
      BY <1>3, <2>2, <3>1
  <2> QED
    BY <2>1, <2>2
<1>6. \A e : Covered(e) => e = Head(queue) \/ CoveredNext(e)
  BY <1>1, <1>2, <1>5, KeptIs DEF Covered, CoveredNext
<1>7. CASE x = Head(queue)
  BY <1>1, <1>6, <1>7 DEF StaysCovered, CoveredNext
<1>8. CASE x \in evicted
  <2>1. x \in 1..Len(log) /\ \A d \in sent : d < x
    BY <1>2, Numbered DEF InStep
  <2>2. x \notin sent
    BY <1>4, <2>1
  <2> QED
    BY <1>1, <1>6, <1>8, <2>2 DEF OneSwapped
<1> QED
  BY <1>2, <1>7, <1>8 DEF AtHead

\* A step that is on record covers what was covered, but for one exchange.
LEMMA StepCovers ==
  ASSUME Bounds, TypeOK, TypeOK', OneProgram, Seen, SdkStays, Alone, Over, Observe, Regular',
         NEW t \in Tabs, Kinds(t)
  PROVE  StaysCovered \/ OneSwapped
<1>1. Regular /\ "stale" \notin why' /\ "tabs" \notin why
  BY RegularWas
<1>2. "overlap" \notin why => InStep /\ Single(memory)
  BY <1>1 DEF Alone, Seen
<1>3. "overlap" \in why => ToSet(queue) \subseteq Carried
  BY <1>1 DEF Over
<1>4. faults' > faults => "overlap" \notin why
  BY <1>1, ObserveMeans
<1>5. ASSUME NEW q, Emits(t, q) PROVE StaysCovered
  BY <1>5, EmitsMeans, CoverMinted
<1>6. CASE Starts(t)
  BY <1>6, CoverStarts
<1>7. CASE Stops(t)
  BY <1>2, <1>4, <1>7, CoverStops DEF Stops
<1>8. ASSUME t \in Sdk, NEW i \in DOMAIN memory[t].flushes, GoesOn(t, i) PROVE StaysCovered
  BY <1>2, <1>3, <1>8, CoverGoesOn
<1>9. ASSUME t \in Sdk, NEW i \in DOMAIN memory[t].flushes, GivesUp(t, i) PROVE StaysCovered
  BY <1>2, <1>4, <1>9, CoverGivesUp DEF GivesUp
<1>10. CASE t \in Served /\ Drops(t)
  <2>1. "overlap" \notin why
    <3>1. ASSUME "overlap" \in why PROVE FALSE
      <4>1. why \subseteq why' /\ Others(t) /\ SameProgram(t)
        BY ObserveMeans, CopiesMade, StepProgram
      <4> QED
        BY <1>10, <3>1, <4>1, SdkOverlap
    <3> QED
      BY <3>1
  <2> QED
    BY <1>2, <1>10, <2>1, CoverDrops
<1> QED
  BY <1>5, <1>6, <1>7, <1>8, <1>9, <1>10 DEF Kinds

LEMMA NewCovered ==
  ASSUME Bounds, TypeOK, TypeOK', NEW t \in Tabs, Kinds(t)
  PROVE  /\ \A e \in 1..Len(log') : e \in 1..Len(log) \/ CoveredNext(e)
         /\ sent \subseteq sent' /\ evicted \subseteq evicted'
<1>0. Len(log) \in Nat /\ Len(log') \in Nat
  BY DEF TypeOK
<1>1. ASSUME NEW q, Emits(t, q)
      PROVE  /\ \A e \in 1..Len(log') : e \in 1..Len(log) \/ CoveredNext(e)
             /\ sent \subseteq sent' /\ evicted \subseteq evicted'
  <2>1. Minted(t)
    BY <1>1, EmitsMeans
  <2>2. \A e \in (Len(log) + 1)..Len(log') : CoveredNext(e)
    BY <2>1, KeptIs DEF Minted, CoveredNext
  <2>3. \A e \in 1..Len(log') : e \in 1..Len(log) \/ e \in (Len(log) + 1)..Len(log')
    BY <1>0
  <2> QED
    BY <2>1, <2>2, <2>3 DEF Minted
<1>2. CASE log' = log /\ sent \subseteq sent' /\ evicted \subseteq evicted'
  BY <1>2
<1> QED
  BY <1>1, <1>2 DEF Kinds, Starts, Stops, GoesOn, GivesUp, Drops

LEMMA LostIs ==
  /\ \A e : e \in Lost <=> e \in 1..Len(log) /\ ~Covered(e)
  /\ \A e : e \in Lost' <=> e \in 1..Len(log') /\ ~CoveredNext(e)
BY DEF Lost, Covered, CoveredNext

LEMMA Countable ==
  ASSUME NEW n \in Nat, NEW S, S \subseteq 1..n
  PROVE  IsFiniteSet(S) /\ Cardinality(S) \in Nat
BY RankSteps

LEMMA CountedKept ==
  ASSUME Bounds, TypeOK, TypeOK', OneProgram, Seen, SdkStays, Alone, Over, Counted, Observe,
         NEW t \in Tabs, Kinds(t)
  PROVE  Counted'
<1>1. SUFFICES ASSUME Regular' PROVE Cardinality(Lost') <= Cardinality(evicted' \cap sent')
  BY DEF Counted
<1> DEFINE L == Lost
           M == Lost'
           C == evicted \cap sent
           D == evicted' \cap sent'
<1>2. Cardinality(L) <= Cardinality(C)
  BY <1>1, RegularWas DEF Counted
<1>3. StaysCovered \/ OneSwapped
  BY <1>1, StepCovers
<1>4. /\ \A e \in 1..Len(log') : e \in 1..Len(log) \/ CoveredNext(e)
      /\ sent \subseteq sent' /\ evicted \subseteq evicted'
  BY NewCovered
<1>5. C \subseteq D
  BY <1>4
<1>6. Len(log) \in Nat /\ Len(log') \in Nat /\ L \subseteq 1..Len(log) /\ M \subseteq 1..Len(log')
  BY LostIs DEF TypeOK
<1>7. C \subseteq 1..Len(log) /\ D \subseteq 1..Len(log')
  BY DEF TypeOK
<1>8. /\ \A e : e \in L <=> e \in 1..Len(log) /\ ~Covered(e)
      /\ \A e : e \in M <=> e \in 1..Len(log') /\ ~CoveredNext(e)
  BY LostIs
<1>9. CASE OneSwapped
  <2>1. PICK x, h : /\ x \in evicted /\ x \notin sent /\ x \in sent'
                    /\ \A e : Covered(e) => e = h \/ CoveredNext(e)
    BY <1>9 DEF OneSwapped
  <2>2. M \subseteq L \cup {h}
    BY <1>4, <1>8, <2>1
  <2>3. x \notin C /\ C \cup {x} \subseteq D
    BY <1>4, <1>5, <2>1
  <2> HIDE DEF L, M, C, D
  <2>4. /\ IsFiniteSet(L) /\ IsFiniteSet(M) /\ IsFiniteSet(C) /\ IsFiniteSet(D)
        /\ Cardinality(L) \in Nat /\ Cardinality(M) \in Nat
        /\ Cardinality(C) \in Nat /\ Cardinality(D) \in Nat
    BY <1>6, <1>7, Countable
  <2>5. /\ IsFiniteSet(L \cup {h})
        /\ Cardinality(L \cup {h}) = IF h \in L THEN Cardinality(L) ELSE Cardinality(L) + 1
    BY <2>4, FS_AddElement
  <2>6. Cardinality(M) <= Cardinality(L \cup {h})
    BY <2>2, <2>5, FS_Subset
  <2>7. Cardinality(C \cup {x}) = Cardinality(C) + 1
    BY <2>3, <2>4, FS_AddElement
  <2>8. Cardinality(C \cup {x}) <= Cardinality(D)
    BY <2>3, <2>4, FS_Subset
  <2>9. Cardinality(M) <= Cardinality(D)
    BY <1>2, <2>4, <2>5, <2>6, <2>7, <2>8
  <2> QED
    BY <2>9 DEF M, D
<1>10. CASE StaysCovered
  <2>1. M \subseteq L
    BY <1>4, <1>8, <1>10 DEF StaysCovered
  <2> HIDE DEF L, M, C, D
  <2>4. /\ IsFiniteSet(L) /\ IsFiniteSet(D)
        /\ Cardinality(L) \in Nat /\ Cardinality(M) \in Nat
        /\ Cardinality(C) \in Nat /\ Cardinality(D) \in Nat
    BY <1>6, <1>7, Countable
  <2>5. Cardinality(M) <= Cardinality(L) /\ Cardinality(C) <= Cardinality(D)
    BY <1>5, <2>1, <2>4, FS_Subset
  <2>6. Cardinality(M) <= Cardinality(D)
    BY <1>2, <2>4, <2>5
  <2> QED
    BY <2>6 DEF M, D
<1> QED
  BY <1>3, <1>9, <1>10

-----------------------------------------------------------------------------
(* What is evicted.                                                         *)

LEMMA SentWasKept ==
  ASSUME Bounds, TypeOK, NEW t \in Tabs, Kinds(t)
  PROVE  \A e \in sent' : e \in sent \/ e \in Kept
<1>1. CASE sent' = sent
  BY <1>1
<1>2. ASSUME t \in Sdk, NEW i \in DOMAIN memory[t].flushes, GoesOn(t, i)
      PROVE  \A e \in sent' : e \in sent \/ e \in Kept
  BY <1>2, GoesOnCarries, KeptIs
<1>3. CASE Drops(t)
  <2> DEFINE F == memory[t].flushes
             f == F[1]
  <2>1. F \in Seq(Seq(1..Len(log)) \ {<<>>}) /\ F # <<>> /\ sent' = sent \cup {f[1]}
    BY <1>3, TypedMemory DEF Drops
  <2>2. f \in ToSet(F) /\ f \in Seq(1..Len(log)) \ {<<>>}
    <3> HIDE DEF F
    <3> QED
      BY <2>1 DEF ToSet
  <2>3. ToSet(f) \subseteq Carried
    BY <2>2, CopyCarried
  <2> HIDE DEF f
  <2>4. f[1] \in ToSet(f)
    BY <2>2 DEF ToSet
  <2> QED
    BY <2>1, <2>3, <2>4, KeptIs
<1> QED
  BY <1>1, <1>2, <1>3 DEF Kinds, Emits, Starts, Stops, GivesUp

\* Only an emission evicts or puts an event in storage that was not kept.
LEMMA OnlyEmissions ==
  ASSUME Bounds, TypeOK, NEW t \in Tabs, Kinds(t)
  PROVE  \/ \E q : Emits(t, q)
         \/ evicted' = evicted /\ log' = log /\ \A e \in ToSet(queue') : e \in Kept
<1>1. CASE Starts(t) \/ Stops(t)
  BY <1>1, KeptIs DEF Starts, Stops
<1>2. ASSUME t \in Sdk, NEW i \in DOMAIN memory[t].flushes, GoesOn(t, i)
      PROVE  evicted' = evicted /\ log' = log /\ \A e \in ToSet(queue') : e \in Kept
  BY <1>2, GoesOnCarries, KeptIs DEF GoesOn
<1>3. ASSUME NEW i \in DOMAIN memory[t].flushes, GivesUp(t, i)
      PROVE  evicted' = evicted /\ log' = log /\ \A e \in ToSet(queue') : e \in Kept
  <2>1. memory[t].flushes[i] \in ToSet(memory[t].flushes)
    BY DEF ToSet
  <2>2. ToSet(memory[t].flushes[i]) \subseteq Carried
    BY <2>1, CopyCarried
  <2> QED
    BY <1>3, <2>2, KeptIs DEF GivesUp
<1>4. CASE Drops(t)
  <2>1. queue \in Seq(1..Len(log)) /\ Len(log) \in Nat
    BY StateIs
  <2>2. \A e \in ToSet(queue') : e \in ToSet(queue)
    <3>1. CASE queue = <<>>
      BY <1>4, <3>1 DEF Drops
    <3>2. CASE queue # <<>>
      <4>1. \A e : e \in ToSet(queue) <=> e = Head(queue) \/ e \in ToSet(Tail(queue))
        BY <2>1, <3>2, TailOf
      <4> QED
        BY <1>4, <3>2, <4>1 DEF Drops
    <3> QED
      BY <3>1, <3>2
  <2> QED
    BY <1>4, <2>2, KeptIs DEF Drops
<1> QED
  BY <1>1, <1>2, <1>3, <1>4 DEF Kinds

\* An event that an emission evicts while no send is under way stays nowhere.
LEMMA EvictedIdle ==
  ASSUME Bounds, TypeOK, TypeOK', Alone, Over, Regular, NEW t \in Tabs, Minted(t), NewCopies(t),
         \A u \in Tabs : memory[u].flushes = <<>>, NEW e \in evicted' \ evicted
  PROVE  e \notin sent' /\ e \notin Kept'
<1>1. \A d : d \notin Carried
  <2> TAKE d
  <2>1. ASSUME NEW u \in Tabs, NEW f \in ToSet(memory[u].flushes) PROVE FALSE
    <3>1. ToSet(<<>>) = {}
      BY DEF ToSet
    <3> QED
      BY <2>1, <3>1
  <2> QED
    BY <2>1, CarriedIs DEF Carried
<1>2. e \notin ToSet(queue') /\ (e \in ToSet(queue) \/ e \in (Len(log) + 1)..Len(log'))
  BY DEF Minted
<1>3. e \notin Kept'
  <2>1. ASSUME e \in Carried' PROVE FALSE
    <3>1. PICK f \in ToSet(memory'[t].flushes) \ ToSet(memory[t].flushes) : e \in ToSet(f)
      BY <1>1, <2>1, CarriedChange DEF Minted
    <3>2. f = queue' \/ (queue' # <<>> /\ f = <<Head(queue')>>)
      BY <3>1 DEF NewCopies
    <3>3. e # Head(queue') \/ queue' = <<>>
      <4>1. queue' \in Seq(1..Len(log')) /\ Len(log') \in Nat
        BY DEF TypeOK
      <4>2. queue' # <<>> => Head(queue') \in ToSet(queue')
        BY <4>1, TailOf
      <4> QED
        BY <1>2, <4>2
    <3>4. f = <<Head(queue')>> => e = Head(queue')
      BY <3>1 DEF ToSet
    <3> QED
      BY <1>2, <3>1, <3>2, <3>3, <3>4
  <2> QED
    BY <1>2, <2>1, KeptIs
<1>4. e \notin sent
  <2>1. CASE e \in (Len(log) + 1)..Len(log')
    <3>1. ASSUME e \in sent PROVE FALSE
      <4>1. e \in 1..Len(log) /\ Len(log) \in Nat
        BY <3>1, Numbered
      <4> QED
        BY <2>1, <4>1
    <3> QED
      BY <3>1
  <2>2. CASE e \in ToSet(queue)
    <3>1. "overlap" \notin why
      BY <1>1, <2>2 DEF Over
    <3>2. e \in Kept /\ e \in 1..Len(log) /\ Len(log) \in Nat
      BY <2>2, KeptIs, Numbered
    <3>3. \A d \in sent : d < e
      BY <3>1, <3>2 DEF Alone, InStep
    <3> QED
      BY <3>2, <3>3
  <2> QED
    BY <1>2, <2>1, <2>2
<1> QED
  BY <1>3, <1>4 DEF Minted

LEMMA UnsentKept ==
  ASSUME Bounds, TypeOK, TypeOK', Alone, Over, Unsent, Observe, NEW t \in Tabs, Kinds(t)
  PROVE  Unsent'
<1>1. SUFFICES ASSUME why' \subseteq {"overlap"}, NEW e \in evicted'
               PROVE  e \notin sent' /\ e \notin Kept'
  BY DEF Unsent
<1>2. why \subseteq {"overlap"} /\ Regular
  BY <1>1, ObserveMeans DEF Regular
<1>3. NewCopies(t) /\ Others(t)
  BY CopiesMade
<1>4. \A d \in evicted : d \notin sent /\ d \notin Kept
  BY <1>2 DEF Unsent
<1>5. e \in Kept' => e \in Kept \/ e \in ToSet(queue')
  BY <1>3, KeptChange
<1>6. e \in sent' => e \in sent \/ e \in Kept
  BY SentWasKept
<1>7. CASE evicted' = evicted /\ \A d \in ToSet(queue') : d \in Kept
  BY <1>1, <1>4, <1>5, <1>6, <1>7
<1>8. ASSUME NEW q, Emits(t, q) PROVE e \notin sent' /\ e \notin Kept'
  <2>1. Minted(t)
    BY <1>8, EmitsMeans
  <2>2. CASE e \in evicted
    <3>1. e \in 1..Len(log) /\ Len(log) \in Nat
      BY <2>2, Numbered
    <3>2. e \in ToSet(queue') => e \in ToSet(queue) \/ e \in (Len(log) + 1)..Len(log')
      BY <2>1 DEF Minted
    <3>3. e \notin (Len(log) + 1)..Len(log')
      BY <3>1
    <3> QED
      BY <1>4, <1>5, <1>6, <2>2, <3>2, <3>3, KeptIs
  <2>3. CASE e \notin evicted
    <3>1. \A u \in Tabs : memory[u].flushes = <<>>
      <4>1. evicted' # evicted /\ "eviction" \notin why'
        BY <1>1, <2>3
      <4> QED
        BY <4>1, ObserveMeans
    <3> QED
      BY <1>1, <1>2, <1>3, <2>1, <2>3, <3>1, EvictedIdle
  <2> QED
    BY <2>2, <2>3
<1>9. \/ \E q : Emits(t, q)
      \/ evicted' = evicted /\ log' = log /\ \A d \in ToSet(queue') : d \in Kept
  BY OnlyEmissions
<1> QED
  BY <1>7, <1>8, <1>9

-----------------------------------------------------------------------------
(* The theorems.                                                            *)

LEMMA PixelInit ==
  ASSUME Bounds, Init
  PROVE  PixelInv
<1>1. /\ queue = <<>> /\ log = <<>> /\ sent = {} /\ evicted = {} /\ faults = 0 /\ why = {}
      /\ memory = [t \in Tabs |-> Fresh]
  BY DEF Init, StorageInit
<1>2. /\ <<>> \in Seq(Event) /\ Len(<<>>) = 0 /\ 1..0 = {} /\ ToSet(<<>>) = {}
      /\ <<>> \in Seq(1..0) /\ DOMAIN <<>> = {}
  BY DEF ToSet
<1>3. Len(log) = 0 /\ 0 \in Nat
  BY <1>1
<1>4. \A t \in Tabs : memory[t] = Fresh
  BY <1>1
<1>5. Fresh \in Memories(0) /\ Fresh.flushes = <<>> /\ ~Fresh.open
  BY FreshIs
<1>6. memory \in [Tabs -> Memory]
  BY <1>1, <1>3, <1>5 DEF Memory, Memories
<1>7. TypeOK
  <2>1. /\ log \in Seq(Event) /\ Len(log) <= MaxEvents /\ faults \in 0..MaxFaults
        /\ queue \in Seq(1..Len(log)) /\ Len(queue) <= MaxQueue
    BY <1>1, <1>2, <1>3, BoundsAre
  <2> QED
    BY <1>1, <1>2, <1>4, <1>5, <1>6, <2>1 DEF TypeOK
<1>8. \A t \in Tabs : memory[t].flushes = <<>> /\ ~memory[t].open
  BY <1>4, <1>5
<1>9. Ascending
  BY <1>1, <1>2, <1>8 DEF Ascending, Increasing
<1>10. OneProgram
  <2>1. Served \subseteq Tabs /\ Sdk \subseteq Tabs
    BY DEF Tabs
  <2> QED
    BY <1>2, <1>8, <2>1 DEF OneProgram
<1>11. Single(memory)
  BY <1>8 DEF Single
<1>12. Seen /\ SdkStays
  BY <1>1, <1>11 DEF Seen, SdkStays
<1>13. \A e : e \notin Carried
  <2>1. \A t \in Tabs : \A f : f \notin ToSet(memory[t].flushes)
    BY <1>2, <1>8
  <2> QED
    BY <2>1, CarriedIs DEF Carried
<1>14. Kept = {}
  BY <1>1, <1>2, <1>13, KeptIs
<1>15. Alone
  <2>1. Served \subseteq Tabs /\ Sdk \subseteq Tabs
    BY DEF Tabs
  <2>2. InStep
    BY <1>1, <1>8, <2>1 DEF InStep
  <2> QED
    BY <2>2 DEF Alone
<1>16. Over /\ Unsent
  BY <1>1 DEF Over, Unsent
<1>17. Counted
  <2>1. Lost = {} /\ evicted \cap sent = {}
    BY <1>1, <1>2, <1>3 DEF Lost
  <2> QED
    BY <2>1, FS_EmptySet DEF Counted
<1> QED
  BY <1>7, <1>9, <1>10, <1>12, <1>15, <1>16, <1>17 DEF PixelInv

LEMMA PixelStep ==
  ASSUME Bounds, PixelInv, NEW t \in Tabs, Step(t), Observe
  PROVE  PixelInv'
<1>1. /\ TypeOK /\ Ascending /\ OneProgram /\ Seen /\ SdkStays
      /\ Alone /\ Over /\ Counted /\ Unsent
  BY DEF PixelInv
<1>2. TypeOK' /\ Kinds(t)
  BY <1>1, StepKinds
<1>3. Others(t)
  BY <1>1, <1>2, CopiesMade
<1>4. Ascending'
  BY <1>1, <1>2, AscendingKept
<1>5. OneProgram'
  BY <1>1, <1>2, OneProgramKept
<1>6. Seen'
  BY <1>2, SeenKept
<1>7. SdkStays'
  BY <1>1, <1>2, <1>3, SdkStaysKept
<1>8. Alone'
  BY <1>1, <1>2, <1>4, AloneKept
<1>9. Over'
  BY <1>1, <1>2, OverKept
<1>10. Counted'
  BY <1>1, <1>2, CountedKept
<1>11. Unsent'
  BY <1>1, <1>2, UnsentKept
<1> QED
  BY <1>2, <1>4, <1>5, <1>6, <1>7, <1>8, <1>9, <1>10, <1>11 DEF PixelInv

LEMMA PixelStutter ==
  ASSUME PixelInv, UNCHANGED vars
  PROVE  PixelInv'
<1>1. /\ queue' = queue /\ log' = log /\ memory' = memory /\ sent' = sent
      /\ evicted' = evicted /\ faults' = faults /\ why' = why
  BY DEF vars
<1>2. Carried' = Carried
  BY <1>1 DEF Carried
<1>3. Kept' = Kept
  BY <1>1, <1>2 DEF Kept
<1>4. Lost' = Lost
  BY <1>1, <1>3 DEF Lost
<1>5. TypeOK'
  BY <1>1 DEF PixelInv, TypeOK, Memory
<1>6. Ascending' /\ OneProgram' /\ Seen' /\ SdkStays'
  BY <1>1 DEF PixelInv, Ascending, OneProgram, Seen, SdkStays
<1>7. Alone' /\ Over'
  BY <1>1, <1>2, <1>3 DEF PixelInv, Alone, InStep, Regular, Over
<1>8. Counted' /\ Unsent'
  BY <1>1, <1>3, <1>4 DEF PixelInv, Counted, Regular, Unsent
<1> QED
  BY <1>5, <1>6, <1>7, <1>8 DEF PixelInv

-----------------------------------------------------------------------------
(* The theorems.                                                             *)

\* The inductive invariant: types, the order of copies and queue, one program
\* at a time, what one flush alone and several SDK flushes have in common with
\* the queue, and the account of lost events.
THEOREM PixelInvariant == Spec => []PixelInv
<1>1. Init => PixelInv
  BY Bounds, PixelInit
<1>2. PixelInv /\ [Next]_vars => PixelInv'
  <2>1. ASSUME PixelInv, NEW t \in Tabs, Step(t), Observe PROVE PixelInv'
    BY <2>1, Bounds, PixelStep
  <2>2. ASSUME PixelInv, UNCHANGED vars PROVE PixelInv'
    BY <2>2, PixelStutter
  <2> QED
    BY <2>1, <2>2 DEF Next
<1> QED
  BY <1>1, <1>2, PTL DEF Spec

\* The queue stays within MAX_QUEUE after every write (evictToCap), a served tab
\* has one flush at a time, the backoff stays in its schedule, and a closed tab
\* remembers nothing.
THEOREM PixelTypeOK == Spec => []TypeOK
<1>1. PixelInv => TypeOK
  BY DEF PixelInv
<1> QED
  BY <1>1, PixelInvariant, PTL

\* For each event that is nowhere any more, another one was delivered although an
\* eviction had counted it: the head that evictToCap dropped during its send
\* (runtime.ts step: the answer drops whatever is the head by then).
THEOREM PixelLossIsCounted == Spec => []LossIsCounted
<1>1. PixelInv => LossIsCounted
  <2>1. Counted => LossIsCounted
    BY DEF Counted, LossIsCounted, Regular
  <2> QED
    BY <2>1 DEF PixelInv
<1> QED
  BY <1>1, PixelInvariant, PTL

\* Without an eviction during a send nothing evicted was delivered, so the
\* account leaves no room for a loss.
LEMMA NoReasonNoLoss ==
  ASSUME PixelInv
  PROVE  LossNeedsReason
<1>1. SUFFICES ASSUME why \subseteq {"overlap"} PROVE Lost = {}
  BY DEF LossNeedsReason
<1>2. TypeOK /\ Counted /\ Unsent /\ Regular
  BY <1>1 DEF PixelInv, Regular
<1>3. evicted \cap sent = {}
  BY <1>1, <1>2 DEF Unsent
<1>4. Cardinality(evicted \cap sent) = 0
  BY <1>3, FS_EmptySet
<1>5. Cardinality(Lost) <= 0
  BY <1>2, <1>4 DEF Counted
<1>6. Lost \subseteq 1..Len(log) /\ Len(log) \in Nat
  BY <1>2 DEF Lost, TypeOK
<1>7. IsFiniteSet(Lost) /\ Cardinality(Lost) \in Nat
  BY <1>6, Countable
<1>8. Cardinality(Lost) = 0
  BY <1>5, <1>7
<1> QED
  BY <1>7, <1>8, FS_EmptySet

\* An event is delivered, counted as evicted, in storage or in a flush, unless a
\* served flush overlapped another tab's, an eviction met a send, or a send failed
\* or a tab closed after SDK flushes had overlapped (flush of runtime.ts and
\* transport.ts).
THEOREM PixelLossNeedsReason == Spec => []LossNeedsReason
<1>1. PixelInv => LossNeedsReason
  BY NoReasonNoLoss
<1> QED
  BY <1>1, PixelInvariant, PTL

\* What was delivered before is older than everything still kept, as long as no
\* two flushes have overlapped.
LEMMA InOrder ==
  ASSUME Bounds, PixelInv, NEW t \in Tabs, Step(t), Observe, why' \subseteq {"eviction"},
         NEW e \in sent' \ sent, NEW d \in sent
  PROVE  d < e
<1>1. TypeOK /\ Ascending /\ OneProgram /\ Alone
  BY DEF PixelInv
<1>2. TypeOK' /\ Kinds(t)
  BY <1>1, StepKinds
<1>3. why \subseteq {"eviction"}
  BY <1>2, ObserveMeans
<1>4. InStep
  BY <1>1, <1>3 DEF Alone, Regular
<1>5. e \in Kept
  BY <1>1, <1>2, SentWasKept
<1> QED
  BY <1>4, <1>5 DEF InStep

\* As long as flushes do not overlap, both programs hand events over in the order
\* they were emitted, evictions during a send or not: a send is always of the
\* oldest event kept.
THEOREM PixelHandedInOrder == Spec => HandedInOrder
<1>1. PixelInv /\ [Next]_vars =>
        [why' \subseteq {"eviction"} => \A e \in sent' \ sent : \A d \in sent : d < e]_vars
  <2>1. ASSUME PixelInv, NEW t \in Tabs, Step(t), Observe, why' \subseteq {"eviction"}
        PROVE  \A e \in sent' \ sent : \A d \in sent : d < e
    BY <2>1, Bounds, InOrder
  <2> QED
    BY <2>1 DEF Next
<1> QED
  BY <1>1, PixelInvariant, PTL DEF Spec, HandedInOrder

\* An emission evicts from a queue that lists its events in the order they were
\* emitted, so the oldest positions are the oldest events.
LEMMA NoiseFirst ==
  ASSUME Bounds, PixelInv, NEW t \in Tabs, Step(t), Observe, log' # log,
         NEW e \in Offered \ ToSet(queue'), NEW d \in ToSet(queue')
  PROVE  /\ log'[e].critical => log'[d].critical
         /\ log'[e].critical = log'[d].critical => e < d
<1>1. TypeOK /\ Ascending /\ OneProgram
  BY DEF PixelInv
<1>2. TypeOK' /\ Kinds(t)
  BY <1>1, StepKinds
<1>3. PICK q : Emits(t, q)
  BY <1>1, <1>2, OnlyEmissions
<1>4. /\ q \in Seq(1..Len(log')) /\ Len(log') \in Nat
      /\ \A x : x \in ToSet(q) <=> x \in ToSet(queue) \/ x \in (Len(log) + 1)..Len(log')
      /\ Increasing(queue) => Increasing(q)
      /\ queue' = EvictToCap(q, log')
  BY <1>2, <1>3 DEF Emits, TypeOK
<1>5. Keeps(queue', q, log')
  <2>1. Keeps(EvictToCap(q, log'), q, log')
    BY <1>4, EvictKeeps, Zenon
  <2> QED
    BY <1>4, <2>1
<1>6. e \in ToSet(q) \ ToSet(queue')
  BY <1>4 DEF Offered
<1>7. Increasing(q)
  BY <1>1, <1>4 DEF Ascending
<1>8. log'[e].critical => log'[d].critical
  BY <1>5, <1>6 DEF Keeps
<1>9. e < d \/ (~log'[e].critical /\ log'[d].critical)
  BY <1>5, <1>6, <1>7, Zenon DEF Keeps
<1> QED
  BY <1>8, <1>9

\* An emission that leaves something out of storage (evictToCap, enqueue) leaves
\* out the oldest of a class, and critical events only when nothing else stays:
\* for any number of tabs, and after flushes that overlapped or met an eviction.
THEOREM PixelOldestNoiseFirst == Spec => OldestNoiseFirst
<1>1. PixelInv /\ [Next]_vars =>
        [log' # log =>
           \A e \in Offered \ ToSet(queue'), d \in ToSet(queue') :
             /\ log'[e].critical => log'[d].critical
             /\ log'[e].critical = log'[d].critical => e < d]_vars
  <2>1. ASSUME PixelInv, NEW t \in Tabs, Step(t), Observe, log' # log
        PROVE  \A e \in Offered \ ToSet(queue'), d \in ToSet(queue') :
                 /\ log'[e].critical => log'[d].critical
                 /\ log'[e].critical = log'[d].critical => e < d
    BY <2>1, Bounds, NoiseFirst
  <2> QED
    BY <2>1 DEF Next
<1> QED
  BY <1>1, PixelInvariant, PTL DEF Spec, OldestNoiseFirst
=============================================================================
