------------------------- MODULE RateLimiterProofs -------------------------
(***************************************************************************)
(* What holds of the rate limiter for every limit, every set of costs and  *)
(* every length of a second: it lets through no more than maxRps_ in any   *)
(* second, and makes nobody wait that it could let through.                *)
(***************************************************************************)
EXTENDS RateLimiter, DataTheorems, SequenceTheorems

Entry == [cost : 1..MaxRps, ts : Nat]

\* the costs let through, by their number
Cost == [i \in DOMAIN granted |-> granted[i].cost]

\* the requests let through after a time, and not before it
After(t) == {i \in DOMAIN granted : granted[i].ts > t}
Since(t) == {i \in DOMAIN granted : granted[i].ts >= t}

(***************************************************************************)
(* The inductive invariant. The history is in the order of time; what the  *)
(* limiter remembers is its end, and what it has forgotten is more than a  *)
(* second old; totalCost_ is what it remembers.                            *)
(***************************************************************************)
HistoryInv ==
    /\ now \in Nat
    /\ granted \in Seq(Entry)
    /\ \A i \in DOMAIN granted : granted[i].ts <= now
    /\ \A i, j \in DOMAIN granted : i <= j => granted[i].ts <= granted[j].ts

\* entries remember the history but for its first n requests
Remember(entries, total, n) ==
    /\ entries \in Seq(Entry)
    /\ n \in Nat /\ Len(entries) + n = Len(granted)
    /\ \A i \in 1..Len(entries) : entries[i] = granted[n + i]
    /\ \A i \in 1..n : now - granted[i].ts > Second
    /\ total = Sum(Cost, (n + 1)..Len(granted))

MemoryInv == \E n \in Nat : Remember(requests, totalCost, n)

(***************************************************************************)
(* A thread wakes up when what was let through in the second before leaves *)
(* room for it, and no earlier.                                            *)
(***************************************************************************)
Fits(h) == Sum(Cost, After(h.wakeAt - Second)) + h.cost <= MaxRps
Tight(h) == now < h.wakeAt => Sum(Cost, Since(h.wakeAt - Second)) + h.cost > MaxRps

HolderInv ==
    \A h \in holders : /\ h.cost \in 1..MaxRps /\ h.wakeAt \in Nat
                       /\ Fits(h)
                       /\ Tight(h)

BoundInv == \A t \in Nat : Window(t) <= MaxRps

IInv == HistoryInv /\ MemoryInv /\ HolderInv /\ BoundInv

-----------------------------------------------------------------------------
(***************************************************************************)
(* Sums of costs.                                                          *)
(***************************************************************************)
LEMMA CostFacts ==
    ASSUME granted \in Seq(Entry)
    PROVE  /\ DOMAIN granted = 1..Len(granted) /\ Len(granted) \in Nat
           /\ IsFiniteSet(DOMAIN granted)
           /\ \A i \in DOMAIN granted : /\ Cost[i] \in Nat
                                        /\ granted[i].cost \in 1..MaxRps
                                        /\ granted[i].ts \in Nat
<1>1. DOMAIN granted = 1..Len(granted) /\ Len(granted) \in Nat
  OBVIOUS
<1>2. IsFiniteSet(DOMAIN granted)
  BY <1>1, FS_Interval
<1>3. \A i \in DOMAIN granted : granted[i] \in Entry
  OBVIOUS
<1> QED  BY <1>1, <1>2, <1>3, RateLimiterAssumption DEF Entry, Cost

\* fewer requests cost no more
LEMMA CostMonotone ==
    ASSUME granted \in Seq(Entry),
           NEW J \in SUBSET DOMAIN granted, NEW I \in SUBSET J
    PROVE  /\ Sum(Cost, I) \in Nat /\ Sum(Cost, J) \in Nat
           /\ Sum(Cost, I) <= Sum(Cost, J)
<1>1. IsFiniteSet(J) /\ \A i \in J : Cost[i] \in Nat
  BY CostFacts, FS_Subset
<1> QED  BY <1>1, SumNat

\* the cost of the oldest requests that are remembered
LEMMA OldestCost ==
    ASSUME HistoryInv, NEW entries, NEW total, NEW n \in Nat,
           Remember(entries, total, n), NEW m \in 0..Len(entries)
    PROVE  /\ SumOf(entries, 1..m) = Sum(Cost, (n + 1)..(n + m))
           /\ total = SumOf(entries, 1..m) + Sum(Cost, (n + m + 1)..Len(granted))
           /\ SumOf(entries, 1..m) \in Nat
           /\ Sum(Cost, (n + m + 1)..Len(granted)) \in Nat
           /\ total \in Nat
<1> DEFINE f == [i \in DOMAIN entries |-> entries[i].cost]
           A == (n + 1)..(n + m)
           B == (n + m + 1)..Len(granted)
           C == (n + 1)..Len(granted)
<1>1. /\ Len(entries) \in Nat /\ Len(granted) \in Nat
      /\ Len(entries) + n = Len(granted)
      /\ DOMAIN granted = 1..Len(granted)
      /\ granted \in Seq(Entry)
  BY CostFacts DEF Remember, HistoryInv
<1>2. \A i \in 1..m : f[i] \in Int /\ Cost[n + i] = f[i]
  <2>1. SUFFICES ASSUME NEW i \in 1..m PROVE f[i] \in Int /\ Cost[n + i] = f[i]
    OBVIOUS
  <2>2. i \in DOMAIN entries /\ n + i \in DOMAIN granted
    BY <1>1 DEF Remember
  <2>3. f[i] = granted[n + i].cost
    BY <2>2 DEF Remember
  <2> QED  BY <1>1, <2>2, <2>3, CostFacts DEF Cost
<1>3. Sum(Cost, A) = Sum(f, 1..m)
  <2>1. m \in Nat
    BY <1>1
  <2> HIDE DEF f
  <2> QED  BY <1>2, <2>1, SumShift
<1>4. /\ C \in SUBSET DOMAIN granted /\ A \in SUBSET C
      /\ B = C \ A /\ A = C \ B /\ B \in SUBSET C
  BY <1>1
<1>5. IsFiniteSet(C) /\ \A i \in C : Cost[i] \in Nat
  BY <1>1, <1>4, CostFacts, FS_Subset
<1> HIDE DEF A, B, C, f
<1>6. Sum(Cost, C) = Sum(Cost, A) + Sum(Cost, B)
  <2>1. \A i \in C : Cost[i] \in Int
    BY <1>5
  <2>2. Sum(Cost, C) = Sum(Cost, A) + Sum(Cost, C \ A)
    BY <1>4, <1>5, <2>1, SumSplit
  <2> QED  BY <1>4, <2>2
<1>7. Sum(Cost, A) \in Nat /\ Sum(Cost, B) \in Nat /\ Sum(Cost, C) \in Nat
  BY <1>4, <1>5, SumNat
<1>8. total = Sum(Cost, C) /\ SumOf(entries, 1..m) = Sum(Cost, A)
  BY <1>3 DEF Remember, C, SumOf, Sum, f
<1> QED  BY <1>6, <1>7, <1>8 DEF A, B

-----------------------------------------------------------------------------
(***************************************************************************)
(* acquire, until the sleep                                                *)
(***************************************************************************)
\* all requests that are too old are found, and only those
LEMMA ExpiredFacts ==
    ASSUME HistoryInv, requests \in Seq(Entry)
    PROVE  /\ Expired \in 0..Len(requests)
           /\ \A i \in 1..Expired : now - requests[i].ts > Second
           /\ Expired < Len(requests) => ~(now - requests[Expired + 1].ts > Second)
<1> DEFINE S == {n \in 0..Len(requests) :
                     \A i \in 1..n : now - requests[i].ts > Second}
<1>1. Len(requests) \in Nat
  OBVIOUS
<1>2. S \in SUBSET Nat /\ 0 \in S /\ \A n \in S : n <= Len(requests)
  BY <1>1
<1>3. Max(S) \in S /\ \A n \in S : n <= Max(S)
  <2> HIDE DEF S
  <2> QED  BY <1>1, <1>2, BoundedHasMax
<1>4. Expired = Max(S)
  BY DEF Expired
<1> HIDE DEF Expired
<1>5. Expired \in 0..Len(requests) /\ \A i \in 1..Expired : now - requests[i].ts > Second
  BY <1>3, <1>4
<1>6. ASSUME Expired < Len(requests), now - requests[Expired + 1].ts > Second
      PROVE  FALSE
  <2>1. \A i \in 1..(Expired + 1) : now - requests[i].ts > Second
    BY <1>5, <1>6
  <2>2. Expired + 1 \in S
    BY <1>1, <1>5, <1>6, <2>1
  <2> QED  BY <1>3, <1>4, <1>5, <2>2
<1> QED  BY <1>5, <1>6

(***************************************************************************)
(* What is forgotten is more than a second old, and totalCost_ follows.    *)
(***************************************************************************)
LEMMA AcquireMemory ==
    ASSUME IInv, NEW cost \in Costs, Acquire(cost)
    PROVE  \E n \in Nat :
               /\ Remember(requests', totalCost', n)
               /\ Len(requests') > 0 => ~(now - requests'[1].ts > Second)
<1>1. PICK k \in Nat : Remember(requests, totalCost, k)
  BY DEF IInv, MemoryInv
<1> DEFINE e == Expired
           n == k + e
<1>2. HistoryInv /\ requests \in Seq(Entry)
  BY <1>1 DEF IInv, Remember
<1>3. /\ e \in 0..Len(requests)
      /\ \A i \in 1..e : now - requests[i].ts > Second
      /\ e < Len(requests) => ~(now - requests[e + 1].ts > Second)
  BY <1>2, ExpiredFacts
<1>4. requests' = SubSeq(requests, e + 1, Len(requests))
  BY DEF Acquire
<1>5. totalCost' = totalCost - SumOf(requests, 1..e)
  BY DEF Acquire
<1> HIDE DEF e
<1>6. /\ Len(requests) \in Nat /\ Len(granted) \in Nat
      /\ Len(requests) + k = Len(granted)
  BY <1>1, <1>2 DEF Remember, HistoryInv
<1>7. /\ requests' \in Seq(Entry)
      /\ Len(requests') = Len(requests) - e
      /\ \A i \in 1..(Len(requests) - e) : requests'[i] = requests[e + i]
  <2>1. \A i \in (e + 1)..Len(requests) : requests[i] \in Entry
    BY <1>2, <1>3, <1>6
  <2>2. e + 1 \in Int /\ Len(requests) \in Int
    BY <1>3, <1>6
  <2> DEFINE r == SubSeq(requests, e + 1, Len(requests))
  <2>3. /\ r \in Seq(Entry)
        /\ Len(r) = IF e + 1 <= Len(requests) THEN Len(requests) - (e + 1) + 1 ELSE 0
        /\ \A i \in 1..(Len(requests) - (e + 1) + 1) : r[i] = requests[e + 1 + i - 1]
    BY <2>1, <2>2, SubSeqProperties
  <2> HIDE DEF r
  <2>4. Len(r) = Len(requests) - e
    BY <1>3, <1>6, <2>3
  <2>5. \A i \in 1..(Len(requests) - e) : r[i] = requests[e + i]
    <3>1. \A i \in 1..(Len(requests) - e) :
              i \in 1..(Len(requests) - (e + 1) + 1) /\ e + 1 + i - 1 = e + i
      BY <1>3, <1>6
    <3> QED  BY <2>3, <3>1
  <2> QED  BY <1>4, <2>3, <2>4, <2>5 DEF r
<1>8. n \in Nat /\ Len(requests') + n = Len(granted)
  BY <1>3, <1>6, <1>7
<1>9. \A i \in 1..Len(requests') : requests'[i] = granted[n + i]
  <2>1. SUFFICES ASSUME NEW i \in 1..Len(requests')
                 PROVE  requests'[i] = granted[n + i]
    OBVIOUS
  <2>2. e + i \in 1..Len(requests) /\ k + (e + i) = n + i
    BY <1>3, <1>6, <1>7
  <2> QED  BY <1>1, <1>7, <2>2 DEF Remember
<1>10. \A i \in 1..n : now - granted[i].ts > Second
  <2>1. SUFFICES ASSUME NEW i \in 1..n, ~(i \in 1..k)
                 PROVE  now - granted[i].ts > Second
    BY <1>1 DEF Remember
  <2>2. i - k \in 1..e /\ i - k \in 1..Len(requests) /\ k + (i - k) = i
    BY <1>3, <1>6, <2>1
  <2>3. requests[i - k] = granted[i]
    BY <1>1, <2>2 DEF Remember
  <2> QED  BY <1>3, <2>2, <2>3
<1>11. totalCost' = Sum(Cost, (n + 1)..Len(granted))
  BY <1>1, <1>2, <1>3, <1>5, OldestCost
<1>12. Remember(requests', totalCost', n)
  <2> HIDE DEF n
  <2> QED  BY <1>7, <1>8, <1>9, <1>10, <1>11 DEF Remember
<1>13. Len(requests') > 0 => ~(now - requests'[1].ts > Second)
  <2>1. ASSUME Len(requests') > 0 PROVE ~(now - requests'[1].ts > Second)
    <3>1. e < Len(requests) /\ requests'[1] = requests[e + 1]
      BY <1>3, <1>6, <1>7, <2>1
    <3> QED  BY <1>3, <3>1
  <2> QED  BY <2>1
<1> QED  BY <1>8, <1>12, <1>13

(***************************************************************************)
(* The time to wake up: once the thread may go on, what was let through in *)
(* the second before leaves room for its request; and as long as it may    *)
(* not, it does not.                                                       *)
(***************************************************************************)
LEMMA WakeAtRight ==
    ASSUME HistoryInv, NEW entries, NEW total, NEW n \in Nat,
           Remember(entries, total, n),
           Len(entries) > 0 => ~(now - entries[1].ts > Second),
           NEW c \in 1..MaxRps,
           NEW h, h = [cost |-> c, wakeAt |-> WakeAt(entries, total, c)]
    PROVE  h.wakeAt \in Nat /\ Fits(h) /\ Tight(h)
<1> DEFINE w == WakeAt(entries, total, c)
           Frees == {m \in DOMAIN entries :
                         total - SumOf(entries, 1..m) + c <= MaxRps}
<1>1. /\ h.cost = c /\ h.wakeAt = w /\ c \in Nat
      /\ MaxRps \in Nat /\ Second \in Nat \ {0}
  BY RateLimiterAssumption
<1>2. /\ now \in Nat
      /\ granted \in Seq(Entry)
      /\ DOMAIN granted = 1..Len(granted)
      /\ Len(granted) \in Nat /\ Len(entries) \in Nat
      /\ Len(entries) + n = Len(granted)
      /\ DOMAIN entries = 1..Len(entries)
      /\ \A i \in 1..n : now - granted[i].ts > Second
      /\ \A i \in 1..Len(entries) : entries[i] = granted[n + i]
  BY CostFacts DEF HistoryInv, Remember
<1>3. /\ \A i \in DOMAIN granted : granted[i].ts \in Nat /\ granted[i].ts <= now
      /\ \A i, j \in DOMAIN granted : i <= j => granted[i].ts <= granted[j].ts
  BY <1>2, CostFacts DEF HistoryInv
<1>4. total \in Nat /\ total = Sum(Cost, (n + 1)..Len(granted))
  <2>1. 0 \in 0..Len(entries)
    BY <1>2
  <2> QED  BY <2>1, OldestCost DEF Remember
<1>5. w = IF total + c <= MaxRps \/ Frees = {} THEN now
          ELSE entries[Min(Frees)].ts + Second
  BY DEF WakeAt
<1> HIDE DEF w, Frees
<1>6. CASE total + c <= MaxRps
  <2>1. w = now
    BY <1>5, <1>6
  <2>2. After(w - Second) \subseteq (n + 1)..Len(granted)
    <3>1. SUFFICES ASSUME NEW i \in DOMAIN granted, granted[i].ts > w - Second, i <= n
                   PROVE  FALSE
      BY <1>2 DEF After
    <3>2. now - granted[i].ts > Second
      BY <1>2, <3>1
    <3> QED  BY <1>1, <1>2, <1>3, <2>1, <3>1, <3>2
  <2>3. (n + 1)..Len(granted) \in SUBSET DOMAIN granted
    BY <1>2
  <2>4. Sum(Cost, After(w - Second)) \in Nat /\ Sum(Cost, After(w - Second)) <= total
    BY <1>2, <1>4, <2>2, <2>3, CostMonotone
  <2>5. Fits(h)
    BY <1>1, <1>4, <1>6, <2>4 DEF Fits
  <2>6. Tight(h)
    BY <1>1, <1>2, <2>1 DEF Tight
  <2> QED  BY <1>1, <1>2, <2>1, <2>5, <2>6
<1>7. CASE ~(total + c <= MaxRps)
  <2>1. Frees # {}
    <3> DEFINE l == Len(entries)
    <3>1. l \in 0..Len(entries)
      BY <1>2
    <3>2. total = SumOf(entries, 1..l) + Sum(Cost, (n + l + 1)..Len(granted))
          /\ SumOf(entries, 1..l) \in Nat
      BY <3>1, OldestCost
    <3>3. (n + l + 1)..Len(granted) = {}
      BY <1>2
    <3>4. total - SumOf(entries, 1..l) + c <= MaxRps
      <4>1. Sum(Cost, (n + l + 1)..Len(granted)) = 0
        BY <3>3, SumEmpty
      <4> DEFINE s == SumOf(entries, 1..l)
      <4>2. total = s + 0 /\ s \in Nat
        BY <3>2, <4>1
      <4> HIDE DEF s
      <4>3. total - s + c <= MaxRps
        BY <1>1, <1>4, <4>2
      <4> QED  BY <4>3 DEF s
    <3>5. l # 0
      <4>1. ASSUME l = 0 PROVE FALSE
        <5>1. SumOf(entries, 1..l) = 0
          <6>1. 1..l = {}
            BY <4>1
          <6> QED  BY <6>1, SumEmpty DEF SumOf, Sum
        <5> QED  BY <1>1, <1>4, <1>7, <3>4, <5>1
      <4> QED  BY <4>1
    <3>6. l \in DOMAIN entries
      BY <1>2, <3>5
    <3> QED  BY <3>4, <3>6 DEF Frees
  <2> DEFINE m == Min(Frees)
  <2>2. m \in Frees /\ \A x \in Frees : m <= x
    <3>1. Frees \in SUBSET Nat
      BY <1>2 DEF Frees
    <3> QED  BY <2>1, <3>1, HasMin
  <2>3. /\ m \in 1..Len(entries)
        /\ total - SumOf(entries, 1..m) + c <= MaxRps
    BY <1>2, <2>2 DEF Frees
  <2> HIDE DEF m
  <2>4. w = granted[n + m].ts + Second /\ n + m \in DOMAIN granted
    BY <1>2, <1>5, <1>7, <2>1, <2>3 DEF m
  <2>5. w \in Nat
    BY <1>1, <1>3, <2>4
  <2>6. w - Second = granted[n + m].ts
    BY <1>1, <1>3, <2>4
  <2>7. Fits(h)
    <3>1. After(w - Second) \subseteq (n + m + 1)..Len(granted)
      <4>1. SUFFICES ASSUME NEW i \in DOMAIN granted, granted[i].ts > granted[n + m].ts,
                            i <= n + m
                     PROVE  FALSE
        BY <1>2, <2>3, <2>6 DEF After
      <4>2. granted[i].ts <= granted[n + m].ts
        BY <1>3, <2>4, <4>1
      <4> QED  BY <1>3, <2>4, <4>1, <4>2
    <3>2. (n + m + 1)..Len(granted) \in SUBSET DOMAIN granted
      BY <1>2, <2>3
    <3>3. /\ Sum(Cost, After(w - Second)) \in Nat
          /\ Sum(Cost, After(w - Second)) <= Sum(Cost, (n + m + 1)..Len(granted))
      BY <1>2, <3>1, <3>2, CostMonotone
    <3>4. /\ total = SumOf(entries, 1..m) + Sum(Cost, (n + m + 1)..Len(granted))
          /\ SumOf(entries, 1..m) \in Nat
          /\ Sum(Cost, (n + m + 1)..Len(granted)) \in Nat
      <4>1. m \in 0..Len(entries)
        BY <2>3
      <4> QED  BY <4>1, OldestCost
    <3>5. Sum(Cost, After(w - Second)) + c <= MaxRps
      <4> DEFINE s == SumOf(entries, 1..m)
                 b == Sum(Cost, (n + m + 1)..Len(granted))
                 a == Sum(Cost, After(w - Second))
      <4>1. /\ total = s + b /\ s \in Nat /\ b \in Nat /\ a \in Nat
            /\ a <= b /\ total - s + c <= MaxRps
        BY <2>3, <3>3, <3>4
      <4> HIDE DEF s, a, b
      <4>2. a + c <= MaxRps
        BY <1>1, <1>4, <4>1
      <4> QED  BY <4>2 DEF a
    <3> QED  BY <1>1, <3>5 DEF Fits
  <2>8. Tight(h)
    <3> DEFINE l == m - 1
    <3>1. l \in 0..Len(entries)
      BY <1>2, <2>3
    <3>2. /\ total = SumOf(entries, 1..l) + Sum(Cost, (n + l + 1)..Len(granted))
          /\ SumOf(entries, 1..l) \in Nat
          /\ Sum(Cost, (n + l + 1)..Len(granted)) \in Nat
      BY <3>1, OldestCost
    <3>3. total - SumOf(entries, 1..l) + c > MaxRps
      <4>1. CASE l = 0
        <5>1. SumOf(entries, 1..l) = 0
          <6>1. 1..l = {}
            BY <4>1
          <6> QED  BY <6>1, SumEmpty DEF SumOf, Sum
        <5> QED  BY <1>1, <1>4, <1>7, <5>1
      <4>2. CASE l # 0
        <5>1. l \in DOMAIN entries /\ ~(m <= l)
          BY <1>2, <2>3, <4>2
        <5>2. l \notin Frees
          BY <2>2, <5>1
        <5> QED  BY <1>1, <1>4, <3>2, <5>1, <5>2 DEF Frees
      <4> QED  BY <4>1, <4>2
    <3>4. (n + l + 1)..Len(granted) \subseteq Since(w - Second)
      <4>1. SUFFICES ASSUME NEW i \in (n + m)..Len(granted)
                     PROVE  i \in DOMAIN granted /\ granted[i].ts >= granted[n + m].ts
        BY <1>2, <2>3, <2>6 DEF Since
      <4>2. i \in DOMAIN granted
        BY <1>2, <2>3
      <4>3. n + m <= i
        BY <1>2, <2>3
      <4>4. granted[n + m].ts <= granted[i].ts
        BY <1>3, <2>4, <4>2, <4>3
      <4> QED  BY <1>3, <2>4, <4>2, <4>4
    <3>5. Since(w - Second) \in SUBSET DOMAIN granted
      BY DEF Since
    <3>6. /\ Sum(Cost, Since(w - Second)) \in Nat
          /\ Sum(Cost, (n + l + 1)..Len(granted)) <= Sum(Cost, Since(w - Second))
      BY <1>2, <3>4, <3>5, CostMonotone
    <3> HIDE DEF l
    <3>7. Sum(Cost, Since(w - Second)) + c > MaxRps
      <4> DEFINE s == SumOf(entries, 1..l)
                 b == Sum(Cost, (n + l + 1)..Len(granted))
                 a == Sum(Cost, Since(w - Second))
      <4>1. /\ total = s + b /\ s \in Nat /\ b \in Nat /\ a \in Nat
            /\ b <= a /\ total - s + c > MaxRps
        BY <3>2, <3>3, <3>6
      <4> HIDE DEF s, a, b
      <4>2. a + c > MaxRps
        BY <1>1, <1>4, <4>1
      <4> QED  BY <4>2 DEF a
    <3> QED  BY <1>1, <3>7 DEF Tight
  <2> QED  BY <1>1, <2>5, <2>7, <2>8
<1> QED  BY <1>6, <1>7

LEMMA AcquireInv ==
    ASSUME IInv, NEW cost \in Costs, Acquire(cost)
    PROVE  IInv'
<1>1. UNCHANGED <<now, granted>>
  BY DEF Acquire
<1>2. Cost' = Cost
  BY <1>1 DEF Cost
<1>3. PICK n \in Nat : /\ Remember(requests', totalCost', n)
                       /\ Len(requests') > 0 => ~(now - requests'[1].ts > Second)
  BY AcquireMemory
<1>4. HistoryInv' /\ BoundInv'
  BY <1>1 DEF IInv, HistoryInv, BoundInv, Window, SumOf
<1>5. MemoryInv'
  BY <1>1, <1>2, <1>3 DEF MemoryInv, Remember
<1>6. HolderInv'
  <2>1. SUFFICES ASSUME NEW h \in holders'
                 PROVE  /\ h.cost \in 1..MaxRps /\ h.wakeAt \in Nat
                        /\ Fits(h)' /\ Tight(h)'
    BY DEF HolderInv
  <2>2. /\ h = [cost |-> cost, wakeAt |-> WakeAt(requests', totalCost', cost)]
        /\ cost \in 1..MaxRps
    BY RateLimiterAssumption DEF Acquire
  <2>3. h.wakeAt \in Nat /\ Fits(h) /\ Tight(h)
    BY <1>3, <2>2, WakeAtRight DEF IInv
  <2>4. Fits(h)' /\ Tight(h)'
    BY <1>1, <1>2, <2>3 DEF Fits, Tight, After, Since
  <2> QED  BY <2>2, <2>3, <2>4
<1> QED  BY <1>4, <1>5, <1>6 DEF IInv

-----------------------------------------------------------------------------
(***************************************************************************)
(* acquire, after the sleep                                                *)
(***************************************************************************)
\* the costs in the second that ends at a time
Within(t) == {i \in DOMAIN granted : granted[i].ts > t - Second /\ granted[i].ts <= t}

LEMMA WindowIsSum == \A t : Window(t) = Sum(Cost, Within(t))
BY DEF Window, Within, SumOf, Sum, Cost

LEMMA GrantInv ==
    ASSUME IInv, NEW h \in holders, Grant(h)
    PROVE  IInv'
<1> DEFINE l == Len(granted)
           e == [cost |-> h.cost, ts |-> now]
<1>1. /\ now \in Nat /\ granted \in Seq(Entry)
      /\ h.cost \in 1..MaxRps /\ h.wakeAt \in Nat
      /\ now >= h.wakeAt /\ Fits(h)
      /\ MaxRps \in Nat /\ Second \in Nat \ {0}
  BY RateLimiterAssumption DEF IInv, HistoryInv, HolderInv, Grant
<1>2. e \in Entry /\ e.ts = now /\ e.cost = h.cost
  BY <1>1 DEF Entry
<1>3. /\ granted' = Append(granted, e)
      /\ requests' = Append(requests, e)
      /\ totalCost' = totalCost + h.cost
      /\ holders' = {} /\ now' = now
  BY DEF Grant
<1> HIDE DEF e
<1>4. /\ l \in Nat /\ DOMAIN granted = 1..l
      /\ granted' \in Seq(Entry) /\ Len(granted') = l + 1
      /\ DOMAIN granted' = DOMAIN granted \cup {l + 1}
      /\ \A i \in DOMAIN granted : granted'[i] = granted[i]
      /\ granted'[l + 1] = e
  BY <1>1, <1>2, <1>3, AppendProperties
<1>5. /\ IsFiniteSet(DOMAIN granted) /\ IsFiniteSet(DOMAIN granted')
      /\ \A i \in DOMAIN granted : /\ Cost[i] \in Nat /\ granted[i].ts \in Nat
                                   /\ granted[i].ts <= now
                                   /\ Cost'[i] = Cost[i]
                                   /\ granted'[i].ts = granted[i].ts
      /\ Cost'[l + 1] = h.cost /\ granted'[l + 1].ts = now
  <2>1. IsFiniteSet(DOMAIN granted')
    BY <1>1, <1>4, CostFacts, FS_AddElement
  <2>2. \A i \in DOMAIN granted : granted[i].ts <= now
    BY DEF IInv, HistoryInv
  <2> QED  BY <1>1, <1>2, <1>4, <2>1, <2>2, CostFacts DEF Cost
<1> HIDE DEF l
<1>6. ASSUME NEW I \in SUBSET DOMAIN granted
      PROVE  /\ Sum(Cost, I) \in Nat /\ Sum(Cost', I) = Sum(Cost, I)
             /\ Sum(Cost', I \cup {l + 1}) = h.cost + Sum(Cost, I)
  <2>1. IsFiniteSet(I) /\ \A i \in I : Cost[i] \in Nat /\ Cost[i] \in Int
    BY <1>5, FS_Subset
  <2>2. \A i \in I : Cost'[i] = Cost[i]
    BY <1>5
  <2>3. Sum(Cost, I) \in Nat /\ Sum(Cost', I) = Sum(Cost, I)
    BY <2>1, <2>2, SumNat, SumEqual
  <2>4. \A i \in I \cup {l + 1} : Cost'[i] \in Int
    BY <1>1, <1>5, <2>1, <2>2
  <2>5. l + 1 \notin I
    BY <1>4
  <2>6. Sum(Cost', I \cup {l + 1}) = Cost'[l + 1] + Sum(Cost', I)
    BY <2>1, <2>4, <2>5, SumAdd
  <2> QED  BY <1>5, <2>3, <2>6
<1>7. HistoryInv'
  <2>1. \A i \in DOMAIN granted' : granted'[i].ts <= now
    BY <1>1, <1>4, <1>5
  <2>2. ASSUME NEW i \in DOMAIN granted', NEW j \in DOMAIN granted', i <= j
        PROVE  granted'[i].ts <= granted'[j].ts
    <3>1. CASE j = l + 1
      BY <1>5, <2>1, <3>1
    <3>2. CASE j # l + 1
      <4>1. i \in DOMAIN granted /\ j \in DOMAIN granted
        BY <1>4, <2>2, <3>2
      <4>2. granted[i].ts <= granted[j].ts
        BY <2>2, <4>1 DEF IInv, HistoryInv
      <4> QED  BY <1>5, <4>1, <4>2
    <3> QED  BY <3>1, <3>2
  <2> QED  BY <1>1, <1>3, <1>4, <2>1, <2>2 DEF HistoryInv
<1>8. MemoryInv'
  <2>1. PICK n \in Nat : Remember(requests, totalCost, n)
    BY DEF IInv, MemoryInv
  <2> DEFINE m == Len(requests)
  <2>2. requests \in Seq(Entry) /\ m \in Nat /\ m + n = l
    BY <2>1 DEF Remember, l
  <2>3. /\ requests' \in Seq(Entry) /\ Len(requests') = m + 1
        /\ \A i \in 1..m : requests'[i] = requests[i]
        /\ requests'[m + 1] = e
    BY <1>2, <1>3, <2>2, AppendProperties
  <2> HIDE DEF m
  <2>4. \A i \in 1..(m + 1) : requests'[i] = granted'[n + i]
    <3>1. \A i \in 1..m : requests'[i] = granted'[n + i]
      <4>1. \A i \in 1..m : n + i \in DOMAIN granted /\ requests[i] = granted[n + i]
        BY <1>4, <2>1, <2>2 DEF Remember, m
      <4> QED  BY <1>4, <2>3, <4>1
    <3>2. requests'[m + 1] = granted'[n + (m + 1)]
      <4>1. n + (m + 1) = l + 1
        BY <1>4, <2>2
      <4> QED  BY <1>4, <2>3, <4>1
    <3> QED  BY <2>2, <3>1, <3>2
  <2>5. \A i \in 1..n : now - granted'[i].ts > Second
    <3>1. \A i \in 1..n : i \in DOMAIN granted
      BY <1>4, <2>2
    <3> QED  BY <1>5, <2>1, <3>1 DEF Remember
  <2>6. totalCost' = Sum(Cost', (n + 1)..(l + 1))
    <3> DEFINE I == (n + 1)..l
    <3>1. I \in SUBSET DOMAIN granted /\ (n + 1)..(l + 1) = I \cup {l + 1}
      BY <1>4, <2>2
    <3>2. totalCost = Sum(Cost, I)
      BY <2>1 DEF Remember, l
    <3>3. /\ Sum(Cost, I) \in Nat
          /\ Sum(Cost', I \cup {l + 1}) = h.cost + Sum(Cost, I)
      BY <1>6, <3>1
    <3> DEFINE a == Sum(Cost, I)
    <3>4. totalCost = a /\ a \in Nat /\ Sum(Cost', I \cup {l + 1}) = h.cost + a
      BY <3>2, <3>3
    <3> HIDE DEF I, a
    <3>5. totalCost' = Sum(Cost', I \cup {l + 1})
      BY <1>1, <1>3, <3>4
    <3> QED  BY <3>1, <3>5
  <2>7. Remember(requests, totalCost, n)'
    <3>1. Len(requests') + n = Len(granted')
      BY <1>4, <2>2, <2>3
    <3>2. \A i \in 1..Len(requests') : requests'[i] = granted'[n + i]
      BY <2>3, <2>4
    <3>3. \A i \in 1..n : now' - granted'[i].ts > Second
      BY <1>3, <2>5
    <3>4. totalCost' = Sum(Cost', (n + 1)..Len(granted'))
      BY <1>4, <2>6
    <3> QED  BY <2>3, <3>1, <3>2, <3>3, <3>4 DEF Remember
  <2> QED  BY <2>7 DEF MemoryInv
<1>9. HolderInv'
  BY <1>3 DEF HolderInv
<1>10. BoundInv'
  <2>1. SUFFICES ASSUME NEW t \in Nat PROVE Sum(Cost', Within(t)') <= MaxRps
    <3>1. \A t : Window(t)' = Sum(Cost', Within(t)')
      BY DEF Window, Within, SumOf, Sum, Cost
    <3> QED  BY <3>1 DEF BoundInv
  <2>2. Within(t) \in SUBSET DOMAIN granted /\ Sum(Cost, Within(t)) <= MaxRps
    BY WindowIsSum DEF IInv, BoundInv, Within
  <2>3. Within(t)' = Within(t) \cup
                        (IF now > t - Second /\ now <= t THEN {l + 1} ELSE {})
    BY <1>4, <1>5 DEF Within
  <2>4. CASE ~(now > t - Second /\ now <= t)
    BY <1>6, <2>2, <2>3, <2>4
  <2>5. CASE now > t - Second /\ now <= t
    <3>1. Within(t) \in SUBSET After(h.wakeAt - Second)
      BY <1>1, <1>5, <2>5 DEF Within, After
    <3>2. After(h.wakeAt - Second) \in SUBSET DOMAIN granted
      BY DEF After
    <3>3. /\ Sum(Cost, Within(t)) \in Nat
          /\ Sum(Cost, After(h.wakeAt - Second)) \in Nat
          /\ Sum(Cost, Within(t)) <= Sum(Cost, After(h.wakeAt - Second))
      BY <1>1, <3>1, <3>2, CostMonotone
    <3>4. Sum(Cost, After(h.wakeAt - Second)) + h.cost <= MaxRps
      BY <1>1 DEF Fits
    <3>5. Sum(Cost', Within(t)') = h.cost + Sum(Cost, Within(t))
      BY <1>6, <2>2, <2>3, <2>5
    <3> DEFINE a == Sum(Cost, Within(t))
               b == Sum(Cost, After(h.wakeAt - Second))
    <3> HIDE DEF a, b
    <3>6. /\ a \in Nat /\ b \in Nat /\ a <= b /\ b + h.cost <= MaxRps
          /\ Sum(Cost', Within(t)') = h.cost + a
      BY <3>3, <3>4, <3>5 DEF a, b
    <3> QED  BY <1>1, <3>6
  <2> QED  BY <2>4, <2>5
<1> QED  BY <1>7, <1>8, <1>9, <1>10 DEF IInv

-----------------------------------------------------------------------------
LEMMA InitInv == Init => IInv
<1> SUFFICES ASSUME Init PROVE IInv
  OBVIOUS
<1>1. /\ now = 0 /\ granted = <<>> /\ requests = <<>> /\ totalCost = 0
      /\ holders = {}
  BY DEF Init
<1>2. DOMAIN granted = {} /\ Len(granted) = 0 /\ granted \in Seq(Entry)
  BY <1>1
<1>3. HistoryInv
  BY <1>1, <1>2 DEF HistoryInv
<1>4. Remember(requests, totalCost, 0)
  <2>1. Sum(Cost, (0 + 1)..Len(granted)) = 0
    <3>1. (0 + 1)..Len(granted) = {}
      BY <1>2
    <3> QED  BY <3>1, SumEmpty
  <2> QED  BY <1>1, <1>2, <2>1 DEF Remember
<1>5. BoundInv
  <2>1. \A t \in Nat : Within(t) = {}
    BY <1>2 DEF Within
  <2> QED  BY <2>1, WindowIsSum, SumEmpty, RateLimiterAssumption DEF BoundInv
<1>6. HolderInv
  BY <1>1 DEF HolderInv
<1> QED  BY <1>3, <1>4, <1>5, <1>6 DEF IInv, MemoryInv

LEMMA TickInv == ASSUME IInv, Tick PROVE IInv'
<1>1. /\ now \in Nat /\ now' = now + 1
      /\ UNCHANGED <<requests, totalCost, holders, granted>>
  BY DEF IInv, HistoryInv, Tick
<1>2. Cost' = Cost
  BY <1>1 DEF Cost
<1>3. BoundInv'
  BY <1>1 DEF IInv, BoundInv, Window, SumOf
<1>4. \A i \in DOMAIN granted : granted[i].ts \in Nat
  BY CostFacts DEF IInv, HistoryInv
<1>5. HistoryInv'
  BY <1>1, <1>4 DEF IInv, HistoryInv
<1>6. MemoryInv'
  <2>1. PICK n \in Nat : Remember(requests, totalCost, n)
    BY DEF IInv, MemoryInv
  <2>2. \A i \in 1..n : i \in DOMAIN granted
    BY <2>1, CostFacts DEF Remember, IInv, HistoryInv
  <2>3. ASSUME NEW i \in 1..n PROVE (now + 1) - granted[i].ts > Second
    <3>1. now - granted[i].ts > Second
      BY <2>1 DEF Remember
    <3>2. granted[i].ts \in Nat /\ Second \in Nat
      BY <1>4, <2>2, RateLimiterAssumption
    <3> QED  BY <1>1, <3>1, <3>2
  <2>4. Remember(requests, totalCost, n)'
    <3>1. \A i \in 1..n : now' - granted'[i].ts > Second
      <4>1. now' = now + 1 /\ granted' = granted
        BY <1>1
      <4> QED  BY <2>3, <4>1, Zenon
    <3> QED  BY <1>1, <1>2, <2>1, <3>1 DEF Remember
  <2> QED  BY <2>4 DEF MemoryInv
<1>7. HolderInv'
  <2>1. SUFFICES ASSUME NEW h \in holders'
                 PROVE  /\ h.cost \in 1..MaxRps /\ h.wakeAt \in Nat
                        /\ Fits(h)' /\ Tight(h)'
    BY DEF HolderInv
  <2>2. h.cost \in 1..MaxRps /\ h.wakeAt \in Nat /\ Fits(h) /\ Tight(h)
    BY <1>1 DEF IInv, HolderInv
  <2>3. After(h.wakeAt - Second)' = After(h.wakeAt - Second)
        /\ Since(h.wakeAt - Second)' = Since(h.wakeAt - Second)
    BY <1>1 DEF After, Since
  <2>4. now' < h.wakeAt => now < h.wakeAt
    BY <1>1, <2>2
  <2> QED  BY <1>2, <2>2, <2>3, <2>4 DEF Fits, Tight
<1> QED  BY <1>3, <1>5, <1>6, <1>7 DEF IInv

LEMMA StutterInv == ASSUME IInv, UNCHANGED vars PROVE IInv'
BY DEF vars, IInv, HistoryInv, MemoryInv, Remember, HolderInv, Fits, Tight, After,
       Since, Cost, BoundInv, Window, SumOf

LEMMA Invariance == Spec => []IInv
<1>1. IInv /\ [Next]_vars => IInv'
  BY AcquireInv, GrantInv, TickInv, StutterInv DEF Next
<1> QED  BY <1>1, InitInv, PTL DEF Spec

-----------------------------------------------------------------------------
(***************************************************************************)
(* The theorems.                                                           *)
(***************************************************************************)
(***************************************************************************)
(* No second, wherever it starts, sees more cost than maxRps_              *)
(* (rate_limiter.cpp:15-34).                                               *)
(***************************************************************************)
THEOREM RateBounded == Spec => []WindowBound
<1>1. IInv => WindowBound
  BY DEF IInv, BoundInv, HistoryInv, WindowBound
<1> QED  BY <1>1, Invariance, PTL

(***************************************************************************)
(* A request waits only while letting it through would break the limit     *)
(* (rate_limiter.cpp:24-33).                                               *)
(***************************************************************************)
THEOREM SleepNeeded == Spec => []NoNeedlessSleep
<1>1. ASSUME IInv, NEW h \in holders, now < h.wakeAt
      PROVE  Window(now) + h.cost > MaxRps
  <2>1. /\ h.cost \in 1..MaxRps /\ h.wakeAt \in Nat /\ now \in Nat
        /\ granted \in Seq(Entry)
        /\ MaxRps \in Nat /\ Second \in Nat
        /\ Sum(Cost, Since(h.wakeAt - Second)) + h.cost > MaxRps
    BY <1>1, RateLimiterAssumption DEF IInv, HolderInv, HistoryInv, Tight
  <2>2. Since(h.wakeAt - Second) \in SUBSET Within(now)
    <3>1. \A i \in DOMAIN granted : granted[i].ts \in Nat /\ granted[i].ts <= now
      BY <1>1, <2>1, CostFacts DEF IInv, HistoryInv
    <3> QED  BY <1>1, <2>1, <3>1 DEF Since, Within
  <2>3. Within(now) \in SUBSET DOMAIN granted
    BY DEF Within
  <2> DEFINE a == Sum(Cost, Since(h.wakeAt - Second))
             b == Sum(Cost, Within(now))
  <2>4. a \in Nat /\ b \in Nat /\ a <= b /\ a + h.cost > MaxRps
    BY <2>1, <2>2, <2>3, CostMonotone
  <2>5. Window(now) = b
    BY WindowIsSum
  <2> HIDE DEF a, b
  <2> QED  BY <2>1, <2>4, <2>5
<1>2. IInv => NoNeedlessSleep
  BY <1>1 DEF NoNeedlessSleep
<1> QED  BY <1>2, Invariance, PTL
=============================================================================
