---------------------------- MODULE RateLimiter ----------------------------
(***************************************************************************)
(* RateLimiter::acquire: a thread waits, with the mutex held, until its    *)
(* request fits into the last second. Time is counted in ticks, Second of  *)
(* them to a second. A thread that waits for the mutex has no state here.  *)
(***************************************************************************)
EXTENDS Integers, Sequences, FiniteSetsExt, Functions

CONSTANTS MaxRps,     \* maxRps_
          Costs,      \* the costs of requests
          Second,
          MaxTime     \* bound: the time of the last tick

\* a request dearer than MaxRps would be let through at once
ASSUME RateLimiterAssumption ==
    /\ MaxRps \in Nat /\ Costs \subseteq 1..MaxRps
    /\ Second \in Nat \ {0} /\ MaxTime \in Nat

VARIABLES now,
          requests,    \* requests_: [cost, ts]
          totalCost,   \* totalCost_
          holders,     \* the thread inside acquire, if any: [cost, wakeAt]
          granted      \* history: every request that was let through

vars == <<now, requests, totalCost, holders, granted>>

SumOf(entries, I) ==
    SumFunctionOnSet([i \in DOMAIN entries |-> entries[i].cost], I)

\* how many of the oldest requests are more than a second old
Expired == Max({n \in 0..Len(requests) :
                   \A i \in 1..n : now - requests[i].ts > Second})

\* mutant: waits for the oldest request only
WakeAt_Oldest(entries, total, cost) ==
    IF total + cost <= MaxRps THEN now ELSE entries[1].ts + Second

\* mutant: the cost of the request itself is counted twice
WakeAt_Twice(entries, total, cost) ==
    LET Frees == {n \in DOMAIN entries :
                      total - SumOf(entries, 1..n) + cost + cost <= MaxRps}
    IN  IF total + cost <= MaxRps \/ Frees = {} THEN now
        ELSE entries[Min(Frees)].ts + Second

\* when enough of the oldest requests are a second old
WakeAt(entries, total, cost) ==
    LET Frees == {n \in DOMAIN entries :
                      total - SumOf(entries, 1..n) + cost <= MaxRps}
    IN  IF total + cost <= MaxRps \/ Frees = {} THEN now
        ELSE entries[Min(Frees)].ts + Second

Init == /\ now = 0
        /\ requests = <<>> /\ totalCost = 0
        /\ holders = {} /\ granted = <<>>

\* the lock, the removal of old requests, and the start of the sleep
Acquire(cost) ==
    /\ holders = {}
    /\ requests' = SubSeq(requests, Expired + 1, Len(requests))
    /\ totalCost' = totalCost - SumOf(requests, 1..Expired)
    /\ holders' = {[cost |-> cost, wakeAt |-> WakeAt(requests', totalCost', cost)]}
    /\ UNCHANGED <<now, granted>>

\* the sleep is over; the clock is read again
Grant(h) ==
    /\ now >= h.wakeAt
    /\ requests' = Append(requests, [cost |-> h.cost, ts |-> now])
    /\ totalCost' = totalCost + h.cost
    /\ holders' = {}
    /\ granted' = Append(granted, [cost |-> h.cost, ts |-> now])
    /\ UNCHANGED now

Tick == /\ now < MaxTime
        /\ now' = now + 1
        /\ UNCHANGED <<requests, totalCost, holders, granted>>

Next == \/ \E cost \in Costs : Acquire(cost)
        \/ \E h \in holders : Grant(h)
        \/ Tick

Spec == Init /\ [][Next]_vars

-----------------------------------------------------------------------------
\* the cost let through in the second that ends at t
Window(t) == SumOf(granted, {i \in DOMAIN granted : /\ granted[i].ts > t - Second
                                                    /\ granted[i].ts <= t})

(***************************************************************************)
(* No second, wherever it starts, sees more cost than maxRps_: the limiter *)
(* forgets a request neither too early nor, by its running total, twice    *)
(* (rate_limiter.cpp:15-34).                                               *)
(***************************************************************************)
WindowBound == \A t \in 0..now : Window(t) <= MaxRps

(***************************************************************************)
(* Nobody sleeps for nothing: as long as the limiter makes a request wait, *)
(* letting it through would break the limit (rate_limiter.cpp:24-33).      *)
(***************************************************************************)
NoNeedlessSleep ==
    \A h \in holders : now < h.wakeAt => Window(now) + h.cost > MaxRps
=============================================================================
