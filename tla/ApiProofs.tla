----------------------------- MODULE ApiProofs -----------------------------
(***************************************************************************)
(* What holds of the request pool for every number of workers and every    *)
(* set of requests.                                                        *)
(***************************************************************************)
EXTENDS Api, DataTheorems

-----------------------------------------------------------------------------
(***************************************************************************)
(* Type correctness is not inductive alone: what a worker publishes and    *)
(* what the main thread schedules again has to be a request.               *)
(***************************************************************************)
Held == /\ \A w \in Workers : pc[w] = "performing" <=> job[w] # None
        /\ mainPc = "retry" => current # None

TypeInv == TypeOK /\ Held

LEMMA InitType == Init => TypeInv
<1> SUFFICES ASSUME Init PROVE TypeInv
  OBVIOUS
<1>1. requests \in Seq(Request)
      /\ responses \in Seq([req : Request, outcome : Outcome])
  BY EmptySeq DEF Init
<1>2. 0 \in 0..MaxTimeouts
  BY ConstantsAssumption
<1> QED
  BY <1>1, <1>2
  DEF Init, TypeInv, TypeOK, Held, WorkerPc, MainPc

LEMMA InsertType ==
    ASSUME TypeOK, NEW r \in Request, InsertSorted(requests, r, requests')
    PROVE  requests' \in Seq(Request)
  BY Inserted DEF TypeOK, InsertSorted

LEMMA NextType == TypeInv /\ [Next]_vars => TypeInv'
<1> SUFFICES ASSUME TypeInv, [Next]_vars PROVE TypeInv'
  OBVIOUS
<1> USE DEF TypeInv, TypeOK, Held, WorkerPc, MainPc, Outcome, workerVars, mainVars, Goto
<1>1. ASSUME NEW w \in Workers, Acquire(w) PROVE TypeInv'
  BY <1>1 DEF Acquire
<1>2. ASSUME NEW w \in Workers, TestPredicate(w) PROVE TypeInv'
  BY <1>2 DEF TestPredicate
<1>3. ASSUME NEW w \in Workers, Sleep(w) PROVE TypeInv'
  BY <1>3 DEF Sleep
<1>4. ASSUME NEW w \in Workers, SpuriousWakeup(w) PROVE TypeInv'
  BY <1>4 DEF SpuriousWakeup
<1>5. ASSUME NEW w \in Workers, Exit(w) PROVE TypeInv'
  BY <1>5 DEF Exit
<1>6. ASSUME NEW w \in Workers, Take(w) PROVE TypeInv'
  <2>1. Head(requests) \in Request /\ Tail(requests) \in Seq(Request)
    BY <1>6, HeadTailProperties DEF Take
  <2>2. Head(requests) # None
    BY <2>1, ConstantsAssumption
  <2> QED  BY <1>6, <2>1, <2>2 DEF Take
<1>7. ASSUME NEW w \in Workers, NEW outcome \in Outcome, Publish(w, outcome)
      PROVE TypeInv'
  <2>1. job[w] \in Request
    BY <1>7 DEF Publish
  <2>2. [req |-> job[w], outcome |-> outcome]
            \in [req : Request, outcome : Outcome]
    BY <2>1
  <2>3. responses' \in Seq([req : Request, outcome : Outcome])
    BY <1>7, <2>2 DEF Publish
  <2>4. timeouts' \in 0..MaxTimeouts
    BY <1>7, ConstantsAssumption DEF Publish
  <2> QED  BY <1>7, <2>3, <2>4 DEF Publish
<1>8. ASSUME NEW w \in Workers, NotifyMain(w) PROVE TypeInv'
  BY <1>8 DEF NotifyMain
<1>9. ASSUME NEW r \in Request, Schedule(r) PROVE TypeInv'
  BY <1>9, InsertType DEF Schedule, Insert
<1>10. CASE Reschedule
  BY <1>10, InsertType DEF Reschedule, Insert
<1>11. CASE QueueFull
  BY <1>11 DEF QueueFull
<1>12. CASE NotifyWorker
  BY <1>12 DEF NotifyWorker, Asleep
<1>13. CASE HandlerDone
  BY <1>13 DEF HandlerDone
<1>14. CASE HandlerFailed
  BY <1>14 DEF HandlerFailed
<1>15. CASE GetResponse
  <2>1. /\ Head(responses) \in [req : Request, outcome : Outcome]
        /\ Tail(responses) \in Seq([req : Request, outcome : Outcome])
    BY <1>15, HeadTailProperties DEF GetResponse
  <2>2. Head(responses).req \in Request /\ Head(responses).req # None
    BY <2>1, ConstantsAssumption
  <2>3. Head(responses).outcome \in Outcome
    BY <2>1
  <2>4. mainPc' \in MainPc /\ current' \in Request \cup {None}
    BY <1>15, <2>2, <2>3 DEF GetResponse
  <2>5. mainPc' = "retry" => current' # None
    BY <1>15, <2>2, <2>3 DEF GetResponse
  <2> QED  BY <1>15, <2>1, <2>4, <2>5 DEF GetResponse
<1>16. CASE WaitForResponse
  BY <1>16 DEF WaitForResponse
<1>17. CASE SetStopped
  BY <1>17 DEF SetStopped
<1>18. CASE NotifyAll
  BY <1>18 DEF NotifyAll
<1>19. CASE Join
  BY <1>19 DEF Join
<1>20. CASE UNCHANGED vars
  BY <1>20 DEF vars
<1> QED
  BY <1>1, <1>2, <1>3, <1>4, <1>5, <1>6, <1>7, <1>8, <1>9, <1>10, <1>11,
     <1>12, <1>13, <1>14, <1>15, <1>16, <1>17, <1>18, <1>19, <1>20
  DEF Next, WorkerStep, MainStep

(***************************************************************************)
(* Every reachable state of the pool has the declared types.               *)
(***************************************************************************)
THEOREM TypeCorrect == Spec => []TypeOK
  BY InitType, NextType, PTL DEF Spec, TypeInv

-----------------------------------------------------------------------------
(***************************************************************************)
(* The request queue under requestsMu_.                                    *)
(***************************************************************************)
InSection == {"locked", "ready", "blocking"}

LockInv == /\ \A w \in Workers : reqMu = w <=> pc[w] \in InSection
           /\ \A w \in Workers : pc[w] = "blocking" => requests = <<>>
           /\ NeverWokenForNothing

\* what the main thread inserts is never an empty queue
LEMMA InsertNonEmpty ==
    ASSUME TypeOK, NEW r \in Request, InsertSorted(requests, r, requests')
    PROVE  requests' # <<>>
<1>1. PICK p \in 1..(Len(requests) + 1) : requests' = InsertAt(requests, p, r)
  BY DEF InsertSorted
<1>2. Len(requests') = Len(requests) + 1 /\ Len(requests) \in Nat
  BY <1>1, Inserted, LenProperties DEF TypeOK
<1> QED  BY <1>2, EmptySeq

LEMMA InitLock == Init => LockInv
  BY ConstantsAssumption DEF Init, LockInv, InSection, NeverWokenForNothing

LEMMA NextLock == TypeInv /\ LockInv /\ [Next]_vars => LockInv'
<1> SUFFICES ASSUME TypeInv, LockInv, [Next]_vars PROVE LockInv'
  OBVIOUS
<1> USE DEF TypeInv, TypeOK, LockInv, InSection, NeverWokenForNothing,
            workerVars, mainVars, Goto
<1>0. \A w \in Workers : w # None
  BY ConstantsAssumption
<1>1. ASSUME NEW w \in Workers, Acquire(w) PROVE LockInv'
  BY <1>0, <1>1 DEF Acquire
<1>2. ASSUME NEW w \in Workers, TestPredicate(w) PROVE LockInv'
  BY <1>0, <1>2 DEF TestPredicate
<1>3. ASSUME NEW w \in Workers, Sleep(w) PROVE LockInv'
  BY <1>0, <1>3 DEF Sleep
<1>4. ASSUME NEW w \in Workers, SpuriousWakeup(w) PROVE LockInv'
  BY <1>0, <1>4 DEF SpuriousWakeup
<1>5. ASSUME NEW w \in Workers, Exit(w) PROVE LockInv'
  BY <1>0, <1>5 DEF Exit
<1>6. ASSUME NEW w \in Workers, Take(w) PROVE LockInv'
  BY <1>0, <1>6 DEF Take
<1>7. ASSUME NEW w \in Workers, NEW outcome \in Outcome, Publish(w, outcome)
      PROVE LockInv'
  BY <1>0, <1>7 DEF Publish
<1>8. ASSUME NEW w \in Workers, NotifyMain(w) PROVE LockInv'
  BY <1>0, <1>8 DEF NotifyMain
<1>9. ASSUME NEW r \in Request, Insert(r) PROVE LockInv'
  <2>1. requests' # <<>>
    BY <1>9, InsertNonEmpty DEF Insert
  <2> QED  BY <1>0, <1>9, <2>1 DEF Insert
<1>10. CASE NotifyWorker
  BY <1>0, <1>10 DEF NotifyWorker, Asleep
<1>11. CASE NotifyAll
  BY <1>0, <1>11 DEF NotifyAll
<1>12. CASE \/ QueueFull \/ HandlerDone \/ HandlerFailed \/ GetResponse
            \/ WaitForResponse \/ SetStopped \/ Join \/ UNCHANGED vars
  BY <1>12
  DEF QueueFull, HandlerDone, HandlerFailed, GetResponse, WaitForResponse,
      SetStopped, Join, vars
<1>13. CASE Reschedule
  BY <1>9, <1>13 DEF Reschedule, Held
<1>14. ASSUME NEW r \in Request, Schedule(r) PROVE LockInv'
  BY <1>9, <1>14 DEF Schedule
<1> QED
  BY <1>1, <1>2, <1>3, <1>4, <1>5, <1>6, <1>7, <1>8, <1>10, <1>11, <1>12,
     <1>13, <1>14
  DEF Next, WorkerStep, MainStep

(***************************************************************************)
(* A worker that leaves its wait finds the queue non-empty or the pool     *)
(* stopped: the branch of api.cpp:36-40 is dead.                           *)
(***************************************************************************)
THEOREM WokenWithWork == Spec => []NeverWokenForNothing
<1>1. Init => TypeInv /\ LockInv
  BY InitType, InitLock
<1>2. TypeInv /\ LockInv /\ [Next]_vars => (TypeInv /\ LockInv)'
  BY NextType, NextLock
<1>3. LockInv => NeverWokenForNothing
  BY DEF LockInv
<1> QED  BY <1>1, <1>2, <1>3, PTL DEF Spec

-----------------------------------------------------------------------------
(***************************************************************************)
(* The order of the queue. Before is irreflexive and asymmetric, which is  *)
(* all that inserting behind the last element not preceded needs.          *)
(***************************************************************************)
LEMMA BeforeAsymmetric ==
    ASSUME NEW a \in Request, NEW b \in Request, Before(a, b)
    PROVE  ~Before(b, a)
<1>1. Priority \in [ApiEndpointType -> Nat]
  BY DEF Priority, ApiEndpointType
<1>2. Type[a] \in ApiEndpointType /\ Type[b] \in ApiEndpointType
      /\ Depth[a] \in Nat /\ Depth[b] \in Nat
  BY ConstantsAssumption
<1>3. Priority[Type[a]] \in Nat /\ Priority[Type[b]] \in Nat
  BY <1>1, <1>2
<1> HIDE DEF Priority, ApiEndpointType
<1> QED  BY <1>2, <1>3 DEF Before

LEMMA InsertKeepsOrder ==
    ASSUME TypeOK, QueueSorted, NEW r \in Request,
           InsertSorted(requests, r, requests')
    PROVE  QueueSorted'
<1>1. PICK p \in 1..(Len(requests) + 1) :
          /\ \A i \in 1..(p - 1) : ~Before(r, requests[i])
          /\ \A i \in p..Len(requests) : Before(r, requests[i])
          /\ requests' = InsertAt(requests, p, r)
  BY DEF InsertSorted
<1>2. /\ requests' \in Seq(Request)
      /\ Len(requests') = Len(requests) + 1
      /\ \A i \in 1..(p - 1) : requests'[i] = requests[i]
      /\ requests'[p] = r
      /\ \A i \in (p + 1)..(Len(requests) + 1) : requests'[i] = requests[i - 1]
  <2> DEFINE t == InsertAt(requests, p, r)
  <2>1. requests \in Seq(Request)
    BY DEF TypeOK
  <2>2. /\ t \in Seq(Request)
        /\ Len(t) = Len(requests) + 1
        /\ \A i \in 1..(p - 1) : t[i] = requests[i]
        /\ t[p] = r
        /\ \A i \in (p + 1)..(Len(requests) + 1) : t[i] = requests[i - 1]
    BY <2>1, Inserted
  <2>3. requests' = t
    BY <1>1
  <2> QED  BY <2>2, <2>3
<1>3. Len(requests) \in Nat /\ p \in Nat /\ DOMAIN requests = 1..Len(requests)
      /\ DOMAIN requests' = 1..(Len(requests) + 1)
  BY <1>2, LenProperties DEF TypeOK
<1> SUFFICES ASSUME NEW i \in 1..(Len(requests) + 1),
                    NEW j \in 1..(Len(requests) + 1), i < j
             PROVE  ~Before(requests'[j], requests'[i])
  BY <1>3 DEF QueueSorted
<1>4. CASE j < p
  <2>1. i \in 1..(p - 1) /\ j \in 1..(p - 1) /\ i \in 1..Len(requests)
        /\ j \in 1..Len(requests)
    BY <1>3, <1>4
  <2> QED  BY <1>2, <1>3, <2>1 DEF QueueSorted
<1>5. CASE j = p
  <2>1. i \in 1..(p - 1)
    BY <1>3, <1>5
  <2> QED  BY <1>1, <1>2, <1>5, <2>1
<1>6. CASE j > p /\ i = p
  <2>1. j \in (p + 1)..(Len(requests) + 1)
        /\ j - 1 \in p..Len(requests) /\ j - 1 \in 1..Len(requests)
    BY <1>3, <1>6
  <2>2. requests[j - 1] \in Request
    BY <2>1, ElementOfSeq DEF TypeOK
  <2> QED  BY <1>1, <1>2, <1>6, <2>1, <2>2, BeforeAsymmetric
<1>7. CASE j > p /\ i < p
  <2>1. j \in (p + 1)..(Len(requests) + 1) /\ i \in 1..(p - 1)
        /\ j - 1 \in 1..Len(requests) /\ i \in 1..Len(requests) /\ i < j - 1
    BY <1>3, <1>7
  <2> QED  BY <1>2, <1>3, <2>1 DEF QueueSorted
<1>8. CASE j > p /\ i > p
  <2>1. j \in (p + 1)..(Len(requests) + 1) /\ i \in (p + 1)..(Len(requests) + 1)
        /\ j - 1 \in 1..Len(requests) /\ i - 1 \in 1..Len(requests)
        /\ i - 1 < j - 1
    BY <1>3, <1>8
  <2> QED  BY <1>2, <1>3, <2>1 DEF QueueSorted
<1> QED  BY <1>3, <1>4, <1>5, <1>6, <1>7, <1>8

LEMMA NextSorted == TypeInv /\ QueueSorted /\ [Next]_vars => QueueSorted'
<1> SUFFICES ASSUME TypeInv, QueueSorted, [Next]_vars PROVE QueueSorted'
  OBVIOUS
<1> USE DEF TypeInv, Held
<1>1. ASSUME NEW w \in Workers, Take(w) PROVE QueueSorted'
  <2>1. requests' \in Seq(Request) /\ Len(requests') = Len(requests) - 1
        /\ \A i \in 1..Len(requests') : requests'[i] = requests[i + 1]
    BY <1>1, HeadTailProperties DEF Take, TypeOK
  <2>2. Len(requests) \in Nat /\ DOMAIN requests = 1..Len(requests)
        /\ DOMAIN requests' = 1..(Len(requests) - 1)
    BY <2>1, LenProperties DEF TypeOK
  <2> SUFFICES ASSUME NEW i \in 1..(Len(requests) - 1),
                      NEW j \in 1..(Len(requests) - 1), i < j
               PROVE  ~Before(requests'[j], requests'[i])
    BY <2>2 DEF QueueSorted
  <2>3. requests'[i] = requests[i + 1] /\ requests'[j] = requests[j + 1]
    BY <2>1, <2>2
  <2>4. i + 1 \in DOMAIN requests /\ j + 1 \in DOMAIN requests /\ i + 1 < j + 1
    BY <2>2
  <2> QED  BY <2>3, <2>4 DEF QueueSorted
<1>2. ASSUME NEW r \in Request, Schedule(r) PROVE QueueSorted'
  BY <1>2, InsertKeepsOrder DEF Schedule, Insert
<1>3. CASE Reschedule
  BY <1>3, InsertKeepsOrder DEF Reschedule, Insert, TypeOK
<1>4. CASE requests' = requests
  BY <1>4 DEF QueueSorted
<1>5. ASSUME NEW w \in Workers, NEW outcome \in Outcome,
             \/ Acquire(w) \/ TestPredicate(w) \/ Sleep(w)
             \/ SpuriousWakeup(w) \/ Exit(w) \/ Publish(w, outcome)
             \/ NotifyMain(w)
      PROVE  requests' = requests
  BY <1>5
  DEF Acquire, TestPredicate, Sleep, SpuriousWakeup, Exit, Publish, NotifyMain
<1>6. CASE \/ QueueFull \/ NotifyWorker \/ HandlerDone \/ HandlerFailed
           \/ GetResponse \/ WaitForResponse \/ SetStopped \/ NotifyAll
           \/ Join \/ UNCHANGED vars
  <2>1. requests' = requests
    BY <1>6
    DEF QueueFull, NotifyWorker, HandlerDone, HandlerFailed, GetResponse,
        WaitForResponse, SetStopped, NotifyAll, Join, vars
  <2> QED  BY <1>4, <2>1
<1>7. "answer" \in Outcome
  BY DEF Outcome
<1> QED
  BY <1>1, <1>2, <1>3, <1>4, <1>5, <1>6, <1>7 DEF Next, WorkerStep, MainStep

(***************************************************************************)
(* The first request of the queue is always a most urgent one.             *)
(***************************************************************************)
THEOREM QueueOrdered == Spec => []QueueSorted
<1>1. Init => TypeInv /\ QueueSorted
  BY InitType DEF Init, QueueSorted
<1>2. TypeInv /\ QueueSorted /\ [Next]_vars => (TypeInv /\ QueueSorted)'
  BY NextType, NextSorted
<1> QED  BY <1>1, <1>2, PTL DEF Spec

-----------------------------------------------------------------------------
(***************************************************************************)
(* Where the requests are. Four steps move a request; each lemma says what *)
(* such a step changes of Queued, Performing and Answered.                 *)
(***************************************************************************)
LEMMA InsertMoves ==
    ASSUME TypeOK, NEW r \in Request, ~Queued(r), IsInjective(requests),
           InsertSorted(requests, r, requests')
    PROVE  /\ IsInjective(requests')
           /\ \A q \in Request : Queued(q)' <=> (Queued(q) \/ q = r)
<1>1. PICK p \in 1..(Len(requests) + 1) : requests' = InsertAt(requests, p, r)
  BY DEF InsertSorted
<1>2. requests \in Seq(Request)
  BY DEF TypeOK
<1> DEFINE t == InsertAt(requests, p, r)
<1>3. /\ t \in Seq(Request)
      /\ Len(t) = Len(requests) + 1
      /\ \A i \in 1..(p - 1) : t[i] = requests[i]
      /\ t[p] = r
      /\ \A i \in (p + 1)..(Len(requests) + 1) : t[i] = requests[i - 1]
  <2>1. ASSUME NEW s \in Seq(Request), NEW k \in 1..(Len(s) + 1)
        PROVE  /\ InsertAt(s, k, r) \in Seq(Request)
               /\ Len(InsertAt(s, k, r)) = Len(s) + 1
               /\ \A i \in 1..(k - 1) : InsertAt(s, k, r)[i] = s[i]
               /\ InsertAt(s, k, r)[k] = r
               /\ \A i \in (k + 1)..(Len(s) + 1) : InsertAt(s, k, r)[i] = s[i - 1]
    BY Inserted
  <2> QED  BY <1>2, <2>1, Zenon
<1> HIDE DEF t
<1>4. Len(requests) \in Nat /\ p \in Nat /\ DOMAIN requests = 1..Len(requests)
      /\ DOMAIN t = 1..(Len(requests) + 1)
  BY <1>2, <1>3, LenProperties
<1>5. \A i \in DOMAIN t :
          \/ i = p /\ t[i] = r
          \/ i < p /\ i \in DOMAIN requests /\ t[i] = requests[i]
          \/ i > p /\ i - 1 \in DOMAIN requests /\ t[i] = requests[i - 1]
  BY <1>3, <1>4
<1>6. \A i \in DOMAIN requests : requests[i] # r
  BY DEF Queued
<1>7. ASSUME NEW i \in DOMAIN t, NEW j \in DOMAIN t, t[i] = t[j] PROVE i = j
  BY <1>4, <1>5, <1>6, <1>7 DEF IsInjective
<1>8. ASSUME NEW q \in Request
      PROVE  (\E i \in DOMAIN t : t[i] = q) <=> (Queued(q) \/ q = r)
  <2>1. ASSUME NEW i \in DOMAIN requests
        PROVE  \E j \in DOMAIN t : t[j] = requests[i]
    <3>1. CASE i < p
      <4>1. i \in 1..(p - 1) /\ i \in DOMAIN t
        BY <1>4, <3>1
      <4> QED  BY <1>3, <4>1
    <3>2. CASE i >= p
      <4>1. i + 1 \in (p + 1)..(Len(requests) + 1) /\ i + 1 \in DOMAIN t
            /\ (i + 1) - 1 = i
        BY <1>4, <3>2
      <4> QED  BY <1>3, <4>1
    <3> QED  BY <1>4, <3>1, <3>2
  <2>2. p \in DOMAIN t
    BY <1>4
  <2> QED  BY <1>3, <1>5, <2>1, <2>2 DEF Queued
<1>9. t = requests'
  BY <1>1 DEF t
<1> QED  BY <1>7, <1>8, <1>9 DEF IsInjective, Queued

LEMMA TakeMoves ==
    ASSUME TypeInv, OnePlace, NEW w \in Workers, Take(w)
    PROVE  /\ Head(requests) \in Request
           /\ Queued(Head(requests))
           /\ IsInjective(requests')
           /\ \A v \in Workers : job'[v] = IF v = w THEN Head(requests) ELSE job[v]
           /\ \A q \in Request :
                 /\ Queued(q)' <=> (Queued(q) /\ q # Head(requests))
                 /\ Performing(q)' <=> (Performing(q) \/ q = Head(requests))
                 /\ Answered(q)' <=> Answered(q)
<1>1. /\ Head(requests) \in Request
      /\ requests' \in Seq(Request)
      /\ Len(requests') = Len(requests) - 1
      /\ \A i \in 1..Len(requests') : requests'[i] = requests[i + 1]
      /\ Head(requests) = requests[1]
  BY HeadTailProperties DEF Take, TypeInv, TypeOK
<1>2. Len(requests) \in Nat /\ Len(requests) > 0
      /\ DOMAIN requests = 1..Len(requests)
      /\ DOMAIN requests' = 1..(Len(requests) - 1)
  BY <1>1, LenProperties, EmptySeq DEF Take, TypeInv, TypeOK
<1>3. 1 \in DOMAIN requests /\ \A i \in DOMAIN requests' :
          i + 1 \in DOMAIN requests /\ requests'[i] = requests[i + 1] /\ i + 1 # 1
  BY <1>1, <1>2
<1>4. \A i \in DOMAIN requests :
          i # 1 => i - 1 \in DOMAIN requests' /\ requests'[i - 1] = requests[i]
  BY <1>1, <1>2
<1>5. IsInjective(requests)
  BY DEF OnePlace
<1>6. IsInjective(requests')
  <2> SUFFICES ASSUME NEW i \in DOMAIN requests', NEW j \in DOMAIN requests',
                      requests'[i] = requests'[j]
               PROVE  i = j
    BY DEF IsInjective
  <2>1. i + 1 = j + 1
    BY <1>3, <1>5 DEF IsInjective
  <2> QED  BY <1>2, <2>1
<1>7. \A q \in Request : Queued(q)' <=> (Queued(q) /\ q # Head(requests))
  <2> TAKE q \in Request
  <2>1. ASSUME NEW i \in DOMAIN requests', requests'[i] = q
        PROVE  Queued(q) /\ q # Head(requests)
    <3>1. /\ i + 1 \in DOMAIN requests /\ requests[i + 1] = q
          /\ i + 1 # 1 /\ 1 \in DOMAIN requests
      BY <1>3, <2>1
    <3> QED  BY <1>1, <1>5, <3>1 DEF Queued, IsInjective
  <2>2. ASSUME NEW i \in DOMAIN requests, requests[i] = q, q # Head(requests)
        PROVE  \E j \in DOMAIN requests' : requests'[j] = q
    BY <1>1, <1>4, <2>2
  <2> QED  BY <2>1, <2>2 DEF Queued
<1>8. job[w] = None
  BY DEF Take, TypeInv, Held
<1>9. \A v \in Workers : job'[v] = IF v = w THEN Head(requests) ELSE job[v]
  BY DEF Take, TypeInv, TypeOK
<1>10. \A q \in Request : q # None
  BY ConstantsAssumption
<1>11. ASSUME NEW q \in Request
       PROVE  Performing(q)' <=> (Performing(q) \/ q = Head(requests))
  BY <1>8, <1>9, <1>10 DEF Performing
<1>12. ASSUME NEW q \in Request PROVE Answered(q)' <=> Answered(q)
  BY DEF Take, Answered
<1>13. Queued(Head(requests))
  BY <1>1, <1>3 DEF Queued
<1> QED  BY <1>1, <1>6, <1>7, <1>9, <1>11, <1>12, <1>13

LEMMA PublishMoves ==
    ASSUME TypeInv, OnePlace, NEW w \in Workers, NEW outcome \in Outcome,
           Publish(w, outcome)
    PROVE  /\ job[w] \in Request
           /\ \A v \in Workers : job'[v] = IF v = w THEN None ELSE job[v]
           /\ DOMAIN responses' = 1..(Len(responses) + 1)
           /\ Len(responses) \in Nat /\ DOMAIN responses = 1..Len(responses)
           /\ \A i \in DOMAIN responses : responses'[i] = responses[i]
           /\ responses'[Len(responses) + 1].req = job[w]
           /\ \A q \in Request :
                 /\ Queued(q)' <=> Queued(q)
                 /\ Performing(q)' <=> (Performing(q) /\ q # job[w])
                 /\ Answered(q)' <=> (Answered(q) \/ q = job[w])
<1>1. job[w] \in Request
  BY DEF Publish, TypeInv, TypeOK, Held
<1>2. [req |-> job[w], outcome |-> outcome] \in [req : Request, outcome : Outcome]
  BY <1>1
<1>3. /\ DOMAIN responses' = 1..(Len(responses) + 1)
      /\ Len(responses) \in Nat /\ DOMAIN responses = 1..Len(responses)
      /\ \A i \in DOMAIN responses : responses'[i] = responses[i]
      /\ responses'[Len(responses) + 1].req = job[w]
  BY <1>2 DEF Publish, TypeInv, TypeOK
<1>4. \A v \in Workers : job'[v] = IF v = w THEN None ELSE job[v]
  BY DEF Publish, TypeInv, TypeOK
<1>5. \A q \in Request : q # None
  BY ConstantsAssumption
<1>6. \A v \in Workers : job[v] = job[w] => v = w
  BY <1>1, <1>5 DEF OnePlace
<1>7. ASSUME NEW q \in Request
      PROVE  Performing(q)' <=> (Performing(q) /\ q # job[w])
  BY <1>4, <1>5, <1>6 DEF Performing
<1>8. ASSUME NEW q \in Request
      PROVE  Answered(q)' <=> (Answered(q) \/ q = job[w])
  <2>1. \A i \in DOMAIN responses' :
            i \in DOMAIN responses \/ i = Len(responses) + 1
    BY <1>3
  <2>2. Len(responses) + 1 \in DOMAIN responses'
        /\ \A i \in DOMAIN responses : i \in DOMAIN responses'
    BY <1>3
  <2> QED  BY <1>3, <2>1, <2>2 DEF Answered
<1>9. ASSUME NEW q \in Request PROVE Queued(q)' <=> Queued(q)
  BY DEF Publish, Queued
<1> QED  BY <1>1, <1>3, <1>4, <1>7, <1>8, <1>9

LEMMA GetMoves ==
    ASSUME TypeInv, OnePlace, GetResponse
    PROVE  /\ Head(responses) \in [req : Request, outcome : Outcome]
           /\ Answered(Head(responses).req)
           /\ \A i \in DOMAIN responses' :
                 i \in Nat /\ i + 1 \in DOMAIN responses
                 /\ responses'[i] = responses[i + 1]
           /\ \A q \in Request :
                 /\ Queued(q)' <=> Queued(q)
                 /\ Performing(q)' <=> Performing(q)
                 /\ Answered(q)' <=> (Answered(q) /\ q # Head(responses).req)
<1>1. /\ Head(responses) \in [req : Request, outcome : Outcome]
      /\ responses' \in Seq([req : Request, outcome : Outcome])
      /\ Len(responses') = Len(responses) - 1
      /\ \A i \in 1..Len(responses') : responses'[i] = responses[i + 1]
      /\ Head(responses) = responses[1]
  <2> DEFINE R == [req : Request, outcome : Outcome]
  <2>1. responses \in Seq(R) /\ responses # <<>> /\ responses' = Tail(responses)
    BY DEF GetResponse, TypeInv, TypeOK
  <2> HIDE DEF R
  <2>2. Head(responses) = responses[1]
    BY <2>1
  <2>3. /\ Head(responses) \in R /\ Tail(responses) \in Seq(R)
        /\ Len(Tail(responses)) = Len(responses) - 1
        /\ \A i \in 1..Len(Tail(responses)) :
              Tail(responses)[i] = responses[i + 1]
    BY <2>1, HeadTailProperties
  <2> QED  BY <2>1, <2>2, <2>3 DEF R
<1>2. Len(responses) \in Nat /\ Len(responses) > 0
      /\ DOMAIN responses = 1..Len(responses)
      /\ DOMAIN responses' = 1..(Len(responses) - 1)
  BY <1>1, LenProperties, EmptySeq DEF GetResponse, TypeInv, TypeOK
<1>3. 1 \in DOMAIN responses /\ \A i \in DOMAIN responses' :
          /\ i \in Nat /\ i + 1 \in DOMAIN responses
          /\ responses'[i] = responses[i + 1] /\ i + 1 # 1
  BY <1>1, <1>2
<1>4. \A i \in DOMAIN responses :
          i # 1 => i - 1 \in DOMAIN responses' /\ responses'[i - 1] = responses[i]
  BY <1>1, <1>2
<1>5. ASSUME NEW q \in Request
      PROVE  Answered(q)' <=> (Answered(q) /\ q # Head(responses).req)
  <2>1. ASSUME NEW i \in DOMAIN responses', responses'[i].req = q
        PROVE  Answered(q) /\ q # Head(responses).req
    <3>1. /\ i + 1 \in DOMAIN responses /\ responses[i + 1].req = q
          /\ i + 1 # 1 /\ 1 \in DOMAIN responses
      BY <1>3, <2>1
    <3> QED  BY <1>1, <3>1 DEF Answered, OnePlace
  <2>2. ASSUME NEW i \in DOMAIN responses, responses[i].req = q,
               q # Head(responses).req
        PROVE  \E j \in DOMAIN responses' : responses'[j].req = q
    BY <1>1, <1>4, <2>2
  <2> QED  BY <2>1, <2>2 DEF Answered
<1>6. Answered(Head(responses).req)
  BY <1>1, <1>3 DEF Answered
<1>7. requests' = requests /\ job' = job
  BY DEF GetResponse, workerVars
<1>8. ASSUME NEW q \in Request
      PROVE  (Queued(q)' <=> Queued(q)) /\ (Performing(q)' <=> Performing(q))
  BY <1>7 DEF Queued, Performing
<1> QED  BY <1>1, <1>3, <1>5, <1>6, <1>8

\* a step that moves no request
LEMMA NoMoves ==
    ASSUME UNCHANGED <<requests, responses, job>>
    PROVE  \A q \in Request :
               /\ Queued(q)' <=> Queued(q)
               /\ Performing(q)' <=> Performing(q)
               /\ Answered(q)' <=> Answered(q)
               /\ PlaceOf(q)' = PlaceOf(q)
  BY DEF Queued, Performing, Answered, PlaceOf

\* inserting a request that the main thread has
LEMMA InsertOnePlace ==
    ASSUME TypeInv, OnePlace, NEW r \in Request, Insert(r),
           PlaceOf(r) = "client", r \notin todo'
    PROVE  /\ ~Queued(r) /\ ~Performing(r) /\ ~Answered(r)
           /\ \A q \in Request :
                 /\ Queued(q)' <=> (Queued(q) \/ q = r)
                 /\ Performing(q)' <=> Performing(q)
                 /\ Answered(q)' <=> Answered(q)
           /\ todo' \subseteq todo => OnePlace'
<1>1. ~Queued(r) /\ ~Performing(r) /\ ~Answered(r)
  BY DEF PlaceOf
<1>2. responses' = responses /\ job' = job /\ mainPc' = "notifying"
  BY DEF Insert, workerVars
<1>3. /\ IsInjective(requests')
      /\ \A q \in Request : Queued(q)' <=> (Queued(q) \/ q = r)
  BY <1>1, InsertMoves DEF Insert, TypeInv, OnePlace
<1>4. \A q \in Request :
          (Performing(q)' <=> Performing(q)) /\ (Answered(q)' <=> Answered(q))
  BY <1>2 DEF Performing, Answered
<1>5. ASSUME todo' \subseteq todo PROVE OnePlace'
  <2>1. \A q \in Request :
            /\ ~(Queued(q)' /\ Performing(q)')
            /\ ~(Queued(q)' /\ Answered(q)')
            /\ ~(Performing(q)' /\ Answered(q)')
    BY <1>1, <1>3, <1>4 DEF OnePlace
  <2>2. \A q \in Request : q \in todo' => PlaceOf(q)' = "client"
    BY <1>3, <1>4, <1>5 DEF PlaceOf, OnePlace
  <2> QED  BY <1>2, <1>3, <2>1, <2>2 DEF OnePlace
<1> QED  BY <1>1, <1>3, <1>4, <1>5

\* a timed-out request is not also waiting to be scheduled the first time
RetryInv == mainPc = "retry" => current \notin todo

LEMMA InitOnePlace == Init => OnePlace /\ RetryInv
<1> SUFFICES ASSUME Init PROVE OnePlace /\ RetryInv
  OBVIOUS
<1>1. DOMAIN requests = {} /\ DOMAIN responses = {}
  BY DEF Init
<1>2. \A r \in Request : ~Queued(r) /\ ~Performing(r) /\ ~Answered(r)
  BY <1>1, ConstantsAssumption DEF Init, Queued, Performing, Answered
<1> QED
  BY <1>1, <1>2 DEF Init, OnePlace, RetryInv, PlaceOf, IsInjective

LEMMA NextOnePlace ==
    TypeInv /\ OnePlace /\ RetryInv /\ [Next]_vars => OnePlace' /\ RetryInv'
<1> SUFFICES ASSUME TypeInv, OnePlace, RetryInv, [Next]_vars
             PROVE  OnePlace' /\ RetryInv'
  OBVIOUS
<1>1. ASSUME NEW w \in Workers, Take(w) PROVE OnePlace' /\ RetryInv'
  <2> DEFINE r == Head(requests)
  <2>1. UNCHANGED <<responses, mainPc, current, todo>>
    BY <1>1 DEF Take, mainVars
  <2>2. ~Performing(r) /\ ~Answered(r)
    BY <1>1, TakeMoves DEF OnePlace
  <2>3. \A v, u \in Workers :
            job'[v] = job'[u] /\ job'[v] # None => v = u
    BY <1>1, <2>2, TakeMoves DEF OnePlace, Performing
  <2>4. \A q \in Request :
            /\ ~(Queued(q)' /\ Performing(q)')
            /\ ~(Queued(q)' /\ Answered(q)')
            /\ ~(Performing(q)' /\ Answered(q)')
    BY <1>1, <2>2, TakeMoves DEF OnePlace
  <2>5. \A q \in Request : PlaceOf(q) = "client" => PlaceOf(q)' = "client"
    BY <1>1, TakeMoves DEF PlaceOf
  <2> QED
    BY <1>1, <2>1, <2>3, <2>4, <2>5, TakeMoves DEF OnePlace, RetryInv
<1>2. ASSUME NEW w \in Workers, NEW outcome \in Outcome, Publish(w, outcome)
      PROVE  OnePlace' /\ RetryInv'
  <2>1. UNCHANGED <<requests, mainPc, current, todo>>
    BY <1>2 DEF Publish, mainVars
  <2>2. Performing(job[w]) /\ ~Queued(job[w]) /\ ~Answered(job[w])
    BY <1>2, PublishMoves DEF OnePlace, Performing
  <2>3. \A v, u \in Workers :
            job'[v] = job'[u] /\ job'[v] # None => v = u
    BY <1>2, PublishMoves DEF OnePlace
  <2>4. ASSUME NEW i \in DOMAIN responses', NEW j \in DOMAIN responses',
               responses'[i].req = responses'[j].req
        PROVE  i = j
    <3>1. \A n \in DOMAIN responses' :
              n \in DOMAIN responses \/ n = Len(responses) + 1
      BY <1>2, PublishMoves
    <3>2. \A n \in DOMAIN responses : responses'[n].req # job[w]
      BY <1>2, <2>2, PublishMoves DEF Answered
    <3>3. responses'[Len(responses) + 1].req = job[w]
          /\ \A n \in DOMAIN responses : responses'[n] = responses[n]
      BY <1>2, PublishMoves
    <3> QED  BY <2>4, <3>1, <3>2, <3>3 DEF OnePlace
  <2>5. \A q \in Request :
            /\ ~(Queued(q)' /\ Performing(q)')
            /\ ~(Queued(q)' /\ Answered(q)')
            /\ ~(Performing(q)' /\ Answered(q)')
    BY <1>2, <2>2, PublishMoves DEF OnePlace
  <2>6. \A q \in Request : PlaceOf(q) = "client" => PlaceOf(q)' = "client"
    BY <1>2, <2>2, PublishMoves DEF PlaceOf
  <2> QED
    BY <2>1, <2>3, <2>4, <2>5, <2>6 DEF OnePlace, RetryInv
<1>3. CASE GetResponse
  <2> DEFINE r == Head(responses).req
  <2>1. UNCHANGED <<requests, job, todo>> /\ r \in Request
    BY <1>3, GetMoves DEF GetResponse, workerVars
  <2>2. ~Queued(r) /\ ~Performing(r) /\ r \notin todo
    BY <1>3, <2>1, GetMoves DEF OnePlace, PlaceOf
  <2>3. mainPc' = "retry" => current' = r
    BY <1>3, GetMoves DEF GetResponse, Outcome
  <2>4. ASSUME NEW i \in DOMAIN responses', NEW j \in DOMAIN responses',
               responses'[i].req = responses'[j].req
        PROVE  i = j
    <3>1. i \in Nat /\ j \in Nat /\ i + 1 = j + 1
      BY <1>3, <2>4, GetMoves DEF OnePlace
    <3> QED  BY <3>1
  <2>5. \A q \in Request :
            /\ ~(Queued(q)' /\ Performing(q)')
            /\ ~(Queued(q)' /\ Answered(q)')
            /\ ~(Performing(q)' /\ Answered(q)')
    BY <1>3, GetMoves DEF OnePlace
  <2>6. \A q \in Request : PlaceOf(q) = "client" \/ q = r
                                => PlaceOf(q)' = "client"
    BY <1>3, <2>2, GetMoves DEF PlaceOf
  <2> QED
    BY <2>1, <2>2, <2>3, <2>4, <2>5, <2>6 DEF OnePlace, RetryInv
<1>4. ASSUME NEW r \in Request, Schedule(r) PROVE OnePlace' /\ RetryInv'
  <2>1. /\ Insert(r) /\ r \notin todo' /\ todo' \subseteq todo
        /\ PlaceOf(r) = "client" /\ mainPc' = "notifying"
    BY <1>4 DEF Schedule, Insert, OnePlace
  <2> QED  BY <2>1, InsertOnePlace DEF RetryInv
<1>5. CASE Reschedule
  <2>1. /\ current \in Request /\ Insert(current) /\ current \notin todo'
        /\ todo' \subseteq todo /\ PlaceOf(current) = "client"
        /\ mainPc' = "notifying"
    BY <1>5 DEF Reschedule, Insert, OnePlace, RetryInv, TypeInv, TypeOK, Held
  <2> QED  BY <2>1, InsertOnePlace DEF RetryInv
<1>6. ASSUME UNCHANGED <<requests, responses, job, current, todo>>,
             mainPc' = "retry" => mainPc = "retry"
      PROVE  OnePlace' /\ RetryInv'
  BY <1>6, NoMoves DEF OnePlace, RetryInv
<1>7. ASSUME NEW w \in Workers,
             \/ Acquire(w) \/ TestPredicate(w) \/ Sleep(w)
             \/ SpuriousWakeup(w) \/ Exit(w) \/ NotifyMain(w)
      PROVE  OnePlace' /\ RetryInv'
  <2>1. /\ UNCHANGED <<requests, responses, job, current, todo>>
        /\ mainPc' = "retry" => mainPc = "retry"
    BY <1>7
    DEF Acquire, TestPredicate, Sleep, SpuriousWakeup, Exit, NotifyMain,
        mainVars
  <2> QED  BY <1>6, <2>1
<1>8. CASE NotifyWorker
  <2>1. UNCHANGED <<requests, responses, job, todo>> /\ mainPc' # "retry"
        /\ mainPc = "notifying"
    BY <1>8 DEF NotifyWorker
  <2> QED  BY <2>1, NoMoves DEF OnePlace, RetryInv
<1>9. CASE \/ QueueFull \/ HandlerDone \/ HandlerFailed \/ WaitForResponse
           \/ SetStopped \/ NotifyAll \/ Join \/ UNCHANGED vars
  <2>1. /\ UNCHANGED <<requests, responses, job, current, todo>>
        /\ mainPc' = "retry" => mainPc = "retry"
    BY <1>9
    DEF QueueFull, HandlerDone, HandlerFailed, WaitForResponse, SetStopped,
        NotifyAll, Join, vars, workerVars
  <2> QED  BY <1>6, <2>1
<1> QED
  BY <1>1, <1>2, <1>3, <1>4, <1>5, <1>7, <1>8, <1>9
  DEF Next, WorkerStep, MainStep

(***************************************************************************)
(* A request is in one place at a time: exactly once in the pool.          *)
(***************************************************************************)
THEOREM ExactlyOnce == Spec => []OnePlace
<1>1. Init => TypeInv /\ OnePlace /\ RetryInv
  BY InitType, InitOnePlace
<1>2. TypeInv /\ OnePlace /\ RetryInv /\ [Next]_vars
          => (TypeInv /\ OnePlace /\ RetryInv)'
  BY NextType, NextOnePlace
<1> QED  BY <1>1, <1>2, PTL DEF Spec

-----------------------------------------------------------------------------
(***************************************************************************)
(* No lost wake-ups. LookingAtQueue loses a worker only when that worker   *)
(* takes a request or finds the queue empty.                               *)
(***************************************************************************)
LEMMA Counting ==
    ASSUME TypeOK
    PROVE  /\ IsFiniteSet(LookingAtQueue)
           /\ Cardinality(LookingAtQueue) \in Nat
           /\ Len(requests) \in Nat
<1>1. LookingAtQueue \in SUBSET Workers
  BY DEF LookingAtQueue
<1>2. IsFiniteSet(LookingAtQueue)
  BY <1>1, FS_Subset, ConstantsAssumption
<1> QED  BY <1>2, FS_CardinalityType, LenProperties DEF TypeOK

LEMMA NextRequestSleeps ==
    TypeInv /\ LockInv /\ NoRequestSleeps /\ [Next]_vars => NoRequestSleeps'
<1> SUFFICES ASSUME TypeInv, LockInv, NoRequestSleeps, [Next]_vars
             PROVE  NoRequestSleeps'
  OBVIOUS
<1> DEFINE L == LookingAtQueue
           pending == IF mainPc = "notifying" THEN 1 ELSE 0
<1>0. /\ TypeOK /\ IsFiniteSet(L) /\ Cardinality(L) \in Nat
      /\ Len(requests) \in Nat /\ pending \in {0, 1}
  BY Counting DEF TypeInv
<1>1. /\ TypeOK' /\ Cardinality(L') \in Nat
      /\ Len(requests') \in Nat /\ pending' \in {0, 1}
  <2>1. TypeOK'
    BY NextType DEF TypeInv
  <2>2. LookingAtQueue' \in SUBSET Workers
    BY DEF LookingAtQueue
  <2>3. Cardinality(L') \in Nat
    BY <2>2, FS_Subset, FS_CardinalityType, ConstantsAssumption
  <2> QED  BY <2>1, <2>3, LenProperties DEF TypeOK
<1>2. \A w : /\ Cardinality(L \cup {w}) =
                   IF w \in L THEN Cardinality(L) ELSE Cardinality(L) + 1
             /\ Cardinality(L \ {w}) =
                   IF w \in L THEN Cardinality(L) - 1 ELSE Cardinality(L)
  BY <1>0, FS_AddElement, FS_RemoveElement
<1>3. ASSUME Asleep # {} /\ ~stopped => Len(requests) <= Cardinality(L) + pending,
             Asleep' # {} /\ ~stopped' => Asleep # {} /\ ~stopped,
             Len(requests') <= Len(requests),
             Cardinality(L') >= Cardinality(L), pending' = pending
      PROVE  NoRequestSleeps'
  BY <1>0, <1>1, <1>3 DEF NoRequestSleeps
<1>4. Asleep # {} /\ ~stopped => Len(requests) <= Cardinality(L) + pending
  BY DEF NoRequestSleeps
<1>5. ASSUME requests' = <<>> PROVE NoRequestSleeps'
  <2>1. Len(requests') = 0
    BY <1>5
  <2> QED  BY <1>1, <2>1 DEF NoRequestSleeps
<1>5a. ASSUME Asleep' # {} /\ ~stopped' => Len(requests') <= Cardinality(L') + pending'
       PROVE  NoRequestSleeps'
  BY <1>5a DEF NoRequestSleeps
<1> HIDE DEF L, pending
<1> USE DEF TypeOK, Goto, workerVars, mainVars
<1>6. ASSUME NEW w \in Workers, Acquire(w) PROVE NoRequestSleeps'
  <2>1. L' = L /\ Asleep' = Asleep /\ UNCHANGED <<stopped, requests>>
        /\ pending' = pending
    BY <1>0, <1>6 DEF Acquire, L, LookingAtQueue, Asleep, pending
  <2> QED  BY <1>0, <1>3, <1>4, <2>1
<1>7. ASSUME NEW w \in Workers, TestPredicate(w) PROVE NoRequestSleeps'
  <2>1. CASE stopped \/ requests # <<>>
    <3>1. L' = L /\ Asleep' = Asleep /\ UNCHANGED <<stopped, requests>>
          /\ pending' = pending
      BY <1>0, <1>7, <2>1 DEF TestPredicate, L, LookingAtQueue, Asleep, pending
    <3> QED  BY <1>0, <1>3, <1>4, <3>1
  <2>2. CASE ~(stopped \/ requests # <<>>)
    BY <1>5, <1>7, <2>2 DEF TestPredicate
  <2> QED  BY <2>1, <2>2
<1>8. ASSUME NEW w \in Workers, Sleep(w) PROVE NoRequestSleeps'
  BY <1>5, <1>8 DEF Sleep, LockInv
<1>9. ASSUME NEW w \in Workers, \/ SpuriousWakeup(w) \/ NotifyMain(w)
      PROVE  NoRequestSleeps'
  <2>1. L' = L \cup {w} /\ Asleep' \subseteq Asleep
        /\ UNCHANGED <<stopped, requests>> /\ pending' = pending
    <3>1. /\ pc' = [pc EXCEPT ![w] = "acquire"]
          /\ UNCHANGED <<stopped, requests>>
          /\ pending' = pending
      BY <1>9 DEF SpuriousWakeup, NotifyMain, Goto, mainVars, pending
    <3> QED  BY <1>0, <3>1 DEF L, LookingAtQueue, Asleep
  <2>2. Cardinality(L') >= Cardinality(L)
    <3> HIDE DEF L
    <3>1. Cardinality(L \cup {w}) =
              IF w \in L THEN Cardinality(L) ELSE Cardinality(L) + 1
      BY <1>2, Zenon
    <3> QED  BY <1>0, <2>1, <3>1
  <2> QED  BY <1>0, <1>3, <1>4, <2>1, <2>2
<1>10. ASSUME NEW w \in Workers, Exit(w) PROVE NoRequestSleeps'
  BY <1>10 DEF Exit, NoRequestSleeps
<1>11. ASSUME NEW w \in Workers, Take(w) PROVE NoRequestSleeps'
  <2>1. w \in L /\ L' = L \ {w} /\ Asleep' = Asleep
        /\ UNCHANGED stopped /\ pending' = pending
    BY <1>0, <1>11 DEF Take, L, LookingAtQueue, Asleep, pending
  <2>2. Len(requests') = Len(requests) - 1
    <3>1. requests \in Seq(Request) /\ requests # <<>>
          /\ requests' = Tail(requests)
      BY <1>0, <1>11 DEF Take
    <3> QED  BY <3>1, HeadTailProperties
  <2>3. Cardinality(L') = Cardinality(L) - 1
    BY <1>2, <2>1
  <2>4. ASSUME Asleep' # {} /\ ~stopped'
        PROVE  Len(requests') <= Cardinality(L') + pending'
    <3>1. Len(requests) <= Cardinality(L) + pending
      BY <1>4, <2>1, <2>4
    <3> QED  BY <1>0, <2>1, <2>2, <2>3, <3>1
  <2> QED  BY <1>5a, <2>4
<1>12. ASSUME NEW w \in Workers, NEW outcome \in Outcome, Publish(w, outcome)
       PROVE  NoRequestSleeps'
  <2>1. L' = L /\ Asleep' = Asleep /\ UNCHANGED <<stopped, requests>>
        /\ pending' = pending
    BY <1>0, <1>12 DEF Publish, L, LookingAtQueue, Asleep, pending
  <2> QED  BY <1>0, <1>3, <1>4, <2>1
<1>13. ASSUME NEW r \in Request, Insert(r), mainPc # "notifying"
       PROVE  NoRequestSleeps'
  <2>1. L' = L /\ Asleep' = Asleep /\ UNCHANGED stopped
        /\ pending = 0 /\ pending' = 1
    BY <1>0, <1>13 DEF Insert, L, LookingAtQueue, Asleep, pending
  <2>2. Len(requests') = Len(requests) + 1
    <3>1. PICK p \in 1..(Len(requests) + 1) :
              requests' = InsertAt(requests, p, r)
      BY <1>13 DEF Insert, InsertSorted
    <3> QED  BY <1>0, <3>1, Inserted
  <2> QED  BY <1>0, <1>1, <1>4, <1>5a, <2>1, <2>2
<1>14. CASE NotifyWorker
  <2>1. CASE Asleep = {}
    <3>1. Asleep' = {}
      BY <1>14, <2>1 DEF NotifyWorker, Asleep
    <3> QED  BY <3>1 DEF NoRequestSleeps
  <2>2. CASE Asleep # {}
    <3>1. PICK w \in Asleep : Goto(w, "acquire")
      BY <1>14, <2>2 DEF NotifyWorker
    <3>2. w \notin L /\ L' = L \cup {w} /\ Asleep' \subseteq Asleep
          /\ UNCHANGED <<stopped, requests>> /\ pending = 1 /\ pending' = 0
      BY <1>0, <1>14, <3>1
      DEF NotifyWorker, L, LookingAtQueue, Asleep, pending
    <3> QED
      BY <1>0, <1>1, <1>2, <1>4, <1>5a, <3>2
  <2> QED  BY <2>1, <2>2
<1>15. CASE NotifyAll
  <2>1. Asleep' = {}
    BY <1>15 DEF NotifyAll, Asleep
  <2> QED  BY <2>1 DEF NoRequestSleeps
<1>16. CASE SetStopped
  BY <1>16 DEF SetStopped, NoRequestSleeps
<1>17. CASE \/ QueueFull \/ HandlerDone \/ HandlerFailed \/ GetResponse
            \/ WaitForResponse \/ Join \/ UNCHANGED vars
  <2>1. UNCHANGED <<requests, stopped, pc>>
    BY <1>17
    DEF QueueFull, HandlerDone, HandlerFailed, GetResponse, WaitForResponse,
        Join, vars
  <2>2. pending' = pending
    <3>1. CASE GetResponse
      <4>1. Head(responses) \in [req : Request, outcome : Outcome]
        BY <3>1, HeadTailProperties DEF GetResponse, TypeInv
      <4>2. Head(responses).outcome \in {"answer", "timeout", "failure"}
        BY <4>1 DEF Outcome
      <4> QED  BY <3>1, <4>2 DEF GetResponse, pending
    <3> QED
      BY <1>17, <3>1
      DEF QueueFull, HandlerDone, HandlerFailed, WaitForResponse, Join, vars,
          pending
  <2>3. L' = L /\ Asleep' = Asleep
    BY <2>1 DEF L, LookingAtQueue, Asleep
  <2> QED  BY <1>0, <1>3, <1>4, <2>1, <2>2, <2>3
<1>18. ASSUME NEW r \in Request, Schedule(r) PROVE NoRequestSleeps'
  BY <1>13, <1>18 DEF Schedule
<1>19. CASE Reschedule
  BY <1>13, <1>19 DEF Reschedule, TypeInv, Held
<1> QED
  BY <1>6, <1>7, <1>8, <1>9, <1>10, <1>11, <1>12, <1>14, <1>15, <1>16, <1>17,
     <1>18, <1>19
  DEF Next, WorkerStep, MainStep

(***************************************************************************)
(* No queued request waits for a worker that sleeps.                       *)
(***************************************************************************)
THEOREM NoLostRequest == Spec => []NoRequestSleeps
<1>1. Init => TypeInv /\ LockInv /\ NoRequestSleeps
  <2>1. Init => Asleep = {}
    BY DEF Init, Asleep
  <2> QED  BY <2>1, InitType, InitLock DEF NoRequestSleeps
<1>2. TypeInv /\ LockInv /\ NoRequestSleeps /\ [Next]_vars
          => (TypeInv /\ LockInv /\ NoRequestSleeps)'
  BY NextType, NextLock, NextRequestSleeps
<1> QED  BY <1>1, <1>2, PTL DEF Spec

LEMMA NextResponseSleeps ==
    TypeInv /\ NoResponseSleeps /\ [Next]_vars => NoResponseSleeps'
<1> SUFFICES ASSUME TypeInv, NoResponseSleeps, [Next]_vars
             PROVE  NoResponseSleeps'
  OBVIOUS
<1> USE DEF NoResponseSleeps, TypeInv, TypeOK, Goto, workerVars, mainVars
<1>1. ASSUME NEW w \in Workers,
             \/ Acquire(w) \/ TestPredicate(w) \/ Sleep(w)
             \/ SpuriousWakeup(w) \/ Exit(w) \/ Take(w)
      PROVE  NoResponseSleeps'
  <2>1. UNCHANGED <<responses, mainPc>>
        /\ \A v \in Workers : pc[v] = "notify" => pc'[v] = "notify"
    BY <1>1 DEF Acquire, TestPredicate, Sleep, SpuriousWakeup, Exit, Take
  <2> QED  BY <2>1
<1>2. ASSUME NEW w \in Workers, NEW outcome \in Outcome, Publish(w, outcome)
      PROVE  NoResponseSleeps'
  <2>1. pc'[w] = "notify"
    BY <1>2 DEF Publish
  <2> QED  BY <2>1
<1>3. ASSUME NEW w \in Workers, NotifyMain(w) PROVE NoResponseSleeps'
  <2>1. mainPc' # "asleep"
    BY <1>3 DEF NotifyMain
  <2> QED  BY <2>1
<1>4. CASE \E r \in Request : Schedule(r)
  BY <1>4 DEF Schedule, Insert
<1>5. CASE \/ Reschedule \/ QueueFull \/ NotifyWorker \/ HandlerDone
           \/ HandlerFailed \/ WaitForResponse \/ SetStopped \/ NotifyAll
           \/ Join \/ UNCHANGED vars
  BY <1>5
  DEF Reschedule, Insert, QueueFull, NotifyWorker, HandlerDone, HandlerFailed,
      WaitForResponse, SetStopped, NotifyAll, Join, vars
<1>6. CASE GetResponse
  <2>1. Head(responses) \in [req : Request, outcome : Outcome]
    BY <1>6, HeadTailProperties DEF GetResponse
  <2>2. Head(responses).outcome \in {"answer", "timeout", "failure"}
    BY <2>1 DEF Outcome
  <2>3. mainPc' # "asleep"
    BY <1>6, <2>2 DEF GetResponse
  <2> QED  BY <2>3
<1> QED
  BY <1>1, <1>2, <1>3, <1>4, <1>5, <1>6 DEF Next, WorkerStep, MainStep

(***************************************************************************)
(* While the main thread sleeps on an unread response, a worker is about   *)
(* to notify it.                                                           *)
(***************************************************************************)
THEOREM NoLostResponse == Spec => []NoResponseSleeps
<1>1. Init => TypeInv /\ NoResponseSleeps
  BY InitType DEF Init, NoResponseSleeps
<1>2. TypeInv /\ NoResponseSleeps /\ [Next]_vars
          => (TypeInv /\ NoResponseSleeps)'
  BY NextType, NextResponseSleeps
<1> QED  BY <1>1, <1>2, PTL DEF Spec

-----------------------------------------------------------------------------
(***************************************************************************)
(* The pool implements its promise, RequestPool. A step of the threads is  *)
(* a move of one request or leaves every request where it is.              *)
(***************************************************************************)
place == [r \in Request |-> PlaceOf(r)]

LEMMA PlaceMove ==
    ASSUME NEW r \in Request, NEW to,
           \A q \in Request : PlaceOf(q)' = IF q = r THEN to ELSE PlaceOf(q)
    PROVE  place' = [place EXCEPT ![r] = to]
  BY DEF place

\* when a worker takes a request, the others perform one request each at most
LEMMA FreeSlot ==
    ASSUME TypeInv, OnePlace, NEW w \in Workers, job[w] = None
    PROVE  Cardinality({r \in Request : PlaceOf(r) = "performing"})
               < Cardinality(Workers)
<1> DEFINE P == {r \in Request : PlaceOf(r) = "performing"}
           others == Workers \ {w}
           f == [r \in P |-> CHOOSE v \in others : job[v] = r]
<1>1. \A r \in P : \E v \in others : job[v] = r
  BY ConstantsAssumption DEF PlaceOf, Performing
<1>2. \A r \in P : f[r] \in others /\ job[f[r]] = r
  BY <1>1
<1>3. f \in Injection(P, others)
  <2>1. f \in [P -> others]
    BY <1>2
  <2> HIDE DEF f
  <2> QED  BY <1>2, <2>1 DEF Injection, IsInjective
<1>4. IsFiniteSet(others) /\ Cardinality(others) = Cardinality(Workers) - 1
  BY FS_RemoveElement, ConstantsAssumption
<1>5. IsFiniteSet(P) /\ Cardinality(P) <= Cardinality(others)
  BY <1>3, <1>4, FS_Injection
<1>6. Cardinality(P) \in Nat /\ Cardinality(Workers) \in Nat
  BY <1>5, FS_CardinalityType, ConstantsAssumption
<1> QED  BY <1>4, <1>5, <1>6

LEMMA StepImplements ==
    ASSUME TypeInv, TypeInv', OnePlace, RetryInv, QueueSorted, [Next]_vars
    PROVE  [Pool!Next]_place
<1> USE DEF Pool!Next, Pool!Submit, Pool!Start, Pool!Answer, Pool!Deliver,
            Pool!Move
<1>1. ASSUME NEW w \in Workers, Take(w) PROVE Pool!Next
  <2> DEFINE r == Head(requests)
  <2>1. r \in Request /\ Queued(r) /\ ~Performing(r) /\ ~Answered(r)
    BY <1>1, TakeMoves DEF OnePlace
  <2>2. place' = [place EXCEPT ![r] = "performing"]
    <3>1. \A q \in Request :
              PlaceOf(q)' = IF q = r THEN "performing" ELSE PlaceOf(q)
      BY <1>1, <2>1, TakeMoves DEF PlaceOf
    <3> QED  BY <2>1, <3>1, PlaceMove
  <2>3. place[r] = "queued"
    BY <2>1 DEF place, PlaceOf
  <2>4. job[w] = None
    BY <1>1 DEF Take, TypeInv, Held
  <2>5. Cardinality(Pool!At("performing")) < Cardinality(Workers)
    <3>1. Pool!At("performing") = {q \in Request : PlaceOf(q) = "performing"}
      BY DEF Pool!At
    <3> QED  BY <2>4, <3>1, FreeSlot
  <2>6. ASSUME NEW q \in Pool!At("queued") PROVE ~Before(q, r)
    <3>1. q \in Request /\ Queued(q)
      BY <2>6 DEF Pool!At, PlaceOf
    <3>2. PICK i \in DOMAIN requests : requests[i] = q
      BY <3>1 DEF Queued
    <3>3. /\ requests \in Seq(Request) /\ requests # <<>>
          /\ Len(requests) \in Nat /\ DOMAIN requests = 1..Len(requests)
      BY <1>1, LenProperties DEF Take, TypeInv, TypeOK
    <3>4. r = requests[1] /\ 1 \in DOMAIN requests /\ (i = 1 \/ 1 < i)
      BY <3>2, <3>3
    <3> QED  BY <2>1, <3>1, <3>2, <3>4, BeforeAsymmetric DEF QueueSorted
  <2>7. Pool!Start(r)
    BY <2>1, <2>2, <2>3, <2>5, <2>6 DEF place, Pool!Cardinality, Cardinality
  <2> QED  BY <2>1, <2>7
<1>2. ASSUME NEW w \in Workers, NEW outcome \in Outcome, Publish(w, outcome)
      PROVE  Pool!Next
  <2> DEFINE r == job[w]
  <2>1. r \in Request /\ Performing(r) /\ ~Queued(r) /\ ~Answered(r)
    BY <1>2, PublishMoves DEF OnePlace, Performing
  <2>2. place' = [place EXCEPT ![r] = "answered"]
    <3>1. \A q \in Request :
              PlaceOf(q)' = IF q = r THEN "answered" ELSE PlaceOf(q)
      BY <1>2, <2>1, PublishMoves DEF PlaceOf
    <3> QED  BY <2>1, <3>1, PlaceMove
  <2>3. place[r] = "performing"
    BY <2>1 DEF place, PlaceOf
  <2> QED  BY <2>1, <2>2, <2>3 DEF place
<1>3. CASE GetResponse
  <2> DEFINE r == Head(responses).req
  <2>1. r \in Request /\ Answered(r) /\ ~Queued(r) /\ ~Performing(r)
    BY <1>3, GetMoves DEF OnePlace
  <2>2. place' = [place EXCEPT ![r] = "client"]
    <3>1. \A q \in Request :
              PlaceOf(q)' = IF q = r THEN "client" ELSE PlaceOf(q)
      BY <1>3, <2>1, GetMoves DEF PlaceOf
    <3> QED  BY <2>1, <3>1, PlaceMove
  <2>3. place[r] = "answered"
    BY <2>1 DEF place, PlaceOf
  <2> QED  BY <2>1, <2>2, <2>3 DEF place
<1>4. ASSUME NEW r \in Request, Insert(r), PlaceOf(r) = "client", r \notin todo'
      PROVE  Pool!Next
  <2>1. place' = [place EXCEPT ![r] = "queued"]
    <3>1. \A q \in Request :
              PlaceOf(q)' = IF q = r THEN "queued" ELSE PlaceOf(q)
      BY <1>4, InsertOnePlace DEF PlaceOf
    <3> QED  BY <3>1, PlaceMove
  <2>2. place[r] = "client"
    BY <1>4 DEF place
  <2> QED  BY <2>1, <2>2 DEF place
<1>5. ASSUME NEW r \in Request, Schedule(r) PROVE Pool!Next
  BY <1>4, <1>5 DEF Schedule, OnePlace
<1>6. CASE Reschedule
  <2>1. /\ current \in Request /\ Insert(current) /\ current \notin todo'
        /\ PlaceOf(current) = "client"
    BY <1>6 DEF Reschedule, OnePlace, RetryInv, TypeInv, TypeOK, Held
  <2> QED  BY <1>4, <2>1
<1>7. ASSUME UNCHANGED <<requests, responses, job>> PROVE place' = place
  BY <1>7, NoMoves DEF place
<1>8. ASSUME NEW w \in Workers,
             \/ Acquire(w) \/ TestPredicate(w) \/ Sleep(w)
             \/ SpuriousWakeup(w) \/ Exit(w) \/ NotifyMain(w)
      PROVE  place' = place
  <2>1. UNCHANGED <<requests, responses, job>>
    BY <1>8
    DEF Acquire, TestPredicate, Sleep, SpuriousWakeup, Exit, NotifyMain
  <2> QED  BY <1>7, <2>1
<1>9. CASE \/ QueueFull \/ NotifyWorker \/ HandlerDone \/ HandlerFailed
           \/ WaitForResponse \/ SetStopped \/ NotifyAll \/ Join
           \/ UNCHANGED vars
  <2>1. UNCHANGED <<requests, responses, job>>
    BY <1>9
    DEF QueueFull, NotifyWorker, HandlerDone, HandlerFailed, WaitForResponse,
        SetStopped, NotifyAll, Join, vars, workerVars
  <2> QED  BY <1>7, <2>1
<1> HIDE DEF Pool!Next
<1> QED
  BY <1>1, <1>2, <1>3, <1>5, <1>6, <1>8, <1>9 DEF Next, WorkerStep, MainStep

(***************************************************************************)
(* Class Api implements the pool it promises: every request handed over is *)
(* performed and answered once, the most urgent one first.                 *)
(***************************************************************************)
THEOREM ImplementsPool == Spec => PoolSpec
<1> DEFINE IInv == TypeInv /\ OnePlace /\ RetryInv /\ QueueSorted
<1>1. Init => IInv
  BY InitType, InitOnePlace DEF Init, QueueSorted
<1>2. IInv /\ [Next]_vars => IInv'
  BY NextType, NextOnePlace, NextSorted
<1>3. Init => Pool!Init
  <2> SUFFICES ASSUME Init PROVE \A r \in Request : PlaceOf(r) = "client"
    BY DEF Pool!Init
  <2>1. DOMAIN requests = {} /\ DOMAIN responses = {}
    BY DEF Init
  <2> QED
    BY <2>1, ConstantsAssumption
    DEF Init, PlaceOf, Queued, Performing, Answered
<1>4. IInv /\ IInv' /\ [Next]_vars => [Pool!Next]_place
  BY StepImplements
<1> HIDE DEF IInv
<1> QED  BY <1>1, <1>2, <1>3, <1>4, PTL DEF Spec, PoolSpec, Pool!Spec, place

=============================================================================
