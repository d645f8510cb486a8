-------------------------------- MODULE Api --------------------------------
(***************************************************************************)
(* The request pool of the client (app/src/lib/api.h, api.cpp): worker     *)
(* threads take requests from a priority queue, perform them over HTTP and *)
(* publish the responses; the main thread schedules requests, collects     *)
(* responses, schedules a request again when it timed out (App::run), and  *)
(* finally destroys the pool.                                              *)
(*                                                                         *)
(* A critical section that neither waits nor reads stopped_ is one step.   *)
(* The worker's section around requestCondVar_.wait is split, because the  *)
(* destructor writes stopped_ and notifies without taking requestsMu_.     *)
(***************************************************************************)
EXTENDS Naturals, Sequences, SequencesExt, FiniteSets

CONSTANTS Workers,          \* the worker threads (kApiThreadCount of them)
          Request,          \* the requests the main thread makes
          Type,             \* Request -> ApiEndpointType
          Depth,            \* Request -> depth of a dig or of a cash request
          MaxQueue,         \* kMaxApiRequestsQueueSize
          MaxTimeouts,      \* bound: how many transfers may time out
          None              \* no request, no thread

ApiEndpointType == {"CheckHealth", "Explore", "IssueFreeLicense",
                    "IssuePaidLicense", "Dig", "Cash"}

ASSUME ConstantsAssumption ==
    /\ Type \in [Request -> ApiEndpointType]
    /\ Depth \in [Request -> Nat]
    /\ MaxQueue \in Nat
    /\ MaxTimeouts \in Nat
    /\ None \notin Workers \cup Request
    /\ IsFiniteSet(Workers)

VARIABLES
    requests,   \* requests_: the multiset in iteration order
    responses,  \* responses_
    reqMu,      \* requestsMu_: the worker between lock and unlock, or None
    stopped,    \* stopped_
    pc,         \* where each worker is in threadLoop
    job,        \* the request a worker performs or has just performed
    mainPc,     \* where the main thread is
    current,    \* the request the main thread schedules again or has inserted
    todo,       \* requests the main thread has not scheduled yet
    timeouts    \* number of transfers that timed out

vars == <<requests, responses, reqMu, stopped, pc, job, mainPc, current, todo,
          timeouts>>

workerVars == <<reqMu, pc, job>>
mainVars == <<mainPc, current, todo>>

(***************************************************************************)
(* The order of the queue: Request::operator<.                             *)
(***************************************************************************)
Priority == [type \in ApiEndpointType |->
                CASE type = "CheckHealth" -> 0
                  [] type = "Explore" -> 1
                  [] type = "Dig" -> 2
                  [] type \in {"IssueFreeLicense", "IssuePaidLicense"} -> 3
                  [] type = "Cash" -> 4]

Before(a, b) ==
    \/ Priority[Type[a]] > Priority[Type[b]]
    \/ /\ Priority[Type[a]] = Priority[Type[b]]
       /\ Type[a] \in {"Dig", "Cash"}
       /\ Depth[a] > Depth[b]

\* mutant: first come, first served
InsertSorted_AtEnd(s, r, t) == t = Append(s, r)

\* multiset::insert puts r after every element that is not behind it.
InsertSorted(s, r, t) ==
    \E p \in 1..(Len(s) + 1) :
        /\ \A i \in 1..(p - 1) : ~Before(r, s[i])
        /\ \A i \in p..Len(s) : Before(r, s[i])
        /\ t = InsertAt(s, p, r)

Outcome == {"answer", "timeout", "failure"}

(***************************************************************************)
(* The main thread starts in run(), with every worker on its way to the    *)
(* lock.                                                                   *)
(***************************************************************************)
Init == /\ requests = <<>>
        /\ responses = <<>>
        /\ reqMu = None
        /\ stopped = FALSE
        /\ pc = [w \in Workers |-> "acquire"]
        /\ job = [w \in Workers |-> None]
        /\ mainPc = "handling"
        /\ current = None
        /\ todo = Request
        /\ timeouts = 0

-----------------------------------------------------------------------------
(***************************************************************************)
(* The worker: threadLoop.                                                 *)
(***************************************************************************)
Goto(w, label) == pc' = [pc EXCEPT ![w] = label]

\* lock(requestsMu_), on entry of the loop and after every wake-up
Acquire(w) == /\ pc[w] = "acquire"
              /\ reqMu = None
              /\ reqMu' = w
              /\ Goto(w, "locked")
              /\ UNCHANGED <<requests, responses, stopped, job, mainVars,
                             timeouts>>

\* mutant: the predicate does not look at stopped_
TestPredicate_NoStop(w) ==
    /\ pc[w] = "locked"
    /\ Goto(w, IF requests # <<>> THEN "ready" ELSE "blocking")
    /\ UNCHANGED <<requests, responses, reqMu, stopped, job, mainVars,
                   timeouts>>

\* the predicate of requestCondVar_.wait
TestPredicate(w) ==
    /\ pc[w] = "locked"
    /\ Goto(w, IF stopped \/ requests # <<>> THEN "ready" ELSE "blocking")
    /\ UNCHANGED <<requests, responses, reqMu, stopped, job, mainVars,
                   timeouts>>

\* wait releases the mutex and joins the wait set in one step
Sleep(w) == /\ pc[w] = "blocking"
            /\ reqMu' = None
            /\ Goto(w, "asleep")
            /\ UNCHANGED <<requests, responses, stopped, job, mainVars,
                           timeouts>>

SpuriousWakeup(w) == /\ pc[w] = "asleep"
                     /\ Goto(w, "acquire")
                     /\ UNCHANGED <<requests, responses, reqMu, stopped, job,
                                    mainVars, timeouts>>

\* if (stopped_) break;
Exit(w) == /\ pc[w] = "ready"
           /\ stopped
           /\ reqMu' = None
           /\ Goto(w, "exited")
           /\ UNCHANGED <<requests, responses, stopped, job, mainVars,
                          timeouts>>

\* mutant: the request is read and not extracted
Take_Peek(w) == /\ pc[w] = "ready"
                /\ ~stopped
                /\ requests # <<>>
                /\ job' = [job EXCEPT ![w] = Head(requests)]
                /\ reqMu' = None
                /\ Goto(w, "performing")
                /\ UNCHANGED <<requests, responses, stopped, mainVars, timeouts>>

\* requests_.extract(requests_.begin()), then unlock
Take(w) == /\ pc[w] = "ready"
           /\ ~stopped
           /\ requests # <<>>
           /\ job' = [job EXCEPT ![w] = Head(requests)]
           /\ requests' = Tail(requests)
           /\ reqMu' = None
           /\ Goto(w, "performing")
           /\ UNCHANGED <<responses, stopped, mainVars, timeouts>>

\* mutant: the request was moved from before the response is built
Publish_AfterMove(w, outcome) ==
    /\ pc[w] = "performing"
    /\ outcome = "timeout" => timeouts < MaxTimeouts
    /\ timeouts' = IF outcome = "timeout" THEN timeouts + 1 ELSE timeouts
    /\ responses' = Append(responses, [req |-> None, outcome |-> outcome])
    /\ job' = [job EXCEPT ![w] = None]
    /\ Goto(w, "notify")
    /\ UNCHANGED <<requests, reqMu, stopped, mainVars>>

\* makeApiRequest, then the locked part of publishResponse
Publish(w, outcome) ==
    /\ pc[w] = "performing"
    /\ outcome = "timeout" => timeouts < MaxTimeouts
    /\ timeouts' = IF outcome = "timeout" THEN timeouts + 1 ELSE timeouts
    /\ responses' = Append(responses, [req |-> job[w], outcome |-> outcome])
    /\ job' = [job EXCEPT ![w] = None]
    /\ Goto(w, "notify")
    /\ UNCHANGED <<requests, reqMu, stopped, mainVars>>

\* mutant: the response is published silently
NotifyMain_Silent(w) ==
    /\ pc[w] = "notify"
    /\ Goto(w, "acquire")
    /\ UNCHANGED <<requests, responses, reqMu, stopped, job, mainVars, timeouts>>

\* responsesCondVar_.notify_one
NotifyMain(w) ==
    /\ pc[w] = "notify"
    /\ Goto(w, "acquire")
    /\ mainPc' = IF mainPc = "asleep" THEN "waiting" ELSE mainPc
    /\ UNCHANGED <<requests, responses, reqMu, stopped, job, current, todo,
                   timeouts>>

-----------------------------------------------------------------------------
(***************************************************************************)
(* Where a request is, as the pool's clients see it.                       *)
(***************************************************************************)
Queued(r) == \E i \in DOMAIN requests : requests[i] = r
Performing(r) == \E w \in Workers : job[w] = r
Answered(r) == \E i \in DOMAIN responses : responses[i].req = r

PlaceOf(r) == IF Queued(r) THEN "queued"
              ELSE IF Performing(r) THEN "performing"
              ELSE IF Answered(r) THEN "answered" ELSE "client"

-----------------------------------------------------------------------------
(***************************************************************************)
(* The main thread.                                                        *)
(***************************************************************************)

\* the locked part of scheduleRequest
Insert(r) == /\ reqMu = None
             /\ Len(requests) < MaxQueue
             /\ InsertSorted(requests, r, requests')
             /\ mainPc' = "notifying"
             /\ UNCHANGED <<responses, stopped, workerVars, current, timeouts>>

\* a handler, or fireInitRequests, schedules a new request
Schedule(r) == /\ mainPc = "handling"
               /\ r \in todo
               /\ todo' = todo \ {r}
               /\ Insert(r)

\* App::run schedules the request of a timed-out response again
Reschedule == /\ mainPc = "retry"
              /\ Insert(current)
              /\ UNCHANGED todo

\* scheduleRequest finds the queue full: run() ends
QueueFull == /\ \/ mainPc = "handling" /\ todo # {}
                \/ mainPc = "retry"
             /\ reqMu = None
             /\ Len(requests) >= MaxQueue
             /\ mainPc' = "stopping"
             /\ UNCHANGED <<requests, responses, stopped, workerVars, current,
                            todo, timeouts>>

Asleep == {w \in Workers : pc[w] = "asleep"}

\* mutant: notify only when the queue was empty before the insertion
NotifyWorker_WhenEmpty ==
    /\ mainPc = "notifying"
    /\ mainPc' = IF current = None THEN "handling" ELSE "waiting"
    /\ current' = None
    /\ IF Asleep = {} \/ Len(requests) > 1
       THEN pc' = pc
       ELSE \E w \in Asleep : Goto(w, "acquire")
    /\ UNCHANGED <<requests, responses, reqMu, stopped, job, todo, timeouts>>

\* mutant: the request is queued silently
NotifyWorker_Silent ==
    /\ mainPc = "notifying"
    /\ mainPc' = IF current = None THEN "handling" ELSE "waiting"
    /\ current' = None
    /\ UNCHANGED <<requests, responses, stopped, workerVars, todo, timeouts>>

\* requestCondVar_.notify_one: wakes one sleeping worker, if there is one;
\* then back to the handler, or, after a retry, to the loop of run()
NotifyWorker ==
    /\ mainPc = "notifying"
    /\ mainPc' = IF current = None THEN "handling" ELSE "waiting"
    /\ current' = None
    /\ IF Asleep = {} THEN pc' = pc ELSE \E w \in Asleep : Goto(w, "acquire")
    /\ UNCHANGED <<requests, responses, reqMu, stopped, job, todo, timeouts>>

\* the handler returns and run() calls getAvailableResponse
HandlerDone == /\ mainPc = "handling"
               /\ mainPc' = "waiting"
               /\ UNCHANGED <<requests, responses, stopped, workerVars,
                              current, todo, timeouts>>

\* the handler of a response returns an error: run() ends
HandlerFailed == /\ mainPc = "handling"
                 /\ \E r \in Request \ todo : PlaceOf(r) = "client"
                 /\ mainPc' = "stopping"
                 /\ UNCHANGED <<requests, responses, stopped, workerVars,
                                current, todo, timeouts>>

\* getAvailableResponse with a response at hand, and the branches of run()
GetResponse ==
    /\ mainPc = "waiting"
    /\ responses # <<>>
    /\ LET resp == Head(responses)
       IN  /\ mainPc' = CASE resp.outcome = "answer" -> "handling"
                          [] resp.outcome = "timeout" -> "retry"
                          [] resp.outcome = "failure" -> "stopping"
           /\ current' = IF resp.outcome = "timeout" THEN resp.req ELSE None
    /\ responses' = Tail(responses)
    /\ UNCHANGED <<requests, stopped, workerVars, todo, timeouts>>

\* getAvailableResponse blocks: the publishers hold responsesMu_ when they
\* append, so testing and blocking are one step
WaitForResponse == /\ mainPc = "waiting"
                   /\ responses = <<>>
                   /\ mainPc' = "asleep"
                   /\ UNCHANGED <<requests, responses, stopped, workerVars,
                                  current, todo, timeouts>>

\* ~Api: stopped_ = true
SetStopped == /\ mainPc = "stopping"
              /\ stopped' = TRUE
              /\ mainPc' = "notifyAll"
              /\ UNCHANGED <<requests, responses, workerVars, current, todo,
                             timeouts>>

\* ~Api: requestCondVar_.notify_all
NotifyAll ==
    /\ mainPc = "notifyAll"
    /\ pc' = [w \in Workers |-> IF pc[w] = "asleep" THEN "acquire" ELSE pc[w]]
    /\ mainPc' = "joining"
    /\ UNCHANGED <<requests, responses, reqMu, stopped, job, current, todo,
                   timeouts>>

\* ~Api: every thread joined
Join == /\ mainPc = "joining"
        /\ \A w \in Workers : pc[w] = "exited"
        /\ mainPc' = "done"
        /\ UNCHANGED <<requests, responses, stopped, workerVars, current,
                       todo, timeouts>>

-----------------------------------------------------------------------------
WorkerStep(w) == \/ Acquire(w)
                 \/ TestPredicate(w)
                 \/ Sleep(w)
                 \/ Exit(w)
                 \/ Take(w)
                 \/ \E outcome \in Outcome : Publish(w, outcome)
                 \/ NotifyMain(w)

MainStep == \/ \E r \in Request : Schedule(r)
            \/ Reschedule
            \/ QueueFull
            \/ NotifyWorker
            \/ HandlerDone
            \/ HandlerFailed
            \/ GetResponse
            \/ WaitForResponse
            \/ SetStopped
            \/ NotifyAll
            \/ Join

Next == \/ \E w \in Workers : WorkerStep(w) \/ SpuriousWakeup(w)
        \/ MainStep

Spec == Init /\ [][Next]_vars

(***************************************************************************)
(* A thread that can run does run, and a thread that waits for requestsMu_ *)
(* gets it if it is released again and again. The main thread always       *)
(* returns from a handler; nothing makes it schedule more or fail.         *)
(***************************************************************************)
MainProgress == \/ NotifyWorker
                \/ HandlerDone
                \/ GetResponse
                \/ WaitForResponse
                \/ SetStopped
                \/ NotifyAll
                \/ Join

Fairness == /\ \A w \in Workers : /\ WF_vars(WorkerStep(w))
                                  /\ SF_vars(Acquire(w))
            /\ WF_vars(MainProgress)
            /\ SF_vars(Reschedule)

FairSpec == Spec /\ Fairness

-----------------------------------------------------------------------------
WorkerPc == {"acquire", "locked", "ready", "blocking", "asleep", "performing",
             "notify", "exited"}
MainPc == {"handling", "notifying", "retry", "waiting", "asleep", "stopping",
           "notifyAll", "joining", "done"}

(***************************************************************************)
(* Every variable has its type.                                            *)
(***************************************************************************)
TypeOK == /\ requests \in Seq(Request)
          /\ responses \in Seq([req : Request, outcome : Outcome])
          /\ reqMu \in Workers \cup {None}
          /\ stopped \in BOOLEAN
          /\ pc \in [Workers -> WorkerPc]
          /\ job \in [Workers -> Request \cup {None}]
          /\ mainPc \in MainPc
          /\ current \in Request \cup {None}
          /\ todo \in SUBSET Request
          /\ timeouts \in 0..MaxTimeouts

(***************************************************************************)
(* The most urgent request is always first: no request in the queue goes   *)
(* before one that precedes it. Take relies on it; the debug build asserts *)
(* it for digs whenever a request is extracted (api.cpp:43-54).            *)
(***************************************************************************)
QueueSorted == \A i, j \in DOMAIN requests :
                   i < j => ~Before(requests[j], requests[i])

(***************************************************************************)
(* A request is in one place at a time: it is never queued twice, never    *)
(* performed by two workers, never answered twice, and while the main      *)
(* thread has it to schedule it is nowhere in the pool. Digs and cashes    *)
(* are not idempotent on the server, so a duplicate is fatal to the run.   *)
(***************************************************************************)
OnePlace ==
    /\ IsInjective(requests)
    /\ \A v, w \in Workers : job[v] = job[w] /\ job[v] # None => v = w
    /\ \A i, j \in DOMAIN responses :
           responses[i].req = responses[j].req => i = j
    /\ \A r \in Request :
           /\ ~(Queued(r) /\ Performing(r))
           /\ ~(Queued(r) /\ Answered(r))
           /\ ~(Performing(r) /\ Answered(r))
           /\ r \in todo \/ (mainPc = "retry" /\ r = current)
                 => PlaceOf(r) = "client"

(***************************************************************************)
(* No request waits while a worker sleeps: if some worker sleeps, there    *)
(* are at least as many workers about to look at the queue (or a           *)
(* notification about to wake one) as there are queued requests. It is     *)
(* what notify_one after every insertion is for (api.cpp:169-172).         *)
(***************************************************************************)
LookingAtQueue == {w \in Workers : pc[w] \in {"acquire", "locked", "ready"}}

NoRequestSleeps ==
    Asleep # {} /\ ~stopped =>
        Len(requests) <= Cardinality(LookingAtQueue)
                         + (IF mainPc = "notifying" THEN 1 ELSE 0)

(***************************************************************************)
(* The main thread does not sleep on a response: while it is blocked with  *)
(* a response published, some worker is about to notify it                 *)
(* (api.cpp:120-122).                                                      *)
(***************************************************************************)
NoResponseSleeps ==
    mainPc = "asleep" /\ responses # <<>> => \E w \in Workers : pc[w] = "notify"

(***************************************************************************)
(* A worker that has left the wait finds work unless the pool is stopped:  *)
(* the branch "Woken up but requests queue is empty" (api.cpp:36-40)       *)
(* cannot be taken.                                                        *)
(***************************************************************************)
NeverWokenForNothing ==
    \A w \in Workers : pc[w] = "ready" => stopped \/ requests # <<>>

-----------------------------------------------------------------------------
(***************************************************************************)
(* The pool implements its promise: each request moves client -> queued -> *)
(* performing -> answered -> client, at most one per worker is performed,  *)
(* and no request is started before a more urgent one that waits.          *)
(***************************************************************************)
Pool == INSTANCE RequestPool WITH
            Slots <- Cardinality(Workers),
            Urgent <- Before,
            place <- [r \in Request |-> PlaceOf(r)]

PoolSpec == Pool!Spec

(***************************************************************************)
(* Every scheduled request is answered and handed to the main thread,      *)
(* unless the pool is stopped: no wake-up that is lost, spurious or given  *)
(* to another worker leaves it in the queue for ever (api.cpp:28-47).      *)
(***************************************************************************)
EveryRequestDelivered ==
    \A r \in Request : Queued(r) ~> (PlaceOf(r) = "client" \/ stopped)

(***************************************************************************)
(* When the destructor's notify_all finds no worker between its test of    *)
(* the predicate and its sleep, every worker exits and the destructor      *)
(* returns.                                                                *)
(***************************************************************************)
CleanShutdown ==
    (mainPc = "joining" /\ \A w \in Workers : pc[w] \notin {"blocking", "asleep"})
        ~> mainPc = "done"

(***************************************************************************)
(* The destructor returns: its loop joins every worker (api.cpp:77-79).    *)
(* FALSE of this code: see README, Findings.                               *)
(***************************************************************************)
DestructorReturns == mainPc = "stopping" ~> mainPc = "done"
=============================================================================
