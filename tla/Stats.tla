------------------------------- MODULE Stats -------------------------------
(***************************************************************************)
(* The statistics (class Stats) and the end of the program. The workers of *)
(* the pool count their requests, a thread prints a report every five      *)
(* seconds, and the object belongs to everyone who holds a shared_ptr to   *)
(* it: whoever drops the last one runs ~Stats, which stops the printing    *)
(* thread and joins it. Of the pool (module Api) only the end of its       *)
(* workers is shown.                                                       *)
(***************************************************************************)
EXTENDS Naturals

CONSTANTS Workers,
          MaxRequests   \* bound: how many requests are performed

ASSUME StatsAssumption == MaxRequests \in Nat /\ {"app", "api"} \cap Workers = {}

VARIABLES
    requestsCnt, lastTickRequestsCnt,
    ticks,       \* the sum of the requests that the reports gave for their tick
    stopping,    \* shouldStopStatsThread_
    printPc,     \* where the printing thread is in statsPrintLoop
    workerPc,    \* where each worker is in threadLoop
    mainPc,      \* where the main thread is
    owners,      \* the holders of a shared_ptr: App, Api, the workers' clients
    destroyer    \* who runs ~Stats, if anyone does

vars == <<requestsCnt, lastTickRequestsCnt, ticks, stopping, printPc, workerPc,
          mainPc, owners, destroyer>>

countVars == <<requestsCnt, lastTickRequestsCnt, ticks>>
ownerVars == <<owners, destroyer, stopping>>

Init == /\ requestsCnt = 0 /\ lastTickRequestsCnt = 0 /\ ticks = 0
        /\ stopping = FALSE
        /\ printPc = "asleep"
        /\ workerPc = [w \in Workers |-> "waiting"]
        /\ mainPc = "running"
        /\ owners = Workers \cup {"app", "api"}
        /\ destroyer = {}

\* a shared_ptr goes; with the last one ~Stats begins and sets the flag
Release(owner) == /\ owners' = owners \ {owner}
                  /\ IF owners' = {}
                     THEN destroyer' = {owner} /\ stopping' = TRUE
                     ELSE UNCHANGED <<destroyer, stopping>>

-----------------------------------------------------------------------------
WorkerAt(w, from, to) == /\ workerPc[w] = from
                         /\ workerPc' = [workerPc EXCEPT ![w] = to]

\* a worker finds a request, before it is stopped
Take(w) == /\ mainPc = "running"
           /\ requestsCnt < MaxRequests
           /\ WorkerAt(w, "waiting", "performing")
           /\ UNCHANGED <<countVars, ownerVars, printPc, mainPc>>

\* makeRequest counts the request, whether it succeeded or not
Perform(w) == /\ requestsCnt' = requestsCnt + 1
              /\ \/ WorkerAt(w, "performing", "recording")
                 \/ WorkerAt(w, "performing", "waiting")
              /\ UNCHANGED <<lastTickRequestsCnt, ticks, ownerVars, printPc, mainPc>>

\* recordEndpointStats, while the printing thread is not in that part
Record(w) == /\ printPc # "endpoints"
             /\ WorkerAt(w, "recording", "waiting")
             /\ UNCHANGED <<countVars, ownerVars, printPc, mainPc>>

\* the thread ends and its HttpClient goes
Exit(w) == /\ mainPc # "running"
           /\ WorkerAt(w, "waiting", "exited")
           /\ Release(w)
           /\ UNCHANGED <<countVars, printPc, mainPc>>

-----------------------------------------------------------------------------
PrintAt(from, to) == printPc = from /\ printPc' = to

\* five seconds have passed; the tick is what was added since the last report
BeginPrint == /\ PrintAt("asleep", "printing")
              /\ ticks' = ticks + (requestsCnt - lastTickRequestsCnt)
              /\ UNCHANGED <<requestsCnt, lastTickRequestsCnt, ownerVars,
                             workerPc, mainPc>>

\* printEndpointsStats takes endpointStatsMutex_ and releases it
PrintEndpoints == /\ \/ PrintAt("printing", "endpoints")
                     \/ PrintAt("endpoints", "closing")
                  /\ UNCHANGED <<countVars, ownerVars, workerPc, mainPc>>

\* mutant: the last tick is not brought up to date
EndPrint_Stale == /\ PrintAt("closing", "testing")
                  /\ UNCHANGED <<countVars, ownerVars, workerPc, mainPc>>

EndPrint == /\ PrintAt("closing", "testing")
            /\ lastTickRequestsCnt' = requestsCnt
            /\ UNCHANGED <<requestsCnt, ticks, ownerVars, workerPc, mainPc>>

\* mutant: the flag is never looked at
TestStop_Never == /\ PrintAt("testing", "asleep")
                  /\ UNCHANGED <<countVars, ownerVars, workerPc, mainPc>>

TestStop == /\ PrintAt("testing", IF stopping THEN "exited" ELSE "asleep")
            /\ UNCHANGED <<countVars, ownerVars, workerPc, mainPc>>

-----------------------------------------------------------------------------
MainAt(from, to) == mainPc = from /\ mainPc' = to

\* run() has ended: the members of App go, stats_ first, then api_; ~Api sets
\* stopped_
DestroyApp == /\ MainAt("running", "joining")
              /\ Release("app")
              /\ UNCHANGED <<countVars, printPc, workerPc>>

\* mutant: ~Api does not wait for its workers
DestroyApi_NoJoin == /\ MainAt("joining", "leaving")
                     /\ Release("api")
                     /\ UNCHANGED <<countVars, printPc, workerPc>>

\* ~Api has joined its workers, and its stats_ goes
DestroyApi == /\ \A w \in Workers : workerPc[w] = "exited"
              /\ MainAt("joining", "leaving")
              /\ Release("api")
              /\ UNCHANGED <<countVars, printPc, workerPc>>

\* main returns once ~Stats, if it is the one to run it, has joined
Return == /\ "api" \in destroyer => printPc = "exited"
          /\ MainAt("leaving", "done")
          /\ UNCHANGED <<countVars, ownerVars, printPc, workerPc>>

Printer == BeginPrint \/ PrintEndpoints \/ EndPrint \/ TestStop

Worker(w) == Take(w) \/ Perform(w) \/ Record(w) \/ Exit(w)

Next == \/ Printer
        \/ \E w \in Workers : Worker(w)
        \/ DestroyApp \/ DestroyApi \/ Return

Spec == Init /\ [][Next]_vars

(***************************************************************************)
(* Threads run on; a worker that waits for endpointStatsMutex_ gets it if  *)
(* it is released again and again. Nothing makes run() end.                *)
(***************************************************************************)
Fairness == /\ WF_vars(Printer)
            /\ \A w \in Workers : WF_vars(Worker(w)) /\ SF_vars(Record(w))
            /\ WF_vars(DestroyApi \/ Return)

FairSpec == Spec /\ Fairness

-----------------------------------------------------------------------------
(***************************************************************************)
(* Every variable has its type.                                            *)
(***************************************************************************)
TypeOK ==
    /\ requestsCnt \in Nat /\ lastTickRequestsCnt \in Nat /\ ticks \in Nat
    /\ stopping \in BOOLEAN
    /\ printPc \in {"asleep", "printing", "endpoints", "closing", "testing", "exited"}
    /\ workerPc \in [Workers -> {"waiting", "performing", "recording", "exited"}]
    /\ mainPc \in {"running", "joining", "leaving", "done"}
    /\ owners \subseteq Workers \cup {"app", "api"}
    /\ destroyer \subseteq Workers \cup {"app", "api"}

(***************************************************************************)
(* The ticks of the reports never add up to more requests than were made,  *)
(* although requests are made while a report is printed (stats.cpp:22, 66).*)
(***************************************************************************)
CountedOnce == ticks <= requestsCnt

(***************************************************************************)
(* ~Stats runs in the main thread, after every worker has made its last    *)
(* use of the statistics, and main does not return, and so destroy what    *)
(* the printing thread uses, before that thread has ended (app.h:18-21,    *)
(* stats.cpp:252-255).                                                     *)
(***************************************************************************)
DestroyedLast ==
    /\ destroyer # {} => /\ destroyer = {"api"}
                         /\ \A w \in Workers : workerPc[w] = "exited"
    /\ mainPc = "done" => printPc = "exited"

(***************************************************************************)
(* Once run() has ended the program ends, if the workers of the pool do:   *)
(* the printing thread sees the flag after at most one more report.        *)
(***************************************************************************)
TeardownEnds == mainPc = "joining" ~> mainPc = "done"
=============================================================================
