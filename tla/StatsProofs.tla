---------------------------- MODULE StatsProofs ----------------------------
(***************************************************************************)
(* What holds of the statistics and of the end of the program for any      *)
(* number of workers and of requests.                                      *)
(***************************************************************************)
EXTENDS Stats, TLAPS

(***************************************************************************)
(* Between two reports no tick counts a request beyond the one the next    *)
(* tick starts from (stats.cpp:66).                                        *)
(***************************************************************************)
TicksInv == /\ lastTickRequestsCnt <= requestsCnt
            /\ ticks <= requestsCnt
            /\ printPc \in {"asleep", "testing", "exited"} =>
                   ticks <= lastTickRequestsCnt

(***************************************************************************)
(* Who holds a shared_ptr, and what follows when nobody does.              *)
(***************************************************************************)
OwnersInv == /\ "app" \in owners <=> mainPc = "running"
             /\ "api" \in owners <=> mainPc \in {"running", "joining"}
             /\ \A w \in Workers : w \in owners <=> workerPc[w] # "exited"
             /\ mainPc \in {"leaving", "done"} =>
                    \A w \in Workers : workerPc[w] = "exited"
             /\ IF owners = {} THEN destroyer = {"api"} ELSE destroyer = {}
             /\ mainPc = "done" => printPc = "exited"

Inv == TypeOK /\ TicksInv /\ OwnersInv

-----------------------------------------------------------------------------
LEMMA InitInv == Init => Inv
<1> SUFFICES ASSUME Init PROVE Inv
  OBVIOUS
<1> USE StatsAssumption DEF Init
<1>1. TypeOK
  BY DEF TypeOK
<1>2. TicksInv
  BY DEF TicksInv
<1>3. OwnersInv
  <2>1. \A w \in Workers : w \in owners /\ workerPc[w] = "waiting"
    OBVIOUS
  <2>2. "app" \in owners /\ "api" \in owners /\ owners # {}
    OBVIOUS
  <2> QED  BY <2>1, <2>2 DEF OwnersInv
<1> QED  BY <1>1, <1>2, <1>3 DEF Inv

(***************************************************************************)
(* The steps of the workers.                                               *)
(***************************************************************************)
LEMMA WorkerKeepsInv ==
    ASSUME Inv, NEW w \in Workers, Worker(w)
    PROVE  Inv'
<1> USE StatsAssumption DEF Inv, TypeOK, TicksInv, OwnersInv, countVars, ownerVars,
                            WorkerAt
<1>1. CASE Take(w)
  BY <1>1 DEF Take
<1>2. CASE Perform(w)
  BY <1>2 DEF Perform
<1>3. CASE Record(w)
  BY <1>3 DEF Record
<1>4. CASE Exit(w)
  \* the main thread still holds a pointer: it waits for this worker
  <2>1. "api" \in owners /\ w # "api" /\ w # "app"
    BY <1>4 DEF Exit
  <2>2. owners' = owners \ {w} /\ UNCHANGED <<destroyer, stopping>>
    BY <1>4, <2>1 DEF Exit, Release
  <2>3. TypeOK' /\ TicksInv'
    BY <1>4, <2>2 DEF Exit
  <2>4. OwnersInv'
    BY <1>4, <2>1, <2>2 DEF Exit
  <2> QED  BY <2>3, <2>4
<1> QED  BY <1>1, <1>2, <1>3, <1>4 DEF Worker

(***************************************************************************)
(* The steps of the printing thread.                                       *)
(***************************************************************************)
LEMMA PrinterKeepsInv == ASSUME Inv, Printer PROVE Inv'
<1> USE DEF Inv, TypeOK, TicksInv, OwnersInv, countVars, ownerVars, PrintAt
<1>1. CASE BeginPrint
  BY <1>1 DEF BeginPrint
<1>2. CASE PrintEndpoints
  BY <1>2 DEF PrintEndpoints
<1>3. CASE EndPrint
  BY <1>3 DEF EndPrint
<1>4. CASE TestStop
  BY <1>4 DEF TestStop
<1> QED  BY <1>1, <1>2, <1>3, <1>4 DEF Printer

(***************************************************************************)
(* The steps of the main thread.                                           *)
(***************************************************************************)
LEMMA MainKeepsInv ==
    ASSUME Inv, DestroyApp \/ DestroyApi \/ Return
    PROVE  Inv'
<1> USE StatsAssumption DEF Inv, TypeOK, TicksInv, OwnersInv, countVars, ownerVars,
                            MainAt
<1>1. CASE DestroyApp
  <2>1. owners' = owners \ {"app"} /\ UNCHANGED <<destroyer, stopping>>
    BY <1>1 DEF DestroyApp, Release
  <2> QED  BY <1>1, <2>1 DEF DestroyApp
<1>2. CASE DestroyApi
  \* the workers have gone, and App before them: this is the last pointer
  <2>1. owners' = {}
    BY <1>2 DEF DestroyApi, Release
  <2>2. destroyer' = {"api"} /\ stopping' = TRUE
    BY <1>2, <2>1 DEF DestroyApi, Release
  <2> QED  BY <1>2, <2>1, <2>2 DEF DestroyApi
<1>3. CASE Return
  BY <1>3 DEF Return
<1> QED  BY <1>1, <1>2, <1>3

LEMMA NextInv == Inv /\ [Next]_vars => Inv'
<1> SUFFICES ASSUME Inv, [Next]_vars PROVE Inv'
  OBVIOUS
<1>1. CASE UNCHANGED vars
  BY <1>1 DEF vars, Inv, TypeOK, TicksInv, OwnersInv
<1> QED  BY <1>1, WorkerKeepsInv, PrinterKeepsInv, MainKeepsInv DEF Next

LEMMA Invariance == Spec => []Inv
BY InitInv, NextInv, PTL DEF Spec

-----------------------------------------------------------------------------
(***************************************************************************)
(* Every variable of the statistics has its type.                          *)
(***************************************************************************)
THEOREM TypeCorrect == Spec => []TypeOK
<1>1. Inv => TypeOK
  BY DEF Inv
<1> QED  BY <1>1, Invariance, PTL

(***************************************************************************)
(* The ticks of the reports never add up to more requests than were made,  *)
(* whatever is counted while a report is printed (stats.cpp:22, 66).       *)
(***************************************************************************)
THEOREM TicksCountOnce == Spec => []CountedOnce
<1>1. Inv => CountedOnce
  BY DEF Inv, TicksInv, CountedOnce
<1> QED  BY <1>1, Invariance, PTL

(***************************************************************************)
(* ~Stats runs in the main thread, after every worker has made its last    *)
(* use of the statistics, and main outlives the printing thread            *)
(* (app.h:18-21, stats.cpp:252-255).                                       *)
(***************************************************************************)
THEOREM StatsGoLast == Spec => []DestroyedLast
<1>1. Inv => DestroyedLast
  <2> SUFFICES ASSUME Inv PROVE DestroyedLast
    OBVIOUS
  <2>1. ASSUME destroyer # {} PROVE destroyer = {"api"} /\ owners = {}
    BY <2>1 DEF Inv, OwnersInv
  <2> QED  BY <2>1 DEF Inv, OwnersInv, DestroyedLast
<1> QED  BY <1>1, Invariance, PTL
=============================================================================
