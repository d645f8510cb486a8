---------------------------- MODULE TreasureLife ----------------------------
(***************************************************************************)
(* What becomes of the treasures, whatever calls, licences and coins are   *)
(* needed for it: a treasure is buried, then dug up, from the top of its   *)
(* cell down. One that is deep enough is exchanged for coins by one call,  *)
(* which may have to be made again; a shallower one is left. A fault of    *)
(* the network can make the client lose one treasure, or end its run:      *)
(* then some calls are still completed, and every treasure that is dug and *)
(* not exchanged when the client has stopped for good is lost.             *)
(***************************************************************************)
EXTENDS Naturals

CONSTANTS Treasure,         \* <<cell, depth>>
          MinDepthToCash    \* the depth from which treasures are exchanged

VARIABLES stage,            \* where each treasure is
          run,              \* "running", "stopped" or "ended"
          faults            \* faults of the network so far

vars == <<stage, run, faults>>

Stage == {"buried", "cashing", "left", "lost", "gone"}

Above(t, u) == t[1] = u[1] /\ t[2] < u[2]

Init == /\ stage \in [Treasure -> {"buried", "gone"}]
        /\ run = "running"
        /\ faults = 0

Move(t, from, to) == stage[t] = from /\ stage' = [stage EXCEPT ![t] = to]

OnTop(t) == \A u \in Treasure : Above(u, t) => stage[u] # "buried"

Worth(t) == t[2] >= MinDepthToCash

Dig(t) == OnTop(t) /\ Move(t, "buried", IF Worth(t) THEN "cashing" ELSE "left")

Pay(t) == Move(t, "cashing", "gone")

\* the answer to its dig does not arrive, or its exchange is refused for good
Lose(t) == \/ OnTop(t) /\ Move(t, "buried", IF Worth(t) THEN "lost" ELSE "left")
           \/ Move(t, "cashing", "lost")

Progress == /\ run = "running"
            /\ \E t \in Treasure : Dig(t) \/ Pay(t)
            /\ UNCHANGED <<run, faults>>

\* the server may have done its part although the answer is lost
Fault == /\ run = "running"
         /\ faults' = faults + 1
         /\ \/ UNCHANGED stage
            \/ \E t \in Treasure : Dig(t) \/ Pay(t) \/ Lose(t)
         /\ UNCHANGED run

\* the treasures that are lost with the run, any of those not exchanged yet
LoseAll(treasures) ==
    /\ \A t \in treasures : stage[t] = "cashing"
    /\ stage' = [t \in Treasure |-> IF t \in treasures THEN "lost" ELSE stage[t]]

Break == /\ run = "running" /\ faults > 0
         /\ run' = "stopped"
         /\ \E treasures \in SUBSET Treasure : LoseAll(treasures)
         /\ UNCHANGED faults

\* calls already made are completed, and what they bring up is lost
Complete == /\ run = "stopped"
            /\ \/ UNCHANGED stage
               \/ \E t \in Treasure : Pay(t) \/ Lose(t)
            /\ faults' \in {faults, faults + 1}
            /\ UNCHANGED run

End == /\ run = "stopped"
       /\ run' = "ended"
       /\ LoseAll({t \in Treasure : stage[t] = "cashing"})
       /\ UNCHANGED faults

Next == Progress \/ Fault \/ Break \/ Complete \/ End

Spec == Init /\ [][Next]_vars
=============================================================================
