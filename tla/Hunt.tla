-------------------------------- MODULE Hunt --------------------------------
(***************************************************************************)
(* The whole client at work: the exploration of module ExploreTree and the *)
(* digging of module GoldRush against one server. They meet in two places: *)
(* the handler of an explore response hands the cells it has located over  *)
(* to be dug, and every dig lowers the counts that later explore calls are *)
(* answered from.                                                          *)
(***************************************************************************)
EXTENDS GoldRush

CONSTANTS ExploreAreas, Nominal, Modulus, Concurrent, MaxRefused

VARIABLES tree, queue, found, exploration, refused,
          exploreCalls, exploreReplies

\* the treasures below each cell at first; the field has one map
Below == LET map == CHOOSE m \in TreasureMaps : TRUE
         IN  [c \in Cell |-> Cardinality(Server!TreasuresBelow(map, c))]

Exploring == INSTANCE ExploreTree WITH
                 FieldX <- Width, FieldY <- Height, Treasures <- Below,
                 calls <- exploreCalls, replies <- exploreReplies,
                 status <- exploration

\* the nominal number of treasures is that of the field, so that every cell
\* is handed over with the right one (CountsExact of module ExploreTree)
ASSUME HuntAssumption ==
    /\ \E m \in TreasureMaps : TreasureMaps = {m}
    /\ Nominal = Exploring!TreasuresIn(Below, Exploring!Field)

exploreVars == <<tree, queue, found, exploration, refused, exploreCalls,
                 exploreReplies>>

HuntInit == Init /\ Exploring!Init

\* the server answers an explore call
ServeExplore(n) ==
    /\ client.status = "running" /\ exploration = "running"
    /\ exploreCalls' = exploreCalls \ {n}
    /\ LET status == Server!ExploreStatus(tree[n].area)
           amount == IF status = 200 THEN Server!ExploreAmount(tree[n].area) ELSE 0
       IN  exploreReplies' = exploreReplies \cup
               {[id |-> n, status |-> status, amount |-> amount]}
    /\ UNCHANGED <<vars, tree, queue, found, exploration, refused>>

\* the rate limiter refuses it
RefuseExplore(n) == /\ client.status = "running"
                    /\ Exploring!Refuse(n)
                    /\ UNCHANGED vars

\* the cells an explore response has located are dug
HandOver(cells) ==
    /\ discovered' = discovered \cup {cells[i].cell : i \in DOMAIN cells}
    /\ client' = FoldLeft(LAMBDA s, f : StartDigging(s, f.cell, f.amount), client, cells)

HandleExplore(reply) ==
    /\ client.status = "running"
    /\ Exploring!Handle(reply)
    /\ HandOver(SubSeq(found', Len(found) + 1, Len(found')))
    /\ UNCHANGED <<serverVars, replies, faults>>

DigOn == \/ \E call \in Calls : Serve(call)
         \/ \E reply \in BagToSet(replies) : Handle(reply)
         \/ Tick
         \/ Exit

HuntNext == \/ \E n \in exploreCalls : ServeExplore(n) \/ RefuseExplore(n)
            \/ \E reply \in exploreReplies : HandleExplore(reply)
            \/ DigOn /\ UNCHANGED exploreVars

HuntSpec == HuntInit /\ [][HuntNext]_<<vars, exploreVars>>

-----------------------------------------------------------------------------
(***************************************************************************)
(* What the digging was told of the exploration is true of it: each cell   *)
(* is handed over once, asked for or deduced, before any of its treasures  *)
(* is dug, and with the number of treasures the server has for it          *)
(* (app.cpp:159-168, 190-195).                                             *)
(***************************************************************************)
DiggingSpec == Spec

(***************************************************************************)
(* What the exploration was told of the digging is true of it: treasures   *)
(* are only dug in cells already handed over, so that no answer for an     *)
(* area still unexplored is too small, and the server refuses no area the  *)
(* client asks for (app.cpp:179-202, world.py:208-232).                    *)
(***************************************************************************)
ExploringSpec == Exploring!Spec
=============================================================================
