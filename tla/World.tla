------------------------------- MODULE World -------------------------------
(***************************************************************************)
(* The stub of the contest server (stubserver/.../models/world.py): a      *)
(* field of cells with treasures below them, the licences that allow       *)
(* digging, the treasures dug up and not yet exchanged, and the coins paid *)
(* for them.                                                               *)
(*                                                                         *)
(* The server runs its handlers in gevent greenlets and no handler blocks, *)
(* so each handler is one step. A handler raises an exception for the      *)
(* first check that fails: the operators ...Status name the HTTP status it *)
(* answers with, and the actions change the state accordingly.             *)
(***************************************************************************)
EXTENDS Integers, FiniteSets, FiniteSetsExt, Functions

CONSTANTS Width, Height,    \* the field: WIDTH x HEIGHT cells
          MaxDepth,         \* DEPTH
          MaxLicenses,      \* MAX_LICENSES
          FreeDigs,         \* digs a free licence allows
          TreasureMaps      \* the maps the random generator can produce

Cell == (0..(Width - 1)) \X (0..(Height - 1))
Depths == 1..MaxDepth

ASSUME WorldAssumption ==
    /\ Width \in Nat /\ Height \in Nat
    /\ MaxDepth \in Nat
    /\ MaxLicenses \in Nat
    /\ FreeDigs \in Nat \ {0}
    /\ TreasureMaps \subseteq [Cell -> [Depths -> Nat]]

VARIABLES
    treasure,     \* _treasure_map: value of the treasure, 0 where there is none
    depthMap,     \* _depth_map: depth already dug
    counts,       \* _treasure_counts: the treasures left below a cell
    registry,     \* _treasure_registry: treasure -> value, dug and not cashed
    unavailable,  \* _treasure_503_registry
    active,       \* _active_licenses: id -> digs used and allowed
    coins,        \* _coins: the client's coins
    nextCoin,     \* _next_coin
    throttled     \* time.time() < _next_free_license_after

fieldVars == <<treasure, depthMap, counts>>
treasureVars == <<registry, unavailable>>
moneyVars == <<coins, nextCoin>>
vars == <<fieldVars, treasureVars, moneyVars, active, throttled>>

\* the name of a treasure, a fresh uuid in the code, is the place it came from
TreasureId == Cell \X Depths

TreasuresBelow(map, c) == {d \in Depths : map[c][d] > 0}

Init == /\ treasure \in TreasureMaps
        /\ depthMap = [c \in Cell |-> 0]
        /\ counts = [c \in Cell |-> Cardinality(TreasuresBelow(treasure, c))]
        /\ registry = [t \in {} |-> 0]
        /\ unavailable = {}
        /\ active = [id \in {} |-> [used |-> 0, allowed |-> 0]]
        /\ coins = {}
        /\ nextCoin = 0
        /\ throttled = FALSE

-----------------------------------------------------------------------------
(***************************************************************************)
(* explore: the number of treasures in an area; it changes nothing.        *)
(***************************************************************************)
AreaCells(area) == {c \in Cell : /\ c[1] \in area.x..(area.x + area.sizeX - 1)
                                 /\ c[2] \in area.y..(area.y + area.sizeY - 1)}

\* mutant: the last column is outside
ExploreStatus_ShortField(area) ==
    IF /\ 0 <= area.x /\ area.x < Width
       /\ 0 < area.x + area.sizeX /\ area.x + area.sizeX < Width
       /\ 0 <= area.y /\ area.y < Height
       /\ 0 < area.y + area.sizeY /\ area.y + area.sizeY <= Height
    THEN 200 ELSE 422

ExploreStatus(area) ==
    IF /\ 0 <= area.x /\ area.x < Width
       /\ 0 < area.x + area.sizeX /\ area.x + area.sizeX <= Width
       /\ 0 <= area.y /\ area.y < Height
       /\ 0 < area.y + area.sizeY /\ area.y + area.sizeY <= Height
    THEN 200 ELSE 422

ExploreAmount(area) == SumFunctionOnSet(counts, AreaCells(area))

-----------------------------------------------------------------------------
(***************************************************************************)
(* dig                                                                     *)
(***************************************************************************)
\* mutant: a depth may be skipped
DigStatus_Skip(req) ==
    IF req.license \notin DOMAIN active THEN 403
    ELSE IF req.cell \notin Cell \/ req.depth \notin Depths THEN 422
    ELSE IF req.depth <= depthMap[req.cell] THEN 422
    ELSE IF treasure[req.cell][req.depth] = 0 THEN 404
    ELSE 200

DigStatus(req) ==
    IF req.license \notin DOMAIN active THEN 403
    ELSE IF req.cell \notin Cell \/ req.depth \notin Depths THEN 422
    ELSE IF req.depth # depthMap[req.cell] + 1 THEN 422
    ELSE IF treasure[req.cell][req.depth] = 0 THEN 404
    ELSE 200

\* one dig of the licence; with its last dig the licence is deleted
UseLicense(id) ==
    LET used == active[id].used + 1
    IN  active' = IF used >= active[id].allowed
                  THEN Restrict(active, DOMAIN active \ {id})
                  ELSE [active EXCEPT ![id].used = used]

\* mutant: the cached count is not updated
Unearth_StaleCount(c, d) ==
    /\ registry' = [t \in DOMAIN registry \cup {<<c, d>>} |->
                        IF t = <<c, d>> THEN treasure[c][d] ELSE registry[t]]
    /\ unavailable' \in {unavailable, unavailable \cup {<<c, d>>}}
    /\ treasure' = [treasure EXCEPT ![c][d] = 0]
    /\ UNCHANGED counts

\* mutant: the treasure stays on the map
Unearth_Twice(c, d) ==
    /\ registry' = [t \in DOMAIN registry \cup {<<c, d>>} |->
                        IF t = <<c, d>> THEN treasure[c][d] ELSE registry[t]]
    /\ unavailable' \in {unavailable, unavailable \cup {<<c, d>>}}
    /\ counts' = [counts EXCEPT ![c] = @ - 1]
    /\ UNCHANGED treasure

\* the treasure leaves the field; the generator may make its first exchange fail
Unearth(c, d) ==
    /\ registry' = [t \in DOMAIN registry \cup {<<c, d>>} |->
                        IF t = <<c, d>> THEN treasure[c][d] ELSE registry[t]]
    /\ unavailable' \in {unavailable, unavailable \cup {<<c, d>>}}
    /\ treasure' = [treasure EXCEPT ![c][d] = 0]
    /\ counts' = [counts EXCEPT ![c] = @ - 1]

\* mutant: the count goes down with every dig
Dig_CountEveryDig(req) ==
    /\ IF DigStatus(req) \in {200, 404}
       THEN /\ depthMap' = [depthMap EXCEPT ![req.cell] = @ + 1]
            /\ counts' = [counts EXCEPT ![req.cell] = @ - 1]
            /\ UseLicense(req.license)
       ELSE UNCHANGED <<depthMap, active, counts>>
    /\ UNCHANGED <<moneyVars, throttled, treasureVars, treasure>>

Dig(req) ==
    /\ IF DigStatus(req) \in {200, 404}
       THEN /\ depthMap' = [depthMap EXCEPT ![req.cell] = @ + 1]
            /\ UseLicense(req.license)
       ELSE UNCHANGED <<depthMap, active>>
    /\ IF DigStatus(req) = 200
       THEN Unearth(req.cell, req.depth)
       ELSE UNCHANGED <<registry, unavailable, treasure, counts>>
    /\ UNCHANGED <<moneyVars, throttled>>

-----------------------------------------------------------------------------
(***************************************************************************)
(* cash                                                                    *)
(***************************************************************************)
CashStatus(t) == IF t \notin DOMAIN registry THEN 409
                 ELSE IF t \in unavailable THEN 503 ELSE 200

\* mutant: coins are numbered by the number of coins in the wallet
Wallet_ByCount(t) == Cardinality(coins)..(Cardinality(coins) + registry[t] - 1)

\* the coins a successful call pays
Wallet(t) == nextCoin..(nextCoin + registry[t] - 1)

Cash(t) ==
    /\ unavailable' = unavailable \ {t}
    /\ IF CashStatus(t) = 200
       THEN /\ coins' = coins \cup Wallet(t)
            /\ nextCoin' = nextCoin + registry[t]
            /\ registry' = Restrict(registry, DOMAIN registry \ {t})
       ELSE UNCHANGED <<coins, nextCoin, registry>>
    /\ UNCHANGED <<fieldVars, active, throttled>>

-----------------------------------------------------------------------------
(***************************************************************************)
(* issue_license                                                           *)
(***************************************************************************)

\* 502 stands for 502 and 504, which the client treats alike
LicenseStatus(payment) ==
    IF Cardinality(DOMAIN active) >= MaxLicenses THEN 409
    ELSE IF payment = {} THEN (IF throttled THEN 502 ELSE 200)
    ELSE IF ~(payment \subseteq coins) THEN 402 ELSE 200

DigsAllowed(payment) ==
    LET n == Cardinality(payment)
    IN  IF n = 0 THEN {FreeDigs}
        ELSE IF n <= 5 THEN {5}
        ELSE IF n <= 10 THEN {10}
        ELSE IF n <= 20 THEN 20..29
        ELSE 40..49

\* mutant: the number of active licences is the next free number
NewId_ByCount == 1 + Cardinality(DOMAIN active)

\* _issue_new_license: max(self._active_licenses.keys(), default=0) + 1
NewId == 1 + Max({0} \cup DOMAIN active)

IssueLicense(payment, allowed) ==
    /\ allowed \in DigsAllowed(payment)
    /\ IF LicenseStatus(payment) = 200
       THEN /\ active' = [id \in DOMAIN active \cup {NewId} |->
                              IF id = NewId
                              THEN [used |-> 0, allowed |-> allowed]
                              ELSE active[id]]
            /\ coins' = coins \ payment
            /\ throttled' = (throttled \/ payment = {})
       ELSE UNCHANGED <<active, coins, throttled>>
    /\ UNCHANGED <<fieldVars, treasureVars, nextCoin>>

\* 0.05 s after a free licence the next one may be had
Tick == /\ throttled
        /\ throttled' = FALSE
        /\ UNCHANGED <<fieldVars, treasureVars, moneyVars, active>>

-----------------------------------------------------------------------------
(***************************************************************************)
(* Any client: cells outside the field, unknown licences, treasures that   *)
(* are not dug up, depths that are not next, coins spent or never issued.  *)
(***************************************************************************)
DigCall == [license : 1..NewId,
            cell : (0..Width) \X (0..Height),
            depth : 1..(MaxDepth + 1)]

Payment == SUBSET (0..nextCoin)

Next == \/ \E req \in DigCall : Dig(req)
        \/ \E t \in TreasureId : Cash(t)
        \/ \E payment \in Payment :
               \E allowed \in DigsAllowed(payment) :
                   IssueLicense(payment, allowed)
        \/ Tick

Spec == Init /\ [][Next]_vars

-----------------------------------------------------------------------------
(***************************************************************************)
(* Every variable has its type.                                            *)
(***************************************************************************)
License == [used : Nat, allowed : Nat]

TypeOK == /\ treasure \in [Cell -> [Depths -> Nat]]
          /\ depthMap \in [Cell -> 0..MaxDepth]
          /\ counts \in [Cell -> 0..MaxDepth]
          /\ DOMAIN registry \subseteq TreasureId
          /\ registry \in [DOMAIN registry -> Nat \ {0}]
          /\ unavailable \in SUBSET TreasureId
          /\ DOMAIN active \subseteq Nat \ {0}
          /\ active \in [DOMAIN active -> License]
          /\ coins \in SUBSET Nat
          /\ nextCoin \in Nat
          /\ throttled \in BOOLEAN

(***************************************************************************)
(* The cached count of a cell is the number of treasures left below it:    *)
(* explore never looks at the map (world.py:90, 225, 274).                 *)
(***************************************************************************)
CountsAgree ==
    \A c \in Cell : counts[c] = Cardinality(TreasuresBelow(treasure, c))

(***************************************************************************)
(* explore answers every area inside the field, and no other, with the     *)
(* number of treasures left in it (world.py:208-232).                      *)
(***************************************************************************)
Area == [x : 0..Width, y : 0..Height,
         sizeX : 1..(Width + 1), sizeY : 1..(Height + 1)]

ExploreTruthful ==
    \A area \in Area :
        LET cells == ((area.x)..(area.x + area.sizeX - 1))
                         \X ((area.y)..(area.y + area.sizeY - 1))
        IN  IF cells \subseteq Cell
            THEN /\ ExploreStatus(area) = 200
                 /\ ExploreAmount(area) =
                        Cardinality({t \in cells \X Depths :
                                         treasure[t[1]][t[2]] > 0})
            ELSE ExploreStatus(area) = 422

(***************************************************************************)
(* No treasure is left behind: a cell is dug from the top, and what lies   *)
(* at a depth already dug was taken or was never there. The client counts  *)
(* on it when it goes one deeper after every answer (app.cpp:268-282).     *)
(***************************************************************************)
NothingLeftAbove ==
    \A c \in Cell, d \in Depths : treasure[c][d] > 0 => d > depthMap[c]

(***************************************************************************)
(* A treasure is in the ground or in the registry, never in both: dug      *)
(* treasures are below no undug depth, and only registered treasures are   *)
(* marked as unavailable (world.py:268-274, 281-299).                      *)
(***************************************************************************)
RegistryConsistent ==
    /\ unavailable \subseteq DOMAIN registry
    /\ \A t \in DOMAIN registry : t[2] <= depthMap[t[1]]

(***************************************************************************)
(* The licence limit holds, and no licence is kept once its digs are used. *)
(***************************************************************************)
LicenseBudget ==
    /\ Cardinality(DOMAIN active) <= MaxLicenses
    /\ \A id \in DOMAIN active : active[id].used < active[id].allowed

(***************************************************************************)
(* Only coins that were issued are in the wallet.                          *)
(***************************************************************************)
CoinsIssued == coins \subseteq 0..(nextCoin - 1)

(***************************************************************************)
(* Value is neither made nor lost: what is in the ground, what is dug and  *)
(* not exchanged and what was ever paid out always add up to the same.     *)
(***************************************************************************)
TotalValue == SumFunction([t \in TreasureId |-> treasure[t[1]][t[2]]])
              + SumFunction(registry) + nextCoin

ValueConserved == [][TotalValue' = TotalValue]_vars

(***************************************************************************)
(* A coin that was spent never comes back, and a coin number is issued     *)
(* once.                                                                   *)
(***************************************************************************)
CoinsSpentOnce ==
    [][\A c \in 0..(nextCoin - 1) : c \notin coins => c \notin coins']_vars

(***************************************************************************)
(* An active licence keeps its allowance: another licence never takes its  *)
(* number, it loses one dig at a time, and it goes only with its last dig. *)
(***************************************************************************)
LicensesHonoured ==
    [][\A id \in DOMAIN active :
          IF id \in DOMAIN active'
          THEN /\ active'[id].allowed = active[id].allowed
               /\ active'[id].used \in {active[id].used, active[id].used + 1}
          ELSE active[id].used + 1 = active[id].allowed]_vars

(***************************************************************************)
(* A treasure refused with 503 is exchanged by the next call.              *)
(***************************************************************************)
RetryPays ==
    [][\A t \in unavailable :
          t \notin unavailable' => CashStatus(t)' = 200]_vars
=============================================================================
