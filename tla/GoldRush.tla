------------------------------ MODULE GoldRush ------------------------------
(***************************************************************************)
(* The client (class App with class State) at work against the server: it  *)
(* keeps as many licences as the server allows, digs every cell where the  *)
(* exploration found treasures from the top down, exchanges what it finds  *)
(* for coins and pays for further licences with them.                      *)
(*                                                                         *)
(* The handlers of App run one at a time in the main thread; each is an    *)
(* operator that maps the client's state to its next one. Calls travel     *)
(* through the request pool (module Api), which may answer them in any     *)
(* order. The exploration is left to module ExploreTree: here cells with   *)
(* treasures are found at any moment. Module Hunt puts the two together.   *)
(***************************************************************************)
EXTENDS Integers, Sequences, SequencesExt, FiniteSets, FiniteSetsExt, Bags

CONSTANTS Width, Height, MaxDepth, MaxLicenses, FreeDigs, TreasureMaps,
          Slots,            \* kMaxLicensesCount
          MinDepthToCash,   \* minDepthToCash
          MaxFaults         \* bound: answers that come too late and calls
                            \* refused by the rate limiter

VARIABLES treasure, depthMap, counts, registry, unavailable, active, coins,
          nextCoin, throttled,
          client,      \* state_ and the calls handed to the request pool
          replies,     \* bag of answered calls that wait for their handler
          discovered,  \* the cells whose treasures the exploration reported
          faults       \* the faults of the network so far

Server == INSTANCE World

\* both sides agree on how many licences may be active
ASSUME GoldRushAssumption ==
    /\ Server!WorldAssumption
    /\ Slots \in Nat /\ Slots <= MaxLicenses
    /\ MinDepthToCash \in Nat /\ MaxFaults \in Nat

serverVars == <<treasure, depthMap, counts, registry, unavailable, active,
                coins, nextCoin, throttled>>
vars == <<serverVars, client, replies, discovered, faults>>

Cell == Server!Cell

(***************************************************************************)
(* The calls.                                                              *)
(***************************************************************************)
FreeLicense == [type |-> "IssueFreeLicense"]
PaidLicense(coin) == [type |-> "IssuePaidLicense", coin |-> coin]
DigCall(id, dig) == [type |-> "Dig", license |-> id, cell |-> dig.cell,
                     depth |-> dig.depth]
CashCall(t, depth) == [type |-> "Cash", treasure |-> t, depth |-> depth]

LicenseTypes == {"IssueFreeLicense", "IssuePaidLicense"}
CallTypes == LicenseTypes \cup {"Dig", "Cash"}

\* kErrCurl in place of the status of an answer
Failed == 0

Send(s, call) == [s EXCEPT !.calls = @ (+) SetToBag({call})]

\* a handler returns an error and run() ends; a handler throws and the
\* program is terminated, as every handler is noexcept
Stop(s) == [s EXCEPT !.status = "stopped"]
Terminate(s) == [s EXCEPT !.status = "terminated"]

-----------------------------------------------------------------------------
(***************************************************************************)
(* class State: licences, delayed digs, coins                              *)
(***************************************************************************)
NoLicense == [id |-> 0, allowed |-> 0, used |-> 0, confirmed |-> 0]

\* the slots that satisfy a test, and the first of them
SlotsWhere(s, Test(_)) == {i \in 1..Slots : Test(s.licenses[i])}
FirstSlot(s, Test(_)) == Min(SlotsWhere(s, Test))

Done(l) == l.allowed = l.confirmed
\* digAllowed_ - digUsed_ > 0, of unsigned numbers
Available(l) == l.allowed # l.used

\* mutant: the licence always takes the first slot
AddLicense_First(s, l) ==
    [s EXCEPT !.licenses[1] =
        [id |-> l.id, allowed |-> l.allowed, used |-> 0, confirmed |-> 0]]

AddLicense(s, l) ==
    IF SlotsWhere(s, Done) = {} THEN s
    ELSE [s EXCEPT !.licenses[FirstSlot(s, Done)] =
              [id |-> l.id, allowed |-> l.allowed, used |-> 0, confirmed |-> 0]]

HasAvailableLicense(s) == SlotsWhere(s, Available) # {}

\* addDigRequest: the deepest first, behind those of the same depth
AddDigRequest(s, dig) ==
    LET p == 1 + Cardinality({i \in DOMAIN s.digQueue :
                                  s.digQueue[i].depth >= dig.depth})
    IN  [s EXCEPT !.digQueue = InsertAt(@, p, dig)]

-----------------------------------------------------------------------------
(***************************************************************************)
(* class App: scheduling                                                   *)
(***************************************************************************)
\* mutant: the coin stays in the purse
ScheduleIssueLicense_KeepCoin(s) ==
    IF s.coins # <<>>
    THEN Send(s, PaidLicense(Head(s.coins)))
    ELSE Send(s, FreeLicense)

ScheduleIssueLicense(s) ==
    IF s.coins # <<>>
    THEN Send([s EXCEPT !.coins = Tail(@)], PaidLicense(Head(s.coins)))
    ELSE Send(s, FreeLicense)

ScheduleDig(s, dig) ==
    IF HasAvailableLicense(s)
    THEN LET i == FirstSlot(s, Available)
         IN  Send([s EXCEPT !.licenses[i].used = @ + 1],
                  DigCall(s.licenses[i].id, dig))
    ELSE AddDigRequest(s, dig)

\* mutant: one queued dig for each licence
ScheduleQueuedDigs_Once(s) ==
    IF s.digQueue = <<>> THEN s
    ELSE ScheduleDig([s EXCEPT !.digQueue = Tail(@)], Head(s.digQueue))

\* the loop of processIssueLicenseResponse: the queued digs are scheduled in
\* their order for as long as there is a licence, the rest stays queued
ScheduleQueuedDigs(s) ==
    FoldLeft(ScheduleDig, [s EXCEPT !.digQueue = <<>>], s.digQueue)

(***************************************************************************)
(* class App: the handlers of the responses                                *)
(***************************************************************************)
\* mutant: a licence refused with 5xx is not asked for again
ProcessLicense_NoRetry(s, reply) ==
    IF reply.status \in 400..499 THEN Stop(s)
    ELSE IF reply.status # 200 THEN s
    ELSE ScheduleQueuedDigs(AddLicense(s, reply.license))

ProcessLicense(s, reply) ==
    IF reply.status \in 400..499 THEN Stop(s)
    ELSE IF reply.status # 200 THEN ScheduleIssueLicense(s)
    ELSE ScheduleQueuedDigs(AddLicense(s, reply.license))

\* mutant: a new licence is asked for when all digs are scheduled
Confirm_Early(s, i) ==
    LET t == [s EXCEPT !.licenses[i].confirmed = @ + 1]
    IN  IF t.licenses[i].allowed = t.licenses[i].used
        THEN ScheduleIssueLicense(t) ELSE t

\* one more dig of the licence is confirmed; after the last one a new licence
\* is asked for
Confirm(s, i) ==
    LET t == [s EXCEPT !.licenses[i].confirmed = @ + 1]
    IN  IF Done(t.licenses[i]) THEN ScheduleIssueLicense(t) ELSE t

\* mutant: goes on below the last treasure
TreasureFound_NoEnd(s, call) ==
    LET cashed == IF call.depth >= MinDepthToCash
                  THEN Send(s, CashCall(<<call.cell, call.depth>>, call.depth))
                  ELSE s
        t == [cashed EXCEPT !.left[call.cell] = @ - 1]
    IN  ScheduleDig(t, [cell |-> call.cell, depth |-> call.depth + 1])

\* mutant: the treasure is not counted
TreasureFound_NoCount(s, call) ==
    LET t == IF call.depth >= MinDepthToCash
             THEN Send(s, CashCall(<<call.cell, call.depth>>, call.depth))
             ELSE s
    IN  ScheduleDig(t, [cell |-> call.cell, depth |-> call.depth + 1])

TreasureFound(s, call) ==
    LET cashed == IF call.depth >= MinDepthToCash
                  THEN Send(s, CashCall(<<call.cell, call.depth>>, call.depth))
                  ELSE s
        t == [cashed EXCEPT !.left[call.cell] = @ - 1]
    IN  IF t.left[call.cell] < 0 THEN Stop(t)
        ELSE IF t.left[call.cell] = 0 THEN t
        ELSE ScheduleDig(t, [cell |-> call.cell, depth |-> call.depth + 1])

ProcessDig(s, reply) ==
    LET call == reply.call
        SameId(l) == l.id = call.license
    IN  IF reply.status \notin {200, 404} THEN Stop(s)
        ELSE IF SlotsWhere(s, SameId) = {} THEN Terminate(s)
        ELSE LET t == Confirm(s, FirstSlot(s, SameId))
             IN  IF reply.status = 200
                 THEN TreasureFound(t, call)
                 ELSE ScheduleDig(t, [cell |-> call.cell,
                                      depth |-> call.depth + 1])

\* mutant: a cash refused with 5xx is dropped
ProcessCash_NoRetry(s, reply) ==
    IF reply.status >= 500 THEN s
    ELSE IF reply.status >= 400 THEN Stop(s)
    ELSE [s EXCEPT !.coins = @ \o reply.wallet]

ProcessCash(s, reply) ==
    IF reply.status >= 500 THEN Send(s, reply.call)
    ELSE IF reply.status >= 400 THEN Stop(s)
    ELSE [s EXCEPT !.coins = @ \o reply.wallet]

Process(s, reply) ==
    IF reply.status = Failed THEN Stop(s)
    ELSE CASE reply.call.type \in LicenseTypes -> ProcessLicense(s, reply)
           [] reply.call.type = "Dig" -> ProcessDig(s, reply)
           [] reply.call.type = "Cash" -> ProcessCash(s, reply)

-----------------------------------------------------------------------------
(***************************************************************************)
(* fireInitRequests asks for as many licences as there are slots.          *)
(***************************************************************************)
Init == /\ Server!Init
        /\ client = [licenses |-> [i \in 1..Slots |-> NoLicense],
                     digQueue |-> <<>>,
                     left |-> [c \in Cell |-> 0],
                     coins |-> <<>>,
                     calls |-> IF Slots = 0 THEN EmptyBag
                               ELSE [call \in {FreeLicense} |-> Slots],
                     status |-> "running"]
        /\ replies = EmptyBag
        /\ discovered = {}
        /\ faults = 0

\* setLeftTreasuriesAmount and the first dig of a cell
StartDigging(s, c, amount) ==
    ScheduleDig([s EXCEPT !.left[c] = amount], [cell |-> c, depth |-> 1])

\* a cell the exploration has located is dug
Locate(s, c) == StartDigging(s, c, counts[c])

Unknown(c) == c \notin discovered /\ counts[c] > 0

(***************************************************************************)
(* An explore response is handled that locates the treasures of a cell, or *)
(* of two: the one asked for, then the last of its area, deduced.          *)
(***************************************************************************)
Discover(c) ==
    /\ client.status = "running"
    /\ Unknown(c)
    /\ discovered' = discovered \cup {c}
    /\ client' = Locate(client, c)
    /\ UNCHANGED <<serverVars, replies, faults>>

DiscoverBoth(c, d) ==
    /\ client.status = "running"
    /\ c # d /\ Unknown(c) /\ Unknown(d)
    /\ discovered' = discovered \cup {c, d}
    /\ client' = Locate(Locate(client, c), d)
    /\ UNCHANGED <<serverVars, replies, faults>>

\* run() takes a response and calls its handler
Handle(reply) ==
    /\ client.status = "running"
    /\ BagIn(reply, replies)
    /\ replies' = replies (-) SetToBag({reply})
    /\ client' = Process(client, reply)
    /\ UNCHANGED <<serverVars, discovered, faults>>

(***************************************************************************)
(* The server handles a call. The answer comes back, or the connection     *)
(* breaks and an error comes in its place, or it comes too late and the    *)
(* call, which timed out, is scheduled again by run(). A call that timed   *)
(* out before the server saw it is as if it were still on its way. Once    *)
(* run() has ended no response is looked at, too late or not.              *)
(***************************************************************************)
Arrive(call, reply) ==
    /\ client' = [client EXCEPT !.calls = @ (-) SetToBag({call})]
    /\ replies' = replies (+) SetToBag({reply})

Answer(call, reply) ==
    /\ discovered' = discovered
    /\ \/ /\ Arrive(call, reply)
          /\ faults' = faults
       \/ /\ faults < MaxFaults
          /\ faults' = faults + 1
          /\ Arrive(call, [call |-> call, status |-> Failed])
       \/ /\ client.status = "running"
          /\ faults < MaxFaults
          /\ faults' = faults + 1
          /\ UNCHANGED <<client, replies>>

ServeDig(call) ==
    /\ call.type = "Dig"
    /\ Server!Dig(call)
    /\ Answer(call, [call |-> call, status |-> Server!DigStatus(call)])

ServeCash(call) ==
    /\ call.type = "Cash"
    /\ Server!Cash(call.treasure)
    /\ LET status == Server!CashStatus(call.treasure)
           wallet == [i \in 1..registry[call.treasure] |-> nextCoin + i - 1]
       IN  Answer(call, IF status = 200
                        THEN [call |-> call, status |-> 200, wallet |-> wallet]
                        ELSE [call |-> call, status |-> status])

ServeLicense(call) ==
    /\ call.type \in LicenseTypes
    /\ LET payment == IF call = FreeLicense THEN {} ELSE {call.coin}
           status == Server!LicenseStatus(payment)
       IN  \E allowed \in Server!DigsAllowed(payment) :
               /\ Server!IssueLicense(payment, allowed)
               /\ Answer(call,
                         IF status = 200
                         THEN [call |-> call, status |-> 200,
                               license |-> [id |-> Server!NewId,
                                            allowed |-> allowed]]
                         ELSE [call |-> call, status |-> status])

\* the rate limiter answers in the server's stead, or there is no connection
Reject(call) ==
    /\ faults < MaxFaults
    /\ faults' = faults + 1
    /\ \E status \in {429, Failed} :
           Arrive(call, [call |-> call, status |-> status])
    /\ UNCHANGED <<serverVars, discovered>>

\* the time after which a free licence may be had again has passed
Tick == /\ Server!Tick
        /\ UNCHANGED <<client, replies, discovered, faults>>

(***************************************************************************)
(* The pool's workers make the calls. When run() has ended they may go on  *)
(* until the destructor of the pool has joined them; a call that none of   *)
(* them has taken by then is never made.                                   *)
(***************************************************************************)
Serve(call) == /\ client.status \in {"running", "stopped"}
               /\ \/ ServeDig(call)
                  \/ ServeCash(call)
                  \/ ServeLicense(call)
                  \/ Reject(call)

Exit == /\ client.status = "stopped"
        /\ client' = [client EXCEPT !.status = "ended"]
        /\ UNCHANGED <<serverVars, replies, discovered, faults>>

Calls == BagToSet(client.calls)

Next == \/ \E c \in Cell : Discover(c)
        \/ \E c, d \in Cell : DiscoverBoth(c, d)
        \/ \E call \in Calls : Serve(call)
        \/ \E reply \in BagToSet(replies) : Handle(reply)
        \/ Tick
        \/ Exit

Spec == Init /\ [][Next]_vars

(***************************************************************************)
(* Some call is performed as long as there are calls and run() goes on     *)
(* (the pool's workers never all sleep then: NoRequestSleeps of module     *)
(* Api), the main loop handles some response as long as there is one, and  *)
(* time passes. No kind of call is favoured: the pool may always serve     *)
(* another one first.                                                      *)
(***************************************************************************)
Fairness == /\ WF_vars(/\ client.status = "running"
                       /\ \E call \in Calls : Serve(call))
            /\ WF_vars(\E reply \in BagToSet(replies) : Handle(reply))
            /\ WF_vars(Tick)

FairSpec == Spec /\ Fairness

-----------------------------------------------------------------------------
(***************************************************************************)
(* Every variable has its type.                                            *)
(***************************************************************************)
Slot == [id : Nat, allowed : Nat, used : Nat, confirmed : Nat]

TypeOK == /\ Server!TypeOK
          /\ client.licenses \in [1..Slots -> Slot]
          /\ client.digQueue \in Seq([cell : Cell, depth : 1..(MaxDepth + 1)])
          /\ client.left \in [Cell -> 0..MaxDepth]
          /\ client.coins \in Seq(Nat)
          /\ IsABag(client.calls) /\ \A call \in Calls : call.type \in CallTypes
          /\ client.status \in {"running", "stopped", "ended", "terminated"}
          /\ IsABag(replies)
          /\ discovered \subseteq Cell
          /\ faults \in 0..MaxFaults

\* the digs of a cell that are delayed, on their way and answered
Waiting(c) == {i \in DOMAIN client.digQueue : client.digQueue[i].cell = c}
Digging(c) == {call \in Calls : call.type = "Dig" /\ call.cell = c}
Dug(c) == {reply \in BagToSet(replies) :
               reply.call.type = "Dig" /\ reply.call.cell = c}

(***************************************************************************)
(* Without faults of the network a run is never ended by an error: no call *)
(* is made that the server refuses with a 4xx status, and the counts of    *)
(* client and server never contradict each other (app.cpp:205-210,         *)
(* 271-273, 283-289, 298-303). And whatever the network does,              *)
(* getLicenseById finds the licence of an answered dig: its exception      *)
(* would end the program inside a noexcept handler (state.h:142-150).      *)
(***************************************************************************)
NoFatal == /\ client.status # "terminated"
           /\ faults = 0 => client.status = "running"

(***************************************************************************)
(* A dig is delayed only while no licence has a dig to spare.              *)
(***************************************************************************)
WorkConserving == client.digQueue # <<>> => ~HasAvailableLicense(client)

(***************************************************************************)
(* Without faults a cell with treasures left has one dig under way, for    *)
(* its next depth; a cell without has none (app.cpp:275-282).              *)
(***************************************************************************)
DigInStep ==
    faults = 0 => \A c \in Cell :
        /\ Cardinality(Waiting(c)) + Cardinality(Digging(c)) + Cardinality(Dug(c))
              = (IF client.left[c] > 0 THEN 1 ELSE 0)
        /\ \A i \in Waiting(c) : client.digQueue[i].depth = depthMap[c] + 1
        /\ \A call \in Digging(c) :
               client.calls[call] = 1 /\ call.depth = depthMap[c] + 1
        /\ \A reply \in Dug(c) :
               replies[reply] = 1 /\ reply.call.depth = depthMap[c]

(***************************************************************************)
(* Without faults the client's count of the treasures left in a cell is    *)
(* the server's, but for the treasure in an answer not handled yet         *)
(* (app.cpp:268-272).                                                      *)
(***************************************************************************)
LeftAgrees ==
    faults = 0 => \A c \in discovered :
        client.left[c] = counts[c]
            + Cardinality({reply \in Dug(c) : reply.status = 200})

(***************************************************************************)
(* As long as no two licences in use have one number, every slot has a     *)
(* licence with digs left to confirm, or a licence is on its way for it:   *)
(* the digging never runs short of licences, whatever the network does     *)
(* (app.cpp:204-230, 260-266; state.h:89-96, 142-150). Where the server    *)
(* gives a number again it is FALSE: see LicenseUsable.                    *)
(***************************************************************************)
InBag(bag, Test(_)) ==
    SumFunctionOnSet(bag, {e \in DOMAIN bag : Test(e)})

InUse(l) == ~Done(l)

DistinctNumbers ==
    \A i, j \in SlotsWhere(client, InUse) :
        client.licenses[i].id = client.licenses[j].id => i = j

SlotsCovered ==
    client.status = "running" =>
        Cardinality(SlotsWhere(client, InUse))
        + InBag(client.calls, LAMBDA call : call.type \in LicenseTypes)
        + InBag(replies, LAMBDA reply : reply.call.type \in LicenseTypes)
            = Slots

SlotsKept == []DistinctNumbers => []SlotsCovered

(***************************************************************************)
(* The coins the client believes to have, or that an answer brings, are    *)
(* coins the server will take, each of them once, whatever the network     *)
(* does (app.cpp:305, state.h:122-136); and without faults these and the   *)
(* coins in calls that pay are all the coins the server will take.         *)
(***************************************************************************)
Purse == ToSet(client.coins)
Paying == {call.coin : call \in {d \in Calls : d.type = "IssuePaidLicense"}}
Earned == UNION {ToSet(reply.wallet) :
                     reply \in {r \in BagToSet(replies) :
                                     r.call.type = "Cash" /\ r.status = 200}}

CoinsAgree ==
    /\ IsInjective(client.coins)
    /\ Purse \cap Earned = {}
    /\ Purse \cup Earned \subseteq coins
    /\ faults = 0 => /\ Paying = coins \ (Purse \cup Earned)
                     /\ Paying \cap (Purse \cup Earned) = {}

(***************************************************************************)
(* The life of a treasure: dug up from the top down and, when it is worth  *)
(* it, exchanged by one call that is retried until it succeeds. While      *)
(* run() goes on, only a fault of the network makes the client lose a      *)
(* treasure, one for each fault; but when a handler has returned an error, *)
(* which takes a fault, all that is dug and not exchanged by the time the  *)
(* pool is gone is lost with the run (app.cpp:68-82, 245-309, api.cpp:     *)
(* 72-80).                                                                 *)
(***************************************************************************)
\* the calls that exchange t, and the answers that make run() schedule one
Exchanging(t) ==
    InBag(client.calls, LAMBDA call : call.type = "Cash" /\ call.treasure = t)

Returning(t) ==
    InBag(replies, LAMBDA reply :
                \/ /\ reply.call.type = "Cash"
                   /\ reply.call.treasure = t
                   /\ reply.status = 503
                \/ /\ reply.call.type = "Dig"
                   /\ <<reply.call.cell, reply.call.depth>> = t
                   /\ reply.status = 200)

Cashing(t) == CASE client.status = "running" -> Exchanging(t) + Returning(t)
                [] client.status = "stopped" -> Exchanging(t)
                [] OTHER -> 0

StageOf(t) == IF treasure[t[1]][t[2]] > 0 THEN "buried"
              ELSE IF t \notin DOMAIN registry THEN "gone"
              ELSE IF t[2] < MinDepthToCash THEN "left"
              ELSE CASE Cashing(t) = 0 -> "lost"
                     [] Cashing(t) = 1 -> "cashing"
                     [] OTHER -> "cashed twice"

Life == INSTANCE TreasureLife WITH
            Treasure <- Server!TreasureId,
            stage <- [t \in Server!TreasureId |-> StageOf(t)],
            run <- client.status

LifeSpec == Life!Spec

(***************************************************************************)
(* A licence that arrives takes a slot, so that digs can be scheduled      *)
(* under its number (state_test.cpp:8-12).                                 *)
(* FALSE of this code with two slots: see README, Findings.                *)
(***************************************************************************)
LicenseUsable ==
    [][\A reply \in BagToSet(replies) :
          /\ reply.call.type \in LicenseTypes /\ reply.status = 200
          /\ replies' = replies (-) SetToBag({reply})
          => \E i \in 1..Slots :
                 /\ client'.licenses[i].id = reply.license.id
                 /\ client'.licenses[i].allowed = reply.license.allowed
                 /\ client'.licenses[i].confirmed = 0]_vars

(***************************************************************************)
(* Every treasure that was discovered is dug up, and exchanged when it is  *)
(* worth it, with one licence slot; two are not enough: see LicenseUsable. *)
(***************************************************************************)
AllExchanged ==
    \A c \in Cell : c \in discovered ~>
        \A d \in 1..MaxDepth : StageOf(<<c, d>>) \in {"left", "gone"}
=============================================================================
