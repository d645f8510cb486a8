-------------------------------- MODULE Stub --------------------------------
(***************************************************************************)
(* The stub of the contest server as a process: what it makes of the       *)
(* bodies of its requests before World sees them (openapi.yaml, the        *)
(* setters of the models, util.deserialize_model, default_controller.py),  *)
(* what World counts about its client (ClientStats), the reports, and the  *)
(* alarm that prints them and ends the process (__main__.py).              *)
(*                                                                         *)
(* A handler is one step, as in World. But the alarm is a signal: its      *)
(* handler runs between any two statements of the one it interrupts, and   *)
(* reports what has been counted by then.                                  *)
(***************************************************************************)
EXTENDS World, Sequences, SequencesExt, TLC

CONSTANTS AreaBodies,    \* the bodies clients send: functions from the names
          DigBodies,     \* of the fields they give to numbers
          Payments,      \* the lists of coins that clients pay with
          MaxExplores    \* bound: single cells explored

VARIABLES stats,     \* _stats
          opening,   \* the report of the world when the server starts
          printed    \* the reports that kill_handler prints, then the end

NotPrinted == <<>>
Running == printed = NotPrinted

stubVars == <<vars, stats, opening, printed>>

-----------------------------------------------------------------------------
(***************************************************************************)
(* What is reported: the counters of ClientStats and the sizes of the      *)
(* server's tables (get_client_report), and what is left in the ground     *)
(* (get_world_report).                                                     *)
(***************************************************************************)
ClientStats == [freeIssued |-> 0, paidIssued |-> 0, paidExpenses |-> 0,
                paidDigsAllowed |-> 0, explored |-> 0, exploredNonzero |-> 0,
                digsDone |-> 0, found |-> 0, exchanged |-> 0,
                foundValue |-> 0, exchangedValue |-> 0]

WorldReport ==
    [treasures |-> Cardinality({t \in TreasureId : treasure[t[1]][t[2]] > 0}),
     value |-> SumFunction([t \in TreasureId |-> treasure[t[1]][t[2]]])]

ClientReport == stats @@ [balance |-> Cardinality(coins),
                          active |-> Cardinality(DOMAIN active),
                          pending |-> Cardinality(DOMAIN registry)]

Report == ClientReport @@ WorldReport

-----------------------------------------------------------------------------
(***************************************************************************)
(* The bodies. connexion compares a body with its schema and answers 400;  *)
(* then the setters of the model check the fields that are there.          *)
(***************************************************************************)
Gives(body, fields) == fields \subseteq DOMAIN body
AtLeast(body, field, n) == field \in DOMAIN body => body[field] >= n
AtMost(body, field, n) == field \in DOMAIN body => body[field] <= n

AreaSchema(body) ==
    /\ Gives(body, {"posX", "posY"})
    /\ AtLeast(body, "posX", 0) /\ AtLeast(body, "posY", 0)
    /\ AtLeast(body, "sizeX", 1) /\ AtLeast(body, "sizeY", 1)

DigSchema(body) ==
    /\ Gives(body, {"licenseID", "posX", "posY", "depth"})
    /\ AtLeast(body, "posX", 0) /\ AtLeast(body, "posY", 0)
    /\ AtLeast(body, "depth", 1) /\ AtMost(body, "depth", 100)

WalletSchema(payment) == IsInjective(payment) /\ Len(payment) <= 1000

AreaPositions(body) == AtLeast(body, "posX", 0) /\ AtLeast(body, "posY", 0)
AreaSizes(body) == AtLeast(body, "sizeX", 1) /\ AtLeast(body, "sizeY", 1)

DigPositions(body) == AtLeast(body, "posX", 0) /\ AtLeast(body, "posY", 0)

\* mutant: only the depths of the field pass
DigDepth_Field(body) == AtLeast(body, "depth", 1) /\ AtMost(body, "depth", MaxDepth)

DigDepth(body) == AtLeast(body, "depth", 1) /\ AtMost(body, "depth", 100)

\* a setter raises ValueError for a field that is there and out of range; a
\* field that is not there is left at None, whether it is required or not
DecodesArea(body) == AreaPositions(body) /\ AreaSizes(body)
DecodesDig(body) == DigPositions(body) /\ DigDepth(body)

\* one side of an area against the field; None has no sum
Side(body, position, size, limit) ==
    IF body[position] \notin 0..(limit - 1) THEN 422
    ELSE IF size \notin DOMAIN body THEN 500
    ELSE IF body[position] + body[size] \notin 1..limit THEN 422
    ELSE 200

ExploreArea(body) ==
    IF Side(body, "posX", "sizeX", Width) # 200
    THEN Side(body, "posX", "sizeX", Width)
    ELSE Side(body, "posY", "sizeY", Height)

ExploreAnswer(body) == IF ~AreaSchema(body) THEN 400
                       ELSE IF ~DecodesArea(body) THEN 500
                       ELSE ExploreArea(body)

DigRequest(body) == [license |-> body.licenseID, depth |-> body.depth,
                     cell |-> <<body.posX, body.posY>>]

DigAnswer(body) == IF ~DigSchema(body) THEN 400
                   ELSE IF ~DecodesDig(body) THEN 500
                   ELSE DigStatus(DigRequest(body))

LicenseAnswer(payment) == IF ~WalletSchema(payment) THEN 400
                          ELSE LicenseStatus(ToSet(payment))

-----------------------------------------------------------------------------
(***************************************************************************)
(* What the statements of a handler change in the report, in their order.  *)
(***************************************************************************)
Amount(body) == ExploreAmount([x |-> body.posX, y |-> body.posY,
                               sizeX |-> body.sizeX, sizeY |-> body.sizeY])

ExploreCounts(body) ==
    IF ExploreAnswer(body) # 200 \/ body.sizeX * body.sizeY # 1 THEN <<>>
    ELSE IF Amount(body) = 0 THEN << [explored |-> 1] >>
    ELSE << [explored |-> 1], [exploredNonzero |-> 1] >>

DigCounts(body) ==
    LET req == DigRequest(body)
        used == active[req.license]
        last == used.used + 1 >= used.allowed
        value == treasure[req.cell][req.depth]
        served == << [digsDone |-> 1], [active |-> IF last THEN -1 ELSE 0] >>
    IN  IF DigAnswer(body) = 404 THEN served
        ELSE IF DigAnswer(body) = 200
        THEN served \o << [found |-> 1], [foundValue |-> value], [pending |-> 1],
                          [treasures |-> -1, value |-> -value] >>
        ELSE <<>>

\* mutant: a treasure is counted as exchanged before it is paid for
CashCounts_First(t) ==
    IF CashStatus(t) = 409 THEN <<>>
    ELSE IF CashStatus(t) = 503 THEN << [exchanged |-> 1] >>
    ELSE << [exchanged |-> 1], [balance |-> registry[t]], [pending |-> -1],
            [exchangedValue |-> registry[t]] >>

\* mutant: the treasure is counted, then taken off the list
CashCounts_LateRemoval(t) ==
    IF CashStatus(t) # 200 THEN <<>>
    ELSE << [balance |-> registry[t]], [exchanged |-> 1], [pending |-> -1],
            [exchangedValue |-> registry[t]] >>

CashCounts(t) ==
    IF CashStatus(t) # 200 THEN <<>>
    ELSE << [balance |-> registry[t]], [pending |-> -1], [exchanged |-> 1],
            [exchangedValue |-> registry[t]] >>

LicenseCounts(payment, allowed) ==
    LET n == Cardinality(ToSet(payment))
    IN  IF LicenseAnswer(payment) # 200 THEN <<>>
        ELSE IF payment = <<>> THEN << [freeIssued |-> 1], [active |-> 1] >>
        ELSE << [balance |-> -n], [paidIssued |-> 1], [paidExpenses |-> n],
                [paidDigsAllowed |-> allowed], [active |-> 1] >>

\* the report when the first k statements of a handler have been executed
Add(report, change) ==
    [name \in DOMAIN report |->
        report[name] + (IF name \in DOMAIN change THEN change[name] ELSE 0)]

After(changes, k) == FoldLeft(Add, Report, SubSeq(changes, 1, k))

-----------------------------------------------------------------------------
StubInit == /\ Init
            /\ stats = ClientStats
            /\ opening = WorldReport
            /\ printed = NotPrinted

Count(changes) ==
    /\ Running
    /\ LET report == After(changes, Len(changes))
       IN  stats' = [name \in DOMAIN stats |-> report[name]]
    /\ UNCHANGED <<opening, printed>>

StubExplore(body) == /\ stats.explored < MaxExplores
                     /\ Count(ExploreCounts(body))
                     /\ UNCHANGED vars

StubDig(body) == /\ Count(DigCounts(body))
                 /\ IF DigAnswer(body) \in {400, 500} THEN UNCHANGED vars
                    ELSE Dig(DigRequest(body))

StubCash(t) == Count(CashCounts(t)) /\ Cash(t)

StubLicense(payment, allowed) ==
    /\ Count(LicenseCounts(payment, allowed))
    /\ IF LicenseAnswer(payment) = 400 THEN UNCHANGED vars
       ELSE IssueLicense(ToSet(payment), allowed)

StubTick == Tick /\ Count(<<>>)

\* kill_handler, when k statements of a handler have been executed
Kill(changes) ==
    /\ \E k \in 0..Len(changes) : printed' = After(changes, k)
    /\ UNCHANGED <<vars, stats, opening>>

Alarm ==
    /\ Running
    /\ \/ Kill(<<>>)
       \/ \E body \in AreaBodies : Kill(ExploreCounts(body))
       \/ \E body \in DigBodies : Kill(DigCounts(body))
       \/ \E t \in DOMAIN registry : Kill(CashCounts(t))
       \/ \E payment \in Payments :
              \E allowed \in DigsAllowed(ToSet(payment)) :
                  Kill(LicenseCounts(payment, allowed))

StubNext == \/ \E body \in AreaBodies : StubExplore(body)
            \/ \E body \in DigBodies : StubDig(body)
            \/ \E t \in TreasureId : StubCash(t)
            \/ \E payment \in Payments :
                   \E allowed \in DigsAllowed(ToSet(payment)) :
                       StubLicense(payment, allowed)
            \/ StubTick
            \/ Alarm

StubSpec == StubInit /\ [][StubNext]_stubVars

-----------------------------------------------------------------------------
(***************************************************************************)
(* Between two requests the books balance: what was found is what was      *)
(* exchanged and what is waiting to be, in number and in value, and is     *)
(* missing from the ground; the coins paid out are those the client has    *)
(* and those it spent; the digs that the licences allowed are those done   *)
(* and those that the active licences still allow (world.py:252-275,       *)
(* 289-299, 331-360).                                                      *)
(***************************************************************************)
LicenseList == {[id |-> id, digAllowed |-> active[id].allowed,
                 digUsed |-> active[id].used] : id \in DOMAIN active}

DigsLeft == MapThenSumSet(LAMBDA l : l.digAllowed - l.digUsed, LicenseList)

BooksBalance ==
    Running =>
        LET r == Report
        IN  /\ r.found = r.exchanged + r.pending
            /\ r.foundValue = r.exchangedValue + SumFunction(registry)
            /\ opening.treasures = r.treasures + r.found
            /\ opening.value = r.value + r.foundValue
            /\ r.exchangedValue = r.balance + r.paidExpenses
            /\ FreeDigs * r.freeIssued + r.paidDigsAllowed
                   = r.digsDone + DigsLeft

(***************************************************************************)
(* Wherever the alarm interrupts the server, the rates it prints are at    *)
(* most one, no treasure waits for its exchange that was not found, at     *)
(* most one treasure is missing from the lists, and the books of the       *)
(* ground and of the coins are not both out (__main__.py:23-26,            *)
(* world.py:144-181).                                                      *)
(***************************************************************************)
LastReport ==
    ~Running =>
        LET r == printed
            ground == opening.treasures - r.treasures
        IN  /\ r.found <= r.digsDone /\ r.exploredNonzero <= r.explored
            /\ r.found - (r.exchanged + r.pending) \in {0, 1}
            /\ r.found - ground \in {0, 1}
            /\ \/ /\ ground = r.found
                  /\ opening.value - r.value = r.foundValue
               \/ r.balance + r.paidExpenses = r.exchangedValue

(***************************************************************************)
(* A body that its schema admits passes the setters of the model; and only *)
(* an area that leaves out a size, which the schema allows, is answered    *)
(* with an internal error (area.py, dig.py, openapi.yaml:1253-1313,        *)
(* world.py:208-223, 234-250).                                             *)
(***************************************************************************)
ServerErrors ==
    /\ \A body \in AreaBodies :
           ExploreAnswer(body) = 500 => ~Gives(body, {"sizeX", "sizeY"})
    /\ \A body \in DigBodies : DigAnswer(body) # 500
    /\ \A body \in AreaBodies :
           Gives(body, {"posX", "posY", "sizeX", "sizeY"}) /\ AreaSchema(body) =>
               ExploreAnswer(body) =
                   ExploreStatus([x |-> body.posX, y |-> body.posY,
                                  sizeX |-> body.sizeX, sizeY |-> body.sizeY])
=============================================================================
