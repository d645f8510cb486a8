--------------------------- MODULE GoldRushProofs ---------------------------
(***************************************************************************)
(* What holds of the client at work for every field, every number of       *)
(* licences and every sequence of faults.                                  *)
(***************************************************************************)
EXTENDS GoldRush, DataTheorems

W == INSTANCE WorldProofs

TreasureId == Server!TreasureId

-----------------------------------------------------------------------------
(***************************************************************************)
(* The calls and the replies.                                              *)
(***************************************************************************)
LicenseCalls == [type : {"IssueFreeLicense"}]
                    \cup [type : {"IssuePaidLicense"}, coin : Nat]
Digs == [cell : Cell, depth : 1..(MaxDepth + 1)]
DigCalls == [type : {"Dig"}, license : Nat, cell : Cell, depth : 1..(MaxDepth + 1)]
CashCalls == {CashCall(t, t[2]) : t \in {u \in TreasureId : u[2] >= MinDepthToCash}}
AnyCall == LicenseCalls \cup DigCalls \cup CashCalls

Grants == [call : LicenseCalls, status : {200},
           license : [id : Nat \ {0}, allowed : Nat \ {0}]]
Refusals == [call : LicenseCalls, status : {Failed, 402, 409, 429, 502}]
LicenseReplies == Grants \cup Refusals
DigReplies == {r \in [call : DigCalls, status : {Failed, 200, 403, 404, 422, 429}] :
                   r.status \in {200, 404} => r.call.depth <= MaxDepth}
Payments == {r \in [call : CashCalls, status : {200}, wallet : Seq(Nat)] :
                 \A i, j \in DOMAIN r.wallet : r.wallet[i] = r.wallet[j] => i = j}
CashRefusals == [call : CashCalls, status : {Failed, 409, 429, 503}]
CashReplies == Payments \cup CashRefusals
AnyReply == LicenseReplies \cup DigReplies \cup CashReplies

DigCallsOf(L) == {call \in DigCalls : call.license = L}
DigRepliesOf(L) == {r \in DigReplies : r.call.license = L}
DigCallsIn(c) == {call \in DigCalls : call.cell = c}
DigRepliesIn(c) == {r \in DigReplies : r.call.cell = c}
FoundIn(c) == {r \in DigRepliesIn(c) : r.status = 200}
FoundAt(t) == {r \in FoundIn(t[1]) : r.call.depth = t[2]}
CashCallsFor(t) == {call \in CashCalls : call.treasure = t}
AgainFor(t) == {r \in CashRefusals : r.call.treasure = t /\ r.status = 503}
Brings(k) == {r \in Payments : \E i \in DOMAIN r.wallet : r.wallet[i] = k}

-----------------------------------------------------------------------------
(***************************************************************************)
(* The parts of the invariant. They are stated for any values of the       *)
(* state, so that they can be followed through a handler step by step:     *)
(* purse, lic, q, left, calls are parts of the client, R are the replies,  *)
(* f the faults. H are the cells whose next dig a handler is about to      *)
(* schedule, F the treasures it is about to count and to exchange, n the   *)
(* licences it is about to ask for; D are the cells discovered.            *)
(***************************************************************************)
Num(b) == IF b THEN 1 ELSE 0

\* digs are delayed only when no licence has one to spare
Conserving(lic, q) ==
    q # <<>> => \A i \in 1..Slots : lic[i].allowed = lic[i].used

QCells(q) == {q[i].cell : i \in DOMAIN q}

\* the digs of a cell on their way and answered
UnderWay(calls, R, c) == Count(calls, DigCallsIn(c)) + Count(R, DigRepliesIn(c))

\* a cell with treasures left has one dig, a cell without has none
Places(q, calls, left, R, H) ==
    /\ \A i, j \in DOMAIN q : q[i].cell = q[j].cell => i = j
    /\ \A c \in Cell : UnderWay(calls, R, c) + Num(c \in QCells(q)) + Num(c \in H)
                          = Num(left[c] > 0)

\* the client never believes a cell to have fewer treasures than it has
Uncounted(R, F, c) == Count(R, FoundIn(c)) + Num(\E t \in F : t[1] = c)

Counted(left, R, F, cnt, D, f) ==
    \A c \in Cell :
        /\ c \notin D => left[c] = 0
        /\ c \in D => /\ left[c] >= cnt[c] + Uncounted(R, F, c)
                      /\ f = 0 => left[c] = cnt[c] + Uncounted(R, F, c)

\* what the slots with a number still owe: digs to confirm, digs to make
Owing(lic, L) == [i \in 1..Slots |->
                     IF lic[i].id = L THEN lic[i].allowed - lic[i].confirmed ELSE 0]
Sparing(lic, L) == [i \in 1..Slots |->
                       IF lic[i].id = L THEN lic[i].allowed - lic[i].used ELSE 0]
Owed(lic, L) == Sum(Owing(lic, L), 1..Slots)
Spare(lic, L) == Sum(Sparing(lic, L), 1..Slots)

\* every dig under way has a slot that waits for its confirmation
Budget(lic, calls, R) ==
    /\ \A i \in 1..Slots : lic[i].used <= lic[i].allowed
    /\ \A L \in Nat : Spare(lic, L) + Count(calls, DigCallsOf(L))
                          + Count(R, DigRepliesOf(L)) <= Owed(lic, L)

\* a coin is in the purse, in a call that pays or in an answer, and only once
InPurse(purse, k) == \E i \in DOMAIN purse : purse[i] = k
CoinUse(purse, calls, R, k) ==
    Num(InPurse(purse, k)) + Count(calls, {PaidLicense(k)}) + Count(R, Brings(k))

Coined(purse, calls, R, wallet, next, f) ==
    /\ \A i, j \in DOMAIN purse : purse[i] = purse[j] => i = j
    /\ \A k \in Nat :
          /\ CoinUse(purse, calls, R, k) <= 1
          /\ CoinUse(purse, calls, R, k) > 0 => k < next
          /\ InPurse(purse, k) => k \in wallet
          /\ Count(R, Brings(k)) > 0 => k \in wallet
          /\ f = 0 => (k \in wallet <=> CoinUse(purse, calls, R, k) = 1)

\* at most one call exchanges a treasure, or is about to be made
Exchange(calls, R, F, t) == Count(calls, CashCallsFor(t)) + Count(R, AgainFor(t))
                               + Count(R, FoundAt(t)) + Num(t \in F)

Cashed(calls, R, F, ground, reg, f) ==
    \A t \in TreasureId :
        /\ Exchange(calls, R, F, t) <= 1
        /\ Exchange(calls, R, F, t) > 0 => /\ ground[t[1]][t[2]] = 0
                                           /\ f = 0 => t \in DOMAIN reg

\* every dig is for the next depth of its cell
InStep(q, calls, R, dug) ==
    /\ \A i \in DOMAIN q : q[i].depth = dug[q[i].cell] + 1
    /\ \A call \in DOMAIN calls \cap DigCalls : call.depth = dug[call.cell] + 1
    /\ \A r \in DOMAIN R \cap DigReplies : r.call.depth = dug[r.call.cell]

\* the digs left of an active licence
Rem(act, L) == IF L \in DOMAIN act THEN act[L].allowed - act[L].used ELSE 0

Fresh(R) == {r.license.id : r \in DOMAIN R \cap Grants}
Busy(lic) == {i \in 1..Slots : lic[i].confirmed < lic[i].allowed}

\* the digs of an active licence belong to a slot, or to a licence on its way,
\* or to one that found no slot (Lost); there are never more of these than slots
Entitled(lic, calls, R, act) ==
    /\ \A L \in Nat : Spare(lic, L) + Count(calls, DigCallsOf(L)) <= Rem(act, L)
    /\ \A r \in DOMAIN R \cap Grants :
          /\ r.license.id \in DOMAIN act
          /\ act[r.license.id].used = 0
          /\ act[r.license.id].allowed = r.license.allowed
          /\ \A u \in DOMAIN R \cap Grants : u.license.id = r.license.id => u = r
          /\ Count(R, {r}) = 1

Accounted(lic, calls, R, act, n, Lost) ==
    /\ IsFiniteSet(Lost)
    /\ \A L \in Lost \cup Fresh(R) : Spare(lic, L) + Count(calls, DigCallsOf(L)) = 0
    /\ \A L \in DOMAIN act \ (Lost \cup Fresh(R)) :
          Count(R, DigRepliesOf(L)) + Rem(act, L) <= Owed(lic, L)
    /\ Count(calls, LicenseCalls) + Count(R, LicenseReplies)
          + Cardinality(Busy(lic)) + Cardinality(Lost) + n = Slots

Licensed(lic, calls, R, act, n) ==
    /\ Entitled(lic, calls, R, act)
    /\ \E Lost \in SUBSET (DOMAIN act \ Fresh(R)) :
          Accounted(lic, calls, R, act, n, Lost)

Answered(R) == \A r \in DOMAIN R :
    /\ r \in LicenseReplies => r.status \in {200, 502}
    /\ r \in DigReplies => r.status \in {200, 404}
    /\ r \in CashReplies => r.status \in {200, 503}

Tame(s, R, H, F, n, D) ==
    /\ Conserving(s.licenses, s.digQueue)
    /\ Coined(s.coins, s.calls, R, coins, nextCoin, faults)
    /\ Cashed(s.calls, R, F, treasure, registry, faults)
    /\ faults = 0 => s.status = "running"
    /\ s.status # "terminated"
    /\ s.status = "running" =>
          /\ Places(s.digQueue, s.calls, s.left, R, H)
          /\ Counted(s.left, R, F, counts, D, faults)
          /\ Budget(s.licenses, s.calls, R)
    /\ faults = 0 =>
          /\ InStep(s.digQueue, s.calls, R, depthMap)
          /\ Licensed(s.licenses, s.calls, R, active, n)
          /\ Answered(R)

CallBags == {B \in UNION {[D -> Nat \ {0}] : D \in SUBSET AnyCall} :
                 IsFiniteSet(DOMAIN B)}

Clients == [licenses : [1..Slots -> Slot], digQueue : Seq(Digs),
            left : [Cell -> 0..MaxDepth], coins : Seq(Nat), calls : CallBags,
            status : {"running", "stopped", "ended", "terminated"}]

\* a cell is dug once the exploration has located it
Untouched == faults = 0 => \A c \in Cell \ discovered : depthMap[c] = 0

IInv == /\ W!IInv
        /\ client \in Clients
        /\ IsBagOf(replies, AnyReply)
        /\ discovered \subseteq Cell
        /\ faults \in 0..MaxFaults
        /\ Tame(client, replies, {}, {}, 0, discovered)
        /\ Untouched

LEMMA CallBagsAre == \A B : B \in CallBags <=> IsBagOf(B, AnyCall)
<1> TAKE B
<1>1. ASSUME B \in CallBags PROVE IsBagOf(B, AnyCall)
  BY <1>1 DEF CallBags, IsBagOf
<1>2. ASSUME IsBagOf(B, AnyCall) PROVE B \in CallBags
  <2>1. DOMAIN B \in SUBSET AnyCall /\ B \in [DOMAIN B -> Nat \ {0}]
    BY <1>2 DEF IsBagOf
  <2> QED  BY <1>2, <2>1 DEF CallBags, IsBagOf
<1> QED  BY <1>1, <1>2

(***************************************************************************)
(* The proofs about the server hold of the client's server.                *)
(***************************************************************************)
LEMMA ServerConstants == W!WorldAssumption /\ W!Cell = Cell /\ W!Depths = 1..MaxDepth
BY GoldRushAssumption
   DEF Server!WorldAssumption, W!WorldAssumption, Cell, Server!Cell, W!Cell,
       Server!Depths, W!Depths

-----------------------------------------------------------------------------
(***************************************************************************)
(* What the client's operations do to its state.                           *)
(***************************************************************************)
LEMMA SendIs ==
    ASSUME NEW s \in Clients, NEW call \in AnyCall
    PROVE  /\ Send(s, call) \in Clients
           /\ More(Send(s, call).calls, s.calls, call)
           /\ Send(s, call) = [s EXCEPT !.calls = Send(s, call).calls]
<1> DEFINE B == s.calls (+) SetToBag({call})
<1>1. IsBagOf(s.calls, AnyCall)
  BY CallBagsAre DEF Clients
<1>2. IsBagOf(B, AnyCall) /\ More(B, s.calls, call)
  BY <1>1, AddIsMore
<1>3. B \in CallBags
  BY <1>2, CallBagsAre
<1> HIDE DEF B
<1>4. Send(s, call) = [s EXCEPT !.calls = B]
  BY DEF Send, B
<1>5. [s EXCEPT !.calls = B] \in Clients /\ [s EXCEPT !.calls = B].calls = B
  BY <1>3 DEF Clients
<1> QED  BY <1>2, <1>4, <1>5

(***************************************************************************)
(* A licence is asked for, with a coin if there is one.                    *)
(***************************************************************************)
Requested(s, t) ==
    \E call \in LicenseCalls :
        /\ More(t.calls, s.calls, call)
        /\ \/ s.coins = <<>> /\ t.coins = s.coins /\ call = FreeLicense
           \/ s.coins # <<>> /\ t.coins = Tail(s.coins) /\ call = PaidLicense(Head(s.coins))
        /\ t.licenses = s.licenses /\ t.digQueue = s.digQueue
        /\ t.left = s.left /\ t.status = s.status

LEMMA ScheduleIssueLicenseIs ==
    ASSUME NEW s \in Clients
    PROVE  ScheduleIssueLicense(s) \in Clients /\ Requested(s, ScheduleIssueLicense(s))
<1>1. CASE s.coins = <<>>
  <2>1. FreeLicense \in LicenseCalls
    BY DEF FreeLicense, LicenseCalls
  <2>2. FreeLicense \in AnyCall
    BY <2>1 DEF AnyCall
  <2>3. ScheduleIssueLicense(s) = Send(s, FreeLicense)
    BY <1>1 DEF ScheduleIssueLicense
  <2>4. /\ Send(s, FreeLicense) \in Clients
        /\ More(Send(s, FreeLicense).calls, s.calls, FreeLicense)
        /\ Send(s, FreeLicense) = [s EXCEPT !.calls = Send(s, FreeLicense).calls]
    BY <2>2, SendIs
  <2> QED  BY <1>1, <2>1, <2>3, <2>4 DEF Requested, Clients
<1>2. CASE s.coins # <<>>
  <2> DEFINE call == PaidLicense(Head(s.coins))
             u == [s EXCEPT !.coins = Tail(@)]
  <2>1. Head(s.coins) \in Nat /\ Tail(s.coins) \in Seq(Nat)
    BY <1>2, HeadTailProperties DEF Clients
  <2>2. call \in LicenseCalls
    BY <2>1 DEF PaidLicense, LicenseCalls
  <2>3. call \in AnyCall
    BY <2>2 DEF AnyCall
  <2>4. u \in Clients /\ u.calls = s.calls
    BY <2>1 DEF Clients
  <2>5. ScheduleIssueLicense(s) = Send(u, call)
    BY <1>2 DEF ScheduleIssueLicense
  <2> HIDE DEF call
  <2>6. /\ Send(u, call) \in Clients
        /\ More(Send(u, call).calls, s.calls, call)
        /\ Send(u, call) = [u EXCEPT !.calls = Send(u, call).calls]
    BY <2>3, <2>4, SendIs
  <2>7. /\ Send(u, call).coins = Tail(s.coins) /\ Send(u, call).licenses = s.licenses
        /\ Send(u, call).digQueue = s.digQueue /\ Send(u, call).left = s.left
        /\ Send(u, call).status = s.status
    BY <2>6 DEF Clients
  <2> QED  BY <1>2, <2>2, <2>5, <2>6, <2>7 DEF Requested, call
<1> QED  BY <1>1, <1>2
-----------------------------------------------------------------------------
(***************************************************************************)
(* The kinds of calls and replies have nothing in common.                  *)
(***************************************************************************)
LEMMA CallKinds ==
    /\ \A x \in LicenseCalls : x \notin DigCalls /\ x \notin CashCalls
    /\ \A x \in DigCalls : x \notin LicenseCalls /\ x \notin CashCalls
    /\ \A x \in CashCalls : x \notin LicenseCalls /\ x \notin DigCalls
BY DEF LicenseCalls, DigCalls, CashCalls, CashCall

LEMMA ReplyKinds ==
    /\ \A x \in LicenseReplies : x \notin DigReplies /\ x \notin CashReplies
    /\ \A x \in DigReplies : x \notin LicenseReplies /\ x \notin CashReplies
    /\ \A x \in CashReplies : x \notin LicenseReplies /\ x \notin DigReplies
<1>1. /\ \A x \in LicenseReplies : x.call \in LicenseCalls
      /\ \A x \in DigReplies : x.call \in DigCalls
      /\ \A x \in CashReplies : x.call \in CashCalls
  BY DEF LicenseReplies, Grants, Refusals, DigReplies, CashReplies, Payments,
         CashRefusals
<1> QED  BY <1>1, CallKinds

LEMMA Parts ==
    /\ \A L : DigCallsOf(L) \subseteq DigCalls /\ DigRepliesOf(L) \subseteq DigReplies
    /\ \A c : DigCallsIn(c) \subseteq DigCalls /\ DigRepliesIn(c) \subseteq DigReplies
    /\ \A c : FoundIn(c) \subseteq DigReplies
    /\ \A t : FoundAt(t) \subseteq DigReplies /\ CashCallsFor(t) \subseteq CashCalls
    /\ \A t : AgainFor(t) \subseteq CashReplies
    /\ \A k : Brings(k) \subseteq CashReplies
    /\ \A k \in Nat : {PaidLicense(k)} \subseteq LicenseCalls
    /\ Grants \subseteq LicenseReplies
BY DEF DigCallsOf, DigRepliesOf, DigCallsIn, DigRepliesIn, FoundIn, FoundAt,
       CashCallsFor, AgainFor, Brings, PaidLicense, LicenseCalls, CashReplies,
       LicenseReplies

(***************************************************************************)
(* Two bags that have the same elements of a kind.                         *)
(***************************************************************************)
Agree(B, C, M) == /\ \A T : T \subseteq M => Count(C, T) = Count(B, T)
                  /\ DOMAIN B \cap M = DOMAIN C \cap M

LEMMA AgreeIs ==
    ASSUME NEW K, NEW B, IsBagOf(B, K), NEW C, IsBagOf(C, K), NEW x, More(C, B, x)
    PROVE  \A M : x \notin M => Agree(B, C, M) /\ Agree(C, B, M)
<1> SUFFICES ASSUME NEW M, x \notin M PROVE Agree(B, C, M) /\ Agree(C, B, M)
  OBVIOUS
<1>1. ASSUME NEW T, T \subseteq M PROVE Count(C, T) = Count(B, T)
  <2>1. Count(B, T) \in Nat
    BY CountType
  <2>2. x \notin T
    BY <1>1
  <2> QED  BY <2>1, <2>2 DEF More
<1>2. DOMAIN B \cap M = DOMAIN C \cap M
  BY DEF More
<1> QED  BY <1>1, <1>2 DEF Agree

LEMMA FramePlaces ==
    ASSUME NEW q, NEW left, NEW H,
           NEW B, NEW C, Agree(B, C, DigCalls),
           NEW R, NEW Q, Agree(R, Q, DigReplies),
           Places(q, B, left, R, H)
    PROVE  Places(q, C, left, Q, H)
<1>1. \A c : UnderWay(C, Q, c) = UnderWay(B, R, c)
  BY Parts DEF Agree, UnderWay
<1> QED  BY <1>1 DEF Places

LEMMA FrameCounted ==
    ASSUME NEW left, NEW F, NEW cnt, NEW D, NEW f,
           NEW R, NEW Q, Agree(R, Q, DigReplies), Counted(left, R, F, cnt, D, f)
    PROVE  Counted(left, Q, F, cnt, D, f)
<1>1. \A c : Uncounted(Q, F, c) = Uncounted(R, F, c)
  BY Parts DEF Agree, Uncounted
<1> QED  BY <1>1 DEF Counted

LEMMA FrameBudget ==
    ASSUME NEW lic,
           NEW B, NEW C, Agree(B, C, DigCalls),
           NEW R, NEW Q, Agree(R, Q, DigReplies), Budget(lic, B, R)
    PROVE  Budget(lic, C, Q)
BY Parts DEF Agree, Budget

LEMMA FrameCoined ==
    ASSUME NEW purse, NEW wallet, NEW next, NEW f,
           NEW B, NEW C, Agree(B, C, LicenseCalls),
           NEW R, NEW Q, Agree(R, Q, CashReplies), Coined(purse, B, R, wallet, next, f)
    PROVE  Coined(purse, C, Q, wallet, next, f)
<1>1. \A k \in Nat : /\ CoinUse(purse, C, Q, k) = CoinUse(purse, B, R, k)
                     /\ Count(Q, Brings(k)) = Count(R, Brings(k))
  BY Parts DEF Agree, CoinUse
<1> QED  BY <1>1 DEF Coined

LEMMA FrameCashed ==
    ASSUME NEW F, NEW ground, NEW reg, NEW f,
           NEW B, NEW C, Agree(B, C, CashCalls),
           NEW R, NEW Q, Agree(R, Q, CashReplies), Agree(R, Q, DigReplies),
           Cashed(B, R, F, ground, reg, f)
    PROVE  Cashed(C, Q, F, ground, reg, f)
<1>1. \A t : Exchange(C, Q, F, t) = Exchange(B, R, F, t)
  BY Parts DEF Agree, Exchange
<1> QED  BY <1>1 DEF Cashed

LEMMA FrameInStep ==
    ASSUME NEW q, NEW dug,
           NEW B, NEW C, Agree(B, C, DigCalls),
           NEW R, NEW Q, Agree(R, Q, DigReplies), InStep(q, B, R, dug)
    PROVE  InStep(q, C, Q, dug)
BY DEF Agree, InStep

LEMMA FrameLicensed ==
    ASSUME NEW lic, NEW act, NEW n,
           NEW B, NEW C, Agree(B, C, DigCalls), Agree(B, C, LicenseCalls),
           NEW R, NEW Q, Agree(R, Q, DigReplies), Agree(R, Q, LicenseReplies),
           Licensed(lic, B, R, act, n)
    PROVE  Licensed(lic, C, Q, act, n)
<1>1. DOMAIN Q \cap Grants = DOMAIN R \cap Grants
  BY Parts DEF Agree
<1>2. Fresh(Q) = Fresh(R)
  BY <1>1 DEF Fresh
<1>3. \A r \in Grants : Count(Q, {r}) = Count(R, {r})
  <2> SUFFICES ASSUME NEW r \in Grants PROVE Count(Q, {r}) = Count(R, {r})
    OBVIOUS
  <2>1. {r} \subseteq LicenseReplies
    BY Parts
  <2> QED  BY <2>1 DEF Agree
<1>4. /\ \A L : Count(C, DigCallsOf(L)) = Count(B, DigCallsOf(L))
      /\ \A L : Count(Q, DigRepliesOf(L)) = Count(R, DigRepliesOf(L))
      /\ Count(C, LicenseCalls) = Count(B, LicenseCalls)
      /\ Count(Q, LicenseReplies) = Count(R, LicenseReplies)
  BY Parts DEF Agree
<1>5. Entitled(lic, C, Q, act)
  BY <1>1, <1>3, <1>4 DEF Licensed, Entitled
<1>6. PICK Lost \in SUBSET (DOMAIN act \ Fresh(R)) : Accounted(lic, B, R, act, n, Lost)
  BY DEF Licensed
<1>7. Accounted(lic, C, Q, act, n, Lost)
  BY <1>2, <1>4, <1>6 DEF Accounted
<1> QED  BY <1>2, <1>5, <1>6, <1>7 DEF Licensed

LEMMA FrameAnswered ==
    ASSUME NEW R, NEW Q, DOMAIN Q \subseteq DOMAIN R, Answered(R)
    PROVE  Answered(Q)
BY DEF Answered
-----------------------------------------------------------------------------
(***************************************************************************)
(* A dig is given to a licence, or it is delayed.                          *)
(***************************************************************************)
Assigned(s, t, dig) ==
    \E i \in 1..Slots :
        /\ s.licenses[i].allowed # s.licenses[i].used
        /\ t.licenses = [s.licenses EXCEPT ![i].used = @ + 1]
        /\ More(t.calls, s.calls, DigCall(s.licenses[i].id, dig))
        /\ t.digQueue = s.digQueue
        /\ t.left = s.left /\ t.coins = s.coins /\ t.status = s.status

\* q2 is q with one more element, at p
InsertedAt(q, q2, p, dig) ==
    /\ p \in DOMAIN q2 /\ q2[p] = dig
    /\ \A i \in DOMAIN q2 : i < p => i \in DOMAIN q /\ q2[i] = q[i]
    /\ \A i \in DOMAIN q2 : i > p => i - 1 \in DOMAIN q /\ q2[i] = q[i - 1]
    /\ \A i \in DOMAIN q : \E j \in DOMAIN q2 : q2[j] = q[i]
    /\ DOMAIN q2 \subseteq Nat

Delayed(s, t, dig) ==
    /\ \A i \in 1..Slots : s.licenses[i].allowed = s.licenses[i].used
    /\ \E p \in Nat : InsertedAt(s.digQueue, t.digQueue, p, dig)
    /\ t.licenses = s.licenses /\ t.calls = s.calls
    /\ t.left = s.left /\ t.coins = s.coins /\ t.status = s.status

LEMMA FirstSlotIs ==
    ASSUME NEW S \in SUBSET (1..Slots), S # {}
    PROVE  Min(S) \in S
<1>1. PICK x \in S : \A y \in S : x <= y
  <2>1. S \subseteq Nat
    BY GoldRushAssumption
  <2> QED  BY <2>1, HasMin
<1> QED  BY <1>1 DEF Min

LEMMA AddDigRequestIs ==
    ASSUME NEW s \in Clients, NEW dig \in Digs
    PROVE  /\ AddDigRequest(s, dig) \in Clients
           /\ AddDigRequest(s, dig) =
                  [s EXCEPT !.digQueue = AddDigRequest(s, dig).digQueue]
           /\ \E p \in Nat : InsertedAt(s.digQueue, AddDigRequest(s, dig).digQueue, p, dig)
<1> DEFINE q == s.digQueue
           S == {i \in DOMAIN q : q[i].depth >= dig.depth}
           p == 1 + Cardinality(S)
           q2 == InsertAt(q, p, dig)
<1>1. q \in Seq(Digs) /\ Len(q) \in Nat /\ DOMAIN q = 1..Len(q)
  BY LenProperties DEF Clients
<1>2. p \in 1..(Len(q) + 1) /\ p \in Nat
  <2>1. IsFiniteSet(1..Len(q)) /\ Cardinality(1..Len(q)) = Len(q)
    <3> DEFINE n == Len(q)
    <3>1. n \in Nat
      BY <1>1
    <3> HIDE DEF n, q
    <3>2. /\ IsFiniteSet(1..n)
          /\ Cardinality(1..n) = IF 1 > n THEN 0 ELSE n - 1 + 1
      BY <3>1, FS_Interval
    <3>3. Cardinality(1..n) = n
      BY <3>1, <3>2
    <3> QED  BY <3>2, <3>3 DEF n
  <2>2. S \subseteq 1..Len(q)
    BY <1>1
  <2>3. Cardinality(S) \in Nat /\ Cardinality(S) <= Len(q)
    BY <2>1, <2>2, FS_Subset, FS_CardinalityType
  <2> QED  BY <1>1, <2>3
<1>3. AddDigRequest(s, dig) = [s EXCEPT !.digQueue = q2]
  BY DEF AddDigRequest
<1> HIDE DEF p, q
<1>4. /\ q2 \in Seq(Digs)
      /\ Len(q2) = Len(q) + 1
      /\ \A i \in 1..(p - 1) : q2[i] = q[i]
      /\ q2[p] = dig
      /\ \A i \in (p + 1)..(Len(q) + 1) : q2[i] = q[i - 1]
  <2>1. q \in Seq(Digs) /\ p \in 1..(Len(q) + 1)
    BY <1>1, <1>2
  <2> QED  BY <2>1, Inserted, SMTT(30)
<1> HIDE DEF q2
<1>5. DOMAIN q2 = 1..(Len(q) + 1)
  BY <1>4, LenProperties
<1>6. InsertedAt(q, q2, p, dig)
  <2>1. ASSUME NEW i \in DOMAIN q PROVE \E j \in DOMAIN q2 : q2[j] = q[i]
    <3>1. CASE i < p
      <4>1. i \in 1..(p - 1) /\ i \in DOMAIN q2
        BY <1>1, <1>2, <1>5, <3>1
      <4> QED  BY <1>4, <4>1
    <3>2. CASE i >= p
      <4>1. i + 1 \in (p + 1)..(Len(q) + 1) /\ i + 1 \in DOMAIN q2 /\ (i + 1) - 1 = i
        BY <1>1, <1>2, <1>5, <3>2
      <4>2. q2[i + 1] = q[(i + 1) - 1]
        BY <1>4, <4>1
      <4> QED  BY <4>1, <4>2
    <3> QED  BY <1>1, <1>2, <3>1, <3>2
  <2>2. ASSUME NEW i \in DOMAIN q2, i < p PROVE i \in DOMAIN q /\ q2[i] = q[i]
    <3>1. i \in 1..(p - 1) /\ i \in DOMAIN q
      BY <1>1, <1>2, <1>5, <2>2
    <3> QED  BY <1>4, <3>1
  <2>3. ASSUME NEW i \in DOMAIN q2, i > p PROVE i - 1 \in DOMAIN q /\ q2[i] = q[i - 1]
    <3>1. i \in (p + 1)..(Len(q) + 1) /\ i - 1 \in DOMAIN q
      BY <1>1, <1>2, <1>5, <2>3
    <3> QED  BY <1>4, <3>1
  <2>4. p \in DOMAIN q2 /\ DOMAIN q2 \subseteq Nat
    BY <1>1, <1>2, <1>5
  <2> QED  BY <1>4, <2>1, <2>2, <2>3, <2>4 DEF InsertedAt
<1>7. [s EXCEPT !.digQueue = q2] \in Clients /\ [s EXCEPT !.digQueue = q2].digQueue = q2
  BY <1>4 DEF Clients
<1> QED  BY <1>2, <1>3, <1>6, <1>7 DEF q

LEMMA ScheduleDigIs ==
    ASSUME NEW s \in Clients, NEW dig \in Digs
    PROVE  /\ ScheduleDig(s, dig) \in Clients
           /\ \/ Assigned(s, ScheduleDig(s, dig), dig)
              \/ Delayed(s, ScheduleDig(s, dig), dig)
<1> DEFINE S == SlotsWhere(s, Available)
<1>1. S = {i \in 1..Slots : s.licenses[i].allowed # s.licenses[i].used}
  BY DEF SlotsWhere, Available
<1>2. CASE S # {}
  <2> DEFINE i == FirstSlot(s, Available)
             u == [s EXCEPT !.licenses[i].used = @ + 1]
             call == DigCall(s.licenses[i].id, dig)
  <2>1. i \in S
    <3>1. S \in SUBSET (1..Slots)
      BY <1>1
    <3> QED  BY <1>2, <3>1, FirstSlotIs DEF FirstSlot
  <2>2. ScheduleDig(s, dig) = Send(u, call)
    BY <1>2 DEF ScheduleDig, HasAvailableLicense
  <2> HIDE DEF i
  <2>3. i \in 1..Slots /\ s.licenses[i].allowed # s.licenses[i].used
    BY <1>1, <2>1
  <2>4. /\ s.licenses \in [1..Slots -> Slot]
        /\ s.licenses[i] \in Slot
    BY <2>3 DEF Clients
  <2>5. [s.licenses EXCEPT ![i].used = @ + 1] \in [1..Slots -> Slot]
    <3>1. [s.licenses[i] EXCEPT !.used = @ + 1] \in Slot
      BY <2>4 DEF Slot
    <3> QED  BY <2>4, <3>1
  <2>6. u = [s EXCEPT !.licenses = [s.licenses EXCEPT ![i].used = @ + 1]]
    BY <2>3 DEF Clients
  <2>7. /\ u \in Clients
        /\ u.licenses = [s.licenses EXCEPT ![i].used = @ + 1]
        /\ u.calls = s.calls /\ u.digQueue = s.digQueue /\ u.left = s.left
        /\ u.coins = s.coins /\ u.status = s.status
    <3> DEFINE lic == [s.licenses EXCEPT ![i].used = @ + 1]
    <3>1. lic \in [1..Slots -> Slot] /\ u = [s EXCEPT !.licenses = lic]
      BY <2>5, <2>6
    <3> HIDE DEF lic, u
    <3>2. /\ [s EXCEPT !.licenses = lic] \in Clients
          /\ [s EXCEPT !.licenses = lic].licenses = lic
          /\ [s EXCEPT !.licenses = lic].calls = s.calls
          /\ [s EXCEPT !.licenses = lic].digQueue = s.digQueue
          /\ [s EXCEPT !.licenses = lic].left = s.left
          /\ [s EXCEPT !.licenses = lic].coins = s.coins
          /\ [s EXCEPT !.licenses = lic].status = s.status
      BY <3>1 DEF Clients
    <3> QED  BY <3>1, <3>2 DEF lic
  <2>8. call \in AnyCall
    BY <2>4 DEF AnyCall, DigCalls, DigCall, Digs, Slot
  <2> HIDE DEF u, call
  <2>9. /\ Send(u, call) \in Clients
        /\ More(Send(u, call).calls, u.calls, call)
        /\ Send(u, call) = [u EXCEPT !.calls = Send(u, call).calls]
    BY <2>7, <2>8, SendIs
  <2>10. /\ Send(u, call).coins = u.coins /\ Send(u, call).licenses = u.licenses
         /\ Send(u, call).digQueue = u.digQueue /\ Send(u, call).left = u.left
         /\ Send(u, call).status = u.status
    BY <2>7, <2>9 DEF Clients
  <2>11. Assigned(s, Send(u, call), dig)
    BY <2>3, <2>7, <2>9, <2>10 DEF Assigned, call
  <2> QED  BY <2>2, <2>9, <2>11
<1>3. CASE S = {}
  <2>1. ScheduleDig(s, dig) = AddDigRequest(s, dig)
    BY <1>3 DEF ScheduleDig, HasAvailableLicense
  <2>2. /\ AddDigRequest(s, dig) \in Clients
        /\ AddDigRequest(s, dig) =
               [s EXCEPT !.digQueue = AddDigRequest(s, dig).digQueue]
        /\ \E p \in Nat : InsertedAt(s.digQueue, AddDigRequest(s, dig).digQueue, p, dig)
    BY AddDigRequestIs
  <2>3. Delayed(s, AddDigRequest(s, dig), dig)
    BY <1>1, <1>3, <2>2 DEF Delayed, Clients
  <2> QED  BY <2>1, <2>2, <2>3
<1> QED  BY <1>2, <1>3
-----------------------------------------------------------------------------
(***************************************************************************)
(* A slot changes.                                                         *)
(***************************************************************************)
Licenses == [1..Slots -> Slot]

LEMMA SlotType ==
    ASSUME NEW lic \in Licenses, NEW i \in 1..Slots
    PROVE  /\ lic[i] \in Slot
           /\ lic[i].id \in Nat /\ lic[i].allowed \in Nat
           /\ lic[i].used \in Nat /\ lic[i].confirmed \in Nat
BY DEF Licenses, Slot

LEMMA SlotSums ==
    ASSUME NEW lic \in Licenses
    PROVE  \A L : Spare(lic, L) \in Int /\ Owed(lic, L) \in Int
<1> TAKE L
<1>1. IsFiniteSet(1..Slots)
  BY FS_Interval, GoldRushAssumption
<1>2. \A i \in 1..Slots : Sparing(lic, L)[i] \in Int /\ Owing(lic, L)[i] \in Int
  BY SlotType DEF Sparing, Owing
<1> QED  BY <1>1, <1>2, SumInt DEF Spare, Owed

Replaced(lic, new, i, l) == new = [lic EXCEPT ![i] = l]
UsesOne(lic, new, i) == new = [lic EXCEPT ![i].used = @ + 1]
ConfirmsOne(lic, new, i) == new = [lic EXCEPT ![i].confirmed = @ + 1]

LEMMA SlotChange ==
    ASSUME NEW lic \in Licenses, NEW i \in 1..Slots, NEW l \in Slot,
           NEW new, Replaced(lic, new, i, l)
    PROVE  /\ new \in Licenses
           /\ \A L : /\ Spare(new, L) =
                            Spare(lic, L)
                            - (IF lic[i].id = L THEN lic[i].allowed - lic[i].used ELSE 0)
                            + (IF l.id = L THEN l.allowed - l.used ELSE 0)
                     /\ Owed(new, L) =
                            Owed(lic, L)
                            - (IF lic[i].id = L THEN lic[i].allowed - lic[i].confirmed ELSE 0)
                            + (IF l.id = L THEN l.allowed - l.confirmed ELSE 0)
<1>1. new \in Licenses /\ new[i] = l /\ \A j \in 1..Slots \ {i} : new[j] = lic[j]
  BY DEF Licenses, Replaced
<1> SUFFICES ASSUME NEW L
             PROVE  /\ Spare(new, L) =
                            Spare(lic, L)
                            - (IF lic[i].id = L THEN lic[i].allowed - lic[i].used ELSE 0)
                            + (IF l.id = L THEN l.allowed - l.used ELSE 0)
                    /\ Owed(new, L) =
                            Owed(lic, L)
                            - (IF lic[i].id = L THEN lic[i].allowed - lic[i].confirmed ELSE 0)
                            + (IF l.id = L THEN l.allowed - l.confirmed ELSE 0)
  BY <1>1
<1>2. IsFiniteSet(1..Slots)
  BY FS_Interval, GoldRushAssumption
<1>3. /\ \A j \in 1..Slots : Sparing(lic, L)[j] \in Int /\ Owing(lic, L)[j] \in Int
      /\ \A j \in 1..Slots : Sparing(new, L)[j] \in Int /\ Owing(new, L)[j] \in Int
  BY <1>1, SlotType DEF Sparing, Owing
<1>4. \A j \in 1..Slots \ {i} : /\ Sparing(new, L)[j] = Sparing(lic, L)[j]
                                /\ Owing(new, L)[j] = Owing(lic, L)[j]
  BY <1>1 DEF Sparing, Owing
<1>5. /\ Sparing(lic, L)[i] = IF lic[i].id = L THEN lic[i].allowed - lic[i].used ELSE 0
      /\ Sparing(new, L)[i] = IF l.id = L THEN l.allowed - l.used ELSE 0
      /\ Owing(lic, L)[i] = IF lic[i].id = L THEN lic[i].allowed - lic[i].confirmed ELSE 0
      /\ Owing(new, L)[i] = IF l.id = L THEN l.allowed - l.confirmed ELSE 0
  BY <1>1 DEF Sparing, Owing
<1> DEFINE f == Sparing(lic, L)  g == Sparing(new, L)
           h == Owing(lic, L)    k == Owing(new, L)
           S == 1..Slots
<1>6. i \in S /\ IsFiniteSet(S)
  BY <1>2
<1>7. /\ \A j \in S : f[j] \in Int /\ g[j] \in Int /\ h[j] \in Int /\ k[j] \in Int
      /\ \A j \in S \ {i} : g[j] = f[j] /\ k[j] = h[j]
  BY <1>3, <1>4
<1> HIDE DEF f, g, h, k, S
<1>0. \A j \in S : \A u, v :
          /\ \A y \in S : u[y] \in Int
          /\ v[j] \in Int
          /\ \A y \in S \ {j} : v[y] = u[y]
          => Sum(v, S) = Sum(u, S) - u[j] + v[j]
  BY <1>6, SumChanges, Zenon
<1>8. Sum(g, S) = Sum(f, S) - f[i] + g[i]
  <2>1. /\ \A y \in S : f[y] \in Int
        /\ g[i] \in Int
        /\ \A y \in S \ {i} : g[y] = f[y]
    BY <1>6, <1>7
  <2> QED  BY <1>0, <1>6, <2>1
<1>9. Sum(k, S) = Sum(h, S) - h[i] + k[i]
  <2>1. /\ \A y \in S : h[y] \in Int
        /\ k[i] \in Int
        /\ \A y \in S \ {i} : k[y] = h[y]
    BY <1>6, <1>7
  <2> QED  BY <1>0, <1>6, <2>1
<1> QED  BY <1>5, <1>8, <1>9 DEF f, g, h, k, S, Spare, Owed

(***************************************************************************)
(* A dig is given to a slot.                                               *)
(***************************************************************************)
LEMMA AssignPlaces ==
    ASSUME NEW B, IsBagOf(B, AnyCall), NEW C, NEW call \in DigCalls, More(C, B, call),
           NEW R, IsBagOf(R, AnyReply), NEW q, NEW left, NEW H, call.cell \in H,
           Places(q, B, left, R, H)
    PROVE  Places(q, C, left, R, H \ {call.cell})
<1>1. ASSUME NEW c
      PROVE  /\ UnderWay(C, R, c) = UnderWay(B, R, c) + (IF call.cell = c THEN 1 ELSE 0)
             /\ UnderWay(B, R, c) \in Nat
  <2>1. Count(B, DigCallsIn(c)) \in Nat /\ Count(R, DigRepliesIn(c)) \in Nat
    BY CountType
  <2>2. Count(C, DigCallsIn(c)) = Count(B, DigCallsIn(c)) + (IF call.cell = c THEN 1 ELSE 0)
    BY DEF More, DigCallsIn
  <2> QED  BY <2>1, <2>2 DEF UnderWay
<1> QED  BY <1>1 DEF Places, Num

LEMMA AssignBudget ==
    ASSUME NEW B, IsBagOf(B, AnyCall), NEW C, NEW call \in DigCalls, More(C, B, call),
           NEW R, IsBagOf(R, AnyReply), NEW lic \in Licenses,
           NEW i \in 1..Slots, lic[i].allowed # lic[i].used, call.license = lic[i].id,
           NEW new, UsesOne(lic, new, i), Budget(lic, B, R)
    PROVE  /\ Budget(new, C, R)
           /\ \A L : Spare(new, L) + Count(C, DigCallsOf(L))
                         = Spare(lic, L) + Count(B, DigCallsOf(L))
           /\ \A L : Owed(new, L) = Owed(lic, L)
           /\ Busy(new) = Busy(lic)
<1> DEFINE l == [lic[i] EXCEPT !.used = @ + 1]
<1>1. /\ l \in Slot /\ l.id = lic[i].id /\ l.allowed = lic[i].allowed
      /\ l.confirmed = lic[i].confirmed /\ l.used = lic[i].used + 1
  BY SlotType DEF Slot
<1>2. Replaced(lic, new, i, l)
  BY DEF Replaced, UsesOne
<1>3. new[i] = l /\ \A j \in 1..Slots \ {i} : new[j] = lic[j]
  BY <1>2 DEF Licenses, Replaced
<1> HIDE DEF l
<1>4. \A L : /\ Spare(new, L) =
                    Spare(lic, L)
                    - (IF lic[i].id = L THEN lic[i].allowed - lic[i].used ELSE 0)
                    + (IF l.id = L THEN l.allowed - l.used ELSE 0)
             /\ Owed(new, L) =
                    Owed(lic, L)
                    - (IF lic[i].id = L THEN lic[i].allowed - lic[i].confirmed ELSE 0)
                    + (IF l.id = L THEN l.allowed - l.confirmed ELSE 0)
  BY <1>1, <1>2, SlotChange
<1>5. /\ \A L : Spare(lic, L) \in Int /\ Owed(lic, L) \in Int
      /\ \A L : Count(B, DigCallsOf(L)) \in Nat /\ Count(R, DigRepliesOf(L)) \in Nat
  BY SlotSums, CountType
<1>6. \A L : Count(C, DigCallsOf(L)) = Count(B, DigCallsOf(L))
                                          + (IF lic[i].id = L THEN 1 ELSE 0)
  BY DEF More, DigCallsOf
<1>7. /\ lic[i].allowed \in Nat /\ lic[i].used \in Nat /\ lic[i].confirmed \in Nat
      /\ lic[i].used <= lic[i].allowed
  BY SlotType DEF Budget
<1>8. ASSUME NEW L
      PROVE  /\ Spare(new, L) + Count(C, DigCallsOf(L))
                    = Spare(lic, L) + Count(B, DigCallsOf(L))
             /\ Owed(new, L) = Owed(lic, L)
  <2>1. /\ Spare(lic, L) \in Int /\ Owed(lic, L) \in Int
        /\ Count(B, DigCallsOf(L)) \in Nat
    BY <1>5
  <2>2. CASE lic[i].id = L
    <3> DEFINE a == lic[i].allowed  u == lic[i].used  k == lic[i].confirmed
               x == Spare(lic, L)   o == Owed(lic, L)  d == Count(B, DigCallsOf(L))
    <3>1. /\ Spare(new, L) = x - (a - u) + (a - (u + 1))
          /\ Owed(new, L) = o - (a - k) + (a - k)
          /\ Count(C, DigCallsOf(L)) = d + 1
      BY <1>1, <1>4, <1>6, <2>2
    <3>2. a \in Int /\ u \in Int /\ k \in Int /\ x \in Int /\ o \in Int /\ d \in Int
      BY <1>7, <2>1
    <3> HIDE DEF a, u, k, x, o, d
    <3>3. x - (a - u) + (a - (u + 1)) + (d + 1) = x + d /\ o - (a - k) + (a - k) = o
      BY <3>2
    <3>4. Spare(new, L) + Count(C, DigCallsOf(L)) = x + d /\ Owed(new, L) = o
      BY <3>1, <3>3
    <3> QED  BY <3>4 DEF x, o, d
  <2>3. CASE lic[i].id # L
    <3>1. /\ Spare(new, L) = Spare(lic, L) - 0 + 0 /\ Owed(new, L) = Owed(lic, L) - 0 + 0
          /\ Count(C, DigCallsOf(L)) = Count(B, DigCallsOf(L)) + 0
      BY <1>1, <1>4, <1>6, <2>3
    <3> QED  BY <2>1, <3>1
  <2> QED  BY <2>2, <2>3
<1>9. Busy(new) = Busy(lic)
  BY <1>1, <1>3 DEF Busy
<1>10. \A j \in 1..Slots : new[j].used <= new[j].allowed
  BY <1>1, <1>3, <1>7 DEF Budget
<1>11. \A L \in Nat : Spare(new, L) + Count(C, DigCallsOf(L))
                          + Count(R, DigRepliesOf(L)) <= Owed(new, L)
  BY <1>8 DEF Budget
<1> QED  BY <1>8, <1>9, <1>10, <1>11 DEF Budget

LEMMA AssignLicensed ==
    ASSUME NEW B, IsBagOf(B, AnyCall), NEW C, IsBagOf(C, AnyCall),
           NEW call \in DigCalls, More(C, B, call),
           NEW R, NEW lic, NEW new, NEW act, NEW n,
           \A L : Spare(new, L) + Count(C, DigCallsOf(L))
                      = Spare(lic, L) + Count(B, DigCallsOf(L)),
           \A L : Owed(new, L) = Owed(lic, L),
           Busy(new) = Busy(lic),
           Licensed(lic, B, R, act, n)
    PROVE  Licensed(new, C, R, act, n)
<1>1. Count(C, LicenseCalls) = Count(B, LicenseCalls)
  BY AgreeIs, CallKinds DEF Agree
<1>2. Entitled(new, C, R, act)
  BY DEF Licensed, Entitled
<1>3. ASSUME NEW Lost, Accounted(lic, B, R, act, n, Lost)
      PROVE  Accounted(new, C, R, act, n, Lost)
  BY <1>1, <1>3 DEF Accounted
<1> QED  BY <1>2, <1>3 DEF Licensed

LEMMA AssignInStep ==
    ASSUME NEW B, NEW C, NEW call \in DigCalls, More(C, B, call),
           NEW R, NEW q, NEW dug, call.depth = dug[call.cell] + 1,
           InStep(q, B, R, dug)
    PROVE  InStep(q, C, R, dug)
BY DEF More, InStep

(***************************************************************************)
(* A dig is delayed.                                                       *)
(***************************************************************************)
LEMMA DelayPlaces ==
    ASSUME NEW B, IsBagOf(B, AnyCall), NEW R, IsBagOf(R, AnyReply),
           NEW q, NEW q2, NEW p \in Nat, NEW dig \in Digs, InsertedAt(q, q2, p, dig),
           NEW left, NEW H, dig.cell \in H, Places(q, B, left, R, H)
    PROVE  Places(q2, B, left, R, H \ {dig.cell})
<1>0. dig.cell \in Cell
  BY DEF Digs
<1>1. \A c : UnderWay(B, R, c) \in Nat
  BY CountType DEF UnderWay
<1>2. dig.cell \notin QCells(q)
  BY <1>0, <1>1 DEF Places, Num
<1>3. QCells(q2) = QCells(q) \cup {dig.cell}
  <2>1. ASSUME NEW i \in DOMAIN q2 PROVE q2[i].cell \in QCells(q) \cup {dig.cell}
    <3>1. i < p \/ i = p \/ i > p
      BY DEF InsertedAt
    <3> QED  BY <3>1 DEF InsertedAt, QCells
  <2>2. \A i \in DOMAIN q : \E j \in DOMAIN q2 : q2[j] = q[i]
    BY DEF InsertedAt
  <2>3. dig.cell \in QCells(q2)
    BY DEF InsertedAt, QCells
  <2> QED  BY <2>1, <2>2, <2>3 DEF QCells
<1>4. ASSUME NEW i \in DOMAIN q2, NEW j \in DOMAIN q2, q2[i].cell = q2[j].cell
      PROVE  i = j
  <2>1. \A k \in DOMAIN q : q[k].cell # dig.cell
    BY <1>2 DEF QCells
  <2>2. \A k \in DOMAIN q2 : \/ k = p
                             \/ k < p /\ k \in DOMAIN q /\ q2[k] = q[k]
                             \/ k > p /\ k - 1 \in DOMAIN q /\ q2[k] = q[k - 1]
    BY DEF InsertedAt
  <2>3. \A k, m \in DOMAIN q : q[k].cell = q[m].cell => k = m
    BY DEF Places
  <2>4. q2[p] = dig /\ i \in Nat /\ j \in Nat
    BY DEF InsertedAt
  <2> QED  BY <1>4, <2>1, <2>2, <2>3, <2>4
<1>5. ASSUME NEW c \in Cell
      PROVE  UnderWay(B, R, c) + Num(c \in QCells(q2)) + Num(c \in H \ {dig.cell})
                 = Num(left[c] > 0)
  <2>1. UnderWay(B, R, c) + Num(c \in QCells(q)) + Num(c \in H) = Num(left[c] > 0)
    BY DEF Places
  <2>2. c \in QCells(q2) <=> c \in QCells(q) \/ c = dig.cell
    BY <1>3
  <2> QED  BY <1>1, <1>2, <2>1, <2>2 DEF Num
<1> QED  BY <1>4, <1>5 DEF Places

LEMMA DelayInStep ==
    ASSUME NEW q, NEW q2, NEW p \in Nat, NEW dig \in Digs, InsertedAt(q, q2, p, dig),
           NEW B, NEW R, NEW dug, dig.depth = dug[dig.cell] + 1, InStep(q, B, R, dug)
    PROVE  InStep(q2, B, R, dug)
<1>1. ASSUME NEW i \in DOMAIN q2 PROVE q2[i].depth = dug[q2[i].cell] + 1
  <2>1. i < p \/ i = p \/ i > p
    BY DEF InsertedAt
  <2> QED  BY <2>1 DEF InsertedAt, InStep
<1> QED  BY <1>1 DEF InStep
-----------------------------------------------------------------------------
(***************************************************************************)
(* The steps of the handlers keep the parts of the invariant.              *)
(***************************************************************************)
LEMMA ClientType ==
    ASSUME NEW s \in Clients
    PROVE  /\ s.licenses \in Licenses
           /\ s.digQueue \in Seq(Digs)
           /\ s.left \in [Cell -> 0..MaxDepth]
           /\ s.coins \in Seq(Nat)
           /\ IsBagOf(s.calls, AnyCall)
           /\ s.status \in {"running", "stopped", "ended", "terminated"}
BY CallBagsAre DEF Clients, Licenses

LEMMA AgreeSame ==
    ASSUME NEW B, NEW M
    PROVE  Agree(B, B, M)
BY DEF Agree

LEMMA ScheduleDigTame ==
    ASSUME NEW s \in Clients, NEW R, IsBagOf(R, AnyReply), NEW H, NEW F, NEW n, NEW D,
           NEW dig \in Digs, dig.cell \in H, s.status = "running",
           faults = 0 => dig.depth = depthMap[dig.cell] + 1,
           Tame(s, R, H, F, n, D)
    PROVE  /\ ScheduleDig(s, dig) \in Clients
           /\ ScheduleDig(s, dig).status = "running"
           /\ Tame(ScheduleDig(s, dig), R, H \ {dig.cell}, F, n, D)
<1> DEFINE t == ScheduleDig(s, dig)
           c == dig.cell
<1>1. t \in Clients /\ (Assigned(s, t, dig) \/ Delayed(s, t, dig))
  BY ScheduleDigIs
<1> HIDE DEF t
<1>2. s.licenses \in Licenses /\ IsBagOf(s.calls, AnyCall) /\ IsBagOf(t.calls, AnyCall)
  BY <1>1, ClientType
<1>3. CASE Assigned(s, t, dig)
  <2>1. PICK i \in 1..Slots :
            /\ s.licenses[i].allowed # s.licenses[i].used
            /\ t.licenses = [s.licenses EXCEPT ![i].used = @ + 1]
            /\ More(t.calls, s.calls, DigCall(s.licenses[i].id, dig))
            /\ t.digQueue = s.digQueue
            /\ t.left = s.left /\ t.coins = s.coins /\ t.status = s.status
    BY <1>3 DEF Assigned
  <2> DEFINE call == DigCall(s.licenses[i].id, dig)
  <2>2. /\ call \in DigCalls /\ call.cell = c /\ call.depth = dig.depth
        /\ call.license = s.licenses[i].id
    BY <1>2, SlotType DEF DigCall, DigCalls, Digs
  <2> HIDE DEF call
  <2>3. More(t.calls, s.calls, call)
    BY <2>1 DEF call
  <2>4. Agree(s.calls, t.calls, LicenseCalls) /\ Agree(s.calls, t.calls, CashCalls)
    BY <1>2, <2>2, <2>3, AgreeIs, CallKinds
  <2>5. Conserving(t.licenses, t.digQueue)
    BY <2>1 DEF Tame, Conserving
  <2>6. Coined(t.coins, t.calls, R, coins, nextCoin, faults)
    BY <2>1, <2>4, AgreeSame, FrameCoined DEF Tame
  <2>7. Cashed(t.calls, R, F, treasure, registry, faults)
    BY <2>4, AgreeSame, FrameCashed DEF Tame
  <2>8. Places(t.digQueue, t.calls, t.left, R, H \ {c})
    BY <1>2, <2>1, <2>2, <2>3, AssignPlaces DEF Tame
  <2>9. /\ Budget(t.licenses, t.calls, R)
        /\ \A L : Spare(t.licenses, L) + Count(t.calls, DigCallsOf(L))
                      = Spare(s.licenses, L) + Count(s.calls, DigCallsOf(L))
        /\ \A L : Owed(t.licenses, L) = Owed(s.licenses, L)
        /\ Busy(t.licenses) = Busy(s.licenses)
    BY <1>2, <2>1, <2>2, <2>3, AssignBudget DEF Tame, UsesOne
  <2>10. ASSUME faults = 0
         PROVE  /\ InStep(t.digQueue, t.calls, R, depthMap)
                /\ Licensed(t.licenses, t.calls, R, active, n)
    <3>1. InStep(t.digQueue, t.calls, R, depthMap)
      BY <2>1, <2>2, <2>3, <2>10, AssignInStep DEF Tame
    <3>2. Licensed(s.licenses, s.calls, R, active, n)
      BY <2>10 DEF Tame
    <3>3. Licensed(t.licenses, t.calls, R, active, n)
      BY <1>2, <2>2, <2>3, <2>9, <3>2, AssignLicensed
    <3> QED  BY <3>1, <3>3
  <2> QED  BY <1>1, <2>1, <2>5, <2>6, <2>7, <2>8, <2>9, <2>10 DEF Tame, t
<1>4. CASE Delayed(s, t, dig)
  <2>1. /\ \A i \in 1..Slots : s.licenses[i].allowed = s.licenses[i].used
        /\ t.licenses = s.licenses /\ t.calls = s.calls
        /\ t.left = s.left /\ t.coins = s.coins /\ t.status = s.status
    BY <1>4 DEF Delayed
  <2>2. PICK p \in Nat : InsertedAt(s.digQueue, t.digQueue, p, dig)
    BY <1>4 DEF Delayed
  <2>3. Conserving(t.licenses, t.digQueue)
    BY <2>1 DEF Conserving
  <2>4. Places(t.digQueue, s.calls, s.left, R, H \ {c})
    BY <1>2, <2>2, DelayPlaces DEF Tame
  <2>5. faults = 0 => InStep(t.digQueue, s.calls, R, depthMap)
    BY <2>2, DelayInStep DEF Tame
  <2> QED  BY <1>1, <2>1, <2>3, <2>4, <2>5 DEF Tame, t
<1> QED  BY <1>1, <1>3, <1>4

(***************************************************************************)
(* A licence is asked for.                                                 *)
(***************************************************************************)
LEMMA RequestCoined ==
    ASSUME NEW B, IsBagOf(B, AnyCall), NEW C, IsBagOf(C, AnyCall),
           NEW R, IsBagOf(R, AnyReply), NEW wallet, NEW next, NEW f,
           NEW purse \in Seq(Nat), purse # <<>>, More(C, B, PaidLicense(Head(purse))),
           Coined(purse, B, R, wallet, next, f)
    PROVE  Coined(Tail(purse), C, R, wallet, next, f)
<1> DEFINE rest == Tail(purse)
           m == Len(purse)
<1>1. m \in Nat /\ m # 0 /\ DOMAIN purse = 1..m
  BY LenProperties, EmptySeq
<1>2. /\ Len(rest) = m - 1 /\ DOMAIN rest = 1..(m - 1)
      /\ \A i \in 1..(m - 1) : rest[i] = purse[i + 1]
      /\ Head(purse) = purse[1]
  BY <1>1, HeadTailProperties, LenProperties
<1> HIDE DEF rest, m
<1>3. \A i, j \in DOMAIN rest : rest[i] = rest[j] => i = j
  <2> SUFFICES ASSUME NEW i \in DOMAIN rest, NEW j \in DOMAIN rest, rest[i] = rest[j]
               PROVE  i = j
    OBVIOUS
  <2>1. i + 1 \in DOMAIN purse /\ j + 1 \in DOMAIN purse /\ i \in Nat /\ j \in Nat
    BY <1>1, <1>2
  <2>2. purse[i + 1] = purse[j + 1]
    BY <1>2
  <2>3. i + 1 = j + 1
    BY <2>1, <2>2 DEF Coined
  <2> QED  BY <2>1, <2>3
<1>4. ASSUME NEW k \in Nat
      PROVE  InPurse(purse, k) <=> InPurse(rest, k) \/ k = Head(purse)
  <2>1. ASSUME InPurse(purse, k) PROVE InPurse(rest, k) \/ k = Head(purse)
    <3>1. PICK i \in DOMAIN purse : purse[i] = k
      BY <2>1 DEF InPurse
    <3>2. CASE i = 1
      BY <1>2, <3>1, <3>2
    <3>3. CASE i # 1
      <4>1. i - 1 \in DOMAIN rest /\ (i - 1) + 1 = i
        BY <1>1, <1>2, <3>3
      <4>2. rest[i - 1] = purse[(i - 1) + 1]
        BY <1>2, <4>1
      <4> QED  BY <3>1, <4>1, <4>2 DEF InPurse
    <3> QED  BY <3>2, <3>3
  <2>2. ASSUME InPurse(rest, k) PROVE InPurse(purse, k)
    <3>1. PICK i \in DOMAIN rest : rest[i] = k
      BY <2>2 DEF InPurse
    <3>2. i + 1 \in DOMAIN purse /\ purse[i + 1] = k
      BY <1>1, <1>2, <3>1
    <3> QED  BY <3>2 DEF InPurse
  <2>3. k = Head(purse) => InPurse(purse, k)
    BY <1>1, <1>2 DEF InPurse
  <2> QED  BY <2>1, <2>2, <2>3
<1>5. ~InPurse(rest, Head(purse))
  <2> SUFFICES ASSUME NEW i \in DOMAIN rest, rest[i] = Head(purse) PROVE FALSE
    BY DEF InPurse
  <2>1. i + 1 \in DOMAIN purse /\ 1 \in DOMAIN purse /\ i \in Nat \ {0}
    BY <1>1, <1>2
  <2>2. purse[i + 1] = purse[1]
    BY <1>2
  <2>3. i + 1 = 1
    BY <2>1, <2>2 DEF Coined
  <2> QED  BY <2>1, <2>3
<1>6. ASSUME NEW k \in Nat PROVE CoinUse(rest, C, R, k) = CoinUse(purse, B, R, k)
  <2>1. /\ Count(B, {PaidLicense(k)}) \in Nat
        /\ Count(R, Brings(k)) \in Nat
    BY CountType
  <2>2. PaidLicense(Head(purse)) \in {PaidLicense(k)} <=> k = Head(purse)
    BY DEF PaidLicense
  <2>3. Count(C, {PaidLicense(k)})
            = Count(B, {PaidLicense(k)}) + (IF k = Head(purse) THEN 1 ELSE 0)
    BY <2>2 DEF More
  <2> QED  BY <1>4, <1>5, <2>1, <2>3 DEF CoinUse, Num
<1> QED  BY <1>3, <1>4, <1>6 DEF Coined, rest

LEMMA RequestLicensed ==
    ASSUME NEW B, IsBagOf(B, AnyCall), NEW C, IsBagOf(C, AnyCall),
           NEW call \in LicenseCalls, More(C, B, call),
           NEW R, IsBagOf(R, AnyReply), NEW lic, NEW act, NEW n \in Nat,
           Licensed(lic, B, R, act, n + 1)
    PROVE  Licensed(lic, C, R, act, n)
<1>1. \A L : Count(C, DigCallsOf(L)) = Count(B, DigCallsOf(L))
  BY AgreeIs, CallKinds, Parts DEF Agree
<1>2. Entitled(lic, C, R, act)
  BY <1>1 DEF Licensed, Entitled
<1>3. ASSUME NEW Lost, Accounted(lic, B, R, act, n + 1, Lost)
      PROVE  Accounted(lic, C, R, act, n, Lost)
  <2>1. Count(C, LicenseCalls) = Count(B, LicenseCalls) + 1
    BY DEF More
  <2>2. Count(B, LicenseCalls) \in Nat /\ Count(R, LicenseReplies) \in Nat
    BY CountType
  <2>4. Cardinality(Busy(lic)) \in Nat
    <3>1. IsFiniteSet(1..Slots) /\ Busy(lic) \subseteq 1..Slots
      BY FS_Interval, GoldRushAssumption DEF Busy
    <3> QED  BY <3>1, FS_Subset, FS_CardinalityType
  <2>5. Cardinality(Lost) \in Nat
    BY <1>3, FS_CardinalityType DEF Accounted
  <2>6. Slots \in Nat
    BY GoldRushAssumption
  <2>7. /\ \A L \in Lost \cup Fresh(R) : Spare(lic, L) + Count(C, DigCallsOf(L)) = 0
        /\ \A L \in DOMAIN act \ (Lost \cup Fresh(R)) :
              Count(R, DigRepliesOf(L)) + Rem(act, L) <= Owed(lic, L)
    BY <1>1, <1>3 DEF Accounted
  <2>8. Count(C, LicenseCalls) + Count(R, LicenseReplies)
            + Cardinality(Busy(lic)) + Cardinality(Lost) + n = Slots
    BY <1>3, <2>1, <2>2, <2>4, <2>5, <2>6 DEF Accounted
  <2> QED  BY <1>3, <2>7, <2>8 DEF Accounted
<1> QED  BY <1>2, <1>3 DEF Licensed

LEMMA RequestTame ==
    ASSUME NEW s \in Clients, NEW R, IsBagOf(R, AnyReply), NEW H, NEW F, NEW n \in Nat,
           NEW D, Tame(s, R, H, F, n + 1, D)
    PROVE  /\ ScheduleIssueLicense(s) \in Clients
           /\ ScheduleIssueLicense(s).status = s.status
           /\ Tame(ScheduleIssueLicense(s), R, H, F, n, D)
<1> DEFINE t == ScheduleIssueLicense(s)
<1>1. t \in Clients /\ Requested(s, t)
  BY ScheduleIssueLicenseIs
<1> HIDE DEF t
<1>2. PICK call \in LicenseCalls :
          /\ More(t.calls, s.calls, call)
          /\ \/ s.coins = <<>> /\ t.coins = s.coins /\ call = FreeLicense
             \/ s.coins # <<>> /\ t.coins = Tail(s.coins) /\ call = PaidLicense(Head(s.coins))
          /\ t.licenses = s.licenses /\ t.digQueue = s.digQueue
          /\ t.left = s.left /\ t.status = s.status
  BY <1>1 DEF Requested
<1>3. IsBagOf(s.calls, AnyCall) /\ IsBagOf(t.calls, AnyCall) /\ s.coins \in Seq(Nat)
  BY <1>1, ClientType
<1>4. Agree(s.calls, t.calls, DigCalls) /\ Agree(s.calls, t.calls, CashCalls)
  BY <1>2, <1>3, AgreeIs, CallKinds
<1>5. Coined(t.coins, t.calls, R, coins, nextCoin, faults)
  <2>1. CASE s.coins # <<>>
    BY <1>2, <1>3, <2>1, RequestCoined DEF Tame
  <2>2. CASE s.coins = <<>>
    <3>1. \A k \in Nat : Count(t.calls, {PaidLicense(k)}) = Count(s.calls, {PaidLicense(k)})
      <4> TAKE k \in Nat
      <4>1. call \notin {PaidLicense(k)}
        BY <1>2, <2>2 DEF FreeLicense, PaidLicense
      <4>2. Agree(s.calls, t.calls, {PaidLicense(k)})
        BY <1>2, <1>3, <4>1, AgreeIs
      <4> QED  BY <4>2 DEF Agree
    <3>2. \A k \in Nat : CoinUse(t.coins, t.calls, R, k) = CoinUse(s.coins, s.calls, R, k)
      BY <1>2, <2>2, <3>1 DEF CoinUse
    <3> QED  BY <1>2, <2>2, <3>2 DEF Tame, Coined
  <2> QED  BY <2>1, <2>2
<1>6. Cashed(t.calls, R, F, treasure, registry, faults)
  BY <1>4, AgreeSame, FrameCashed DEF Tame
<1>7. s.status = "running" => Places(t.digQueue, t.calls, t.left, R, H)
  BY <1>2, <1>4, AgreeSame, FramePlaces DEF Tame
<1>8. s.status = "running" => Budget(t.licenses, t.calls, R)
  BY <1>2, <1>4, AgreeSame, FrameBudget DEF Tame
<1>9. faults = 0 => InStep(t.digQueue, t.calls, R, depthMap)
  BY <1>2, <1>4, AgreeSame, FrameInStep DEF Tame
<1>10. faults = 0 => Licensed(t.licenses, t.calls, R, active, n)
  BY <1>2, <1>3, RequestLicensed DEF Tame
<1> QED  BY <1>1, <1>2, <1>5, <1>6, <1>7, <1>8, <1>9, <1>10 DEF Tame, t
-----------------------------------------------------------------------------
(***************************************************************************)
(* The answer to a dig is taken: its licence gets one more confirmation,   *)
(* its cell is to be dug further, and what it found is to be counted.      *)
(***************************************************************************)
HasDug(r) == IF r.status = 200 THEN {<<r.call.cell, r.call.depth>>} ELSE {}

LEMMA ReplyType ==
    ASSUME NEW r \in DigReplies
    PROVE  /\ r.call \in DigCalls
           /\ r.call.license \in Nat /\ r.call.cell \in Cell /\ r.call.depth \in Nat
           /\ r.call.depth \in 1..(MaxDepth + 1)
           /\ r.status \in {200, 404} => /\ r.call.depth \in 1..MaxDepth
                                         /\ r.call.depth + 1 \in 1..(MaxDepth + 1)
           /\ \A t \in TreasureId : r \in FoundAt(t) <=> t \in HasDug(r)
           /\ \A c \in Cell : r \in FoundIn(c) <=> \E t \in HasDug(r) : t[1] = c
<1>1. /\ r.call \in DigCalls
      /\ r.call.license \in Nat /\ r.call.cell \in Cell
      /\ r.call.depth \in 1..(MaxDepth + 1) /\ r.call.depth \in Nat
      /\ r.status \in {200, 404} => r.call.depth <= MaxDepth
  BY DEF DigReplies, DigCalls
<1>2. MaxDepth \in Nat
  BY GoldRushAssumption DEF Server!WorldAssumption
<1>3. r.status \in {200, 404} => /\ r.call.depth \in 1..MaxDepth
                                 /\ r.call.depth + 1 \in 1..(MaxDepth + 1)
  BY <1>1, <1>2
<1>4. ASSUME NEW c \in Cell PROVE r \in FoundIn(c) <=> \E t \in HasDug(r) : t[1] = c
  <2>1. r \in FoundIn(c) <=> r.status = 200 /\ r.call.cell = c
    BY DEF FoundIn, DigRepliesIn
  <2>2. CASE r.status = 200
    <3>1. HasDug(r) = {<<r.call.cell, r.call.depth>>}
      BY <2>2 DEF HasDug
    <3> QED  BY <2>1, <2>2, <3>1
  <2>3. CASE r.status # 200
    <3>1. HasDug(r) = {}
      BY <2>3 DEF HasDug
    <3> QED  BY <2>1, <2>3, <3>1
  <2> QED  BY <2>2, <2>3
<1>5. ASSUME NEW t \in TreasureId PROVE r \in FoundAt(t) <=> t \in HasDug(r)
  <2>1. t = <<t[1], t[2]>>
    BY DEF TreasureId, Server!TreasureId
  <2>2. r \in FoundAt(t) <=> r.status = 200 /\ r.call.cell = t[1] /\ r.call.depth = t[2]
    BY DEF FoundAt, FoundIn, DigRepliesIn
  <2>3. t \in HasDug(r) <=> r.status = 200 /\ t = <<r.call.cell, r.call.depth>>
    BY DEF HasDug
  <2> QED  BY <2>1, <2>2, <2>3
<1> QED  BY <1>1, <1>3, <1>4, <1>5

LEMMA TakeCashed ==
    ASSUME NEW B, IsBagOf(B, AnyCall), NEW R, IsBagOf(R, AnyReply),
           NEW Q, IsBagOf(Q, AnyReply), NEW r \in DigReplies, More(R, Q, r),
           NEW ground, NEW reg, NEW f, Cashed(B, R, {}, ground, reg, f)
    PROVE  Cashed(B, Q, HasDug(r), ground, reg, f)
<1>1. Agree(R, Q, CashReplies)
  BY AgreeIs, ReplyKinds
<1>2. ASSUME NEW t \in TreasureId
      PROVE  Exchange(B, Q, HasDug(r), t) = Exchange(B, R, {}, t)
  <2>1. Count(Q, AgainFor(t)) = Count(R, AgainFor(t))
    BY <1>1, Parts DEF Agree
  <2>2. Count(R, FoundAt(t)) = Count(Q, FoundAt(t)) + (IF r \in FoundAt(t) THEN 1 ELSE 0)
    BY DEF More
  <2>3. r \in FoundAt(t) <=> t \in HasDug(r)
    BY ReplyType
  <2>4. /\ Count(B, CashCallsFor(t)) \in Nat /\ Count(Q, AgainFor(t)) \in Nat
        /\ Count(Q, FoundAt(t)) \in Nat
    BY CountType
  <2> QED  BY <2>1, <2>2, <2>3, <2>4 DEF Exchange, Num
<1> QED  BY <1>2 DEF Cashed

LEMMA TakePlaces ==
    ASSUME NEW B, IsBagOf(B, AnyCall), NEW R, IsBagOf(R, AnyReply),
           NEW Q, IsBagOf(Q, AnyReply), NEW r \in DigReplies, More(R, Q, r),
           NEW q, NEW left, Places(q, B, left, R, {})
    PROVE  /\ Places(q, B, left, Q, {r.call.cell})
           /\ left[r.call.cell] > 0
<1>1. ASSUME NEW c
      PROVE  /\ UnderWay(B, R, c) = UnderWay(B, Q, c) + (IF r.call.cell = c THEN 1 ELSE 0)
             /\ UnderWay(B, Q, c) \in Nat
  <2>1. Count(B, DigCallsIn(c)) \in Nat /\ Count(Q, DigRepliesIn(c)) \in Nat
    BY CountType
  <2>2. Count(R, DigRepliesIn(c)) = Count(Q, DigRepliesIn(c))
                                        + (IF r.call.cell = c THEN 1 ELSE 0)
    BY DEF More, DigRepliesIn
  <2> QED  BY <2>1, <2>2 DEF UnderWay
<1>2. r.call.cell \in Cell
  BY ReplyType
<1> QED  BY <1>1, <1>2 DEF Places, Num

LEMMA TakeCounted ==
    ASSUME NEW R, IsBagOf(R, AnyReply),
           NEW Q, IsBagOf(Q, AnyReply), NEW r \in DigReplies, More(R, Q, r),
           NEW left, NEW cnt, NEW D, NEW f, Counted(left, R, {}, cnt, D, f)
    PROVE  Counted(left, Q, HasDug(r), cnt, D, f)
<1>1. ASSUME NEW c \in Cell
      PROVE  Uncounted(Q, HasDug(r), c) = Uncounted(R, {}, c)
  <2>1. Count(R, FoundIn(c)) = Count(Q, FoundIn(c)) + (IF r \in FoundIn(c) THEN 1 ELSE 0)
    BY DEF More
  <2>2. r \in FoundIn(c) <=> \E t \in HasDug(r) : t[1] = c
    BY ReplyType
  <2>3. Count(Q, FoundIn(c)) \in Nat
    BY CountType
  <2> QED  BY <2>1, <2>2, <2>3 DEF Uncounted, Num
<1> QED  BY <1>1 DEF Counted

\* getLicenseById finds the licence of an answered dig
LEMMA SlotFound ==
    ASSUME NEW lic \in Licenses, NEW L, Owed(lic, L) > 0
    PROVE  \E i \in 1..Slots : lic[i].id = L
<1> SUFFICES ASSUME \A i \in 1..Slots : lic[i].id # L PROVE FALSE
  OBVIOUS
<1> DEFINE S == 1..Slots
           Zero == [i \in S |-> 0]
<1>1. IsFiniteSet(S)
  BY FS_Interval, GoldRushAssumption
<1>2. \A i \in S : Owing(lic, L)[i] = Zero[i] /\ Zero[i] = 0
  BY DEF Owing
<1> HIDE DEF S, Zero
<1>3. Sum(Zero, S) <= 0
  <2> DEFINE F == {T \in SUBSET S : Sum(Zero, T) = 0}
  <2>1. {} \in F
    BY SumEmpty
  <2>2. ASSUME NEW T \in SUBSET S, NEW x \in S \ T, T \in F PROVE T \cup {x} \in F
    <3>1. Sum(Zero, T \cup {x}) = Zero[x] + Sum(Zero, T)
      BY <1>1, <1>2, SumGrow
    <3> QED  BY <1>2, <2>2, <3>1
  <2>3. S \in F
    <3> HIDE DEF F
    <3> QED  BY <1>1, <2>1, <2>2, FiniteInduction
  <2> QED  BY <2>3
<1>4. Sum(Owing(lic, L), S) = Sum(Zero, S)
  BY <1>1, <1>2, SumEqual
<1>5. Sum(Owing(lic, L), S) > 0
  BY DEF Owed, S
<1>6. Sum(Zero, S) \in Int
  BY <1>1, <1>2, SumInt
<1> QED  BY <1>3, <1>4, <1>5, <1>6

LEMMA TakeSlot ==
    ASSUME NEW lic \in Licenses, NEW i \in 1..Slots,
           NEW new, ConfirmsOne(lic, new, i)
    PROVE  /\ new \in Licenses
           /\ \A j \in 1..Slots :
                 /\ new[j].id = lic[j].id /\ new[j].allowed = lic[j].allowed
                 /\ new[j].used = lic[j].used
                 /\ new[j].confirmed = lic[j].confirmed + (IF j = i THEN 1 ELSE 0)
           /\ \A L : /\ Spare(new, L) = Spare(lic, L)
                     /\ Owed(new, L) = Owed(lic, L) - (IF lic[i].id = L THEN 1 ELSE 0)
<1> DEFINE l == [lic[i] EXCEPT !.confirmed = @ + 1]
<1>1. /\ l \in Slot /\ l.id = lic[i].id /\ l.allowed = lic[i].allowed
      /\ l.confirmed = lic[i].confirmed + 1 /\ l.used = lic[i].used
  BY SlotType DEF Slot
<1>2. Replaced(lic, new, i, l)
  BY DEF Replaced, ConfirmsOne
<1>3. new[i] = l /\ \A j \in 1..Slots \ {i} : new[j] = lic[j]
  BY <1>2 DEF Licenses, Replaced
<1> HIDE DEF l
<1>4. /\ new \in Licenses
      /\ \A L : /\ Spare(new, L) =
                    Spare(lic, L)
                    - (IF lic[i].id = L THEN lic[i].allowed - lic[i].used ELSE 0)
                    + (IF l.id = L THEN l.allowed - l.used ELSE 0)
             /\ Owed(new, L) =
                    Owed(lic, L)
                    - (IF lic[i].id = L THEN lic[i].allowed - lic[i].confirmed ELSE 0)
                    + (IF l.id = L THEN l.allowed - l.confirmed ELSE 0)
  BY <1>1, <1>2, SlotChange
<1>5. \A L : Spare(lic, L) \in Int /\ Owed(lic, L) \in Int
  BY SlotSums
<1>6. lic[i].allowed \in Nat /\ lic[i].used \in Nat /\ lic[i].confirmed \in Nat
  BY SlotType
<1>7. \A L : /\ Spare(new, L) = Spare(lic, L)
             /\ Owed(new, L) = Owed(lic, L) - (IF lic[i].id = L THEN 1 ELSE 0)
  BY <1>1, <1>4, <1>5, <1>6
<1>8. \A j \in 1..Slots :
          /\ new[j].id = lic[j].id /\ new[j].allowed = lic[j].allowed
          /\ new[j].used = lic[j].used
          /\ new[j].confirmed = lic[j].confirmed + (IF j = i THEN 1 ELSE 0)
  BY <1>1, <1>3, SlotType
<1> QED  BY <1>4, <1>7, <1>8

LEMMA TakeBudget ==
    ASSUME NEW B, IsBagOf(B, AnyCall), NEW R, IsBagOf(R, AnyReply),
           NEW Q, IsBagOf(Q, AnyReply), NEW r \in DigReplies, More(R, Q, r),
           NEW lic \in Licenses, NEW i \in 1..Slots, lic[i].id = r.call.license,
           NEW new, ConfirmsOne(lic, new, i), Budget(lic, B, R)
    PROVE  Budget(new, B, Q)
<1>1. /\ \A j \in 1..Slots : new[j].allowed = lic[j].allowed /\ new[j].used = lic[j].used
      /\ \A L : /\ Spare(new, L) = Spare(lic, L)
                /\ Owed(new, L) = Owed(lic, L) - (IF lic[i].id = L THEN 1 ELSE 0)
  BY TakeSlot
<1>2. ASSUME NEW L \in Nat
      PROVE  Spare(new, L) + Count(B, DigCallsOf(L)) + Count(Q, DigRepliesOf(L))
                 <= Owed(new, L)
  <2>1. Count(R, DigRepliesOf(L)) = Count(Q, DigRepliesOf(L))
                                        + (IF lic[i].id = L THEN 1 ELSE 0)
    BY DEF More, DigRepliesOf
  <2>2. /\ Count(B, DigCallsOf(L)) \in Nat /\ Count(Q, DigRepliesOf(L)) \in Nat
        /\ Spare(lic, L) \in Int /\ Owed(lic, L) \in Int
    BY CountType, SlotSums
  <2>3. Spare(lic, L) + Count(B, DigCallsOf(L)) + Count(R, DigRepliesOf(L)) <= Owed(lic, L)
    BY DEF Budget
  <2> QED  BY <1>1, <2>1, <2>2, <2>3
<1>3. \A j \in 1..Slots : new[j].used <= new[j].allowed
  BY <1>1 DEF Budget
<1> QED  BY <1>2, <1>3 DEF Budget

LEMMA TakeLicensed ==
    ASSUME NEW B, IsBagOf(B, AnyCall), NEW R, IsBagOf(R, AnyReply),
           NEW Q, IsBagOf(Q, AnyReply), NEW r \in DigReplies, More(R, Q, r),
           NEW lic \in Licenses, NEW i \in 1..Slots, lic[i].id = r.call.license,
           NEW new, ConfirmsOne(lic, new, i),
           NEW act, \A L : Rem(act, L) \in Int, Licensed(lic, B, R, act, 0)
    PROVE  Licensed(new, B, Q, act, IF Done(new[i]) THEN 1 ELSE 0)
<1> DEFINE n == IF Done(new[i]) THEN 1 ELSE 0
<1>1. /\ new \in Licenses
      /\ \A j \in 1..Slots : /\ new[j].allowed = lic[j].allowed
                             /\ new[j].confirmed =
                                    lic[j].confirmed + (IF j = i THEN 1 ELSE 0)
      /\ \A L : /\ Spare(new, L) = Spare(lic, L)
                /\ Owed(new, L) = Owed(lic, L) - (IF lic[i].id = L THEN 1 ELSE 0)
  BY TakeSlot
<1>2. Agree(R, Q, LicenseReplies)
  BY AgreeIs, ReplyKinds
<1>3. /\ DOMAIN Q \cap Grants = DOMAIN R \cap Grants
      /\ Count(Q, LicenseReplies) = Count(R, LicenseReplies)
      /\ \A g \in Grants : Count(Q, {g}) = Count(R, {g})
  <2>1. \A g \in Grants : {g} \subseteq LicenseReplies
    BY Parts
  <2> QED  BY <1>2, <2>1, Parts DEF Agree
<1>4. Fresh(Q) = Fresh(R)
  BY <1>3 DEF Fresh
<1>5. Entitled(new, B, Q, act)
  BY <1>1, <1>3 DEF Licensed, Entitled
<1>6. /\ IsFiniteSet(Busy(lic)) /\ IsFiniteSet(Busy(new))
      /\ Cardinality(Busy(new)) \in Nat
      /\ Cardinality(Busy(new)) + n = Cardinality(Busy(lic))
  <2>1. IsFiniteSet(1..Slots) /\ Busy(lic) \subseteq 1..Slots /\ Busy(new) \subseteq 1..Slots
    BY FS_Interval, GoldRushAssumption DEF Busy
  <2>2. IsFiniteSet(Busy(lic)) /\ IsFiniteSet(Busy(new))
    BY <2>1, FS_Subset
  <2>3. /\ Cardinality(Busy(lic)) \in Nat /\ Cardinality(Busy(new)) \in Nat
    BY <2>2, FS_CardinalityType
  <2>4. Busy(new) \subseteq Busy(lic)
    BY <1>1, SlotType DEF Busy
  <2>5. CASE Done(new[i])
    <3>1. i \in Busy(lic) /\ i \notin Busy(new)
      BY <1>1, <2>5, SlotType DEF Busy, Done
    <3>2. Cardinality(Busy(lic) \ {i}) = Cardinality(Busy(lic)) - 1
      BY <2>2, <3>1, FS_RemoveElement
    <3>3. Busy(new) = Busy(lic) \ {i}
      BY <1>1, <2>4, <3>1, SlotType DEF Busy
    <3>4. Cardinality(Busy(new)) = Cardinality(Busy(lic)) - 1
      BY <3>2, <3>3
    <3> QED  BY <2>2, <2>3, <2>5, <3>4
  <2>6. CASE ~Done(new[i])
    <3>1. Busy(new) = Busy(lic)
      <4>1. ASSUME NEW j \in Busy(lic) PROVE j \in Busy(new)
        <5>1. CASE j = i
          <6>1. /\ lic[i].confirmed \in Nat /\ lic[i].allowed \in Nat
                /\ lic[i].confirmed < lic[i].allowed
            BY <4>1, <5>1, SlotType DEF Busy
          <6>2. new[i].allowed = lic[i].allowed /\ new[i].confirmed = lic[i].confirmed + 1
            BY <1>1
          <6>3. new[i].allowed # new[i].confirmed
            BY <2>6 DEF Done
          <6> QED  BY <5>1, <6>1, <6>2, <6>3 DEF Busy
        <5>2. CASE j # i
          BY <1>1, <4>1, <5>2, SlotType DEF Busy
        <5> QED  BY <5>1, <5>2
      <4> QED  BY <2>4, <4>1
    <3> QED  BY <2>2, <2>3, <2>6, <3>1
  <2> QED  BY <2>5, <2>6
<1>7. ASSUME NEW Lost, Accounted(lic, B, R, act, 0, Lost)
      PROVE  Accounted(new, B, Q, act, n, Lost)
  <2>1. ASSUME NEW L \in DOMAIN act \ (Lost \cup Fresh(Q))
        PROVE  Count(Q, DigRepliesOf(L)) + Rem(act, L) <= Owed(new, L)
    <3>1. Count(R, DigRepliesOf(L)) = Count(Q, DigRepliesOf(L))
                                          + (IF lic[i].id = L THEN 1 ELSE 0)
      BY DEF More, DigRepliesOf
    <3>2. /\ Count(Q, DigRepliesOf(L)) \in Nat /\ Owed(lic, L) \in Int
      BY CountType, SlotSums
    <3>3. Count(R, DigRepliesOf(L)) + Rem(act, L) <= Owed(lic, L)
      BY <1>4, <1>7 DEF Accounted
    <3>4. Rem(act, L) \in Int
      OBVIOUS
    <3> QED  BY <1>1, <3>1, <3>2, <3>3, <3>4
  <2>2. /\ Count(B, LicenseCalls) \in Nat /\ Count(R, LicenseReplies) \in Nat
        /\ Cardinality(Lost) \in Nat /\ Slots \in Nat
    BY <1>7, CountType, FS_CardinalityType, GoldRushAssumption DEF Accounted
  <2>3. Cardinality(Busy(lic)) \in Nat
    BY <1>6, FS_CardinalityType
  <2>4. Count(B, LicenseCalls) + Count(Q, LicenseReplies)
            + Cardinality(Busy(new)) + Cardinality(Lost) + n = Slots
    BY <1>3, <1>6, <1>7, <2>2, <2>3 DEF Accounted
  <2>5. \A L \in Lost \cup Fresh(Q) : Spare(new, L) + Count(B, DigCallsOf(L)) = 0
    BY <1>1, <1>4, <1>7 DEF Accounted
  <2> QED  BY <1>7, <2>1, <2>4, <2>5 DEF Accounted
<1>8. Licensed(new, B, Q, act, n)
  BY <1>4, <1>5, <1>7 DEF Licensed
<1> QED  BY <1>8
-----------------------------------------------------------------------------
(***************************************************************************)
(* The handler of the answers to digs.                                     *)
(***************************************************************************)
LEMMA BagSmaller ==
    ASSUME NEW R, NEW Q, NEW r, More(R, Q, r)
    PROVE  DOMAIN Q \subseteq DOMAIN R /\ r \in DOMAIN R
BY DEF More

LEMMA ConfirmTame ==
    ASSUME NEW s \in Clients, s.status = "running",
           NEW R, IsBagOf(R, AnyReply), NEW Q, IsBagOf(Q, AnyReply),
           NEW r \in DigReplies, More(R, Q, r),
           NEW i \in 1..Slots, s.licenses[i].id = r.call.license,
           NEW D, W!IInv, Tame(s, R, {}, {}, 0, D)
    PROVE  /\ Confirm(s, i) \in Clients
           /\ Confirm(s, i).status = "running"
           /\ Confirm(s, i).left = s.left
           /\ Tame(Confirm(s, i), Q, {r.call.cell}, HasDug(r), 0, D)
<1> DEFINE new == [s.licenses EXCEPT ![i].confirmed = @ + 1]
           t == [s EXCEPT !.licenses[i].confirmed = @ + 1]
           n == IF Done(t.licenses[i]) THEN 1 ELSE 0
<1>1. s.licenses \in Licenses /\ IsBagOf(s.calls, AnyCall)
  BY ClientType
<1>2. ConfirmsOne(s.licenses, new, i)
  BY DEF ConfirmsOne
<1>3. t = [s EXCEPT !.licenses = new]
  BY DEF Clients
<1> HIDE DEF new
<1>4. /\ new \in Licenses
      /\ \A j \in 1..Slots : /\ new[j].allowed = s.licenses[j].allowed
                             /\ new[j].used = s.licenses[j].used
  BY <1>1, <1>2, TakeSlot
<1>5. /\ t \in Clients /\ t.licenses = new /\ t.calls = s.calls
      /\ t.digQueue = s.digQueue /\ t.left = s.left /\ t.coins = s.coins
      /\ t.status = s.status
  <2> HIDE DEF t
  <2>1. /\ [s EXCEPT !.licenses = new] \in Clients
        /\ [s EXCEPT !.licenses = new].licenses = new
        /\ [s EXCEPT !.licenses = new].calls = s.calls
        /\ [s EXCEPT !.licenses = new].digQueue = s.digQueue
        /\ [s EXCEPT !.licenses = new].left = s.left
        /\ [s EXCEPT !.licenses = new].coins = s.coins
        /\ [s EXCEPT !.licenses = new].status = s.status
    BY <1>4 DEF Clients, Licenses
  <2> QED  BY <1>3, <2>1
<1>6. Confirm(s, i) = IF Done(t.licenses[i]) THEN ScheduleIssueLicense(t) ELSE t
  BY DEF Confirm
<1> HIDE DEF t
<1>7. Conserving(t.licenses, t.digQueue)
  BY <1>4, <1>5 DEF Tame, Conserving
<1>8. Coined(t.coins, t.calls, Q, coins, nextCoin, faults)
  <2>1. Agree(R, Q, CashReplies)
    BY AgreeIs, ReplyKinds
  <2> QED  BY <1>5, <2>1, AgreeSame, FrameCoined DEF Tame
<1>9. Cashed(t.calls, Q, HasDug(r), treasure, registry, faults)
  BY <1>1, <1>5, TakeCashed DEF Tame
<1>10. Places(t.digQueue, t.calls, t.left, Q, {r.call.cell})
  BY <1>1, <1>5, TakePlaces DEF Tame
<1>11. Counted(t.left, Q, HasDug(r), counts, D, faults)
  BY <1>5, TakeCounted DEF Tame
<1>12. Budget(t.licenses, t.calls, Q)
  BY <1>1, <1>2, <1>5, TakeBudget DEF Tame
<1>13. ASSUME faults = 0
       PROVE  /\ InStep(t.digQueue, t.calls, Q, depthMap)
              /\ Licensed(t.licenses, t.calls, Q, active, n)
              /\ Answered(Q)
  <2>1. DOMAIN Q \subseteq DOMAIN R
    BY BagSmaller
  <2>2. InStep(t.digQueue, t.calls, Q, depthMap)
    BY <1>5, <1>13, <2>1 DEF Tame, InStep
  <2>3. Answered(Q)
    BY <1>13, <2>1, FrameAnswered DEF Tame
  <2>4. \A L : Rem(active, L) \in Int
    BY DEF Rem, W!IInv, W!LicenseInv, W!ActiveType, W!License
  <2>5. Licensed(s.licenses, s.calls, R, active, 0)
    BY <1>13 DEF Tame
  <2>6. Licensed(new, s.calls, Q, active, IF Done(new[i]) THEN 1 ELSE 0)
    BY <1>1, <1>2, <2>4, <2>5, TakeLicensed
  <2> QED  BY <1>5, <2>2, <2>3, <2>6
<1>14. Tame(t, Q, {r.call.cell}, HasDug(r), n, D)
  BY <1>5, <1>7, <1>8, <1>9, <1>10, <1>11, <1>12, <1>13 DEF Tame
<1>15. CASE Done(t.licenses[i])
  <2>1. Tame(t, Q, {r.call.cell}, HasDug(r), 0 + 1, D)
    BY <1>14, <1>15
  <2> HIDE DEF n
  <2>2. /\ ScheduleIssueLicense(t) \in Clients
        /\ ScheduleIssueLicense(t).status = t.status
        /\ Tame(ScheduleIssueLicense(t), Q, {r.call.cell}, HasDug(r), 0, D)
    BY <1>5, <2>1, RequestTame
  <2>3. ScheduleIssueLicense(t).left = t.left
    BY <1>5, ScheduleIssueLicenseIs DEF Requested
  <2> QED  BY <1>5, <1>6, <1>15, <2>2, <2>3
<1>16. CASE ~Done(t.licenses[i])
  BY <1>5, <1>6, <1>14, <1>16
<1> QED  BY <1>15, <1>16

(***************************************************************************)
(* A treasure was found: it is exchanged, and counted.                     *)
(***************************************************************************)
LEMMA CashCashed ==
    ASSUME NEW B, IsBagOf(B, AnyCall), NEW C, NEW R, IsBagOf(R, AnyReply),
           NEW t \in TreasureId,
           \/ More(C, B, CashCall(t, t[2])) /\ t[2] >= MinDepthToCash
           \/ C = B,
           NEW ground, NEW reg, NEW f, Cashed(B, R, {t}, ground, reg, f)
    PROVE  Cashed(C, R, {}, ground, reg, f)
<1>1. ASSUME NEW u \in TreasureId
      PROVE  /\ Exchange(C, R, {}, u) <= Exchange(B, R, {t}, u)
             /\ Exchange(C, R, {}, u) \in Nat
             /\ Exchange(B, R, {t}, u) \in Nat
  <2>1. /\ Count(B, CashCallsFor(u)) \in Nat /\ Count(R, AgainFor(u)) \in Nat
        /\ Count(R, FoundAt(u)) \in Nat
    BY CountType
  <2>2. CASE C = B
    BY <2>1, <2>2 DEF Exchange, Num
  <2>3. CASE More(C, B, CashCall(t, t[2])) /\ t[2] >= MinDepthToCash
    <3>1. CashCall(t, t[2]) \in CashCallsFor(u) <=> u = t
      BY <2>3 DEF CashCallsFor, CashCalls, CashCall
    <3>2. Count(C, CashCallsFor(u)) = Count(B, CashCallsFor(u)) + (IF u = t THEN 1 ELSE 0)
      BY <2>3, <3>1 DEF More
    <3> QED  BY <2>1, <3>2 DEF Exchange, Num
  <2> QED  BY <2>2, <2>3
<1> QED  BY <1>1 DEF Cashed

LEMMA LeftPlaces ==
    ASSUME NEW q, NEW B, IsBagOf(B, AnyCall), NEW R, IsBagOf(R, AnyReply),
           NEW left, NEW c \in Cell, left[c] \in Int, left[c] > 0,
           NEW new, new[c] = left[c] - 1, \A d \in Cell \ {c} : new[d] = left[d],
           Places(q, B, left, R, {c})
    PROVE  Places(q, B, new, R, IF new[c] = 0 THEN {} ELSE {c})
<1> DEFINE H == IF new[c] = 0 THEN {} ELSE {c}
<1>1. \A d : UnderWay(B, R, d) \in Nat
  BY CountType DEF UnderWay
<1>2. ASSUME NEW d \in Cell
      PROVE  UnderWay(B, R, d) + Num(d \in QCells(q)) + Num(d \in H) = Num(new[d] > 0)
  <2>1. UnderWay(B, R, d) + Num(d \in QCells(q)) + Num(d \in {c}) = Num(left[d] > 0)
    BY DEF Places
  <2>2. CASE d = c
    <3>1. d \in H <=> new[c] > 0
      BY <2>2
    <3> HIDE DEF H
    <3> QED  BY <1>1, <2>1, <2>2, <3>1 DEF Num
  <2>3. CASE d # c
    <3>1. d \notin H /\ d \notin {c} /\ new[d] = left[d]
      BY <2>3
    <3> HIDE DEF H
    <3> QED  BY <1>1, <2>1, <3>1 DEF Num
  <2> QED  BY <2>2, <2>3
<1>3. \A i, j \in DOMAIN q : q[i].cell = q[j].cell => i = j
  BY DEF Places
<1> QED  BY <1>2, <1>3 DEF Places

LEMMA LeftCounted ==
    ASSUME NEW R, IsBagOf(R, AnyReply), NEW cnt, \A c \in Cell : cnt[c] \in Nat,
           NEW left, NEW D, NEW f, NEW t, t[1] \in Cell,
           left[t[1]] \in Int, left[t[1]] > 0,
           NEW new, new[t[1]] = left[t[1]] - 1, \A d \in Cell \ {t[1]} : new[d] = left[d],
           Counted(left, R, {t}, cnt, D, f)
    PROVE  Counted(new, R, {}, cnt, D, f)
<1> SUFFICES ASSUME NEW c \in Cell
             PROVE  /\ c \notin D => new[c] = 0
                    /\ c \in D => /\ new[c] >= cnt[c] + Uncounted(R, {}, c)
                                  /\ f = 0 => new[c] = cnt[c] + Uncounted(R, {}, c)
  BY DEF Counted
<1>1. Count(R, FoundIn(c)) \in Nat
  BY CountType
<1>2. /\ Uncounted(R, {}, c) = Count(R, FoundIn(c))
      /\ Uncounted(R, {t}, c) = Count(R, FoundIn(c)) + (IF t[1] = c THEN 1 ELSE 0)
  BY <1>1 DEF Uncounted, Num
<1>3. /\ c \notin D => left[c] = 0
      /\ c \in D => /\ left[c] >= cnt[c] + Uncounted(R, {t}, c)
                    /\ f = 0 => left[c] = cnt[c] + Uncounted(R, {t}, c)
  BY DEF Counted
<1>4. CASE c = t[1]
  BY <1>1, <1>2, <1>3, <1>4
<1>5. CASE c # t[1]
  <2>1. new[c] = left[c] /\ Uncounted(R, {}, c) = Uncounted(R, {t}, c)
    BY <1>1, <1>2, <1>5
  <2> QED  BY <1>3, <2>1
<1> QED  BY <1>4, <1>5
LEMMA NextDig ==
    ASSUME NEW call \in DigCalls, call.depth \in 1..MaxDepth
    PROVE  /\ [cell |-> call.cell, depth |-> call.depth + 1] \in Digs
           /\ call.cell \in Cell
           /\ <<call.cell, call.depth>> \in TreasureId
<1>1. MaxDepth \in Nat
  BY GoldRushAssumption DEF Server!WorldAssumption
<1>2. call.cell \in Cell /\ call.depth + 1 \in 1..(MaxDepth + 1)
  BY <1>1 DEF DigCalls
<1> QED  BY <1>2 DEF Digs, TreasureId, Server!TreasureId, Cell, Server!Depths

LEMMA TreasureFoundTame ==
    ASSUME NEW s \in Clients, s.status = "running", NEW R, IsBagOf(R, AnyReply),
           NEW call \in DigCalls, call.depth \in 1..MaxDepth, s.left[call.cell] > 0,
           faults = 0 => call.depth = depthMap[call.cell],
           NEW D, W!IInv,
           Tame(s, R, {call.cell}, {<<call.cell, call.depth>>}, 0, D)
    PROVE  /\ TreasureFound(s, call) \in Clients
           /\ Tame(TreasureFound(s, call), R, {}, {}, 0, D)
<1> DEFINE c == call.cell
           tr == <<c, call.depth>>
           cash == CashCall(tr, call.depth)
           u == IF call.depth >= MinDepthToCash THEN Send(s, cash) ELSE s
           left == [s.left EXCEPT ![c] = @ - 1]
           t == [u EXCEPT !.left[c] = @ - 1]
           H == IF left[c] = 0 THEN {} ELSE {c}
           next == [cell |-> c, depth |-> call.depth + 1]
<1>1. next \in Digs /\ c \in Cell /\ tr \in TreasureId /\ tr[1] = c /\ tr[2] = call.depth
  BY NextDig
<1>2. /\ s.left \in [Cell -> 0..MaxDepth] /\ IsBagOf(s.calls, AnyCall)
      /\ s.licenses \in Licenses
  BY ClientType
<1>3. /\ left \in [Cell -> 0..MaxDepth] /\ left[c] = s.left[c] - 1
      /\ s.left[c] \in Int
      /\ \A d \in Cell \ {c} : left[d] = s.left[d]
      /\ left[c] \in Nat
  <2>1. MaxDepth \in Nat
    BY GoldRushAssumption DEF Server!WorldAssumption
  <2>2. s.left[c] \in 0..MaxDepth /\ s.left[c] - 1 \in 0..MaxDepth
    BY <1>1, <1>2, <2>1
  <2> QED  BY <1>1, <1>2, <2>1, <2>2
<1>4. TreasureFound(s, call) =
          IF t.left[c] < 0 THEN Stop(t)
          ELSE IF t.left[c] = 0 THEN t ELSE ScheduleDig(t, next)
  BY DEF TreasureFound
<1>5. /\ u \in Clients /\ u.licenses = s.licenses /\ u.digQueue = s.digQueue
      /\ u.left = s.left /\ u.coins = s.coins /\ u.status = s.status
      /\ \/ More(u.calls, s.calls, CashCall(tr, tr[2])) /\ tr[2] >= MinDepthToCash
         \/ u.calls = s.calls
  <2>1. CASE call.depth >= MinDepthToCash
    <3>1. cash \in AnyCall
      BY <1>1, <2>1 DEF AnyCall, CashCalls
    <3> HIDE DEF cash
    <3>2. /\ Send(s, cash) \in Clients
          /\ More(Send(s, cash).calls, s.calls, cash)
          /\ Send(s, cash) = [s EXCEPT !.calls = Send(s, cash).calls]
      BY <3>1, SendIs
    <3>3. /\ Send(s, cash).licenses = s.licenses /\ Send(s, cash).digQueue = s.digQueue
          /\ Send(s, cash).left = s.left /\ Send(s, cash).coins = s.coins
          /\ Send(s, cash).status = s.status
      BY <3>2 DEF Clients
    <3>4. u = Send(s, cash)
      BY <2>1
    <3> HIDE DEF u
    <3> QED  BY <1>1, <2>1, <3>2, <3>3, <3>4 DEF cash
  <2>2. CASE ~(call.depth >= MinDepthToCash)
    BY <2>2
  <2> QED  BY <2>1, <2>2
<1> HIDE DEF u, tr, next
<1>6. t = [u EXCEPT !.left = left]
  BY <1>5 DEF Clients
<1> HIDE DEF left
<1>7. /\ t \in Clients /\ t.licenses = s.licenses /\ t.digQueue = s.digQueue
      /\ t.left = left /\ t.coins = s.coins /\ t.status = s.status
      /\ t.calls = u.calls
  <2> HIDE DEF t
  <2>1. /\ [u EXCEPT !.left = left] \in Clients
        /\ [u EXCEPT !.left = left].licenses = u.licenses
        /\ [u EXCEPT !.left = left].digQueue = u.digQueue
        /\ [u EXCEPT !.left = left].left = left
        /\ [u EXCEPT !.left = left].coins = u.coins
        /\ [u EXCEPT !.left = left].status = u.status
        /\ [u EXCEPT !.left = left].calls = u.calls
    BY <1>3, <1>5 DEF Clients
  <2> QED  BY <1>5, <1>6, <2>1
<1> HIDE DEF t
<1>8. IsBagOf(t.calls, AnyCall)
  BY <1>7, ClientType
<1>9. Agree(s.calls, t.calls, DigCalls) /\ Agree(s.calls, t.calls, LicenseCalls)
  <2>1. CASE u.calls = s.calls
    BY <1>7, <2>1, AgreeSame
  <2>2. CASE More(u.calls, s.calls, CashCall(tr, tr[2])) /\ tr[2] >= MinDepthToCash
    <3>1. CashCall(tr, tr[2]) \in CashCalls
      BY <1>1, <2>2 DEF CashCalls
    <3>2. /\ CashCall(tr, tr[2]) \notin DigCalls
          /\ CashCall(tr, tr[2]) \notin LicenseCalls
      BY <3>1, CallKinds
    <3>3. More(t.calls, s.calls, CashCall(tr, tr[2]))
      BY <1>7, <2>2
    <3> QED  BY <1>2, <1>8, <3>2, <3>3, AgreeIs
  <2> QED  BY <1>5, <2>1, <2>2
<1>10. Tame(s, R, {c}, {tr}, 0, D)
  BY DEF tr
<1>11. Coined(t.coins, t.calls, R, coins, nextCoin, faults)
  BY <1>7, <1>9, <1>10, AgreeSame, FrameCoined DEF Tame
<1>12. Cashed(t.calls, R, {}, treasure, registry, faults)
  <2>1. Cashed(s.calls, R, {tr}, treasure, registry, faults)
    BY <1>10 DEF Tame
  <2>2. \/ More(t.calls, s.calls, CashCall(tr, tr[2])) /\ tr[2] >= MinDepthToCash
        \/ t.calls = s.calls
    BY <1>5, <1>7
  <2> QED  BY <1>1, <1>2, <2>1, <2>2, CashCashed
<1>13. Places(t.digQueue, t.calls, t.left, R, H)
  <2>1. Places(s.digQueue, s.calls, s.left, R, {c})
    BY <1>10 DEF Tame
  <2>2. Places(s.digQueue, s.calls, left, R, H)
    BY <1>1, <1>2, <1>3, <2>1, LeftPlaces
  <2> QED  BY <1>7, <1>9, <2>2, AgreeSame, FramePlaces
<1>14. Counted(t.left, R, {}, counts, D, faults)
  <2>1. \A d \in Cell : counts[d] \in Nat
    <3> QED  BY W!TypeFromInv, ServerConstants DEF W!TypeOK
  <2>2. Counted(s.left, R, {tr}, counts, D, faults)
    BY <1>10 DEF Tame
  <2>3. /\ tr[1] \in Cell /\ s.left[tr[1]] \in Int /\ s.left[tr[1]] > 0
        /\ left[tr[1]] = s.left[tr[1]] - 1
        /\ \A d \in Cell \ {tr[1]} : left[d] = s.left[d]
    BY <1>1, <1>3
  <2>4. Counted(left, R, {}, counts, D, faults)
    BY <2>1, <2>2, <2>3, LeftCounted
  <2> QED  BY <1>7, <2>4
<1>15. Budget(t.licenses, t.calls, R)
  BY <1>7, <1>9, <1>10, AgreeSame, FrameBudget DEF Tame
<1>16. faults = 0 => InStep(t.digQueue, t.calls, R, depthMap)
  BY <1>7, <1>9, <1>10, AgreeSame, FrameInStep DEF Tame
<1>17. faults = 0 => Licensed(t.licenses, t.calls, R, active, 0)
  BY <1>7, <1>9, <1>10, AgreeSame, FrameLicensed DEF Tame
<1> HIDE DEF H
<1>18. Tame(t, R, H, {}, 0, D)
  BY <1>7, <1>10, <1>11, <1>12, <1>13, <1>14, <1>15, <1>16, <1>17 DEF Tame
<1>19. CASE left[c] = 0
  <2>1. TreasureFound(s, call) = t /\ H = {}
    BY <1>4, <1>7, <1>19 DEF H
  <2> QED  BY <1>7, <1>18, <2>1
<1>20. CASE left[c] # 0
  <2>1. TreasureFound(s, call) = ScheduleDig(t, next) /\ H = {c}
    BY <1>3, <1>4, <1>7, <1>20 DEF H
  <2>2. next.cell = c /\ next.depth = call.depth + 1
    BY DEF next
  <2>3. faults = 0 => next.depth = depthMap[next.cell] + 1
    BY <2>2
  <2>4. /\ ScheduleDig(t, next) \in Clients
        /\ Tame(ScheduleDig(t, next), R, H \ {next.cell}, {}, 0, D)
    BY <1>1, <1>7, <1>18, <2>1, <2>2, <2>3, ScheduleDigTame
  <2>5. H \ {next.cell} = {}
    BY <2>1, <2>2
  <2> QED  BY <2>1, <2>4, <2>5
<1> QED  BY <1>19, <1>20

(***************************************************************************)
(* The end of run().                                                       *)
(***************************************************************************)
LEMMA StopTame ==
    ASSUME NEW s \in Clients, NEW R, IsBagOf(R, AnyReply), NEW Q, IsBagOf(Q, AnyReply),
           NEW r, More(R, Q, r), NEW D, faults # 0, Tame(s, R, {}, {}, 0, D)
    PROVE  Stop(s) \in Clients /\ Tame(Stop(s), Q, {}, {}, 0, D)
<1>1. /\ Stop(s) \in Clients /\ Stop(s).licenses = s.licenses
      /\ Stop(s).digQueue = s.digQueue /\ Stop(s).coins = s.coins
      /\ Stop(s).calls = s.calls /\ Stop(s).status = "stopped"
  BY DEF Stop, Clients
<1>2. IsBagOf(s.calls, AnyCall)
  BY ClientType
<1>3. \A T : /\ Count(Q, T) \in Nat /\ Count(R, T) \in Nat /\ Count(Q, T) <= Count(R, T)
             /\ Count(s.calls, T) \in Nat
  BY <1>2, CountType DEF More
<1>4. Coined(s.coins, s.calls, Q, coins, nextCoin, faults)
  <2>1. Coined(s.coins, s.calls, R, coins, nextCoin, faults)
    BY DEF Tame
  <2>2. ASSUME NEW k \in Nat
        PROVE  /\ CoinUse(s.coins, s.calls, Q, k) <= CoinUse(s.coins, s.calls, R, k)
               /\ CoinUse(s.coins, s.calls, Q, k) \in Nat
               /\ CoinUse(s.coins, s.calls, R, k) \in Nat
    BY <1>3 DEF CoinUse, Num
  <2>3. \A k \in Nat : Count(Q, Brings(k)) > 0 => Count(R, Brings(k)) > 0
    BY <1>3
  <2> QED  BY <2>1, <2>2, <2>3 DEF Coined
<1>5. Cashed(s.calls, Q, {}, treasure, registry, faults)
  <2>1. Cashed(s.calls, R, {}, treasure, registry, faults)
    BY DEF Tame
  <2>2. ASSUME NEW t \in TreasureId
        PROVE  /\ Exchange(s.calls, Q, {}, t) <= Exchange(s.calls, R, {}, t)
               /\ Exchange(s.calls, Q, {}, t) \in Nat
               /\ Exchange(s.calls, R, {}, t) \in Nat
    <3>1. /\ Count(Q, AgainFor(t)) \in Nat /\ Count(R, AgainFor(t)) \in Nat
          /\ Count(Q, AgainFor(t)) <= Count(R, AgainFor(t))
          /\ Count(Q, FoundAt(t)) \in Nat /\ Count(R, FoundAt(t)) \in Nat
          /\ Count(Q, FoundAt(t)) <= Count(R, FoundAt(t))
          /\ Count(s.calls, CashCallsFor(t)) \in Nat
      BY <1>3
    <3> QED  BY <3>1 DEF Exchange, Num
  <2> QED  BY <2>1, <2>2 DEF Cashed
<1> QED  BY <1>1, <1>4, <1>5 DEF Tame

(***************************************************************************)
(* getLicenseById finds the licence of an answered dig.                    *)
(***************************************************************************)
LEMMA DigLicense ==
    ASSUME NEW s \in Clients, s.status = "running", NEW R, IsBagOf(R, AnyReply),
           NEW r \in DigReplies, r \in DOMAIN R, NEW D, Tame(s, R, {}, {}, 0, D)
    PROVE  LET S == {j \in 1..Slots : s.licenses[j].id = r.call.license}
           IN  /\ Min(S) \in 1..Slots /\ s.licenses[Min(S)].id = r.call.license
               /\ S # {}
<1> DEFINE call == r.call
           S == {j \in 1..Slots : s.licenses[j].id = call.license}
           i == Min(S)
<1>1. call.license \in Nat
  BY ReplyType
<1>2. s.licenses \in Licenses /\ IsBagOf(s.calls, AnyCall)
  BY ClientType
<1> HIDE DEF S
<1>3. Count(R, DigRepliesOf(call.license)) >= 1
  <2>1. r \in DOMAIN R \cap DigRepliesOf(call.license)
    BY DEF DigRepliesOf
  <2>2. R[r] \in Nat
    BY DEF IsBagOf
  <2>3. /\ Count(R, DigRepliesOf(call.license)) \in Nat
        /\ 1 <= R[r] /\ R[r] <= Count(R, DigRepliesOf(call.license))
    BY <2>1, CountType
  <2> QED  BY <2>2, <2>3
<1>4. Spare(s.licenses, call.license) >= 0
  <2> DEFINE f == Sparing(s.licenses, call.license)
  <2>1. \A j \in 1..Slots : f[j] \in Nat
    BY <1>1, <1>2, SlotType DEF Sparing, Tame, Budget
  <2>2. IsFiniteSet(1..Slots)
    BY FS_Interval, GoldRushAssumption
  <2> HIDE DEF f
  <2>3. Sum(f, 1..Slots) \in Nat
    BY <2>1, <2>2, SumNat
  <2> QED  BY <2>3 DEF Spare, f
<1>5. /\ Count(s.calls, DigCallsOf(call.license)) \in Nat
      /\ Count(R, DigRepliesOf(call.license)) \in Nat
  BY <1>1, <1>2, CountType
<1>6. Spare(s.licenses, call.license) \in Int /\ Owed(s.licenses, call.license) \in Int
  BY <1>1, <1>2, SlotSums
<1>7. Spare(s.licenses, call.license) + Count(s.calls, DigCallsOf(call.license))
          + Count(R, DigRepliesOf(call.license)) <= Owed(s.licenses, call.license)
  BY <1>1 DEF Tame, Budget
<1>8. Owed(s.licenses, call.license) > 0
  BY <1>3, <1>4, <1>5, <1>6, <1>7
<1>9. S # {} /\ S \in SUBSET (1..Slots)
  BY <1>1, <1>2, <1>8, SlotFound DEF S
<1>10. i \in S
  BY <1>9, FirstSlotIs
<1> QED  BY <1>9, <1>10 DEF S

LEMMA ProcessDigTame ==
    ASSUME NEW s \in Clients, s.status = "running",
           NEW R, IsBagOf(R, AnyReply), NEW Q, IsBagOf(Q, AnyReply),
           NEW r \in DigReplies, More(R, Q, r),
           NEW D, W!IInv, Tame(s, R, {}, {}, 0, D)
    PROVE  ProcessDig(s, r) \in Clients /\ Tame(ProcessDig(s, r), Q, {}, {}, 0, D)
<1> DEFINE call == r.call
           c == call.cell
           S == {j \in 1..Slots : s.licenses[j].id = call.license}
           i == Min(S)
           t == Confirm(s, i)
           next == [cell |-> c, depth |-> call.depth + 1]
<1>1. /\ call \in DigCalls /\ call.license \in Nat /\ c \in Cell /\ call.depth \in Nat
      /\ r.status \in {200, 404} => call.depth \in 1..MaxDepth
  BY ReplyType
<1>2. s.licenses \in Licenses /\ IsBagOf(s.calls, AnyCall)
  BY ClientType
<1>3. r \in DOMAIN R
  BY BagSmaller
<1>4. ProcessDig(s, r) =
          IF r.status \notin {200, 404} THEN Stop(s)
          ELSE IF S = {} THEN Terminate(s)
          ELSE IF r.status = 200 THEN TreasureFound(t, call) ELSE ScheduleDig(t, next)
  BY DEF ProcessDig, SlotsWhere, FirstSlot
<1> HIDE DEF S
<1>5. CASE r.status \notin {200, 404}
  <2>1. faults # 0
    BY <1>3, <1>5 DEF Tame, Answered
  <2>2. Stop(s) \in Clients /\ Tame(Stop(s), Q, {}, {}, 0, D)
    BY <2>1, StopTame
  <2> QED  BY <1>4, <1>5, <2>2
<1>6. CASE r.status \in {200, 404}
  <2>1. i \in 1..Slots /\ s.licenses[i].id = call.license /\ S # {}
    BY <1>3, DigLicense DEF S
  <2> HIDE DEF i
  <2>2. /\ t \in Clients /\ t.status = "running" /\ t.left = s.left
        /\ Tame(t, Q, {c}, HasDug(r), 0, D)
    BY <2>1, ConfirmTame
  <2> HIDE DEF t
  <2>3. faults = 0 => call.depth = depthMap[c]
    BY <1>3 DEF Tame, InStep
  <2>4. CASE r.status = 200
    <3>1. ProcessDig(s, r) = TreasureFound(t, call)
      BY <1>4, <2>1, <2>4
    <3>2. HasDug(r) = {<<c, call.depth>>}
      BY <2>4 DEF HasDug
    <3>3. s.left[c] > 0
      BY <1>2, TakePlaces DEF Tame
    <3>4. Tame(t, Q, {call.cell}, {<<call.cell, call.depth>>}, 0, D)
      BY <2>2, <3>2
    <3>5. /\ call.depth \in 1..MaxDepth /\ t.left[call.cell] > 0
          /\ faults = 0 => call.depth = depthMap[call.cell]
      BY <1>1, <1>6, <2>2, <2>3, <3>3
    <3> HIDE DEF call
    <3>6. /\ TreasureFound(t, call) \in Clients
          /\ Tame(TreasureFound(t, call), Q, {}, {}, 0, D)
      BY <1>1, <2>2, <3>4, <3>5, TreasureFoundTame
    <3> QED  BY <3>1, <3>6
  <2>5. CASE r.status = 404
    <3>1. ProcessDig(s, r) = ScheduleDig(t, next)
      BY <1>4, <2>1, <2>5
    <3>2. HasDug(r) = {}
      BY <2>5 DEF HasDug
    <3>3. next \in Digs /\ next.cell = c /\ next.depth = call.depth + 1
      BY <1>1, <2>5, NextDig
    <3>4. faults = 0 => next.depth = depthMap[next.cell] + 1
      BY <2>3, <3>3
    <3> HIDE DEF next
    <3>5. Tame(t, Q, {c}, {}, 0, D) /\ next.cell \in {c}
      BY <2>2, <3>2, <3>3
    <3>6. /\ ScheduleDig(t, next) \in Clients
          /\ Tame(ScheduleDig(t, next), Q, {c} \ {next.cell}, {}, 0, D)
      BY <2>2, <3>3, <3>4, <3>5, ScheduleDigTame
    <3>7. {c} \ {next.cell} = {}
      BY <3>3
    <3> QED  BY <3>1, <3>6, <3>7
  <2> QED  BY <1>6, <2>4, <2>5
<1> QED  BY <1>5, <1>6
-----------------------------------------------------------------------------
(***************************************************************************)
(* A licence arrives. It takes the slot of one that is used up; when there *)
(* is none, it is lost.                                                    *)
(***************************************************************************)
Granted(r) == [id |-> r.license.id, allowed |-> r.license.allowed,
               used |-> 0, confirmed |-> 0]

LEMMA GrantType ==
    ASSUME NEW r \in Grants
    PROVE  /\ Granted(r) \in Slot /\ r \in LicenseReplies
           /\ r.license.id \in Nat \ {0} /\ r.license.allowed \in Nat \ {0}
           /\ Granted(r).id = r.license.id /\ Granted(r).allowed = r.license.allowed
           /\ Granted(r).used = 0 /\ Granted(r).confirmed = 0
BY DEF Grants, Granted, Slot, LicenseReplies

LEMMA SpareNat ==
    ASSUME NEW lic \in Licenses, \A i \in 1..Slots : lic[i].used <= lic[i].allowed
    PROVE  \A L : Spare(lic, L) \in Nat
<1> TAKE L
<1> DEFINE f == Sparing(lic, L)
<1>1. \A j \in 1..Slots : f[j] \in Nat
  BY SlotType DEF Sparing
<1>2. IsFiniteSet(1..Slots)
  BY FS_Interval, GoldRushAssumption
<1> HIDE DEF f
<1>3. Sum(f, 1..Slots) \in Nat
  BY <1>1, <1>2, SumNat
<1> QED  BY <1>3 DEF Spare, f

LEMMA BusyFinite ==
    ASSUME NEW lic
    PROVE  IsFiniteSet(Busy(lic)) /\ Cardinality(Busy(lic)) \in Nat
<1>1. IsFiniteSet(1..Slots) /\ Busy(lic) \subseteq 1..Slots
  BY FS_Interval, GoldRushAssumption DEF Busy
<1> QED  BY <1>1, FS_Subset, FS_CardinalityType

LEMMA TakeGrant ==
    ASSUME NEW R, IsBagOf(R, AnyReply), NEW Q, IsBagOf(Q, AnyReply),
           NEW r \in Grants, More(R, Q, r),
           NEW B, NEW lic, NEW act, Entitled(lic, B, R, act)
    PROVE  /\ r.license.id \in DOMAIN act /\ r.license.id \in Fresh(R)
           /\ Rem(act, r.license.id) = r.license.allowed
           /\ Fresh(Q) = Fresh(R) \ {r.license.id}
           /\ \A u \in DOMAIN Q \cap Grants :
                 /\ u.license.id \in DOMAIN act
                 /\ act[u.license.id].used = 0
                 /\ act[u.license.id].allowed = u.license.allowed
                 /\ \A v \in DOMAIN Q \cap Grants : v.license.id = u.license.id => v = u
                 /\ Count(Q, {u}) = 1
           /\ Count(R, LicenseReplies) = Count(Q, LicenseReplies) + 1
           /\ \A L : Count(Q, DigRepliesOf(L)) = Count(R, DigRepliesOf(L))
<1>1. r \in DOMAIN R \cap Grants /\ DOMAIN Q \subseteq DOMAIN R
  BY DEF More
<1>2. ASSUME NEW u \in DOMAIN Q \cap Grants PROVE u # r /\ Count(Q, {u}) = 1
  <2>1. Count(R, {u}) = 1 /\ Count(R, {u}) = Count(Q, {u}) + (IF r \in {u} THEN 1 ELSE 0)
    BY <1>1 DEF Entitled, More
  <2>2. Count(Q, {u}) \in Nat /\ Count(Q, {u}) >= 1
    <3>1. /\ Count(Q, {u}) \in Nat
          /\ \A x \in DOMAIN Q \cap {u} : 1 <= Q[x] /\ Q[x] <= Count(Q, {u})
      BY CountType
    <3>2. u \in DOMAIN Q \cap {u} /\ Q[u] \in Nat
      BY DEF IsBagOf
    <3> QED  BY <3>1, <3>2
  <2> QED  BY <2>1, <2>2
<1>3. \A u \in DOMAIN Q \cap Grants :
         /\ u.license.id # r.license.id
         /\ u.license.id \in DOMAIN act
         /\ act[u.license.id].used = 0
         /\ act[u.license.id].allowed = u.license.allowed
         /\ \A v \in DOMAIN Q \cap Grants : v.license.id = u.license.id => v = u
         /\ Count(Q, {u}) = 1
  BY <1>1, <1>2 DEF Entitled
<1>4. \A u \in DOMAIN R \cap Grants : u = r \/ u \in DOMAIN Q
  BY DEF More
<1>5. Fresh(Q) = Fresh(R) \ {r.license.id}
  <2>1. ASSUME NEW L \in Fresh(Q) PROVE L \in Fresh(R) \ {r.license.id}
    <3>1. PICK u \in DOMAIN Q \cap Grants : L = u.license.id
      BY DEF Fresh
    <3>2. u \in DOMAIN R \cap Grants /\ u.license.id # r.license.id
      BY <1>1, <1>3
    <3> QED  BY <3>1, <3>2 DEF Fresh
  <2>2. ASSUME NEW L \in Fresh(R), L # r.license.id PROVE L \in Fresh(Q)
    <3>1. PICK u \in DOMAIN R \cap Grants : L = u.license.id
      BY DEF Fresh
    <3>2. u \in DOMAIN Q \cap Grants
      BY <1>4, <2>2, <3>1
    <3> QED  BY <3>1, <3>2 DEF Fresh
  <2> QED  BY <2>1, <2>2
<1>6. /\ r.license.id \in DOMAIN act /\ act[r.license.id].used = 0
      /\ act[r.license.id].allowed = r.license.allowed
  BY <1>1 DEF Entitled
<1>7. Rem(act, r.license.id) = r.license.allowed
  BY <1>6, GrantType DEF Rem
<1>8. Count(R, LicenseReplies) = Count(Q, LicenseReplies) + 1
  BY GrantType DEF More
<1>9. \A L : Count(Q, DigRepliesOf(L)) = Count(R, DigRepliesOf(L))
  <2>1. Agree(R, Q, DigReplies)
    BY AgreeIs, ReplyKinds, GrantType
  <2> QED  BY <2>1, Parts DEF Agree
<1> QED  BY <1>1, <1>3, <1>5, <1>6, <1>7, <1>8, <1>9 DEF Fresh

\* a licence finds no slot
LEMMA LoseLicensed ==
    ASSUME NEW R, IsBagOf(R, AnyReply), NEW Q, IsBagOf(Q, AnyReply),
           NEW r \in Grants, More(R, Q, r), NEW B, IsBagOf(B, AnyCall),
           NEW lic, NEW act, NEW n \in Nat, Licensed(lic, B, R, act, n)
    PROVE  Licensed(lic, B, Q, act, n)
<1> DEFINE L0 == r.license.id
<1>1. Entitled(lic, B, R, act)
  BY DEF Licensed
<1>2. PICK Lost \in SUBSET (DOMAIN act \ Fresh(R)) : Accounted(lic, B, R, act, n, Lost)
  BY DEF Licensed
<1>3. /\ L0 \in DOMAIN act /\ L0 \in Fresh(R) /\ Fresh(Q) = Fresh(R) \ {L0}
      /\ \A u \in DOMAIN Q \cap Grants :
            /\ u.license.id \in DOMAIN act
            /\ act[u.license.id].used = 0
            /\ act[u.license.id].allowed = u.license.allowed
            /\ \A v \in DOMAIN Q \cap Grants : v.license.id = u.license.id => v = u
            /\ Count(Q, {u}) = 1
      /\ Count(R, LicenseReplies) = Count(Q, LicenseReplies) + 1
      /\ \A L : Count(Q, DigRepliesOf(L)) = Count(R, DigRepliesOf(L))
  BY <1>1, TakeGrant
<1> HIDE DEF L0
<1>4. Entitled(lic, B, Q, act)
  BY <1>1, <1>3 DEF Entitled
<1> DEFINE More1 == Lost \cup {L0}
<1>5. More1 \in SUBSET (DOMAIN act \ Fresh(Q)) /\ L0 \notin Lost
  BY <1>3
<1>6. IsFiniteSet(Lost) /\ IsFiniteSet(More1) /\ Cardinality(More1) = Cardinality(Lost) + 1
  BY <1>2, <1>5, FS_AddElement DEF Accounted
<1>7. More1 \cup Fresh(Q) = Lost \cup Fresh(R)
  BY <1>3
<1>8. Count(B, LicenseCalls) + Count(Q, LicenseReplies)
          + Cardinality(Busy(lic)) + Cardinality(More1) + n = Slots
  <2>1. Count(B, LicenseCalls) \in Nat /\ Count(Q, LicenseReplies) \in Nat
    BY CountType
  <2>2. Cardinality(Busy(lic)) \in Nat /\ Cardinality(Lost) \in Nat /\ Slots \in Nat
    BY <1>6, BusyFinite, FS_CardinalityType, GoldRushAssumption
  <2>3. Count(B, LicenseCalls) + Count(R, LicenseReplies)
            + Cardinality(Busy(lic)) + Cardinality(Lost) + n = Slots
    BY <1>2 DEF Accounted
  <2> QED  BY <1>3, <1>6, <2>1, <2>2, <2>3
<1> HIDE DEF More1
<1>9. Accounted(lic, B, Q, act, n, More1)
  BY <1>2, <1>3, <1>6, <1>7, <1>8 DEF Accounted
<1> QED  BY <1>4, <1>5, <1>9 DEF Licensed

LEMMA PlaceBudget ==
    ASSUME NEW R, IsBagOf(R, AnyReply), NEW Q, Agree(R, Q, DigReplies),
           NEW r \in Grants, NEW B, IsBagOf(B, AnyCall),
           NEW lic \in Licenses, NEW i \in 1..Slots, Done(lic[i]),
           NEW new, Replaced(lic, new, i, Granted(r)), Budget(lic, B, R)
    PROVE  /\ new \in Licenses
           /\ Budget(new, B, Q)
           /\ \A L : /\ Spare(new, L) <= Spare(lic, L) + (IF r.license.id = L
                                                          THEN r.license.allowed ELSE 0)
                     /\ Owed(new, L) = Owed(lic, L) + (IF r.license.id = L
                                                       THEN r.license.allowed ELSE 0)
                     /\ Spare(new, L) \in Nat /\ Spare(lic, L) \in Nat
                     /\ Owed(lic, L) \in Int
           /\ Busy(new) = Busy(lic) \cup {i} /\ i \notin Busy(lic)
<1> DEFINE l == Granted(r)
           a == r.license.allowed
           L0 == r.license.id
<1>1. /\ l \in Slot /\ l.id = L0 /\ l.allowed = a /\ l.used = 0 /\ l.confirmed = 0
      /\ a \in Nat /\ a > 0
  BY GrantType
<1>2. /\ lic[i].allowed \in Nat /\ lic[i].used \in Nat /\ lic[i].confirmed = lic[i].allowed
      /\ lic[i].used <= lic[i].allowed
  BY SlotType DEF Budget, Done
<1>3. new[i] = l /\ \A j \in 1..Slots \ {i} : new[j] = lic[j]
  BY DEF Licenses, Replaced
<1> HIDE DEF l, a, L0
<1>4. /\ new \in Licenses
      /\ \A L : /\ Spare(new, L) =
                       Spare(lic, L)
                       - (IF lic[i].id = L THEN lic[i].allowed - lic[i].used ELSE 0)
                       + (IF l.id = L THEN l.allowed - l.used ELSE 0)
                /\ Owed(new, L) =
                       Owed(lic, L)
                       - (IF lic[i].id = L THEN lic[i].allowed - lic[i].confirmed ELSE 0)
                       + (IF l.id = L THEN l.allowed - l.confirmed ELSE 0)
  <2>1. Replaced(lic, new, i, l)
    BY DEF l
  <2> QED  BY <1>1, <2>1, SlotChange
<1>5. \A j \in 1..Slots : new[j].used <= new[j].allowed
  BY <1>1, <1>3 DEF Budget
<1>6. /\ \A L : Spare(lic, L) \in Nat /\ Spare(new, L) \in Nat
      /\ \A L : Owed(lic, L) \in Int
  BY <1>4, <1>5, SlotSums, SpareNat DEF Budget
<1>7. ASSUME NEW L
      PROVE  /\ Spare(new, L) <= Spare(lic, L) + (IF L0 = L THEN a ELSE 0)
             /\ Owed(new, L) = Owed(lic, L) + (IF L0 = L THEN a ELSE 0)
  <2> DEFINE gone == IF lic[i].id = L THEN lic[i].allowed - lic[i].used ELSE 0
             zero == IF lic[i].id = L THEN lic[i].allowed - lic[i].confirmed ELSE 0
             here == IF l.id = L THEN l.allowed - l.used ELSE 0
             here2 == IF l.id = L THEN l.allowed - l.confirmed ELSE 0
             more == IF L0 = L THEN a ELSE 0
  <2>1. gone \in Nat /\ zero = 0 /\ here = more /\ here2 = more /\ more \in Nat
    BY <1>1, <1>2
  <2>2. /\ Spare(new, L) = Spare(lic, L) - gone + here
        /\ Owed(new, L) = Owed(lic, L) - zero + here2
    BY <1>4
  <2>3. Spare(lic, L) \in Nat /\ Owed(lic, L) \in Int
    BY <1>6
  <2> HIDE DEF gone, zero, here, here2, more
  <2>4. Spare(new, L) <= Spare(lic, L) + more /\ Owed(new, L) = Owed(lic, L) + more
    BY <2>1, <2>2, <2>3
  <2> QED  BY <2>4 DEF more
<1>8. ASSUME NEW L \in Nat
      PROVE  Spare(new, L) + Count(B, DigCallsOf(L)) + Count(Q, DigRepliesOf(L))
                 <= Owed(new, L)
  <2> DEFINE more == IF L0 = L THEN a ELSE 0
  <2>1. /\ Spare(lic, L) + Count(B, DigCallsOf(L)) + Count(R, DigRepliesOf(L))
               <= Owed(lic, L)
        /\ Count(Q, DigRepliesOf(L)) = Count(R, DigRepliesOf(L))
    BY Parts DEF Budget, Agree
  <2>2. /\ Spare(lic, L) \in Nat /\ Owed(lic, L) \in Int /\ Spare(new, L) \in Nat
        /\ Count(B, DigCallsOf(L)) \in Nat /\ Count(R, DigRepliesOf(L)) \in Nat
        /\ more \in Nat
    BY <1>1, <1>6, CountType
  <2>3. Spare(new, L) <= Spare(lic, L) + more /\ Owed(new, L) = Owed(lic, L) + more
    BY <1>7
  <2> HIDE DEF more
  <2> QED  BY <2>1, <2>2, <2>3
<1>9. Busy(new) = Busy(lic) \cup {i} /\ i \notin Busy(lic)
  BY <1>1, <1>2, <1>3 DEF Busy
<1> QED  BY <1>4, <1>5, <1>6, <1>7, <1>8, <1>9 DEF Budget, a, L0

LEMMA PlaceLicensed ==
    ASSUME NEW R, IsBagOf(R, AnyReply), NEW Q, IsBagOf(Q, AnyReply),
           NEW r \in Grants, More(R, Q, r), NEW B, IsBagOf(B, AnyCall),
           NEW lic \in Licenses, NEW i \in 1..Slots, Done(lic[i]),
           NEW new, Replaced(lic, new, i, Granted(r)), Budget(lic, B, R),
           NEW act, \A L : Rem(act, L) \in Int, DOMAIN act \subseteq Nat,
           NEW n \in Nat, Licensed(lic, B, R, act, n)
    PROVE  Licensed(new, B, Q, act, n)
<1> DEFINE L0 == r.license.id
           a == r.license.allowed
<1>0. L0 \in Nat /\ a \in Nat
  BY GrantType
<1>1. Entitled(lic, B, R, act)
  BY DEF Licensed
<1>2. PICK Lost \in SUBSET (DOMAIN act \ Fresh(R)) : Accounted(lic, B, R, act, n, Lost)
  BY DEF Licensed
<1>3. /\ L0 \in DOMAIN act /\ L0 \in Fresh(R) /\ Fresh(Q) = Fresh(R) \ {L0}
      /\ Rem(act, L0) = a
      /\ \A u \in DOMAIN Q \cap Grants :
            /\ u.license.id \in DOMAIN act
            /\ act[u.license.id].used = 0
            /\ act[u.license.id].allowed = u.license.allowed
            /\ \A v \in DOMAIN Q \cap Grants : v.license.id = u.license.id => v = u
            /\ Count(Q, {u}) = 1
      /\ Count(R, LicenseReplies) = Count(Q, LicenseReplies) + 1
      /\ \A L : Count(Q, DigRepliesOf(L)) = Count(R, DigRepliesOf(L))
  BY <1>1, TakeGrant
<1>4. /\ \A L : /\ Spare(new, L) <= Spare(lic, L) + (IF L0 = L THEN a ELSE 0)
                /\ Owed(new, L) = Owed(lic, L) + (IF L0 = L THEN a ELSE 0)
                /\ Spare(new, L) \in Nat /\ Spare(lic, L) \in Nat
                /\ Owed(lic, L) \in Int
      /\ Busy(new) = Busy(lic) \cup {i} /\ i \notin Busy(lic)
  <2>1. Agree(R, Q, DigReplies)
    BY AgreeIs, ReplyKinds, GrantType
  <2> QED  BY <2>1, PlaceBudget
<1> HIDE DEF L0, a
<1>5. \A L : Count(B, DigCallsOf(L)) \in Nat /\ Count(R, DigRepliesOf(L)) \in Nat
  BY CountType
<1>6. /\ \A L \in Lost \cup Fresh(R) : Spare(lic, L) + Count(B, DigCallsOf(L)) = 0
      /\ \A L \in DOMAIN act \ (Lost \cup Fresh(R)) :
            Count(R, DigRepliesOf(L)) + Rem(act, L) <= Owed(lic, L)
      /\ Count(B, LicenseCalls) + Count(R, LicenseReplies)
            + Cardinality(Busy(lic)) + Cardinality(Lost) + n = Slots
      /\ IsFiniteSet(Lost)
  BY <1>2 DEF Accounted
<1>7. ASSUME NEW L \in Nat PROVE Spare(new, L) + Count(B, DigCallsOf(L)) <= Rem(act, L)
  <2>1. /\ Spare(lic, L) \in Nat /\ Spare(new, L) \in Nat /\ Rem(act, L) \in Int
        /\ Count(B, DigCallsOf(L)) \in Nat
    BY <1>4, <1>5
  <2>2. CASE L = L0
    <3>1. Spare(lic, L) + Count(B, DigCallsOf(L)) = 0
      BY <1>3, <1>6, <2>2
    <3>2. Spare(new, L) <= Spare(lic, L) + a /\ Rem(act, L) = a
      BY <1>3, <1>4, <2>2
    <3> QED  BY <1>0, <2>1, <3>1, <3>2
  <2>3. CASE L # L0
    <3>1. Spare(lic, L) + Count(B, DigCallsOf(L)) <= Rem(act, L)
      BY <1>1 DEF Entitled
    <3>2. Spare(new, L) <= Spare(lic, L) + 0
      BY <1>4, <2>3
    <3> QED  BY <2>1, <3>1, <3>2
  <2> QED  BY <2>2, <2>3
<1>8. Entitled(new, B, Q, act)
  BY <1>3, <1>7 DEF Entitled
<1>9. Lost \in SUBSET (DOMAIN act \ Fresh(Q))
  BY <1>3
<1>10. ASSUME NEW L \in Lost \cup Fresh(Q) PROVE Spare(new, L) + Count(B, DigCallsOf(L)) = 0
  <2>1. L # L0 /\ L \in Lost \cup Fresh(R)
    BY <1>3
  <2>2. Spare(new, L) <= Spare(lic, L) + 0 /\ Spare(lic, L) + Count(B, DigCallsOf(L)) = 0
    BY <1>4, <1>6, <2>1
  <2>3. /\ Spare(lic, L) \in Nat /\ Spare(new, L) \in Nat
        /\ Count(B, DigCallsOf(L)) \in Nat
    BY <1>4, <1>5
  <2> QED  BY <2>2, <2>3
<1>11. ASSUME NEW L \in DOMAIN act \ (Lost \cup Fresh(Q))
       PROVE  Count(Q, DigRepliesOf(L)) + Rem(act, L) <= Owed(new, L)
  <2>1. /\ Count(Q, DigRepliesOf(L)) = Count(R, DigRepliesOf(L)) /\ Rem(act, L) \in Int
        /\ Count(R, DigRepliesOf(L)) \in Nat /\ Owed(lic, L) \in Int
        /\ Count(B, DigCallsOf(L)) \in Nat /\ Spare(lic, L) \in Nat
    BY <1>3, <1>4, <1>5
  <2>2. CASE L = L0
    <3>1. Rem(act, L) = a /\ Owed(new, L) = Owed(lic, L) + a
      BY <1>3, <1>4, <2>2
    <3>2. Spare(lic, L) + Count(B, DigCallsOf(L)) + Count(R, DigRepliesOf(L))
              <= Owed(lic, L)
      BY DEF Budget
    <3> QED  BY <1>0, <2>1, <3>1, <3>2
  <2>3. CASE L # L0
    <3>1. L \in DOMAIN act \ (Lost \cup Fresh(R))
      BY <1>3, <2>3
    <3>2. Count(R, DigRepliesOf(L)) + Rem(act, L) <= Owed(lic, L)
      BY <1>6, <3>1
    <3>3. Owed(new, L) = Owed(lic, L) + 0
      BY <1>4, <2>3
    <3> QED  BY <2>1, <3>2, <3>3
  <2> QED  BY <2>2, <2>3
<1>12. Count(B, LicenseCalls) + Count(Q, LicenseReplies)
           + Cardinality(Busy(new)) + Cardinality(Lost) + n = Slots
  <2>1. Count(B, LicenseCalls) \in Nat /\ Count(Q, LicenseReplies) \in Nat
    BY CountType
  <2>2. /\ Cardinality(Busy(lic)) \in Nat /\ Cardinality(Lost) \in Nat /\ Slots \in Nat
        /\ IsFiniteSet(Busy(lic))
    BY <1>6, BusyFinite, FS_CardinalityType, GoldRushAssumption
  <2>3. Cardinality(Busy(new)) = Cardinality(Busy(lic)) + 1
    BY <1>4, <2>2, FS_AddElement
  <2> QED  BY <1>3, <1>6, <2>1, <2>2, <2>3
<1>13. Accounted(new, B, Q, act, n, Lost)
  BY <1>6, <1>10, <1>11, <1>12 DEF Accounted
<1> QED  BY <1>8, <1>9, <1>13 DEF Licensed
-----------------------------------------------------------------------------
(***************************************************************************)
(* The queued digs are scheduled one after the other: run[1..k] is the     *)
(* client after the first k of them.                                       *)
(***************************************************************************)
IsRun(run, s, q) ==
    run = [T \in SUBSET DOMAIN q |->
              IF T = {} THEN s ELSE ScheduleDig(run[T \ {Max(T)}], q[Max(T)])]

LEMMA RunIsChosen ==
    ASSUME NEW s
    PROVE  ScheduleQueuedDigs(s) =
               (CHOOSE run : IsRun(run, [s EXCEPT !.digQueue = <<>>], s.digQueue))
                   [DOMAIN s.digQueue]
BY Zenon DEF ScheduleQueuedDigs, FoldLeft, MapThenFoldSet, IsRun

LEMMA RunExists ==
    ASSUME NEW s, NEW q, NEW n \in Nat, DOMAIN q = 1..n
    PROVE  \E run : IsRun(run, s, q)
<1> DEFINE S == DOMAIN q
           Small(k) == {T \in SUBSET S : \A x \in T : x <= k}
           Def(g, T) == IF T = {} THEN s ELSE ScheduleDig(g[T \ {Max(T)}], q[Max(T)])
           P == {k \in Nat : \E g : g = [T \in Small(k) |-> Def(g, T)]}
<1>1. \A T \in SUBSET S : T # {} => /\ Max(T) \in T
                                    /\ \A x \in T : x <= Max(T)
  <2> SUFFICES ASSUME NEW T \in SUBSET S, T # {}
               PROVE  Max(T) \in T /\ \A x \in T : x <= Max(T)
    OBVIOUS
  <2>1. T \in SUBSET Nat /\ \A x \in T : x <= n
    OBVIOUS
  <2> QED  BY <2>1, BoundedHasMax
<1>2. 0 \in P
  <2> DEFINE g == [T \in Small(0) |-> s]
  <2>1. \A T \in Small(0) : T = {}
    OBVIOUS
  <2>2. g = [T \in Small(0) |-> Def(g, T)]
    BY <2>1
  <2> QED  BY <2>2
<1>3. ASSUME NEW k \in Nat, k \in P PROVE k + 1 \in P
  <2>1. PICK g : g = [T \in Small(k) |-> Def(g, T)]
    BY <1>3
  <2> DEFINE h == [T \in Small(k + 1) |-> IF T \in Small(k) THEN g[T] ELSE Def(g, T)]
  <2>2. ASSUME NEW T \in Small(k + 1) PROVE h[T] = Def(h, T)
    <3>1. CASE T = {}
      <4>1. T \in Small(k)
        BY <3>1
      <4> QED  BY <2>1, <3>1, <4>1
    <3>2. CASE T # {}
      <4> DEFINE U == T \ {Max(T)}
      <4>1. U \in Small(k) /\ U \in Small(k + 1)
        <5>1. Max(T) \in T /\ \A x \in T : x <= Max(T)
          BY <1>1, <3>2
        <5>2. \A x \in T : x \in Nat /\ x <= k + 1
          OBVIOUS
        <5> HIDE DEF Def
        <5>3. \A x \in U : x \in S /\ x <= k
          BY <5>1, <5>2
        <5> QED  BY <5>2, <5>3
      <4>2. h[U] = g[U]
        BY <4>1
      <4>3. T \in Small(k) => g[T] = Def(g, T)
        BY <2>1
      <4>4. h[T] = Def(g, T)
        BY <4>3
      <4> QED  BY <3>2, <4>2, <4>4
    <3> QED  BY <3>1, <3>2
  <2>3. h = [T \in Small(k + 1) |-> Def(h, T)]
    BY <2>2
  <2>4. \E f : f = [T \in Small(k + 1) |-> Def(f, T)]
    <3> HIDE DEF h, Def
    <3> QED  BY <2>3
  <2> HIDE DEF h, Def, Small
  <2> QED  BY <2>4
<1>4. Nat \subseteq P
  <2> HIDE DEF P
  <2> QED  BY <1>2, <1>3, SetInduction
<1>5. PICK g : g = [T \in Small(n) |-> Def(g, T)]
  BY <1>4
<1>6. Small(n) = SUBSET S
  OBVIOUS
<1>7. IsRun(g, s, q)
  BY <1>5, <1>6 DEF IsRun
<1> QED  BY <1>7

LEMMA RunSteps ==
    ASSUME NEW s, NEW n \in Nat, DOMAIN s.digQueue = 1..n
    PROVE  \E run : /\ ScheduleQueuedDigs(s) = run[1..n]
                    /\ run[1..0] = [s EXCEPT !.digQueue = <<>>]
                    /\ \A k \in 0..(n - 1) :
                          run[1..(k + 1)] = ScheduleDig(run[1..k], s.digQueue[k + 1])
<1> DEFINE first == [s EXCEPT !.digQueue = <<>>]
           q == s.digQueue
           run == CHOOSE g : IsRun(g, first, q)
<1>1. \E g : IsRun(g, first, q)
  BY RunExists
<1> HIDE DEF first
<1>2. IsRun(run, first, q)
  BY <1>1
<1>3. ScheduleQueuedDigs(s) = run[1..n]
  BY RunIsChosen DEF first
<1> HIDE DEF run
<1>4. run[1..0] = first
  <2>1. 1..0 = {} /\ {} \in SUBSET DOMAIN q
    OBVIOUS
  <2> QED  BY <1>2, <2>1 DEF IsRun
<1>5. ASSUME NEW k \in 0..(n - 1)
      PROVE  run[1..(k + 1)] = ScheduleDig(run[1..k], q[k + 1])
  <2> DEFINE T == 1..(k + 1)
  <2>1. T \in SUBSET DOMAIN q /\ T # {} /\ T \in SUBSET Nat /\ k + 1 \in T
        /\ \A x \in T : x <= k + 1
    <3>1. k \in Nat /\ k + 1 <= n
      OBVIOUS
    <3>2. \A x \in T : x \in Nat /\ x <= k + 1 /\ x \in 1..n
      BY <3>1
    <3>3. k + 1 \in T
      BY <3>1
    <3> QED  BY <3>2, <3>3
  <2>2. Max(T) = k + 1
    <3> HIDE DEF T
    <3>1. Max(T) \in T /\ \A x \in T : x <= Max(T)
      BY <2>1, BoundedHasMax
    <3>2. Max(T) \in Nat /\ Max(T) <= k + 1 /\ k + 1 <= Max(T)
      BY <2>1, <3>1
    <3> QED  BY <3>2
  <2>3. T \ {k + 1} = 1..k
    OBVIOUS
  <2>4. run[T] = ScheduleDig(run[T \ {Max(T)}], q[Max(T)])
    <3> HIDE DEF T
    <3> QED  BY <1>2, <2>1 DEF IsRun
  <2> QED  BY <2>2, <2>3, <2>4
<1> QED  BY <1>3, <1>4, <1>5 DEF first

\* the cells of the queue behind its first k digs
CellsBehind(q, k) == {q[i].cell : i \in {j \in DOMAIN q : j > k}}

LEMMA QueuedTame ==
    ASSUME NEW s \in Clients, s.status = "running", NEW R, IsBagOf(R, AnyReply), NEW D,
           \A i, j \in DOMAIN s.digQueue :
               s.digQueue[i].cell = s.digQueue[j].cell => i = j,
           faults = 0 => \A i \in DOMAIN s.digQueue :
                            s.digQueue[i].depth = depthMap[s.digQueue[i].cell] + 1,
           [s EXCEPT !.digQueue = <<>>] \in Clients,
           [s EXCEPT !.digQueue = <<>>].status = "running",
           Tame([s EXCEPT !.digQueue = <<>>], R, QCells(s.digQueue), {}, 0, D)
    PROVE  /\ ScheduleQueuedDigs(s) \in Clients
           /\ Tame(ScheduleQueuedDigs(s), R, {}, {}, 0, D)
<1> DEFINE q == s.digQueue
           n == Len(q)
           first == [s EXCEPT !.digQueue = <<>>]
<1>1. /\ q \in Seq(Digs) /\ n \in Nat /\ DOMAIN q = 1..n
      /\ \A i \in 1..n : q[i] \in Digs
  BY ClientType, LenProperties, ElementOfSeq
<1> HIDE DEF n
<1>2. PICK run : /\ ScheduleQueuedDigs(s) = run[1..n]
                 /\ run[1..0] = [s EXCEPT !.digQueue = <<>>]
                 /\ \A k \in 0..(n - 1) :
                       run[1..(k + 1)] = ScheduleDig(run[1..k], s.digQueue[k + 1])
  BY <1>1, RunSteps
<1> HIDE DEF first, n, q
<1> DEFINE Good(k) == /\ run[1..k] \in Clients
                      /\ run[1..k].status = "running"
                      /\ Tame(run[1..k], R, CellsBehind(q, k), {}, 0, D)
           P == {k \in Nat : k <= n => Good(k)}
<1>3. 0 \in P
  <2>1. CellsBehind(q, 0) = QCells(q)
    <3>1. {j \in DOMAIN q : j > 0} = DOMAIN q
      BY <1>1
    <3> QED  BY <3>1 DEF CellsBehind, QCells
  <2>2. Good(0)
    BY <1>2, <2>1 DEF first, q
  <2> HIDE DEF Good
  <2> QED  BY <2>2
<1>4. ASSUME NEW k \in Nat, k \in P PROVE k + 1 \in P
  <2> SUFFICES ASSUME k + 1 <= n PROVE Good(k + 1)
    OBVIOUS
  <2> DEFINE t == run[1..k]
             dig == q[k + 1]
  <2>1. k <= n /\ k \in 0..(n - 1) /\ k + 1 \in DOMAIN q /\ k + 1 \in 1..n
    BY <1>1
  <2>2. t \in Clients /\ t.status = "running" /\ Tame(t, R, CellsBehind(q, k), {}, 0, D)
    BY <1>4, <2>1
  <2>3. run[1..(k + 1)] = ScheduleDig(t, dig)
    BY <1>2, <2>1 DEF q
  <2>4. dig \in Digs /\ dig.cell \in CellsBehind(q, k)
    BY <1>1, <2>1 DEF CellsBehind
  <2>5. faults = 0 => dig.depth = depthMap[dig.cell] + 1
    BY <2>1 DEF q
  <2>6. CellsBehind(q, k) \ {dig.cell} = CellsBehind(q, k + 1)
    <3>1. \A i, j \in DOMAIN q : q[i].cell = q[j].cell => i = j
      BY DEF q
    <3>2. ASSUME NEW c \in CellsBehind(q, k), c # dig.cell PROVE c \in CellsBehind(q, k + 1)
      <4>1. PICK i \in DOMAIN q : i > k /\ c = q[i].cell
        BY DEF CellsBehind
      <4>2. i # k + 1
        BY <3>2, <4>1
      <4>3. i > k + 1
        BY <1>1, <4>1, <4>2
      <4> QED  BY <4>1, <4>3 DEF CellsBehind
    <3>3. ASSUME NEW c \in CellsBehind(q, k + 1)
          PROVE  c \in CellsBehind(q, k) /\ c # dig.cell
      <4>1. PICK i \in DOMAIN q : i > k + 1 /\ c = q[i].cell
        BY DEF CellsBehind
      <4>2. i > k /\ i # k + 1
        BY <1>1, <4>1
      <4>3. c # dig.cell
        BY <2>1, <3>1, <4>1, <4>2
      <4> QED  BY <4>1, <4>2, <4>3 DEF CellsBehind
    <3> QED  BY <3>2, <3>3
  <2> HIDE DEF t, dig
  <2>7. /\ ScheduleDig(t, dig) \in Clients
        /\ ScheduleDig(t, dig).status = "running"
        /\ Tame(ScheduleDig(t, dig), R, CellsBehind(q, k) \ {dig.cell}, {}, 0, D)
    BY <2>2, <2>4, <2>5, ScheduleDigTame
  <2> QED  BY <2>3, <2>6, <2>7
<1>5. Nat \subseteq P
  <2> HIDE DEF P
  <2> QED  BY <1>3, <1>4, SetInduction
<1>6. Good(n)
  BY <1>1, <1>5
<1>7. CellsBehind(q, n) = {}
  <2>1. {j \in DOMAIN q : j > n} = {}
    BY <1>1
  <2> QED  BY <2>1 DEF CellsBehind
<1> QED  BY <1>2, <1>6, <1>7
-----------------------------------------------------------------------------
(***************************************************************************)
(* The handlers of the answers to requests for licences and to exchanges.  *)
(***************************************************************************)
LEMMA ActiveIs ==
    ASSUME W!IInv
    PROVE  /\ \A L : Rem(active, L) \in Int
           /\ DOMAIN active \subseteq Nat \ {0}
           /\ \A L \in DOMAIN active : /\ active[L].used \in Nat
                                       /\ active[L].allowed \in Nat
BY DEF Rem, W!IInv, W!LicenseInv, W!ActiveType, W!License

\* the cells of the queue are in hand
LEMMA UnqueuePlaces ==
    ASSUME NEW q, NEW B, IsBagOf(B, AnyCall), NEW R, IsBagOf(R, AnyReply),
           NEW left, Places(q, B, left, R, {})
    PROVE  Places(<<>>, B, left, R, QCells(q))
<1>1. QCells(<<>>) = {}
  BY DEF QCells
<1>2. ASSUME NEW c \in Cell
      PROVE  UnderWay(B, R, c) + Num(c \in QCells(<<>>)) + Num(c \in QCells(q))
                 = Num(left[c] > 0)
  <2>1. UnderWay(B, R, c) + Num(c \in QCells(q)) + Num(c \in {}) = Num(left[c] > 0)
    BY DEF Places
  <2>2. UnderWay(B, R, c) \in Nat
    BY CountType DEF UnderWay
  <2> QED  BY <1>1, <2>1, <2>2 DEF Num
<1> QED  BY <1>2 DEF Places

LEMMA ProcessGrantTame ==
    ASSUME NEW s \in Clients, s.status = "running",
           NEW R, IsBagOf(R, AnyReply), NEW Q, IsBagOf(Q, AnyReply),
           NEW r \in Grants, More(R, Q, r),
           NEW D, W!IInv, Tame(s, R, {}, {}, 0, D)
    PROVE  /\ ScheduleQueuedDigs(AddLicense(s, r.license)) \in Clients
           /\ Tame(ScheduleQueuedDigs(AddLicense(s, r.license)), Q, {}, {}, 0, D)
<1> DEFINE S == {j \in 1..Slots : Done(s.licenses[j])}
           i == Min(S)
           u == AddLicense(s, r.license)
           t == [u EXCEPT !.digQueue = <<>>]
           new == u.licenses
           q == s.digQueue
<1>1. /\ s.licenses \in Licenses /\ IsBagOf(s.calls, AnyCall)
      /\ q \in Seq(Digs)
  BY ClientType
<1>2. u = IF S = {} THEN s ELSE [s EXCEPT !.licenses[i] = Granted(r)]
  BY DEF AddLicense, SlotsWhere, FirstSlot, Granted
<1>3. Agree(R, Q, DigReplies) /\ Agree(R, Q, CashReplies)
  BY AgreeIs, ReplyKinds, GrantType
<1>4. /\ \A L : Rem(active, L) \in Int
      /\ DOMAIN active \subseteq Nat
  BY ActiveIs
<1>5. /\ u \in Clients /\ u.calls = s.calls /\ u.digQueue = q /\ u.left = s.left
      /\ u.coins = s.coins /\ u.status = "running"
      /\ Budget(new, s.calls, Q)
      /\ faults = 0 => Licensed(new, s.calls, Q, active, 0)
  <2> HIDE DEF S, u
  <2>1. CASE S = {}
    <3>1. u = s
      BY <1>2, <2>1
    <3>2. Budget(s.licenses, s.calls, Q)
      BY <1>3, AgreeSame, FrameBudget DEF Tame
    <3>3. faults = 0 => Licensed(s.licenses, s.calls, Q, active, 0)
      <4> SUFFICES ASSUME faults = 0 PROVE Licensed(s.licenses, s.calls, Q, active, 0)
        OBVIOUS
      <4>1. Licensed(s.licenses, s.calls, R, active, 0) /\ Budget(s.licenses, s.calls, R)
        BY DEF Tame
      <4> QED  BY <1>1, <4>1, LoseLicensed
    <3> QED  BY <3>1, <3>2, <3>3
  <2>2. CASE S # {}
    <3>1. i \in 1..Slots /\ Done(s.licenses[i])
      <4>1. S \in SUBSET (1..Slots)
        BY DEF S
      <4>2. i \in S
        BY <2>2, <4>1, FirstSlotIs
      <4> QED  BY <4>2 DEF S
    <3> HIDE DEF i, new
    <3> DEFINE lic == [s.licenses EXCEPT ![i] = Granted(r)]
    <3>2. Replaced(s.licenses, lic, i, Granted(r))
      BY DEF Replaced
    <3>3. u = [s EXCEPT !.licenses = lic]
      BY <1>2, <2>2, <3>1 DEF Clients
    <3> HIDE DEF lic
    <3>4. lic \in Licenses /\ Budget(lic, s.calls, Q)
      BY <1>1, <1>3, <3>1, <3>2, PlaceBudget DEF Tame
    <3>5. faults = 0 => Licensed(lic, s.calls, Q, active, 0)
      <4>1. Budget(s.licenses, s.calls, R)
        BY DEF Tame
      <4>2. faults = 0 => Licensed(s.licenses, s.calls, R, active, 0)
        BY DEF Tame
      <4> QED  BY <1>1, <1>4, <3>1, <3>2, <4>1, <4>2, PlaceLicensed
    <3>6. /\ [s EXCEPT !.licenses = lic] \in Clients
          /\ [s EXCEPT !.licenses = lic].licenses = lic
          /\ [s EXCEPT !.licenses = lic].calls = s.calls
          /\ [s EXCEPT !.licenses = lic].digQueue = s.digQueue
          /\ [s EXCEPT !.licenses = lic].left = s.left
          /\ [s EXCEPT !.licenses = lic].coins = s.coins
          /\ [s EXCEPT !.licenses = lic].status = s.status
      BY <3>4 DEF Clients, Licenses
    <3>7. u.licenses = lic
      BY <3>3, <3>6
    <3> QED  BY <3>3, <3>4, <3>5, <3>6, <3>7 DEF new
  <2> QED  BY <2>1, <2>2
<1> HIDE DEF u
<1>6. /\ t \in Clients /\ t.licenses = new /\ t.calls = s.calls /\ t.digQueue = <<>>
      /\ t.left = s.left /\ t.coins = s.coins /\ t.status = "running"
  <2>1. <<>> \in Seq(Digs)
    BY EmptySeq
  <2> HIDE DEF new
  <2>2. /\ t \in Clients /\ t.licenses = u.licenses /\ t.calls = u.calls
        /\ t.digQueue = <<>> /\ t.left = u.left /\ t.coins = u.coins
        /\ t.status = u.status
    BY <1>5, <2>1 DEF Clients
  <2> QED  BY <1>5, <2>2 DEF new
<1> HIDE DEF t
<1>7. Conserving(t.licenses, t.digQueue)
  BY <1>6 DEF Conserving
<1>8. Coined(t.coins, t.calls, Q, coins, nextCoin, faults)
  BY <1>3, <1>6, AgreeSame, FrameCoined DEF Tame
<1>9. Cashed(t.calls, Q, {}, treasure, registry, faults)
  BY <1>3, <1>6, AgreeSame, FrameCashed DEF Tame
<1>10. Places(t.digQueue, t.calls, t.left, Q, QCells(q))
  <2>1. Places(q, s.calls, s.left, Q, {})
    BY <1>3, AgreeSame, FramePlaces DEF Tame
  <2> QED  BY <1>1, <1>6, <2>1, UnqueuePlaces
<1>11. Counted(t.left, Q, {}, counts, D, faults)
  BY <1>3, <1>6, FrameCounted DEF Tame
<1>12. Budget(t.licenses, t.calls, Q)
  BY <1>5, <1>6
<1>13. faults = 0 => InStep(q, t.calls, Q, depthMap)
  BY <1>3, <1>6, AgreeSame, FrameInStep DEF Tame
<1>14. faults = 0 => InStep(t.digQueue, t.calls, Q, depthMap)
  BY <1>6, <1>13 DEF InStep
<1>15. faults = 0 => Licensed(t.licenses, t.calls, Q, active, 0)
  BY <1>5, <1>6
<1>16. faults = 0 => Answered(Q)
  <2>1. DOMAIN Q \subseteq DOMAIN R
    BY DEF More
  <2> QED  BY <2>1, FrameAnswered DEF Tame
<1>17. Tame(t, Q, QCells(q), {}, 0, D)
  BY <1>6, <1>7, <1>8, <1>9, <1>10, <1>11, <1>12, <1>14, <1>15, <1>16 DEF Tame
<1>18. /\ \A j, k \in DOMAIN q : q[j].cell = q[k].cell => j = k
       /\ faults = 0 => \A j \in DOMAIN q : q[j].depth = depthMap[q[j].cell] + 1
  BY DEF Tame, Places, InStep
<1> HIDE DEF q
<1>19. /\ ScheduleQueuedDigs(u) \in Clients
       /\ Tame(ScheduleQueuedDigs(u), Q, {}, {}, 0, D)
  BY <1>5, <1>6, <1>17, <1>18, QueuedTame DEF t
<1> QED  BY <1>19 DEF u

LEMMA RefusedLicensed ==
    ASSUME NEW R, IsBagOf(R, AnyReply), NEW Q, IsBagOf(Q, AnyReply),
           NEW r \in Refusals, More(R, Q, r), NEW B, IsBagOf(B, AnyCall),
           NEW lic, NEW act, Licensed(lic, B, R, act, 0)
    PROVE  Licensed(lic, B, Q, act, 1)
<1>1. r \in LicenseReplies /\ r \notin Grants
  BY DEF LicenseReplies, Grants, Refusals
<1>2. Agree(R, Q, Grants) /\ Agree(R, Q, DigReplies)
  BY <1>1, AgreeIs, ReplyKinds
<1>3. DOMAIN Q \cap Grants = DOMAIN R \cap Grants
  BY <1>2 DEF Agree
<1>4. Fresh(Q) = Fresh(R)
  BY <1>3 DEF Fresh
<1>5. \A u \in Grants : Count(Q, {u}) = Count(R, {u})
  BY <1>2 DEF Agree
<1>6. \A L : Count(Q, DigRepliesOf(L)) = Count(R, DigRepliesOf(L))
  BY <1>2, Parts DEF Agree
<1>7. Entitled(lic, B, Q, act)
  BY <1>3, <1>5 DEF Licensed, Entitled
<1>8. PICK Lost \in SUBSET (DOMAIN act \ Fresh(R)) : Accounted(lic, B, R, act, 0, Lost)
  BY DEF Licensed
<1>9. Count(B, LicenseCalls) + Count(Q, LicenseReplies)
          + Cardinality(Busy(lic)) + Cardinality(Lost) + 1 = Slots
  <2>1. Count(R, LicenseReplies) = Count(Q, LicenseReplies) + 1
    BY <1>1 DEF More
  <2>2. Count(B, LicenseCalls) \in Nat /\ Count(Q, LicenseReplies) \in Nat
    BY CountType
  <2>3. Cardinality(Busy(lic)) \in Nat /\ Cardinality(Lost) \in Nat /\ Slots \in Nat
    BY <1>8, BusyFinite, FS_CardinalityType, GoldRushAssumption DEF Accounted
  <2>4. Count(B, LicenseCalls) + Count(R, LicenseReplies)
            + Cardinality(Busy(lic)) + Cardinality(Lost) + 0 = Slots
    BY <1>8 DEF Accounted
  <2> QED  BY <2>1, <2>2, <2>3, <2>4
<1>10. Accounted(lic, B, Q, act, 1, Lost)
  BY <1>4, <1>6, <1>8, <1>9 DEF Accounted
<1> QED  BY <1>4, <1>7, <1>10 DEF Licensed

LEMMA ProcessLicenseTame ==
    ASSUME NEW s \in Clients, s.status = "running",
           NEW R, IsBagOf(R, AnyReply), NEW Q, IsBagOf(Q, AnyReply),
           NEW r \in LicenseReplies, r.status # Failed, More(R, Q, r),
           NEW D, W!IInv, Tame(s, R, {}, {}, 0, D)
    PROVE  ProcessLicense(s, r) \in Clients /\ Tame(ProcessLicense(s, r), Q, {}, {}, 0, D)
<1>1. CASE r \in Grants
  <2>1. r.status = 200
    BY <1>1 DEF Grants
  <2>2. ProcessLicense(s, r) = ScheduleQueuedDigs(AddLicense(s, r.license))
    BY <2>1 DEF ProcessLicense
  <2> QED  BY <1>1, <2>2, ProcessGrantTame
<1>2. CASE r \in Refusals /\ r.status # 502
  <2>1. r.status \in 400..499
    BY <1>2 DEF Refusals, Failed
  <2>2. ProcessLicense(s, r) = Stop(s)
    BY <2>1 DEF ProcessLicense
  <2>3. r \in DOMAIN R
    BY DEF More
  <2>4. faults # 0
    <3>1. r.status # 200
      BY <1>2 DEF Refusals, Failed
    <3> QED  BY <1>2, <2>3, <3>1 DEF Tame, Answered
  <2> QED  BY <2>2, <2>4, StopTame
<1>3. CASE r \in Refusals /\ r.status = 502
  <2>1. ProcessLicense(s, r) = ScheduleIssueLicense(s)
    BY <1>3 DEF ProcessLicense
  <2>2. r \in LicenseReplies
    OBVIOUS
  <2>3. Agree(R, Q, DigReplies) /\ Agree(R, Q, CashReplies)
    BY AgreeIs, ReplyKinds
  <2>4. IsBagOf(s.calls, AnyCall) /\ DOMAIN Q \subseteq DOMAIN R
    BY ClientType DEF More
  <2>5. Coined(s.coins, s.calls, Q, coins, nextCoin, faults)
    BY <2>3, AgreeSame, FrameCoined DEF Tame
  <2>6. Cashed(s.calls, Q, {}, treasure, registry, faults)
    BY <2>3, AgreeSame, FrameCashed DEF Tame
  <2>7. Places(s.digQueue, s.calls, s.left, Q, {})
    BY <2>3, AgreeSame, FramePlaces DEF Tame
  <2>8. Counted(s.left, Q, {}, counts, D, faults)
    BY <2>3, FrameCounted DEF Tame
  <2>9. Budget(s.licenses, s.calls, Q)
    BY <2>3, AgreeSame, FrameBudget DEF Tame
  <2>10. faults = 0 => InStep(s.digQueue, s.calls, Q, depthMap)
    BY <2>3, AgreeSame, FrameInStep DEF Tame
  <2>11. faults = 0 => Licensed(s.licenses, s.calls, Q, active, 1)
    BY <1>3, <2>4, RefusedLicensed DEF Tame
  <2>12. faults = 0 => Answered(Q)
    BY <2>4, FrameAnswered DEF Tame
  <2>13. Tame(s, Q, {}, {}, 0 + 1, D)
    BY <2>5, <2>6, <2>7, <2>8, <2>9, <2>10, <2>11, <2>12 DEF Tame
  <2> QED  BY <2>1, <2>13, RequestTame
<1> QED  BY <1>1, <1>2, <1>3 DEF LicenseReplies
LEMMA TakeCoined ==
    ASSUME NEW R, IsBagOf(R, AnyReply), NEW Q, IsBagOf(Q, AnyReply),
           NEW r \in Payments, More(R, Q, r), NEW B, IsBagOf(B, AnyCall),
           NEW purse \in Seq(Nat), NEW wallet, NEW next, NEW f,
           Coined(purse, B, R, wallet, next, f)
    PROVE  /\ purse \o r.wallet \in Seq(Nat)
           /\ Coined(purse \o r.wallet, B, Q, wallet, next, f)
<1> DEFINE w == r.wallet
           m == Len(purse)
           n == Len(w)
           new == purse \o w
<1>1. /\ w \in Seq(Nat) /\ \A i, j \in DOMAIN w : w[i] = w[j] => i = j
      /\ \A k : r \in Brings(k) <=> InPurse(w, k)
  BY DEF Payments, Brings, InPurse
<1>2. /\ m \in Nat /\ n \in Nat /\ DOMAIN purse = 1..m /\ DOMAIN w = 1..n
  BY <1>1, LenProperties
<1>3. /\ new \in Seq(Nat) /\ DOMAIN new = 1..(m + n)
      /\ \A i \in 1..(m + n) : new[i] = IF i <= m THEN purse[i] ELSE w[i - m]
  <2> HIDE DEF w
  <2>1. /\ new \in Seq(Nat) /\ Len(new) = m + n
        /\ \A i \in 1..(m + n) : new[i] = IF i <= m THEN purse[i] ELSE w[i - m]
    BY <1>1, ConcatProperties
  <2> HIDE DEF new, m, n
  <2> QED  BY <2>1, LenProperties
<1> HIDE DEF new, w, m, n
<1>4. ASSUME NEW k
      PROVE  InPurse(new, k) <=> InPurse(purse, k) \/ InPurse(w, k)
  <2>1. ASSUME InPurse(new, k) PROVE InPurse(purse, k) \/ InPurse(w, k)
    <3>1. PICK i \in 1..(m + n) : new[i] = k
      BY <1>3, <2>1 DEF InPurse
    <3>2. CASE i <= m
      <4>1. i \in DOMAIN purse /\ purse[i] = k
        BY <1>2, <1>3, <3>1, <3>2
      <4> QED  BY <4>1 DEF InPurse
    <3>3. CASE ~(i <= m)
      <4>1. i - m \in DOMAIN w /\ w[i - m] = k
        BY <1>2, <1>3, <3>1, <3>3
      <4> QED  BY <4>1 DEF InPurse
    <3> QED  BY <3>2, <3>3
  <2>2. ASSUME InPurse(purse, k) PROVE InPurse(new, k)
    <3>1. PICK i \in 1..m : purse[i] = k
      BY <1>2, <2>2 DEF InPurse
    <3>2. i \in 1..(m + n) /\ i <= m
      BY <1>2
    <3> QED  BY <1>3, <3>1, <3>2 DEF InPurse
  <2>3. ASSUME InPurse(w, k) PROVE InPurse(new, k)
    <3>1. PICK i \in 1..n : w[i] = k
      BY <1>2, <2>3 DEF InPurse
    <3>2. m + i \in 1..(m + n) /\ ~(m + i <= m) /\ (m + i) - m = i
      BY <1>2
    <3>3. new[m + i] = w[(m + i) - m]
      BY <1>3, <3>2
    <3> QED  BY <1>3, <3>1, <3>2, <3>3 DEF InPurse
  <2> QED  BY <2>1, <2>2, <2>3
<1>5. ASSUME NEW k \in Nat
      PROVE  /\ CoinUse(new, B, Q, k) = CoinUse(purse, B, R, k)
             /\ ~(InPurse(purse, k) /\ InPurse(w, k))
             /\ InPurse(new, k) => k \in wallet
             /\ Count(Q, Brings(k)) > 0 => k \in wallet
  <2>1. /\ Count(B, {PaidLicense(k)}) \in Nat /\ Count(Q, Brings(k)) \in Nat
        /\ Count(R, Brings(k)) \in Nat
    BY CountType
  <2>2. /\ CoinUse(purse, B, R, k) <= 1
        /\ InPurse(purse, k) => k \in wallet
        /\ Count(R, Brings(k)) > 0 => k \in wallet
    BY DEF Coined
  <2>3. CASE InPurse(w, k)
    <3>1. Count(R, Brings(k)) = Count(Q, Brings(k)) + 1
      BY <1>1, <2>3 DEF More, w
    <3>2. ~InPurse(purse, k)
      BY <2>1, <2>2, <3>1 DEF CoinUse, Num
    <3> QED  BY <1>4, <2>1, <2>2, <2>3, <3>1, <3>2 DEF CoinUse, Num
  <2>4. CASE ~InPurse(w, k)
    <3>1. Count(R, Brings(k)) = Count(Q, Brings(k)) + 0
      BY <1>1, <2>4 DEF More, w
    <3> QED  BY <1>4, <2>1, <2>2, <2>4, <3>1 DEF CoinUse, Num
  <2> QED  BY <2>3, <2>4
<1>6. ASSUME NEW i \in DOMAIN new, NEW j \in DOMAIN new, new[i] = new[j]
      PROVE  i = j
  <2>1. /\ i \in 1..(m + n) /\ j \in 1..(m + n) /\ m \in Nat /\ n \in Nat
        /\ DOMAIN purse = 1..m /\ DOMAIN w = 1..n
    BY <1>2, <1>3
  <2>2. \A x \in 1..(m + n) : ~(x <= m) => x - m \in 1..n
    BY <2>1
  <2>3. \A x \in 1..(m + n), y \in 1..(m + n) : x <= m /\ ~(y <= m) => new[x] # new[y]
    <3> SUFFICES ASSUME NEW x \in 1..(m + n), NEW y \in 1..(m + n), x <= m, ~(y <= m),
                        new[x] = new[y]
                 PROVE  FALSE
      OBVIOUS
    <3>1. x \in DOMAIN purse /\ new[x] = purse[x]
      BY <1>3, <2>1
    <3>2. y - m \in DOMAIN w /\ new[y] = w[y - m]
      BY <1>3, <2>1, <2>2
    <3>3. purse[x] \in Nat
      BY <3>1, <2>1, ElementOfSeq DEF m
    <3>4. InPurse(purse, purse[x]) /\ InPurse(w, purse[x])
      BY <3>1, <3>2 DEF InPurse
    <3> QED  BY <1>5, <3>3, <3>4
  <2>4. CASE i <= m /\ j <= m
    <3>1. i \in DOMAIN purse /\ j \in DOMAIN purse /\ new[i] = purse[i] /\ new[j] = purse[j]
      BY <1>3, <2>1, <2>4
    <3> QED  BY <1>6, <3>1 DEF Coined
  <2>5. CASE ~(i <= m) /\ ~(j <= m)
    <3>1. /\ i - m \in DOMAIN w /\ j - m \in DOMAIN w
          /\ new[i] = w[i - m] /\ new[j] = w[j - m]
      BY <1>3, <2>1, <2>2, <2>5
    <3>2. i - m = j - m
      BY <1>1, <1>6, <3>1 DEF w
    <3> QED  BY <2>1, <3>2
  <2> QED  BY <1>6, <2>1, <2>3, <2>4, <2>5
<1>7. Coined(new, B, Q, wallet, next, f)
  BY <1>5, <1>6 DEF Coined
<1> QED  BY <1>3, <1>7 DEF new, w

LEMMA ProcessCashTame ==
    ASSUME NEW s \in Clients, s.status = "running",
           NEW R, IsBagOf(R, AnyReply), NEW Q, IsBagOf(Q, AnyReply),
           NEW r \in CashReplies, r.status # Failed, More(R, Q, r),
           NEW D, W!IInv, Tame(s, R, {}, {}, 0, D)
    PROVE  ProcessCash(s, r) \in Clients /\ Tame(ProcessCash(s, r), Q, {}, {}, 0, D)
<1> DEFINE t == ProcessCash(s, r)
<1>1. /\ IsBagOf(s.calls, AnyCall) /\ s.coins \in Seq(Nat)
      /\ r \in DOMAIN R /\ DOMAIN Q \subseteq DOMAIN R
  BY ClientType DEF More
<1>2. Agree(R, Q, DigReplies) /\ Agree(R, Q, LicenseReplies)
  BY AgreeIs, ReplyKinds
<1>3. ASSUME t \in Clients, t.licenses = s.licenses, t.digQueue = s.digQueue,
             t.left = s.left, t.status = s.status,
             Agree(s.calls, t.calls, DigCalls), Agree(s.calls, t.calls, LicenseCalls),
             Coined(t.coins, t.calls, Q, coins, nextCoin, faults),
             Cashed(t.calls, Q, {}, treasure, registry, faults)
      PROVE  Tame(t, Q, {}, {}, 0, D)
  <2> HIDE DEF t
  <2>1. Places(t.digQueue, t.calls, t.left, Q, {})
    BY <1>2, <1>3, FramePlaces DEF Tame
  <2>2. Counted(t.left, Q, {}, counts, D, faults)
    BY <1>2, <1>3, FrameCounted DEF Tame
  <2>3. Budget(t.licenses, t.calls, Q)
    BY <1>2, <1>3, FrameBudget DEF Tame
  <2>4. faults = 0 => InStep(t.digQueue, t.calls, Q, depthMap)
    BY <1>2, <1>3, FrameInStep DEF Tame
  <2>5. faults = 0 => Licensed(t.licenses, t.calls, Q, active, 0)
    BY <1>2, <1>3, FrameLicensed DEF Tame
  <2>6. faults = 0 => Answered(Q)
    BY <1>1, FrameAnswered DEF Tame
  <2>7. Conserving(t.licenses, t.digQueue)
    BY <1>3 DEF Tame
  <2> QED  BY <1>3, <2>1, <2>2, <2>3, <2>4, <2>5, <2>6, <2>7 DEF Tame
<1>4. CASE r \in Payments
  <2>1. r.status = 200
    BY <1>4 DEF Payments
  <2>2. t = [s EXCEPT !.coins = s.coins \o r.wallet]
    BY <2>1 DEF ProcessCash, Clients
  <2> HIDE DEF t
  <2> DEFINE purse == s.coins \o r.wallet
  <2>3. purse \in Seq(Nat) /\ Coined(purse, s.calls, Q, coins, nextCoin, faults)
    BY <1>1, <1>4, TakeCoined DEF Tame
  <2> HIDE DEF purse
  <2>4. /\ [s EXCEPT !.coins = purse] \in Clients
        /\ [s EXCEPT !.coins = purse].coins = purse
        /\ [s EXCEPT !.coins = purse].calls = s.calls
        /\ [s EXCEPT !.coins = purse].licenses = s.licenses
        /\ [s EXCEPT !.coins = purse].digQueue = s.digQueue
        /\ [s EXCEPT !.coins = purse].left = s.left
        /\ [s EXCEPT !.coins = purse].status = s.status
    BY <2>3 DEF Clients
  <2>5. Cashed(s.calls, Q, {}, treasure, registry, faults)
    <3>1. \A u : Count(Q, AgainFor(u)) = Count(R, AgainFor(u))
      <4> TAKE u
      <4>1. r \notin AgainFor(u)
        BY <2>1 DEF AgainFor
      <4> QED  BY <4>1, AgreeIs DEF Agree
    <3>2. \A u : Count(Q, FoundAt(u)) = Count(R, FoundAt(u))
      BY <1>2, Parts DEF Agree
    <3>3. \A u : Exchange(s.calls, Q, {}, u) = Exchange(s.calls, R, {}, u)
      BY <3>1, <3>2 DEF Exchange
    <3> QED  BY <3>3 DEF Tame, Cashed
  <2> QED  BY <1>3, <2>2, <2>3, <2>4, <2>5, AgreeSame DEF purse, t
<1>5. CASE r \in CashRefusals /\ r.status # 503
  <2>1. r.status \in {409, 429}
    BY <1>5 DEF CashRefusals, Failed
  <2>2. t = Stop(s)
    <3>1. CASE r.status = 409
      BY <3>1 DEF ProcessCash
    <3>2. CASE r.status = 429
      BY <3>2 DEF ProcessCash
    <3> QED  BY <2>1, <3>1, <3>2
  <2>3. faults # 0
    BY <1>1, <2>1 DEF Tame, Answered
  <2> QED  BY <2>2, <2>3, StopTame
<1>6. CASE r \in CashRefusals /\ r.status = 503
  <2> DEFINE call == r.call
  <2>1. t = Send(s, call)
    BY <1>6 DEF ProcessCash
  <2>2. call \in CashCalls /\ call \in AnyCall /\ call \notin DigCalls /\ call \notin LicenseCalls
    BY <1>6, CallKinds DEF CashRefusals, AnyCall
  <2> HIDE DEF call, t
  <2>3. /\ Send(s, call) \in Clients
        /\ More(Send(s, call).calls, s.calls, call)
        /\ Send(s, call) = [s EXCEPT !.calls = Send(s, call).calls]
    BY <2>2, SendIs
  <2>4. /\ t \in Clients /\ More(t.calls, s.calls, call)
        /\ t.licenses = s.licenses /\ t.digQueue = s.digQueue /\ t.left = s.left
        /\ t.coins = s.coins /\ t.status = s.status
    BY <2>1, <2>3 DEF Clients
  <2>5. IsBagOf(t.calls, AnyCall)
    BY <2>4, ClientType
  <2>6. Agree(s.calls, t.calls, DigCalls) /\ Agree(s.calls, t.calls, LicenseCalls)
    BY <1>1, <2>2, <2>4, <2>5, AgreeIs
  <2>7. Coined(t.coins, t.calls, Q, coins, nextCoin, faults)
    <3>1. \A k : Count(Q, Brings(k)) = Count(R, Brings(k))
      <4> TAKE k
      <4>1. r \notin Brings(k)
        BY <1>6 DEF Brings, Payments
      <4> QED  BY <4>1, AgreeIs DEF Agree
    <3>2. \A k \in Nat : Count(t.calls, {PaidLicense(k)}) = Count(s.calls, {PaidLicense(k)})
      BY <2>6, Parts DEF Agree
    <3>3. \A k \in Nat : CoinUse(t.coins, t.calls, Q, k) = CoinUse(s.coins, s.calls, R, k)
      BY <2>4, <3>1, <3>2 DEF CoinUse
    <3> QED  BY <2>4, <3>1, <3>3 DEF Tame, Coined
  <2>8. Cashed(t.calls, Q, {}, treasure, registry, faults)
    <3>1. ASSUME NEW u \in TreasureId
          PROVE  Exchange(t.calls, Q, {}, u) = Exchange(s.calls, R, {}, u)
      <4>1. /\ Count(s.calls, CashCallsFor(u)) \in Nat /\ Count(Q, AgainFor(u)) \in Nat
            /\ Count(R, FoundAt(u)) \in Nat
        BY <1>1, CountType
      <4>2. Count(Q, FoundAt(u)) = Count(R, FoundAt(u))
        BY <1>2, Parts DEF Agree
      <4>3. r \in AgainFor(u) <=> call.treasure = u
        BY <1>6 DEF AgainFor, call
      <4>4. call \in CashCallsFor(u) <=> call.treasure = u
        BY <2>2 DEF CashCallsFor
      <4>5. Count(R, AgainFor(u)) = Count(Q, AgainFor(u))
                                        + (IF call.treasure = u THEN 1 ELSE 0)
        BY <4>3 DEF More
      <4>6. Count(t.calls, CashCallsFor(u)) = Count(s.calls, CashCallsFor(u))
                                                  + (IF call.treasure = u THEN 1 ELSE 0)
        BY <2>4, <4>4 DEF More
      <4> QED  BY <4>1, <4>2, <4>5, <4>6 DEF Exchange, Num
    <3> QED  BY <3>1 DEF Tame, Cashed
  <2> QED  BY <1>3, <2>4, <2>6, <2>7, <2>8 DEF t
<1> QED  BY <1>4, <1>5, <1>6 DEF CashReplies

(***************************************************************************)
(* Any response.                                                           *)
(***************************************************************************)
LEMMA ProcessTame ==
    ASSUME NEW s \in Clients, s.status = "running",
           NEW R, IsBagOf(R, AnyReply), NEW Q, IsBagOf(Q, AnyReply),
           NEW r \in AnyReply, More(R, Q, r),
           NEW D, W!IInv, Tame(s, R, {}, {}, 0, D)
    PROVE  Process(s, r) \in Clients /\ Tame(Process(s, r), Q, {}, {}, 0, D)
<1>0. CASE r.status = Failed
  <2>1. Process(s, r) = Stop(s)
    BY <1>0 DEF Process
  <2>2. r \in DOMAIN R /\ r.status \notin {200, 404, 502, 503}
    BY <1>0 DEF More, Failed
  <2>3. faults # 0
    BY <2>2 DEF Tame, Answered, AnyReply
  <2> QED  BY <2>1, <2>3, StopTame
<1>1. CASE r.status # Failed /\ r \in LicenseReplies
  <2>1. r.call.type \in LicenseTypes
    BY <1>1 DEF LicenseReplies, Grants, Refusals, LicenseCalls, LicenseTypes
  <2>2. r.call.type # "Dig" /\ r.call.type # "Cash"
    BY <2>1 DEF LicenseTypes
  <2>3. Process(s, r) = ProcessLicense(s, r)
    BY <1>1, <2>1, <2>2 DEF Process
  <2> QED  BY <1>1, <2>3, ProcessLicenseTame
<1>2. CASE r.status # Failed /\ r \in DigReplies
  <2>1. r.call.type = "Dig"
    BY <1>2 DEF DigReplies, DigCalls
  <2>2. r.call.type \notin LicenseTypes /\ r.call.type # "Cash"
    BY <2>1 DEF LicenseTypes
  <2>3. Process(s, r) = ProcessDig(s, r)
    BY <1>2, <2>1, <2>2 DEF Process
  <2> QED  BY <1>2, <2>3, ProcessDigTame
<1>3. CASE r.status # Failed /\ r \in CashReplies
  <2>1. r.call.type = "Cash"
    BY <1>3 DEF CashReplies, Payments, CashRefusals, CashCalls, CashCall
  <2>2. r.call.type \notin LicenseTypes /\ r.call.type # "Dig"
    BY <2>1 DEF LicenseTypes
  <2>3. Process(s, r) = ProcessCash(s, r)
    BY <1>3, <2>1, <2>2 DEF Process
  <2> QED  BY <1>3, <2>3, ProcessCashTame
<1> QED  BY <1>0, <1>1, <1>2, <1>3 DEF AnyReply

LEMMA HandleInv ==
    ASSUME IInv, NEW reply, Handle(reply)
    PROVE  IInv'
<1>1. reply \in DOMAIN replies
  BY DEF Handle, BagIn, BagToSet
<1> DEFINE Q == replies (-) SetToBag({reply})
<1>2. IsBagOf(replies, AnyReply) /\ reply \in AnyReply
  BY <1>1 DEF IInv, IsBagOf
<1>3. IsBagOf(Q, AnyReply) /\ More(replies, Q, reply)
  BY <1>1, <1>2, RemoveIsLess
<1> HIDE DEF Q
<1>4. replies' = Q /\ client' = Process(client, reply) /\ client.status = "running"
  BY DEF Handle, Q
<1>5. W!IInv /\ client \in Clients /\ Tame(client, replies, {}, {}, 0, discovered)
  BY DEF IInv
<1>6. /\ Process(client, reply) \in Clients
      /\ Tame(Process(client, reply), Q, {}, {}, 0, discovered)
  BY <1>2, <1>3, <1>4, <1>5, ProcessTame
<1>7. /\ UNCHANGED <<treasure, depthMap, counts, registry, unavailable, active, coins,
                     nextCoin, throttled, discovered, faults>>
  BY DEF Handle, serverVars
<1>8. W!IInv'
  BY <1>5, <1>7, ServerConstants, W!StutterInv
         DEF W!vars, W!fieldVars, W!treasureVars, W!moneyVars
<1>9. (client \in Clients)'
  BY <1>4, <1>6
<1>10. Tame(client, replies, {}, {}, 0, discovered)'
  BY <1>4, <1>6, <1>7 DEF Tame
<1> QED  BY <1>3, <1>4, <1>7, <1>8, <1>9, <1>10 DEF IInv, Untouched
-----------------------------------------------------------------------------
(***************************************************************************)
(* The exploration locates cells.                                          *)
(***************************************************************************)
LEMMA LocateTame ==
    ASSUME NEW s \in Clients, s.status = "running", W!IInv, NEW D,
           NEW c \in Cell, c \notin D, counts[c] > 0,
           NEW R, IsBagOf(R, AnyReply), Tame(s, R, {}, {}, 0, D),
           faults = 0 => depthMap[c] = 0
    PROVE  /\ Locate(s, c) \in Clients
           /\ Locate(s, c).status = "running"
           /\ Tame(Locate(s, c), R, {}, {}, 0, D \cup {c})
<1> DEFINE left == [s.left EXCEPT ![c] = counts[c]]
           t == [s EXCEPT !.left[c] = counts[c]]
           dig == [cell |-> c, depth |-> 1]
           E == D \cup {c}
<1>1. /\ counts[c] \in 0..MaxDepth /\ MaxDepth \in Nat
      /\ s.left \in [Cell -> 0..MaxDepth] /\ IsBagOf(s.calls, AnyCall)
  <2>1. W!TypeOK
    BY W!TypeFromInv, ServerConstants
  <2>2. counts \in [Cell -> 0..MaxDepth]
    BY <2>1, ServerConstants DEF W!TypeOK
  <2> QED  BY <2>2, ClientType, GoldRushAssumption DEF Server!WorldAssumption
<1>2. /\ left \in [Cell -> 0..MaxDepth] /\ left[c] = counts[c]
      /\ \A d \in Cell \ {c} : left[d] = s.left[d]
  BY <1>1
<1>3. t = [s EXCEPT !.left = left]
  BY DEF Clients
<1>4. Locate(s, c) = ScheduleDig(t, dig)
  BY DEF Locate, StartDigging
<1>5. dig \in Digs /\ dig.cell = c /\ dig.depth = 1
  BY <1>1 DEF Digs
<1> HIDE DEF left, dig
<1>6. /\ t \in Clients /\ t.licenses = s.licenses /\ t.digQueue = s.digQueue
      /\ t.left = left /\ t.coins = s.coins /\ t.status = s.status
      /\ t.calls = s.calls
  <2> HIDE DEF t
  <2>1. /\ [s EXCEPT !.left = left] \in Clients
        /\ [s EXCEPT !.left = left].licenses = s.licenses
        /\ [s EXCEPT !.left = left].digQueue = s.digQueue
        /\ [s EXCEPT !.left = left].left = left
        /\ [s EXCEPT !.left = left].coins = s.coins
        /\ [s EXCEPT !.left = left].status = s.status
        /\ [s EXCEPT !.left = left].calls = s.calls
    BY <1>2 DEF Clients
  <2> QED  BY <1>3, <2>1
<1> HIDE DEF t
<1>7. UnderWay(s.calls, R, c) = 0 /\ c \notin QCells(s.digQueue) /\ Count(R, FoundIn(c)) = 0
  <2>1. s.left[c] = 0
    BY DEF Tame, Counted
  <2>2. UnderWay(s.calls, R, c) + Num(c \in QCells(s.digQueue)) + Num(c \in {})
            = Num(s.left[c] > 0)
    BY DEF Tame, Places
  <2>3. /\ Count(s.calls, DigCallsIn(c)) \in Nat /\ Count(R, DigRepliesIn(c)) \in Nat
        /\ Count(R, FoundIn(c)) \in Nat
    BY <1>1, CountType
  <2>4. Count(R, FoundIn(c)) <= Count(R, DigRepliesIn(c))
    <3>1. FoundIn(c) \cap AnyReply \subseteq DigRepliesIn(c)
      BY DEF FoundIn
    <3> QED  BY <3>1, CountMonotone
  <2> QED  BY <2>1, <2>2, <2>3, <2>4 DEF UnderWay, Num
<1>8. Places(t.digQueue, t.calls, t.left, R, {c})
  <2>1. ASSUME NEW d \in Cell
        PROVE  UnderWay(s.calls, R, d) + Num(d \in QCells(s.digQueue)) + Num(d \in {c})
                   = Num(left[d] > 0)
    <3>1. UnderWay(s.calls, R, d) + Num(d \in QCells(s.digQueue)) + Num(d \in {})
              = Num(s.left[d] > 0)
      BY DEF Tame, Places
    <3>2. UnderWay(s.calls, R, d) \in Nat
      BY <1>1, CountType DEF UnderWay
    <3>3. CASE d = c
      BY <1>2, <1>7, <3>3 DEF Num
    <3>4. CASE d # c
      BY <1>2, <3>1, <3>2, <3>4 DEF Num
    <3> QED  BY <3>3, <3>4
  <2> QED  BY <1>6, <2>1 DEF Tame, Places
<1>9. Counted(t.left, R, {}, counts, E, faults)
  <2>1. ASSUME NEW d \in Cell
        PROVE  /\ d \notin E => left[d] = 0
               /\ d \in E => /\ left[d] >= counts[d] + Uncounted(R, {}, d)
                             /\ faults = 0 => left[d] = counts[d] + Uncounted(R, {}, d)
    <3>1. CASE d = c
      BY <1>1, <1>2, <1>7, <3>1 DEF Uncounted, Num
    <3>2. CASE d # c
      <4>1. left[d] = s.left[d] /\ (d \in E <=> d \in D)
        BY <1>2, <3>2
      <4> QED  BY <4>1 DEF Tame, Counted
    <3> QED  BY <3>1, <3>2
  <2> QED  BY <1>6, <2>1 DEF Counted
<1>10. Tame(t, R, {c}, {}, 0, E)
  BY <1>6, <1>8, <1>9 DEF Tame
<1>11. {c} \ {dig.cell} = {} /\ dig.cell \in {c}
  BY <1>5
<1>12. faults = 0 => dig.depth = depthMap[dig.cell] + 1
  BY <1>5
<1>13. /\ ScheduleDig(t, dig) \in Clients
       /\ ScheduleDig(t, dig).status = "running"
       /\ Tame(ScheduleDig(t, dig), R, {c} \ {dig.cell}, {}, 0, E)
  BY <1>5, <1>6, <1>10, <1>11, <1>12, ScheduleDigTame
<1> QED  BY <1>4, <1>11, <1>13

LEMMA ServerStands ==
    ASSUME IInv, UNCHANGED serverVars
    PROVE  W!IInv'
BY ServerConstants, W!StutterInv
   DEF IInv, serverVars, W!vars, W!fieldVars, W!treasureVars, W!moneyVars

LEMMA DiscoverInv ==
    ASSUME IInv, NEW c \in Cell, Discover(c)
    PROVE  IInv'
<1>1. /\ W!IInv /\ client \in Clients /\ IsBagOf(replies, AnyReply)
      /\ Tame(client, replies, {}, {}, 0, discovered)
      /\ faults = 0 => \A d \in Cell \ discovered : depthMap[d] = 0
  BY DEF IInv, Untouched
<1>2. /\ client.status = "running" /\ c \notin discovered /\ counts[c] > 0
      /\ discovered' = discovered \cup {c}
      /\ client' = Locate(client, c)
      /\ UNCHANGED <<serverVars, replies, faults>>
  BY DEF Discover, Unknown
<1>3. /\ client' \in Clients
      /\ Tame(client', replies, {}, {}, 0, discovered \cup {c})
  BY <1>1, <1>2, LocateTame
<1>4. UNCHANGED <<treasure, depthMap, counts, registry, unavailable, active, coins,
                  nextCoin, throttled>>
  BY <1>2 DEF serverVars
<1>5. Tame(client, replies, {}, {}, 0, discovered)'
  BY <1>2, <1>3, <1>4 DEF Tame
<1>6. W!IInv'
  BY <1>2, ServerStands
<1> QED  BY <1>1, <1>2, <1>3, <1>4, <1>5, <1>6 DEF IInv, Untouched

LEMMA DiscoverBothInv ==
    ASSUME IInv, NEW c \in Cell, NEW d \in Cell, DiscoverBoth(c, d)
    PROVE  IInv'
<1>1. /\ W!IInv /\ client \in Clients /\ IsBagOf(replies, AnyReply)
      /\ Tame(client, replies, {}, {}, 0, discovered)
      /\ faults = 0 => \A x \in Cell \ discovered : depthMap[x] = 0
  BY DEF IInv, Untouched
<1>2. /\ client.status = "running" /\ c # d
      /\ c \notin discovered /\ counts[c] > 0 /\ d \notin discovered /\ counts[d] > 0
      /\ discovered' = discovered \cup {c, d}
      /\ client' = Locate(Locate(client, c), d)
      /\ UNCHANGED <<serverVars, replies, faults>>
  BY DEF DiscoverBoth, Unknown
<1> DEFINE s == Locate(client, c)
           D == discovered \cup {c}
<1>3. s \in Clients /\ s.status = "running" /\ Tame(s, replies, {}, {}, 0, D)
  BY <1>1, <1>2, LocateTame
<1>4. d \notin D /\ D \cup {d} = discovered \cup {c, d}
  BY <1>2
<1>5. faults = 0 => depthMap[d] = 0
  BY <1>1, <1>2
<1> HIDE DEF s, D
<1>6. Locate(s, d) \in Clients /\ Tame(Locate(s, d), replies, {}, {}, 0, D \cup {d})
  BY <1>1, <1>2, <1>3, <1>4, <1>5, LocateTame
<1>7. client' \in Clients /\ Tame(client', replies, {}, {}, 0, discovered \cup {c, d})
  BY <1>2, <1>4, <1>6 DEF s
<1>8. UNCHANGED <<treasure, depthMap, counts, registry, unavailable, active, coins,
                  nextCoin, throttled>>
  BY <1>2 DEF serverVars
<1>9. Tame(client, replies, {}, {}, 0, discovered)'
  BY <1>2, <1>7, <1>8 DEF Tame
<1>10. W!IInv'
  BY <1>2, ServerStands
<1> QED  BY <1>1, <1>2, <1>7, <1>8, <1>9, <1>10 DEF IInv, Untouched
-----------------------------------------------------------------------------
(***************************************************************************)
(* A dig is answered: what of the invariant only moves from the calls to   *)
(* the replies. B and R are the calls and the replies before the answer, C *)
(* and Q after it.                                                         *)
(***************************************************************************)
LEMMA AnswerMoves ==
    ASSUME NEW B, NEW C, IsBagOf(C, AnyCall), NEW R, IsBagOf(R, AnyReply), NEW Q,
           NEW r \in DigReplies, More(B, C, r.call), More(Q, R, r)
    PROVE  /\ \A c : /\ Count(B, DigCallsIn(c)) =
                            Count(C, DigCallsIn(c)) + (IF r.call.cell = c THEN 1 ELSE 0)
                     /\ Count(Q, DigRepliesIn(c)) =
                            Count(R, DigRepliesIn(c)) + (IF r.call.cell = c THEN 1 ELSE 0)
                     /\ Count(C, DigCallsIn(c)) \in Nat /\ Count(R, DigRepliesIn(c)) \in Nat
           /\ \A c : UnderWay(C, Q, c) = UnderWay(B, R, c) /\ UnderWay(B, R, c) \in Nat
           /\ \A L : Count(C, DigCallsOf(L)) + Count(Q, DigRepliesOf(L))
                         = Count(B, DigCallsOf(L)) + Count(R, DigRepliesOf(L))
           /\ \A L : /\ Count(B, DigCallsOf(L)) =
                            Count(C, DigCallsOf(L)) + (IF r.call.license = L THEN 1 ELSE 0)
                     /\ Count(Q, DigRepliesOf(L)) =
                            Count(R, DigRepliesOf(L)) + (IF r.call.license = L THEN 1 ELSE 0)
                     /\ Count(C, DigCallsOf(L)) \in Nat /\ Count(R, DigRepliesOf(L)) \in Nat
<1>0. r.call \in DigCalls
  BY ReplyType
<1>1. ASSUME NEW c
      PROVE  /\ Count(B, DigCallsIn(c)) =
                    Count(C, DigCallsIn(c)) + (IF r.call.cell = c THEN 1 ELSE 0)
             /\ Count(Q, DigRepliesIn(c)) =
                    Count(R, DigRepliesIn(c)) + (IF r.call.cell = c THEN 1 ELSE 0)
             /\ Count(C, DigCallsIn(c)) \in Nat /\ Count(R, DigRepliesIn(c)) \in Nat
  <2>1. r.call \in DigCallsIn(c) <=> r.call.cell = c
    BY <1>0 DEF DigCallsIn
  <2>2. r \in DigRepliesIn(c) <=> r.call.cell = c
    BY DEF DigRepliesIn
  <2> QED  BY <2>1, <2>2, CountType DEF More
<1>2. ASSUME NEW L
      PROVE  /\ Count(B, DigCallsOf(L)) =
                    Count(C, DigCallsOf(L)) + (IF r.call.license = L THEN 1 ELSE 0)
             /\ Count(Q, DigRepliesOf(L)) =
                    Count(R, DigRepliesOf(L)) + (IF r.call.license = L THEN 1 ELSE 0)
             /\ Count(C, DigCallsOf(L)) \in Nat /\ Count(R, DigRepliesOf(L)) \in Nat
  <2>1. r.call \in DigCallsOf(L) <=> r.call.license = L
    BY <1>0 DEF DigCallsOf
  <2>2. r \in DigRepliesOf(L) <=> r.call.license = L
    BY DEF DigRepliesOf
  <2> QED  BY <2>1, <2>2, CountType DEF More
<1>3. ASSUME NEW c
      PROVE  UnderWay(C, Q, c) = UnderWay(B, R, c) /\ UnderWay(B, R, c) \in Nat
  BY <1>1 DEF UnderWay
<1>4. ASSUME NEW L
      PROVE  Count(C, DigCallsOf(L)) + Count(Q, DigRepliesOf(L))
                 = Count(B, DigCallsOf(L)) + Count(R, DigRepliesOf(L))
  BY <1>2
<1> QED  BY <1>1, <1>2, <1>3, <1>4

LEMMA AnswerPlaces ==
    ASSUME NEW B, NEW C, IsBagOf(C, AnyCall), NEW R, IsBagOf(R, AnyReply), NEW Q,
           NEW r \in DigReplies, More(B, C, r.call), More(Q, R, r),
           NEW q, NEW left, NEW H, Places(q, B, left, R, H)
    PROVE  /\ Places(q, C, left, Q, H)
           /\ r.call.cell \notin QCells(q) /\ left[r.call.cell] > 0
           /\ Count(C, DigCallsIn(r.call.cell)) = 0
           /\ Count(R, DigRepliesIn(r.call.cell)) = 0
<1> DEFINE c == r.call.cell
<1>1. c \in Cell
  BY ReplyType
<1>2. \A x : UnderWay(C, Q, x) = UnderWay(B, R, x) /\ UnderWay(B, R, x) \in Nat
  BY AnswerMoves
<1>3. /\ Count(B, DigCallsIn(c)) = Count(C, DigCallsIn(c)) + 1
      /\ Count(C, DigCallsIn(c)) \in Nat /\ Count(R, DigRepliesIn(c)) \in Nat
  BY AnswerMoves
<1>4. UnderWay(B, R, c) + Num(c \in QCells(q)) + Num(c \in H) = Num(left[c] > 0)
  BY <1>1 DEF Places
<1> HIDE DEF c
<1>5. /\ c \notin QCells(q) /\ left[c] > 0
      /\ Count(C, DigCallsIn(c)) = 0 /\ Count(R, DigRepliesIn(c)) = 0
  BY <1>3, <1>4 DEF UnderWay, Num
<1>6. Places(q, C, left, Q, H)
  BY <1>2 DEF Places
<1> QED  BY <1>5, <1>6 DEF c

LEMMA AnswerBudget ==
    ASSUME NEW B, NEW C, IsBagOf(C, AnyCall), NEW R, IsBagOf(R, AnyReply), NEW Q,
           NEW r \in DigReplies, More(B, C, r.call), More(Q, R, r),
           NEW lic \in Licenses, Budget(lic, B, R)
    PROVE  Budget(lic, C, Q)
<1> SUFFICES ASSUME NEW L \in Nat
             PROVE  Spare(lic, L) + Count(C, DigCallsOf(L)) + Count(Q, DigRepliesOf(L))
                        <= Owed(lic, L)
  BY DEF Budget
<1>1. Spare(lic, L) + Count(B, DigCallsOf(L)) + Count(R, DigRepliesOf(L)) <= Owed(lic, L)
  BY DEF Budget
<1>2. /\ Count(B, DigCallsOf(L)) =
             Count(C, DigCallsOf(L)) + (IF r.call.license = L THEN 1 ELSE 0)
      /\ Count(Q, DigRepliesOf(L)) =
             Count(R, DigRepliesOf(L)) + (IF r.call.license = L THEN 1 ELSE 0)
      /\ Count(C, DigCallsOf(L)) \in Nat /\ Count(R, DigRepliesOf(L)) \in Nat
  BY AnswerMoves
<1>3. Spare(lic, L) \in Int /\ Owed(lic, L) \in Int
  BY SlotSums
<1> QED  BY <1>1, <1>2, <1>3

LEMMA AnswerCounted ==
    ASSUME NEW R, IsBagOf(R, AnyReply), NEW Q, NEW r \in DigReplies, More(Q, R, r),
           NEW left, NEW D, NEW f, NEW cnt, \A c \in Cell : cnt[c] \in Nat,
           NEW cnt2, \A c \in Cell : cnt2[c] = cnt[c] - (IF r.status = 200 /\ r.call.cell = c
                                                        THEN 1 ELSE 0),
           Counted(left, R, {}, cnt, D, f)
    PROVE  Counted(left, Q, {}, cnt2, D, f)
<1> SUFFICES ASSUME NEW c \in Cell
             PROVE  /\ c \notin D => left[c] = 0
                    /\ c \in D => /\ left[c] >= cnt2[c] + Uncounted(Q, {}, c)
                                  /\ f = 0 => left[c] = cnt2[c] + Uncounted(Q, {}, c)
  BY DEF Counted
<1>1. /\ c \notin D => left[c] = 0
      /\ c \in D => /\ left[c] >= cnt[c] + Uncounted(R, {}, c)
                    /\ f = 0 => left[c] = cnt[c] + Uncounted(R, {}, c)
  BY DEF Counted
<1>2. r \in FoundIn(c) <=> (r.status = 200 /\ r.call.cell = c)
  BY DEF FoundIn, DigRepliesIn
<1>3. Count(Q, FoundIn(c)) = Count(R, FoundIn(c))
                                 + (IF r.status = 200 /\ r.call.cell = c THEN 1 ELSE 0)
  BY <1>2 DEF More
<1>4. Count(R, FoundIn(c)) \in Nat /\ cnt[c] \in Nat
  BY CountType
<1>5. cnt2[c] = cnt[c] - (IF r.status = 200 /\ r.call.cell = c THEN 1 ELSE 0)
  OBVIOUS
<1>6. cnt2[c] + Uncounted(Q, {}, c) = cnt[c] + Uncounted(R, {}, c)
  BY <1>3, <1>4, <1>5 DEF Uncounted, Num
<1> QED  BY <1>1, <1>6

LEMMA AnswerCashed ==
    ASSUME NEW B, NEW C, Agree(B, C, CashCalls), NEW R, IsBagOf(R, AnyReply),
           NEW Q, NEW r \in DigReplies, More(Q, R, r), IsBagOf(C, AnyCall),
           NEW ground, NEW reg, NEW f, Cashed(B, R, {}, ground, reg, f),
           NEW ground2, NEW reg2, DOMAIN reg \subseteq DOMAIN reg2,
           \A t \in TreasureId : ground[t[1]][t[2]] = 0 => ground2[t[1]][t[2]] = 0,
           \A t \in HasDug(r) : /\ ground[t[1]][t[2]] # 0
                                /\ ground2[t[1]][t[2]] = 0
                                /\ t \in DOMAIN reg2
    PROVE  Cashed(C, Q, {}, ground2, reg2, f)
<1> SUFFICES ASSUME NEW t \in TreasureId
             PROVE  /\ Exchange(C, Q, {}, t) <= 1
                    /\ Exchange(C, Q, {}, t) > 0 => /\ ground2[t[1]][t[2]] = 0
                                                    /\ f = 0 => t \in DOMAIN reg2
  BY DEF Cashed
<1>1. /\ Exchange(B, R, {}, t) <= 1
      /\ Exchange(B, R, {}, t) > 0 => /\ ground[t[1]][t[2]] = 0
                                      /\ f = 0 => t \in DOMAIN reg
  BY DEF Cashed
<1>2. r \in FoundAt(t) <=> t \in HasDug(r)
  BY ReplyType
<1>3. Count(Q, FoundAt(t)) = Count(R, FoundAt(t)) + (IF t \in HasDug(r) THEN 1 ELSE 0)
  BY <1>2 DEF More
<1>4. Count(Q, AgainFor(t)) = Count(R, AgainFor(t))
  <2>1. r \notin AgainFor(t)
    BY ReplyKinds, Parts
  <2>2. Count(R, AgainFor(t)) \in Nat
    BY CountType
  <2> QED  BY <2>1, <2>2 DEF More
<1>5. Count(C, CashCallsFor(t)) = Count(B, CashCallsFor(t))
  BY Parts DEF Agree
<1>6. /\ Count(R, FoundAt(t)) \in Nat /\ Count(R, AgainFor(t)) \in Nat
      /\ Count(C, CashCallsFor(t)) \in Nat
  BY CountType
<1>7. CASE t \in HasDug(r)
  <2>1. Exchange(B, R, {}, t) = 0
    <3>1. ~(Exchange(B, R, {}, t) > 0)
      BY <1>1, <1>7
    <3>2. Exchange(B, R, {}, t) \in Nat
      BY <1>5, <1>6 DEF Exchange, Num
    <3> QED  BY <3>1, <3>2
  <2>2. Exchange(C, Q, {}, t) = 1
    BY <1>3, <1>4, <1>5, <1>6, <1>7, <2>1 DEF Exchange, Num
  <2> QED  BY <1>7, <2>2
<1>8. CASE t \notin HasDug(r)
  <2>1. Exchange(C, Q, {}, t) = Exchange(B, R, {}, t)
    BY <1>3, <1>4, <1>5, <1>6, <1>8 DEF Exchange
  <2> QED  BY <1>1, <2>1
<1> QED  BY <1>7, <1>8

LEMMA AnswerInStep ==
    ASSUME NEW B, NEW C, IsBagOf(C, AnyCall), NEW R, IsBagOf(R, AnyReply), NEW Q,
           NEW r \in DigReplies, More(B, C, r.call), More(Q, R, r),
           NEW q, r.call.cell \notin QCells(q),
           Count(C, DigCallsIn(r.call.cell)) = 0, Count(R, DigRepliesIn(r.call.cell)) = 0,
           NEW dug, NEW dug2, dug2[r.call.cell] = dug[r.call.cell] + 1,
           \A c \in Cell \ {r.call.cell} : dug2[c] = dug[c],
           q \in Seq(Digs), InStep(q, B, R, dug)
    PROVE  InStep(q, C, Q, dug2)
<1> DEFINE c == r.call.cell
<1>1. r.call \in DOMAIN B \cap DigCalls /\ DOMAIN C \subseteq DOMAIN B
  BY ReplyType DEF More
<1>2. r.call.depth = dug[c] + 1
  BY <1>1 DEF InStep
<1>3. ASSUME NEW i \in DOMAIN q PROVE q[i].depth = dug2[q[i].cell] + 1
  <2>1. q[i].cell # c
    BY DEF QCells
  <2>2. q[i].cell \in Cell
    <3>1. Len(q) \in Nat /\ DOMAIN q = 1..Len(q)
      BY LenProperties
    <3>2. q[i] \in Digs
      BY <3>1, ElementOfSeq
    <3> QED  BY <3>2 DEF Digs
  <2> QED  BY <2>1, <2>2 DEF InStep
<1>4. ASSUME NEW call \in DOMAIN C \cap DigCalls PROVE call.depth = dug2[call.cell] + 1
  <2>1. call.cell # c
    <3> SUFFICES ASSUME call.cell = c PROVE FALSE
      OBVIOUS
    <3>1. call \in DOMAIN C \cap DigCallsIn(c)
      BY DEF DigCallsIn
    <3>2. 1 <= C[call] /\ C[call] <= Count(C, DigCallsIn(c)) /\ C[call] \in Nat
      BY <3>1, CountType DEF IsBagOf
    <3> QED  BY <3>2
  <2>2. call.cell \in Cell
    BY DEF DigCalls
  <2>3. call \in DOMAIN B \cap DigCalls
    BY <1>1
  <2> QED  BY <2>1, <2>2, <2>3 DEF InStep
<1>5. ASSUME NEW u \in DOMAIN Q \cap DigReplies PROVE u.call.depth = dug2[u.call.cell]
  <2>1. CASE u = r
    BY <1>2, <2>1
  <2>2. CASE u # r
    <3>1. u \in DOMAIN R
      BY <2>2 DEF More
    <3>2. u.call.cell # c
      <4> SUFFICES ASSUME u.call.cell = c PROVE FALSE
        OBVIOUS
      <4>1. u \in DOMAIN R \cap DigRepliesIn(c)
        BY <3>1 DEF DigRepliesIn
      <4>2. 1 <= R[u] /\ R[u] <= Count(R, DigRepliesIn(c)) /\ R[u] \in Nat
        BY <4>1, CountType DEF IsBagOf
      <4> QED  BY <4>2
    <3>3. u.call.cell \in Cell
      BY ReplyType
    <3> QED  BY <3>1, <3>2, <3>3 DEF InStep
  <2> QED  BY <2>1, <2>2
<1> QED  BY <1>3, <1>4, <1>5 DEF InStep

LEMMA AnswerLicensed ==
    ASSUME NEW B, NEW C, IsBagOf(C, AnyCall), Agree(B, C, LicenseCalls),
           NEW R, IsBagOf(R, AnyReply), NEW Q, Agree(R, Q, LicenseReplies),
           NEW r \in DigReplies, More(B, C, r.call), More(Q, R, r),
           NEW lic \in Licenses, \A i \in 1..Slots : lic[i].used <= lic[i].allowed,
           NEW act, \A L : Rem(act, L) \in Int, DOMAIN act \subseteq Nat,
           NEW act2,
           \A L \in Nat : Rem(act2, L) = Rem(act, L) - (IF L = r.call.license THEN 1 ELSE 0),
           DOMAIN act2 \subseteq DOMAIN act,
           \A L \in DOMAIN act \ {r.call.license} : L \in DOMAIN act2 /\ act2[L] = act[L],
           Licensed(lic, B, R, act, 0)
    PROVE  Licensed(lic, C, Q, act2, 0)
<1> DEFINE L0 == r.call.license
<1>1. L0 \in Nat
  BY ReplyType
<1>2. Entitled(lic, B, R, act)
  BY DEF Licensed
<1>3. PICK Lost \in SUBSET (DOMAIN act \ Fresh(R)) : Accounted(lic, B, R, act, 0, Lost)
  BY DEF Licensed
<1>4. \A L : /\ Count(B, DigCallsOf(L)) =
                    Count(C, DigCallsOf(L)) + (IF L0 = L THEN 1 ELSE 0)
             /\ Count(Q, DigRepliesOf(L)) =
                    Count(R, DigRepliesOf(L)) + (IF L0 = L THEN 1 ELSE 0)
             /\ Count(C, DigCallsOf(L)) \in Nat /\ Count(R, DigRepliesOf(L)) \in Nat
  BY AnswerMoves
<1>5. \A L : Spare(lic, L) \in Nat /\ Owed(lic, L) \in Int
  BY SpareNat, SlotSums
<1>6. L0 \notin Lost \cup Fresh(R)
  <2> SUFFICES ASSUME L0 \in Lost \cup Fresh(R) PROVE FALSE
    OBVIOUS
  <2>1. Spare(lic, L0) + Count(B, DigCallsOf(L0)) = 0
    BY <1>3 DEF Accounted
  <2>2. Count(B, DigCallsOf(L0)) = Count(C, DigCallsOf(L0)) + 1
    BY <1>4
  <2>3. Spare(lic, L0) \in Nat /\ Count(C, DigCallsOf(L0)) \in Nat
    BY <1>4, <1>5
  <2> QED  BY <2>1, <2>2, <2>3
<1>7. DOMAIN Q \cap Grants = DOMAIN R \cap Grants /\ \A u \in Grants : Count(Q, {u}) = Count(R, {u})
  <2>1. DOMAIN Q \cap Grants = DOMAIN R \cap Grants
    BY Parts DEF Agree
  <2>2. ASSUME NEW u \in Grants PROVE Count(Q, {u}) = Count(R, {u})
    <3>1. {u} \subseteq LicenseReplies
      BY Parts
    <3> QED  BY <3>1 DEF Agree
  <2> QED  BY <2>1, <2>2
<1>8. Fresh(Q) = Fresh(R)
  BY <1>7 DEF Fresh
<1> HIDE DEF L0
<1>9. ASSUME NEW L \in Nat PROVE Spare(lic, L) + Count(C, DigCallsOf(L)) <= Rem(act2, L)
  <2>1. Spare(lic, L) + Count(B, DigCallsOf(L)) <= Rem(act, L)
    BY <1>2 DEF Entitled
  <2>2. Rem(act2, L) = Rem(act, L) - (IF L = L0 THEN 1 ELSE 0)
    BY DEF L0
  <2>3. Count(B, DigCallsOf(L)) = Count(C, DigCallsOf(L)) + (IF L0 = L THEN 1 ELSE 0)
    BY <1>4
  <2>4. /\ Spare(lic, L) \in Nat /\ Count(C, DigCallsOf(L)) \in Nat
        /\ Rem(act, L) \in Int
    BY <1>4, <1>5
  <2> QED  BY <2>1, <2>2, <2>3, <2>4
<1>10. ASSUME NEW u \in DOMAIN Q \cap Grants
       PROVE  /\ u.license.id \in DOMAIN act2
              /\ act2[u.license.id].used = 0
              /\ act2[u.license.id].allowed = u.license.allowed
              /\ \A v \in DOMAIN Q \cap Grants : v.license.id = u.license.id => v = u
              /\ Count(Q, {u}) = 1
  <2>1. u \in DOMAIN R \cap Grants
    BY <1>7
  <2>2. /\ u.license.id \in DOMAIN act
        /\ act[u.license.id].used = 0
        /\ act[u.license.id].allowed = u.license.allowed
        /\ \A v \in DOMAIN R \cap Grants : v.license.id = u.license.id => v = u
        /\ Count(R, {u}) = 1
    BY <1>2, <2>1 DEF Entitled
  <2>3. u.license.id # L0
    BY <1>6, <2>1 DEF Fresh
  <2>4. u.license.id \in DOMAIN act2 /\ act2[u.license.id] = act[u.license.id]
    BY <2>2, <2>3 DEF L0
  <2> QED  BY <1>7, <2>2, <2>4
<1>11. Entitled(lic, C, Q, act2)
  BY <1>9, <1>10 DEF Entitled
<1>12. Lost \in SUBSET (DOMAIN act2 \ Fresh(Q))
  BY <1>6, <1>8 DEF L0
<1>13. ASSUME NEW L \in Lost \cup Fresh(Q) PROVE Spare(lic, L) + Count(C, DigCallsOf(L)) = 0
  <2>1. L # L0 /\ L \in Lost \cup Fresh(R)
    BY <1>6, <1>8
  <2>2. Count(B, DigCallsOf(L)) = Count(C, DigCallsOf(L)) + 0 /\ Count(C, DigCallsOf(L)) \in Nat
    BY <1>4, <2>1
  <2>3. Spare(lic, L) + Count(B, DigCallsOf(L)) = 0
    BY <1>3, <2>1 DEF Accounted
  <2> QED  BY <2>2, <2>3
<1>14. ASSUME NEW L \in DOMAIN act2 \ (Lost \cup Fresh(Q))
       PROVE  Count(Q, DigRepliesOf(L)) + Rem(act2, L) <= Owed(lic, L)
  <2>1. L \in DOMAIN act \ (Lost \cup Fresh(R)) /\ L \in Nat
    BY <1>8
  <2>2. Count(R, DigRepliesOf(L)) + Rem(act, L) <= Owed(lic, L)
    BY <1>3, <2>1 DEF Accounted
  <2>3. Rem(act2, L) = Rem(act, L) - (IF L = L0 THEN 1 ELSE 0)
    BY <2>1 DEF L0
  <2>4. Count(Q, DigRepliesOf(L)) = Count(R, DigRepliesOf(L)) + (IF L0 = L THEN 1 ELSE 0)
    BY <1>4
  <2>5. Count(R, DigRepliesOf(L)) \in Nat /\ Rem(act, L) \in Int /\ Owed(lic, L) \in Int
    BY <1>4, <1>5
  <2> QED  BY <2>2, <2>3, <2>4, <2>5
<1>15. Count(C, LicenseCalls) + Count(Q, LicenseReplies)
           + Cardinality(Busy(lic)) + Cardinality(Lost) + 0 = Slots
  BY <1>3 DEF Accounted, Agree
<1>16. Accounted(lic, C, Q, act2, 0, Lost)
  BY <1>3, <1>13, <1>14, <1>15 DEF Accounted
<1> QED  BY <1>11, <1>12, <1>16 DEF Licensed

-----------------------------------------------------------------------------
(***************************************************************************)
(* The answer to a call is delivered, or it comes too late.                *)
(***************************************************************************)
Delivered(call, reply) ==
    /\ client' \in Clients
    /\ client'.licenses = client.licenses /\ client'.digQueue = client.digQueue
    /\ client'.left = client.left /\ client'.coins = client.coins
    /\ client'.status = client.status
    /\ More(client.calls, client'.calls, call)
    /\ IsBagOf(replies', AnyReply) /\ More(replies', replies, reply)

Refused(call) == \E status \in {429, Failed} :
                     Delivered(call, [call |-> call, status |-> status])

Missed(call) == /\ faults < MaxFaults /\ faults' = faults + 1
                /\ (client' = client /\ replies' = replies) \/ Refused(call)

LEMMA RefusalType ==
    ASSUME NEW call \in AnyCall, NEW status \in {429, Failed},
           NEW r, r = [call |-> call, status |-> status]
    PROVE  /\ call \in LicenseCalls => r \in Refusals
           /\ call \in DigCalls => r \in DigReplies /\ HasDug(r) = {}
           /\ call \in CashCalls => r \in CashRefusals
           /\ r \in AnyReply
           /\ r.call = call /\ r.status \notin {200, 503}
<1>1. r.call = call /\ r.status = status /\ r.status \notin {200, 404, 503}
  BY DEF Failed
<1>2. /\ call \in LicenseCalls => r \in Refusals
      /\ call \in CashCalls => r \in CashRefusals
  BY DEF Refusals, CashRefusals
<1>3. ASSUME call \in DigCalls PROVE r \in DigReplies /\ HasDug(r) = {}
  <2>1. r \in [call : DigCalls, status : {Failed, 200, 403, 404, 422, 429}]
    BY <1>3
  <2> QED  BY <1>1, <2>1 DEF DigReplies, HasDug
<1> QED  BY <1>1, <1>2, <1>3 DEF AnyReply, AnyCall, LicenseReplies, CashReplies

LEMMA DeliveredIs ==
    ASSUME IInv, NEW call \in DOMAIN client.calls, NEW reply \in AnyReply,
           client' = [client EXCEPT !.calls = @ (-) SetToBag({call})],
           replies' = replies (+) SetToBag({reply})
    PROVE  Delivered(call, reply)
<1> DEFINE C == client.calls (-) SetToBag({call})
<1>1. client \in Clients /\ IsBagOf(client.calls, AnyCall) /\ IsBagOf(replies, AnyReply)
  BY ClientType DEF IInv
<1>2. IsBagOf(C, AnyCall) /\ More(client.calls, C, call)
  BY <1>1, RemoveIsLess
<1>3. IsBagOf(replies', AnyReply) /\ More(replies', replies, reply)
  BY <1>1, AddIsMore
<1>4. C \in CallBags
  BY <1>2, CallBagsAre
<1>5. client' = [client EXCEPT !.calls = C]
  OBVIOUS
<1> HIDE DEF C
<1>6. /\ client' \in Clients
      /\ client'.licenses = client.licenses /\ client'.digQueue = client.digQueue
      /\ client'.left = client.left /\ client'.coins = client.coins
      /\ client'.status = client.status /\ client'.calls = C
  <2>1. /\ [client EXCEPT !.calls = C] \in Clients
        /\ [client EXCEPT !.calls = C].licenses = client.licenses
        /\ [client EXCEPT !.calls = C].digQueue = client.digQueue
        /\ [client EXCEPT !.calls = C].left = client.left
        /\ [client EXCEPT !.calls = C].coins = client.coins
        /\ [client EXCEPT !.calls = C].status = client.status
        /\ [client EXCEPT !.calls = C].calls = C
    BY <1>1, <1>4 DEF Clients
  <2> QED  BY <1>5, <2>1
<1> QED  BY <1>2, <1>3, <1>6 DEF Delivered

LEMMA AnswerIs ==
    ASSUME IInv, NEW call \in DOMAIN client.calls, NEW reply \in AnyReply,
           Answer(call, reply)
    PROVE  /\ discovered' = discovered
           /\ \/ Delivered(call, reply) /\ faults' = faults
              \/ Missed(call)
<1>1. discovered' = discovered
  BY DEF Answer
<1>2. CASE Arrive(call, reply) /\ faults' = faults
  BY <1>1, <1>2, DeliveredIs DEF Arrive
<1>3. CASE /\ faults < MaxFaults /\ faults' = faults + 1
           /\ Arrive(call, [call |-> call, status |-> Failed])
  <2> DEFINE r == [call |-> call, status |-> Failed]
  <2>1. call \in AnyCall
    BY ClientType DEF IInv, IsBagOf
  <2>2. r \in AnyReply
    BY <2>1, RefusalType
  <2>3. Delivered(call, r)
    <3> HIDE DEF r
    <3>1. Arrive(call, r)
      BY <1>3 DEF r
    <3> QED  BY <2>2, <3>1, DeliveredIs DEF Arrive
  <2> QED  BY <1>1, <1>3, <2>3 DEF Missed, Refused
<1>4. CASE /\ faults < MaxFaults /\ faults' = faults + 1
           /\ UNCHANGED <<client, replies>>
  BY <1>1, <1>4 DEF Missed
<1> QED  BY <1>2, <1>3, <1>4 DEF Answer

-----------------------------------------------------------------------------
(***************************************************************************)
(* A treasure is exchanged.                                                *)
(***************************************************************************)
LEMMA CashCallType ==
    ASSUME NEW call \in CashCalls
    PROVE  /\ call.treasure \in TreasureId /\ call.type = "Cash"
           /\ \A t : call \in CashCallsFor(t) <=> call.treasure = t
<1>1. PICK t \in TreasureId : call = CashCall(t, t[2])
  BY DEF CashCalls
<1> QED  BY <1>1 DEF CashCall, CashCallsFor

\* the exchange that a call performs is over, or the call comes again
LEMMA AnswerExchange ==
    ASSUME NEW B, NEW C, IsBagOf(C, AnyCall), NEW call \in CashCalls, More(B, C, call),
           NEW R, IsBagOf(R, AnyReply), NEW Q, NEW r \in CashReplies, r.call = call,
           More(Q, R, r),
           NEW ground, NEW reg, NEW reg2, NEW f, Cashed(B, R, {}, ground, reg, f),
           r \notin CashRefusals \/ r.status # 503 => DOMAIN reg \ {call.treasure} \subseteq DOMAIN reg2,
           r \in CashRefusals /\ r.status = 503 => DOMAIN reg \subseteq DOMAIN reg2
    PROVE  Cashed(C, Q, {}, ground, reg2, f)
<1> DEFINE t == call.treasure
           again == r \in CashRefusals /\ r.status = 503
<1> SUFFICES ASSUME NEW u \in TreasureId
             PROVE  /\ Exchange(C, Q, {}, u) <= 1
                    /\ Exchange(C, Q, {}, u) > 0 => /\ ground[u[1]][u[2]] = 0
                                                    /\ f = 0 => u \in DOMAIN reg2
  BY DEF Cashed
<1>1. /\ Exchange(B, R, {}, u) <= 1
      /\ Exchange(B, R, {}, u) > 0 => /\ ground[u[1]][u[2]] = 0
                                      /\ f = 0 => u \in DOMAIN reg
  BY DEF Cashed
<1>2. Count(B, CashCallsFor(u)) = Count(C, CashCallsFor(u)) + (IF u = t THEN 1 ELSE 0)
  <2>1. call \in CashCallsFor(u) <=> u = t
    BY CashCallType
  <2> QED  BY <2>1 DEF More
<1>3. Count(Q, AgainFor(u)) = Count(R, AgainFor(u)) + (IF u = t /\ again THEN 1 ELSE 0)
  <2>1. r \in AgainFor(u) <=> u = t /\ again
    BY DEF AgainFor
  <2> QED  BY <2>1 DEF More
<1>4. Count(Q, FoundAt(u)) = Count(R, FoundAt(u))
  <2>1. r \notin FoundAt(u)
    BY ReplyKinds, Parts
  <2>2. Count(R, FoundAt(u)) \in Nat
    BY CountType
  <2> QED  BY <2>1, <2>2 DEF More
<1>5. /\ Count(R, FoundAt(u)) \in Nat /\ Count(R, AgainFor(u)) \in Nat
      /\ Count(C, CashCallsFor(u)) \in Nat
  BY CountType
<1>6. /\ again => DOMAIN reg \subseteq DOMAIN reg2
      /\ ~again => DOMAIN reg \ {t} \subseteq DOMAIN reg2
  OBVIOUS
<1> HIDE DEF t, again
<1>7. Num(u \in {}) = 0
  BY DEF Num
<1>8. CASE u = t /\ ~again
  <2>1. Exchange(C, Q, {}, u) + 1 = Exchange(B, R, {}, u) /\ Exchange(C, Q, {}, u) \in Nat
    BY <1>2, <1>3, <1>4, <1>5, <1>7, <1>8 DEF Exchange
  <2> QED  BY <1>1, <2>1
<1>9. CASE u = t /\ again
  <2>1. Exchange(C, Q, {}, u) = Exchange(B, R, {}, u)
    BY <1>2, <1>3, <1>4, <1>5, <1>7, <1>9 DEF Exchange
  <2> QED  BY <1>1, <1>6, <1>9, <2>1
<1>10. CASE u # t
  <2>1. Exchange(C, Q, {}, u) = Exchange(B, R, {}, u)
    BY <1>2, <1>3, <1>4, <1>5, <1>7, <1>10 DEF Exchange
  <2> QED  BY <1>1, <1>6, <1>10, <2>1
<1> QED  BY <1>8, <1>9, <1>10

\* new coins come with the answer
LEMMA AnswerPays ==
    ASSUME NEW B, IsBagOf(B, AnyCall), NEW C, Agree(B, C, LicenseCalls),
           NEW R, IsBagOf(R, AnyReply), NEW Q, NEW r \in Payments, More(Q, R, r),
           NEW next \in Nat, NEW n \in Nat, DOMAIN r.wallet = 1..n,
           \A i \in 1..n : r.wallet[i] = next + i - 1,
           NEW wallet, \A k \in wallet : k < next,
           NEW purse, NEW f, Coined(purse, B, R, wallet, next, f)
    PROVE  Coined(purse, C, Q, wallet \cup next..(next + n - 1), next + n, f)
<1> DEFINE W2 == wallet \cup next..(next + n - 1)
           Pay(k) == {PaidLicense(k)}
<1>1. \A i, j \in DOMAIN purse : purse[i] = purse[j] => i = j
  BY DEF Coined
<1>2. ASSUME NEW k \in Nat
      PROVE  /\ CoinUse(purse, C, Q, k) <= 1
             /\ CoinUse(purse, C, Q, k) > 0 => k < next + n
             /\ InPurse(purse, k) => k \in W2
             /\ Count(Q, Brings(k)) > 0 => k \in W2
             /\ f = 0 => (k \in W2 <=> CoinUse(purse, C, Q, k) = 1)
  <2>1. /\ CoinUse(purse, B, R, k) <= 1
        /\ CoinUse(purse, B, R, k) > 0 => k < next
        /\ InPurse(purse, k) => k \in wallet
        /\ Count(R, Brings(k)) > 0 => k \in wallet
        /\ f = 0 => (k \in wallet <=> CoinUse(purse, B, R, k) = 1)
    BY DEF Coined
  <2>2. Count(C, Pay(k)) = Count(B, Pay(k))
    BY Parts DEF Agree
  <2>3. r \in Brings(k) <=> next <= k /\ k < next + n
    <3>1. ASSUME next <= k, k < next + n PROVE r \in Brings(k)
      <4>1. k - next + 1 \in 1..n /\ r.wallet[k - next + 1] = k
        BY <3>1
      <4> QED  BY <4>1 DEF Brings
    <3>2. ASSUME r \in Brings(k) PROVE next <= k /\ k < next + n
      <4>1. PICK i \in 1..n : r.wallet[i] = k
        BY <3>2 DEF Brings
      <4> QED  BY <4>1
    <3> QED  BY <3>1, <3>2
  <2>4. Count(Q, Brings(k)) = Count(R, Brings(k)) + (IF r \in Brings(k) THEN 1 ELSE 0)
    BY DEF More
  <2>5. /\ Count(B, Pay(k)) \in Nat /\ Count(R, Brings(k)) \in Nat
        /\ Num(InPurse(purse, k)) \in {0, 1}
    BY CountType DEF Num
  <2> HIDE DEF Pay
  <2>6. k \in W2 <=> k \in wallet \/ (next <= k /\ k < next + n)
    OBVIOUS
  <2>7. k \in wallet => k < next
    OBVIOUS
  <2> HIDE DEF W2
  <2>8. CASE r \in Brings(k)
    <3>1. CoinUse(purse, B, R, k) = 0
      <4>1. ~(CoinUse(purse, B, R, k) > 0)
        BY <2>1, <2>3, <2>8
      <4> QED  BY <2>5, <4>1 DEF CoinUse, Pay
    <3>2. CoinUse(purse, C, Q, k) = CoinUse(purse, B, R, k) + 1
      <4>1. Count(Q, Brings(k)) = Count(R, Brings(k)) + 1
        BY <2>4, <2>8
      <4>2. Num(InPurse(purse, k)) \in Int /\ Count(B, Pay(k)) \in Int /\ Count(R, Brings(k)) \in Int
        BY <2>5
      <4> HIDE DEF Pay
      <4>3. /\ CoinUse(purse, C, Q, k) =
                   Num(InPurse(purse, k)) + Count(B, Pay(k)) + (Count(R, Brings(k)) + 1)
            /\ CoinUse(purse, B, R, k) =
                   Num(InPurse(purse, k)) + Count(B, Pay(k)) + Count(R, Brings(k))
        BY <2>2, <4>1 DEF CoinUse, Pay
      <4> QED  BY <4>2, <4>3
    <3> QED  BY <2>3, <2>6, <2>8, <3>1, <3>2
  <2>9. CASE r \notin Brings(k)
    <3>1. /\ CoinUse(purse, C, Q, k) = CoinUse(purse, B, R, k)
          /\ Count(Q, Brings(k)) = Count(R, Brings(k))
      BY <2>2, <2>4, <2>5, <2>9 DEF CoinUse, Pay
    <3>2. k \in W2 <=> k \in wallet
      BY <2>3, <2>6, <2>9
    <3>3. k < next => k < next + n
      OBVIOUS
    <3> QED  BY <2>1, <3>1, <3>2, <3>3
  <2> QED  BY <2>8, <2>9
<1> QED  BY <1>1, <1>2 DEF Coined

\* no coins are moved
LEMMA SameCoined ==
    ASSUME NEW B, NEW C, Agree(B, C, LicenseCalls),
           NEW R, NEW Q, \A k \in Nat : Count(Q, Brings(k)) = Count(R, Brings(k)),
           NEW purse, NEW wallet, NEW next, NEW f, Coined(purse, B, R, wallet, next, f)
    PROVE  Coined(purse, C, Q, wallet, next, f)
<1>1. \A k \in Nat : Count(C, {PaidLicense(k)}) = Count(B, {PaidLicense(k)})
  BY Parts DEF Agree
<1>2. \A k \in Nat : CoinUse(purse, C, Q, k) = CoinUse(purse, B, R, k)
  BY <1>1 DEF CoinUse
<1> QED  BY <1>2 DEF Coined

-----------------------------------------------------------------------------
(***************************************************************************)
(* A licence is asked for. The coin that pays is in no other place.        *)
(***************************************************************************)
PaidWith(call) == IF call = FreeLicense THEN {} ELSE {call.coin}

LEMMA LicenseCallType ==
    ASSUME NEW call \in LicenseCalls
    PROVE  /\ call.type \in LicenseTypes
           /\ PaidWith(call) \subseteq Nat
           /\ \A k \in Nat : call = PaidLicense(k) <=> k \in PaidWith(call)
<1>1. CASE call \in [type : {"IssueFreeLicense"}]
  <2>1. call = FreeLicense /\ call.type = "IssueFreeLicense"
    BY <1>1 DEF FreeLicense
  <2>2. \A k : PaidLicense(k).type = "IssuePaidLicense"
    BY DEF PaidLicense
  <2> QED  BY <2>1, <2>2 DEF PaidWith, LicenseTypes
<1>2. CASE call \in [type : {"IssuePaidLicense"}, coin : Nat]
  <2>1. call.type = "IssuePaidLicense" /\ call.coin \in Nat /\ call = PaidLicense(call.coin)
    BY <1>2 DEF PaidLicense
  <2>2. FreeLicense.type = "IssueFreeLicense"
    BY DEF FreeLicense
  <2>3. PaidWith(call) = {call.coin}
    BY <2>1, <2>2 DEF PaidWith
  <2>4. \A k \in Nat : PaidLicense(k).coin = k
    BY DEF PaidLicense
  <2> QED  BY <2>1, <2>3, <2>4 DEF LicenseTypes
<1> QED  BY <1>1, <1>2 DEF LicenseCalls

LEMMA CoinPaid ==
    ASSUME NEW B, IsBagOf(B, AnyCall), NEW R, IsBagOf(R, AnyReply),
           NEW call \in DOMAIN B, call \in LicenseCalls,
           NEW purse, NEW wallet, NEW next, NEW f, Coined(purse, B, R, wallet, next, f),
           NEW k \in PaidWith(call)
    PROVE  /\ ~InPurse(purse, k) /\ Count(R, Brings(k)) = 0
           /\ CoinUse(purse, B, R, k) = 1
           /\ f = 0 => k \in wallet
<1>1. k \in Nat /\ call = PaidLicense(k)
  BY LicenseCallType
<1> DEFINE P == {PaidLicense(k)}
<1>2. call \in DOMAIN B \cap P
  BY <1>1
<1> HIDE DEF P
<1>3. 1 <= B[call] /\ B[call] <= Count(B, P) /\ B[call] \in Nat
  BY <1>2, CountType DEF IsBagOf
<1>4. Count(B, P) \in Nat /\ Count(R, Brings(k)) \in Nat
  BY CountType
<1>5. CoinUse(purse, B, R, k) <= 1 /\ (f = 0 => (k \in wallet <=> CoinUse(purse, B, R, k) = 1))
  BY <1>1 DEF Coined
<1>6. CoinUse(purse, B, R, k) = Num(InPurse(purse, k)) + Count(B, P) + Count(R, Brings(k))
  BY DEF CoinUse, P
<1> QED  BY <1>3, <1>4, <1>5, <1>6 DEF Num

LEMMA AnswerSpends ==
    ASSUME NEW B, IsBagOf(B, AnyCall), NEW C, IsBagOf(C, AnyCall),
           NEW call \in LicenseCalls, More(B, C, call),
           NEW R, IsBagOf(R, AnyReply), NEW Q, Agree(R, Q, CashReplies),
           NEW purse, NEW wallet, NEW next, NEW f, Coined(purse, B, R, wallet, next, f),
           NEW wallet2, wallet2 \subseteq wallet, wallet \ PaidWith(call) \subseteq wallet2,
           f = 0 => wallet2 \cap PaidWith(call) = {}
    PROVE  Coined(purse, C, Q, wallet2, next, f)
<1>1. \A i, j \in DOMAIN purse : purse[i] = purse[j] => i = j
  BY DEF Coined
<1>2. ASSUME NEW k \in Nat
      PROVE  /\ CoinUse(purse, C, Q, k) <= 1
             /\ CoinUse(purse, C, Q, k) > 0 => k < next
             /\ InPurse(purse, k) => k \in wallet2
             /\ Count(Q, Brings(k)) > 0 => k \in wallet2
             /\ f = 0 => (k \in wallet2 <=> CoinUse(purse, C, Q, k) = 1)
  <2> DEFINE P == {PaidLicense(k)}
  <2>1. /\ CoinUse(purse, B, R, k) <= 1
        /\ CoinUse(purse, B, R, k) > 0 => k < next
        /\ InPurse(purse, k) => k \in wallet
        /\ Count(R, Brings(k)) > 0 => k \in wallet
        /\ f = 0 => (k \in wallet <=> CoinUse(purse, B, R, k) = 1)
    BY DEF Coined
  <2>2. Count(Q, Brings(k)) = Count(R, Brings(k))
    BY Parts DEF Agree
  <2>3. Count(B, P) = Count(C, P) + (IF k \in PaidWith(call) THEN 1 ELSE 0)
    <3>1. call \in P <=> k \in PaidWith(call)
      BY LicenseCallType
    <3> QED  BY <3>1 DEF More
  <2>4. /\ Count(C, P) \in Nat /\ Count(R, Brings(k)) \in Nat
        /\ Num(InPurse(purse, k)) \in {0, 1}
    BY CountType DEF Num
  <2>5. /\ CoinUse(purse, B, R, k) = Num(InPurse(purse, k)) + Count(B, P) + Count(R, Brings(k))
        /\ CoinUse(purse, C, Q, k) = Num(InPurse(purse, k)) + Count(C, P) + Count(R, Brings(k))
    BY <2>2 DEF CoinUse
  <2> HIDE DEF P
  <2>6. CASE k \in PaidWith(call)
    <3>1. Count(B, P) = Count(C, P) + 1
      BY <2>3, <2>6
    <3>2. CoinUse(purse, C, Q, k) = 0 /\ Num(InPurse(purse, k)) = 0 /\ Count(R, Brings(k)) = 0
      BY <2>1, <2>4, <2>5, <3>1
    <3>3. ~InPurse(purse, k)
      BY <3>2 DEF Num
    <3> QED  BY <2>2, <2>6, <3>2, <3>3
  <2>7. CASE k \notin PaidWith(call)
    <3>1. Count(B, P) = Count(C, P)
      BY <2>3, <2>4, <2>7
    <3>2. CoinUse(purse, C, Q, k) = CoinUse(purse, B, R, k)
      BY <2>5, <3>1
    <3>3. k \in wallet2 <=> k \in wallet
      BY <2>7
    <3> QED  BY <2>1, <2>2, <3>2, <3>3
  <2> QED  BY <2>6, <2>7
<1> QED  BY <1>1, <1>2 DEF Coined

-----------------------------------------------------------------------------
(***************************************************************************)
(* With a fault the invariant asks less: the server may know more coins,   *)
(* fewer treasures in the ground, and digs done that the client has not    *)
(* heard of.                                                               *)
(***************************************************************************)
Lax(s, R, wallet, next, ground, reg, cnt, f) ==
    /\ Conserving(s.licenses, s.digQueue)
    /\ s.status # "terminated"
    /\ Coined(s.coins, s.calls, R, wallet, next, f)
    /\ Cashed(s.calls, R, {}, ground, reg, f)
    /\ s.status = "running" =>
          /\ Places(s.digQueue, s.calls, s.left, R, {})
          /\ Counted(s.left, R, {}, cnt, discovered, f)
          /\ Budget(s.licenses, s.calls, R)

LEMMA FaultLax ==
    ASSUME IInv, W!IInv', faults' # 0,
           Coined(client.coins, client.calls, replies, coins', nextCoin', faults'),
           \A t \in TreasureId : treasure[t[1]][t[2]] = 0 => treasure'[t[1]][t[2]] = 0,
           \A c \in Cell : counts'[c] <= counts[c]
    PROVE  Lax(client, replies, coins', nextCoin', treasure', registry', counts', faults')
<1>1. /\ Tame(client, replies, {}, {}, 0, discovered)
      /\ client \in Clients /\ IsBagOf(replies, AnyReply)
      /\ W!IInv
  BY DEF IInv
<1>4. Cashed(client.calls, replies, {}, treasure', registry', faults')
  BY <1>1 DEF Tame, Cashed
<1>5. ASSUME client.status = "running"
      PROVE  Counted(client.left, replies, {}, counts', discovered, faults')
  <2> SUFFICES ASSUME NEW c \in Cell
               PROVE  /\ c \notin discovered => client.left[c] = 0
                      /\ c \in discovered =>
                             client.left[c] >= counts'[c] + Uncounted(replies, {}, c)
    BY DEF Counted
  <2>1. Counted(client.left, replies, {}, counts, discovered, faults)
    BY <1>1, <1>5 DEF Tame
  <2>2. /\ c \notin discovered => client.left[c] = 0
        /\ c \in discovered => client.left[c] >= counts[c] + Uncounted(replies, {}, c)
    BY <2>1 DEF Counted
  <2>3. /\ client.left[c] \in Int /\ counts[c] \in Int /\ counts'[c] \in Int
        /\ Uncounted(replies, {}, c) \in Nat
    <3>1. counts[c] \in Int
      <4>1. W!TypeOK
        BY <1>1, W!TypeFromInv, ServerConstants
      <4> QED  BY <4>1, ServerConstants DEF W!TypeOK
    <3>2. counts'[c] \in Int
      <4>1. counts' \in [Cell -> 0..MaxDepth]
        BY ServerConstants DEF W!IInv, W!FieldInv
      <4> QED  BY <4>1
    <3>3. client.left[c] \in Int
      <4>1. client.left \in [Cell -> 0..MaxDepth]
        BY <1>1, ClientType
      <4> QED  BY <4>1
    <3>4. Count(replies, FoundIn(c)) \in Nat
      BY <1>1, CountType
    <3> QED  BY <3>1, <3>2, <3>3, <3>4 DEF Uncounted, Num
  <2>4. counts'[c] <= counts[c]
    OBVIOUS
  <2> QED  BY <2>2, <2>3, <2>4
<1> QED  BY <1>1, <1>4, <1>5 DEF Lax, Tame

LEMMA RefusedLax ==
    ASSUME IInv, NEW call \in DOMAIN client.calls, Refused(call),
           NEW wallet, NEW next, NEW ground, NEW reg, NEW cnt, \A c \in Cell : cnt[c] \in Nat,
           NEW f, f # 0, Lax(client, replies, wallet, next, ground, reg, cnt, f)
    PROVE  Lax(client', replies', wallet, next, ground, reg, cnt, f)
<1> DEFINE B == client.calls
           C == client'.calls
           R == replies
           Q == replies'
           lic == client.licenses
           q == client.digQueue
           left == client.left
           purse == client.coins
           D == discovered
<1>1. IsBagOf(B, AnyCall) /\ IsBagOf(R, AnyReply) /\ lic \in Licenses
  BY ClientType DEF IInv
<1>2. PICK status \in {429, Failed} : Delivered(call, [call |-> call, status |-> status])
  BY DEF Refused
<1>3. call \in AnyCall
  BY <1>1 DEF IsBagOf
<1> DEFINE r == [call |-> call, status |-> status]
<1>4. r.call = call /\ r.status = status /\ r.status \notin {200, 503}
  BY DEF Failed
<1>5. /\ call \in LicenseCalls => r \in Refusals
      /\ call \in DigCalls => r \in DigReplies /\ HasDug(r) = {}
      /\ call \in CashCalls => r \in CashRefusals
  <2> DEFINE a == [call |-> call, status |-> status]
  <2>1. a = r
    OBVIOUS
  <2> HIDE DEF a
  <2>2. /\ call \in LicenseCalls => a \in Refusals
        /\ call \in DigCalls => a \in DigReplies /\ HasDug(a) = {}
        /\ call \in CashCalls => a \in CashRefusals
    BY <1>3, RefusalType DEF a
  <2> QED  BY <2>1, <2>2
<1>8. /\ client'.licenses = lic /\ client'.digQueue = q
      /\ client'.left = left /\ client'.coins = purse /\ client'.status = client.status
      /\ More(B, C, call) /\ More(Q, R, r)
      /\ IsBagOf(Q, AnyReply) /\ IsBagOf(C, AnyCall)
  BY <1>2, ClientType DEF Delivered
<1>10. /\ Coined(purse, B, R, wallet, next, f)
       /\ Cashed(B, R, {}, ground, reg, f)
       /\ client.status = "running" =>
             /\ Places(q, B, left, R, {})
             /\ Counted(left, R, {}, cnt, D, f)
             /\ Budget(lic, B, R)
  BY DEF Lax
<1> HIDE DEF r, B, C, R, Q, lic, q, left, purse, D
<1>11. CASE call \in DigCalls
  <2>1. r \in DigReplies /\ More(B, C, r.call) /\ HasDug(r) = {}
    BY <1>4, <1>5, <1>8, <1>11
  <2>2. call \notin LicenseCalls /\ call \notin CashCalls /\ r \notin CashReplies
    BY <1>11, <2>1, CallKinds, ReplyKinds
  <2>3. Agree(B, C, LicenseCalls) /\ Agree(B, C, CashCalls) /\ Agree(R, Q, CashReplies)
    BY <1>1, <1>8, <2>2, AgreeIs
  <2>4. ASSUME client.status = "running"
        PROVE  /\ Places(q, C, left, Q, {})
               /\ Counted(left, Q, {}, cnt, D, f)
               /\ Budget(lic, C, Q)
    <3>1. Places(q, C, left, Q, {})
      BY <1>1, <1>8, <1>10, <2>1, <2>4, AnswerPlaces
    <3>2. \A c \in Cell : cnt[c] = cnt[c] - (IF r.status = 200 /\ r.call.cell = c
                                             THEN 1 ELSE 0)
      BY <1>4
    <3>3. Counted(left, Q, {}, cnt, D, f)
      BY <1>1, <1>8, <1>10, <2>1, <2>4, <3>2, AnswerCounted
    <3>4. Budget(lic, C, Q)
      BY <1>1, <1>8, <1>10, <2>1, <2>4, AnswerBudget
    <3> QED  BY <3>1, <3>3, <3>4
  <2>5. Cashed(C, Q, {}, ground, reg, f)
    BY <1>1, <1>8, <1>10, <2>1, <2>3, AnswerCashed
  <2>6. Coined(purse, C, Q, wallet, next, f)
    BY <1>10, <2>3, FrameCoined
  <2> QED  BY <1>8, <2>4, <2>5, <2>6 DEF Lax, B, C, R, Q, lic, q, left, purse, D
<1>12. ASSUME call \notin DigCalls, r \notin DigReplies
       PROVE  /\ client.status = "running" => /\ Places(q, C, left, Q, {})
                                              /\ Counted(left, Q, {}, cnt, D, f)
                                              /\ Budget(lic, C, Q)
              /\ Agree(B, C, DigCalls) /\ Agree(R, Q, DigReplies)
  <2>1. Agree(B, C, DigCalls) /\ Agree(R, Q, DigReplies)
    BY <1>1, <1>8, <1>12, AgreeIs
  <2> QED  BY <1>10, <2>1, FramePlaces, FrameCounted, FrameBudget
<1>13. CASE call \in CashCalls
  <2>1. r \in CashRefusals /\ r \in CashReplies
    BY <1>5, <1>13 DEF CashReplies
  <2>2. call \notin DigCalls /\ call \notin LicenseCalls /\ r \notin DigReplies
    BY <1>13, <2>1, CallKinds, ReplyKinds
  <2>3. Agree(B, C, LicenseCalls)
    BY <1>1, <1>8, <2>2, AgreeIs
  <2>4. Cashed(C, Q, {}, ground, reg, f)
    <3>1. DOMAIN reg \ {call.treasure} \subseteq DOMAIN reg
      OBVIOUS
    <3> QED  BY <1>1, <1>4, <1>8, <1>10, <1>13, <2>1, <3>1, AnswerExchange
  <2>5. Coined(purse, C, Q, wallet, next, f)
    <3>1. ASSUME NEW k \in Nat PROVE Count(Q, Brings(k)) = Count(R, Brings(k))
      <4>1. r \notin Brings(k)
        BY <1>4 DEF Brings, Payments
      <4>2. Count(R, Brings(k)) \in Nat
        BY <1>1, CountType
      <4> QED  BY <1>8, <4>1, <4>2 DEF More
    <3> QED  BY <1>10, <2>3, <3>1, SameCoined
  <2> QED  BY <1>8, <1>12, <2>2, <2>4, <2>5 DEF Lax, B, C, R, Q, lic, q, left, purse, D
<1>14. CASE call \in LicenseCalls
  <2>1. r \in LicenseReplies
    BY <1>5, <1>14 DEF LicenseReplies
  <2>2. /\ call \notin DigCalls /\ call \notin CashCalls
        /\ r \notin DigReplies /\ r \notin CashReplies
    BY <1>14, <2>1, CallKinds, ReplyKinds
  <2>3. Agree(B, C, CashCalls) /\ Agree(R, Q, CashReplies)
    BY <1>1, <1>8, <2>2, AgreeIs
  <2>4. Cashed(C, Q, {}, ground, reg, f)
    BY <1>10, <1>12, <2>2, <2>3, FrameCashed
  <2>5. Coined(purse, C, Q, wallet, next, f)
    <3>1. /\ wallet \subseteq wallet /\ wallet \ PaidWith(call) \subseteq wallet
          /\ f = 0 => wallet \cap PaidWith(call) = {}
      OBVIOUS
    <3> QED  BY <1>1, <1>8, <1>10, <1>14, <2>3, <3>1, AnswerSpends
  <2> QED  BY <1>8, <1>12, <2>2, <2>4, <2>5 DEF Lax, B, C, R, Q, lic, q, left, purse, D
<1> QED  BY <1>3, <1>11, <1>13, <1>14 DEF AnyCall

LEMMA MissedInv ==
    ASSUME IInv, W!IInv', NEW call \in DOMAIN client.calls, Missed(call),
           discovered' = discovered,
           Coined(client.coins, client.calls, replies, coins', nextCoin', faults'),
           \A t \in TreasureId : treasure[t[1]][t[2]] = 0 => treasure'[t[1]][t[2]] = 0,
           \A c \in Cell : counts'[c] <= counts[c]
    PROVE  IInv'
<1>1. /\ faults \in 0..MaxFaults /\ MaxFaults \in Nat /\ discovered \subseteq Cell
      /\ client \in Clients /\ IsBagOf(replies, AnyReply)
  BY GoldRushAssumption DEF IInv
<1>2. faults' \in 0..MaxFaults /\ faults' # 0
  BY <1>1 DEF Missed
<1>3. Lax(client, replies, coins', nextCoin', treasure', registry', counts', faults')
  BY <1>2, FaultLax
<1>4. /\ client' \in Clients /\ IsBagOf(replies', AnyReply)
      /\ Lax(client', replies', coins', nextCoin', treasure', registry', counts', faults')
  <2>1. CASE client' = client /\ replies' = replies
    BY <1>1, <1>3, <2>1
  <2>2. CASE Refused(call)
    <3>1. counts' \in [Cell -> 0..MaxDepth]
      BY ServerConstants DEF W!IInv, W!FieldInv
    <3>2. \A c \in Cell : counts'[c] \in Nat
      BY <3>1
    <3>3. client' \in Clients /\ IsBagOf(replies', AnyReply)
      BY <2>2 DEF Refused, Delivered
    <3> QED  BY <1>2, <1>3, <2>2, <3>2, <3>3, RefusedLax
  <2> QED  BY <2>1, <2>2 DEF Missed
<1>5. Tame(client, replies, {}, {}, 0, discovered)'
  BY <1>2, <1>4 DEF Tame, Lax
<1> QED  BY <1>1, <1>2, <1>4, <1>5 DEF IInv, Untouched

(***************************************************************************)
(* A dig that the server has handled.                                      *)
(***************************************************************************)
LEMMA ServerDig ==
    ASSUME W!IInv, NEW call \in DigCalls, Server!Dig(call)
    PROVE  /\ W!IInv'
           /\ coins' = coins /\ nextCoin' = nextCoin
           /\ Server!DigStatus(call) \in {200, 403, 404, 422}
           /\ Server!DigStatus(call) \notin {200, 404} =>
                  UNCHANGED <<treasure, depthMap, counts, registry, active>>
           /\ Server!DigStatus(call) \in {200, 404} =>
                  /\ depthMap' = [depthMap EXCEPT ![call.cell] = @ + 1]
                  /\ Server!UseLicense(call.license)
                  /\ call.license \in DOMAIN active
                  /\ call.depth = depthMap[call.cell] + 1
                  /\ call.depth \in 1..MaxDepth
           /\ Server!DigStatus(call) = 404 => UNCHANGED <<treasure, counts, registry>>
           /\ Server!DigStatus(call) = 200 =>
                  /\ treasure[call.cell][call.depth] # 0
                  /\ Server!Unearth(call.cell, call.depth)
<1>1. W!Dig(call) /\ Server!DigStatus(call) = W!DigStatus(call)
  BY DEF Server!Dig, W!Dig, Server!DigStatus, W!DigStatus, Server!UseLicense, W!UseLicense,
         Server!Unearth, W!Unearth, Server!Restrict, W!Restrict, Server!moneyVars,
         W!moneyVars, Server!Cell, W!Cell, Server!Depths, W!Depths
<1>2. W!IInv'
  BY <1>1, ServerConstants, W!DigInv
<1>3. coins' = coins /\ nextCoin' = nextCoin
  BY DEF Server!Dig, Server!moneyVars
<1>4. Server!DigStatus(call) \in {200, 403, 404, 422}
  BY DEF Server!DigStatus
<1>5. ASSUME Server!DigStatus(call) \notin {200, 404}
      PROVE  UNCHANGED <<treasure, depthMap, counts, registry, active>>
  BY <1>5 DEF Server!Dig
<1>6. ASSUME Server!DigStatus(call) \in {200, 404}
      PROVE  /\ depthMap' = [depthMap EXCEPT ![call.cell] = @ + 1]
             /\ Server!UseLicense(call.license)
             /\ call.license \in DOMAIN active
             /\ call.depth = depthMap[call.cell] + 1
             /\ call.depth \in 1..MaxDepth
             /\ Server!DigStatus(call) = 200 => treasure[call.cell][call.depth] # 0
  <2>1. /\ depthMap' = [depthMap EXCEPT ![call.cell] = @ + 1]
        /\ Server!UseLicense(call.license)
    BY <1>6 DEF Server!Dig
  <2>2. /\ call.license \in DOMAIN active
        /\ call.depth = depthMap[call.cell] + 1
        /\ call.depth \in 1..MaxDepth
        /\ Server!DigStatus(call) = 200 => treasure[call.cell][call.depth] # 0
    BY <1>6 DEF Server!DigStatus, Server!Depths
  <2> QED  BY <2>1, <2>2
<1>7. Server!DigStatus(call) = 404 => UNCHANGED <<treasure, counts, registry>>
  BY DEF Server!Dig
<1>8. Server!DigStatus(call) = 200 => Server!Unearth(call.cell, call.depth)
  BY DEF Server!Dig
<1> QED  BY <1>2, <1>3, <1>4, <1>5, <1>6, <1>7, <1>8

(***************************************************************************)
(* The server counts as everyone does.                                     *)
(***************************************************************************)
LEMMA SameCardinality ==
    \A S : Server!Cardinality(S) = Cardinality(S) /\ W!Cardinality(S) = Cardinality(S)
BY Zenon DEF Server!Cardinality, W!Cardinality, Cardinality, Server!IsFiniteSet, W!IsFiniteSet, IsFiniteSet

(***************************************************************************)
(* The licence of the dig has one dig less.                                *)
(***************************************************************************)
LEMMA LicenseUsed ==
    ASSUME W!IInv, NEW id \in DOMAIN active, Server!UseLicense(id)
    PROVE  /\ \A L : Rem(active', L) = Rem(active, L) - (IF L = id THEN 1 ELSE 0)
           /\ DOMAIN active' \subseteq DOMAIN active
           /\ \A L \in DOMAIN active \ {id} : L \in DOMAIN active' /\ active'[L] = active[L]
<1> DEFINE used == active[id].used + 1
<1>1. /\ active[id].used \in Nat /\ active[id].allowed \in Nat
      /\ active[id].used < active[id].allowed
      /\ active[id] \in [used : Nat, allowed : Nat]
  BY DEF W!IInv, W!LicenseInv, W!ActiveType, W!License, W!LicenseBudget
<1>2. CASE used >= active[id].allowed
  <2>1. active' = [x \in DOMAIN active \ {id} |-> active[x]]
    BY <1>2 DEF Server!UseLicense, Server!Restrict
  <2>2. /\ DOMAIN active' = DOMAIN active \ {id}
        /\ \A x \in DOMAIN active \ {id} : active'[x] = active[x]
    BY <2>1
  <2>3. Rem(active', id) = 0 /\ Rem(active, id) = 1
    BY <1>1, <1>2, <2>2 DEF Rem
  <2>4. ASSUME NEW L, L # id PROVE Rem(active', L) = Rem(active, L)
    BY <2>2, <2>4 DEF Rem
  <2>5. \A L : Rem(active, L) \in Int
    BY ActiveIs
  <2>6. ASSUME NEW L PROVE Rem(active', L) = Rem(active, L) - (IF L = id THEN 1 ELSE 0)
    BY <2>3, <2>4, <2>5
  <2> QED  BY <2>2, <2>6
<1>3. CASE ~(used >= active[id].allowed)
  <2>1. active' = [active EXCEPT ![id].used = used]
    BY <1>3 DEF Server!UseLicense
  <2>2. /\ DOMAIN active' = DOMAIN active
        /\ active'[id].used = used /\ active'[id].allowed = active[id].allowed
        /\ \A x \in DOMAIN active \ {id} : active'[x] = active[x]
    <3>1. active'[id] = [active[id] EXCEPT !.used = used]
      BY <2>1
    <3>2. [active[id] EXCEPT !.used = used].used = used
          /\ [active[id] EXCEPT !.used = used].allowed = active[id].allowed
      BY <1>1
    <3> QED  BY <2>1, <3>1, <3>2
  <2>3. Rem(active', id) = Rem(active, id) - 1
    BY <1>1, <2>2 DEF Rem
  <2>4. ASSUME NEW L, L # id PROVE Rem(active', L) = Rem(active, L)
    BY <2>2, <2>4 DEF Rem
  <2>5. \A L : Rem(active, L) \in Int
    BY ActiveIs
  <2>6. ASSUME NEW L PROVE Rem(active', L) = Rem(active, L) - (IF L = id THEN 1 ELSE 0)
    BY <2>3, <2>4, <2>5
  <2> QED  BY <2>2, <2>6
<1> QED  BY <1>2, <1>3

DigReply(call) == [call |-> call, status |-> Server!DigStatus(call)]

(***************************************************************************)
(* What the answer says and what the field has become.                     *)
(***************************************************************************)
LEMMA FieldDug ==
    ASSUME W!IInv, NEW call \in DigCalls, Server!Dig(call)
    PROVE  /\ DigReply(call) \in DigReplies
           /\ DigReply(call).call = call
           /\ DigReply(call).status = Server!DigStatus(call)
           /\ \A c \in Cell : /\ counts[c] \in Nat /\ counts'[c] \in Nat
                              /\ counts'[c] = counts[c] -
                                     (IF DigReply(call).status = 200 /\ DigReply(call).call.cell = c
                                      THEN 1 ELSE 0)
           /\ DOMAIN registry \subseteq DOMAIN registry'
           /\ \A t \in TreasureId : treasure[t[1]][t[2]] = 0 => treasure'[t[1]][t[2]] = 0
           /\ \A t \in HasDug(DigReply(call)) : /\ treasure[t[1]][t[2]] # 0
                                                /\ treasure'[t[1]][t[2]] = 0
                                                /\ t \in DOMAIN registry'
<1> DEFINE status == Server!DigStatus(call)
           c == call.cell
           d == call.depth
<1>1. /\ status \in {200, 403, 404, 422}
      /\ status \notin {200, 404} => UNCHANGED <<treasure, counts, registry>>
      /\ status = 404 => UNCHANGED <<treasure, counts, registry>>
      /\ status \in {200, 404} => d \in 1..MaxDepth
      /\ status = 200 => treasure[c][d] # 0 /\ Server!Unearth(c, d)
  BY ServerDig
<1>2. DigReply(call).call = call /\ DigReply(call).status = status
  BY DEF DigReply
<1>3. DigReply(call) \in DigReplies
  <2>1. status \in {200, 404} => d <= MaxDepth
    BY <1>1, GoldRushAssumption DEF Server!WorldAssumption
  <2>2. status \in {200, 403, 404, 422, 429}
    BY <1>1
  <2> HIDE DEF status
  <2>3. [call |-> call, status |-> status] \in DigReplies
    BY <2>1, <2>2 DEF DigReplies
  <2> QED  BY <2>3 DEF DigReply, status
<1>4. /\ counts \in [Cell -> 0..MaxDepth] /\ treasure \in [Cell -> [1..MaxDepth -> Nat]]
      /\ c \in Cell
  BY ServerConstants DEF W!IInv, W!FieldInv, DigCalls
<1>5. counts' \in [Cell -> 0..MaxDepth]
  <2>1. W!IInv'
    BY ServerDig
  <2> QED  BY <2>1, ServerConstants DEF W!IInv, W!FieldInv
<1>6. MaxDepth \in Nat
  BY GoldRushAssumption DEF Server!WorldAssumption
<1> HIDE DEF status
<1>7. CASE status = 200
  <2>1. d \in 1..MaxDepth
    BY <1>1, <1>7
  <2>2. /\ counts' = [counts EXCEPT ![c] = @ - 1]
        /\ treasure' = [treasure EXCEPT ![c][d] = 0]
        /\ DOMAIN registry' = DOMAIN registry \cup {<<c, d>>}
    BY <1>1, <1>7 DEF Server!Unearth
  <2>3. \A x \in Cell : counts'[x] = counts[x] - (IF c = x THEN 1 ELSE 0)
    BY <1>4, <1>6, <2>2
  <2>4. \A x \in Cell, y \in 1..MaxDepth :
            treasure'[x][y] = IF x = c /\ y = d THEN 0 ELSE treasure[x][y]
    BY <1>4, <2>1, <2>2
  <2>5. HasDug(DigReply(call)) = {<<c, d>>}
    BY <1>2, <1>7 DEF HasDug
  <2>6. \A t \in TreasureId : t[1] \in Cell /\ t[2] \in 1..MaxDepth
    BY DEF TreasureId, Server!TreasureId, Server!Depths, Cell
  <2>7. \A t \in TreasureId : treasure[t[1]][t[2]] = 0 => treasure'[t[1]][t[2]] = 0
    BY <2>4, <2>6
  <2>8. \A t \in {<<c, d>>} : /\ treasure[t[1]][t[2]] # 0
                              /\ treasure'[t[1]][t[2]] = 0
                              /\ t \in DOMAIN registry'
    BY <1>1, <1>4, <1>7, <2>1, <2>2, <2>4
  <2>9. \A x \in Cell : counts[x] \in Nat /\ counts'[x] \in Nat
    BY <1>4, <1>5, <1>6
  <2>10. DOMAIN registry \subseteq DOMAIN registry'
    BY <2>2
  <2> QED  BY <1>2, <1>3, <1>7, <2>3, <2>5, <2>7, <2>8, <2>9, <2>10 DEF status
<1>8. CASE status # 200
  <2>1. UNCHANGED <<treasure, counts, registry>>
    BY <1>1, <1>8
  <2>2. HasDug(DigReply(call)) = {}
    BY <1>2, <1>8 DEF HasDug
  <2>3. \A x \in Cell : counts[x] \in Nat /\ counts'[x] \in Nat
    BY <1>4, <1>5, <1>6
  <2> QED  BY <1>2, <1>3, <1>8, <2>1, <2>2, <2>3 DEF status
<1> QED  BY <1>7, <1>8

(***************************************************************************)
(* Without faults the server digs: the licence of the call has a dig left, *)
(* and there is a treasure below the depth dug.                            *)
(***************************************************************************)
LEMMA DigSucceeds ==
    ASSUME IInv, faults = 0, client.status = "running",
           NEW call \in DOMAIN client.calls, call \in DigCalls
    PROVE  Server!DigStatus(call) \in {200, 404}
<1> DEFINE c == call.cell
           B == client.calls
<1>1. /\ W!IInv /\ client \in Clients /\ IsBagOf(replies, AnyReply) /\ IsBagOf(B, AnyCall)
      /\ Tame(client, replies, {}, {}, 0, discovered)
      /\ client.licenses \in Licenses
  BY ClientType DEF IInv
<1>2. /\ Places(client.digQueue, B, client.left, replies, {})
      /\ Counted(client.left, replies, {}, counts, discovered, faults)
      /\ Budget(client.licenses, B, replies)
      /\ InStep(client.digQueue, B, replies, depthMap)
      /\ Entitled(client.licenses, B, replies, active)
  BY <1>1 DEF Tame, Licensed
<1>3. c \in Cell /\ call.license \in Nat /\ call.depth \in Nat
  BY GoldRushAssumption DEF DigCalls, Server!WorldAssumption
<1>4. call.license \in DOMAIN active
  <2>1. Spare(client.licenses, call.license) \in Nat
    BY <1>1, <1>2, SpareNat DEF Budget
  <2>2. Spare(client.licenses, call.license) + Count(B, DigCallsOf(call.license))
            <= Rem(active, call.license)
    BY <1>2, <1>3 DEF Entitled
  <2>3. call \in DOMAIN B \cap DigCallsOf(call.license)
    BY DEF DigCallsOf
  <2>4. /\ 1 <= B[call] /\ B[call] <= Count(B, DigCallsOf(call.license))
        /\ B[call] \in Nat /\ Count(B, DigCallsOf(call.license)) \in Nat
    BY <1>1, <2>3, CountType DEF IsBagOf
  <2>5. Rem(active, call.license) \in Int /\ Rem(active, call.license) # 0
    BY <1>1, <2>1, <2>2, <2>4, ActiveIs
  <2> QED  BY <2>5 DEF Rem
<1>5. call.depth = depthMap[c] + 1
  BY <1>2 DEF InStep
<1>6. counts[c] > 0 /\ c \in discovered
  <2>1. call \in DOMAIN B \cap DigCallsIn(c)
    BY DEF DigCallsIn
  <2>2. /\ 1 <= B[call] /\ B[call] <= Count(B, DigCallsIn(c))
        /\ B[call] \in Nat /\ Count(B, DigCallsIn(c)) \in Nat
        /\ Count(replies, DigRepliesIn(c)) \in Nat /\ Count(replies, FoundIn(c)) \in Nat
    BY <1>1, <2>1, CountType DEF IsBagOf
  <2>3. UnderWay(B, replies, c) + Num(c \in QCells(client.digQueue)) + Num(c \in {})
            = Num(client.left[c] > 0)
    BY <1>2, <1>3 DEF Places
  <2>4. client.left[c] > 0 /\ Count(replies, DigRepliesIn(c)) = 0
    BY <2>2, <2>3 DEF UnderWay, Num
  <2>5. Count(replies, FoundIn(c)) <= Count(replies, DigRepliesIn(c))
    <3>1. FoundIn(c) \cap AnyReply \subseteq DigRepliesIn(c)
      BY DEF FoundIn
    <3> QED  BY <1>1, <3>1, CountMonotone
  <2>6. c \in discovered
    BY <1>2, <1>3, <2>4 DEF Counted
  <2>7. client.left[c] = counts[c] + Uncounted(replies, {}, c)
    BY <1>2, <1>3, <2>6 DEF Counted
  <2>8. Uncounted(replies, {}, c) = 0
    BY <2>2, <2>4, <2>5 DEF Uncounted, Num
  <2>9. counts[c] \in Int
    <3>1. counts \in [Cell -> 0..MaxDepth]
      BY <1>1, ServerConstants DEF W!IInv, W!FieldInv
    <3> QED  BY <1>3, <3>1
  <2> QED  BY <2>4, <2>6, <2>7, <2>8, <2>9
<1>7. call.depth \in 1..MaxDepth
  <2>1. W!CountsAgree /\ W!NothingLeftAbove /\ depthMap \in [Cell -> 0..MaxDepth]
    BY <1>1, ServerConstants DEF W!IInv, W!FieldInv
  <2>2. counts[c] = Cardinality(W!TreasuresBelow(treasure, c))
    BY <1>3, <2>1, ServerConstants, SameCardinality DEF W!CountsAgree
  <2>3. W!TreasuresBelow(treasure, c) # {}
    BY <1>6, <2>2, FS_EmptySet
  <2>4. PICK e \in 1..MaxDepth : treasure[c][e] > 0
    BY <2>3, ServerConstants DEF W!TreasuresBelow
  <2>5. e > depthMap[c]
    BY <1>3, <2>1, <2>4, ServerConstants DEF W!NothingLeftAbove
  <2>6. depthMap[c] \in 0..MaxDepth /\ MaxDepth \in Nat
    BY <1>3, <2>1, GoldRushAssumption DEF Server!WorldAssumption
  <2> QED  BY <1>5, <2>4, <2>5, <2>6
<1> QED  BY <1>3, <1>4, <1>5, <1>7 DEF Server!DigStatus, Server!Depths, Cell

(***************************************************************************)
(* The answer to a dig is delivered.                                       *)
(***************************************************************************)
LEMMA DigDelivered ==
    ASSUME IInv, NEW call \in DOMAIN client.calls,
           call \in DigCalls, Server!Dig(call),
           Delivered(call, DigReply(call)), faults' = faults, discovered' = discovered
    PROVE  IInv'
<1> DEFINE B == client.calls
           C == client'.calls
           R == replies
           Q == replies'
           r == DigReply(call)
           lic == client.licenses
           q == client.digQueue
           left == client.left
           D == discovered
           f == faults
           c == call.cell
<1>1. /\ W!IInv /\ client \in Clients /\ IsBagOf(R, AnyReply) /\ IsBagOf(B, AnyCall)
      /\ Tame(client, R, {}, {}, 0, D)
      /\ lic \in Licenses /\ q \in Seq(Digs)
      /\ D \subseteq Cell /\ f \in 0..MaxFaults
  BY ClientType DEF IInv
<1>2. /\ client' \in Clients /\ IsBagOf(C, AnyCall) /\ IsBagOf(Q, AnyReply)
      /\ client'.licenses = lic /\ client'.digQueue = q /\ client'.left = left
      /\ client'.coins = client.coins /\ client'.status = client.status
      /\ More(B, C, call) /\ More(Q, R, r)
  BY ClientType DEF Delivered
<1>3. /\ r \in DigReplies /\ r.call = call /\ r.status = Server!DigStatus(call)
      /\ c \in Cell
  BY <1>1, FieldDug DEF DigCalls
<1>4. /\ W!IInv' /\ coins' = coins /\ nextCoin' = nextCoin
  BY <1>1, ServerDig
<1>5. /\ Conserving(lic, q)
      /\ Coined(client.coins, B, R, coins, nextCoin, f)
      /\ Cashed(B, R, {}, treasure, registry, f)
      /\ client.status = "running" => /\ Places(q, B, left, R, {})
                                      /\ Counted(left, R, {}, counts, D, f)
                                      /\ Budget(lic, B, R)
      /\ f = 0 => client.status = "running"
      /\ f = 0 => /\ InStep(q, B, R, depthMap)
                  /\ Licensed(lic, B, R, active, 0)
                  /\ Answered(R)
  BY <1>1 DEF Tame
<1>6. More(B, C, r.call)
  BY <1>2, <1>3
<1>7. /\ Agree(B, C, LicenseCalls) /\ Agree(B, C, CashCalls)
      /\ Agree(R, Q, CashReplies) /\ Agree(R, Q, LicenseReplies)
  <2>1. call \notin LicenseCalls /\ call \notin CashCalls
    BY CallKinds
  <2>2. r \notin CashReplies /\ r \notin LicenseReplies
    BY <1>3, ReplyKinds
  <2>3. Agree(B, C, LicenseCalls) /\ Agree(B, C, CashCalls)
    BY <1>1, <1>2, <2>1, AgreeIs
  <2>4. Agree(R, Q, CashReplies) /\ Agree(R, Q, LicenseReplies)
    BY <1>1, <1>2, <2>2, AgreeIs
  <2> QED  BY <2>3, <2>4
<1>8. ASSUME client.status = "running"
      PROVE  /\ Places(q, C, left, Q, {})
             /\ r.call.cell \notin QCells(q) /\ left[r.call.cell] > 0
             /\ Count(C, DigCallsIn(r.call.cell)) = 0
             /\ Count(R, DigRepliesIn(r.call.cell)) = 0
  <2>1. /\ IsBagOf(C, AnyCall) /\ IsBagOf(R, AnyReply) /\ r \in DigReplies
        /\ More(Q, R, r) /\ Places(q, B, left, R, {})
    BY <1>1, <1>2, <1>3, <1>5, <1>8
  <2> HIDE DEF B, C, R, Q, r, q, left
  <2> QED  BY <1>6, <2>1, AnswerPlaces
<1>9. /\ \A x \in Cell : /\ counts[x] \in Nat
                         /\ counts'[x] = counts[x] -
                               (IF r.status = 200 /\ r.call.cell = x THEN 1 ELSE 0)
      /\ DOMAIN registry \subseteq DOMAIN registry'
      /\ \A t \in TreasureId : treasure[t[1]][t[2]] = 0 => treasure'[t[1]][t[2]] = 0
      /\ \A t \in HasDug(r) : /\ treasure[t[1]][t[2]] # 0
                              /\ treasure'[t[1]][t[2]] = 0
                              /\ t \in DOMAIN registry'
  BY <1>1, FieldDug
<1>10. ASSUME client.status = "running" PROVE Counted(left, Q, {}, counts', D, f)
  <2> HIDE DEF R, Q, r, left, D, f
  <2> QED  BY <1>1, <1>2, <1>3, <1>5, <1>9, <1>10, AnswerCounted
<1>11. Cashed(C, Q, {}, treasure', registry', f)
  <2> HIDE DEF B, C, R, Q, r, f
  <2> QED  BY <1>1, <1>2, <1>3, <1>5, <1>7, <1>9, AnswerCashed
<1>12. Coined(client.coins, C, Q, coins, nextCoin, f)
  BY <1>5, <1>7, FrameCoined
<1>13. ASSUME client.status = "running" PROVE Budget(lic, C, Q)
  <2> HIDE DEF B, C, R, Q, r, lic
  <2> QED  BY <1>1, <1>2, <1>3, <1>5, <1>6, <1>13, AnswerBudget
<1>14. ASSUME f = 0
       PROVE  /\ InStep(q, C, Q, depthMap')
              /\ Licensed(lic, C, Q, active', 0)
              /\ Answered(Q)
              /\ \A x \in Cell \ D : depthMap'[x] = 0
  <2>0. client.status = "running"
    BY <1>5, <1>14
  <2>1. r.status \in {200, 404}
    BY <1>3, <1>14, <2>0, DigSucceeds
  <2>2. /\ depthMap' = [depthMap EXCEPT ![c] = @ + 1]
        /\ Server!UseLicense(call.license) /\ call.license \in DOMAIN active
    BY <1>1, <1>3, <2>1, ServerDig
  <2>3. depthMap \in [Cell -> 0..MaxDepth]
    BY <1>1, ServerConstants DEF W!IInv, W!FieldInv
  <2>4. /\ depthMap'[c] = depthMap[c] + 1
        /\ \A x \in Cell \ {c} : depthMap'[x] = depthMap[x]
    BY <1>3, <2>2, <2>3
  <2>5. InStep(q, C, Q, depthMap')
    <3>1. /\ depthMap'[r.call.cell] = depthMap[r.call.cell] + 1
          /\ \A x \in Cell \ {r.call.cell} : depthMap'[x] = depthMap[x]
      BY <1>3, <2>4
    <3>2. InStep(q, B, R, depthMap)
      BY <1>5, <1>14
    <3> HIDE DEF B, C, R, Q, r, q
    <3> QED  BY <1>1, <1>2, <1>3, <1>6, <1>8, <2>0, <3>1, <3>2, AnswerInStep
  <2>6. Licensed(lic, C, Q, active', 0)
    <3>1. /\ \A L : Rem(active', L) = Rem(active, L) - (IF L = call.license THEN 1 ELSE 0)
          /\ DOMAIN active' \subseteq DOMAIN active
          /\ \A L \in DOMAIN active \ {call.license} :
                 L \in DOMAIN active' /\ active'[L] = active[L]
      BY <1>1, <2>2, LicenseUsed
    <3>2. /\ \A L \in Nat : Rem(active', L) =
                  Rem(active, L) - (IF L = r.call.license THEN 1 ELSE 0)
          /\ \A L \in DOMAIN active \ {r.call.license} :
                 L \in DOMAIN active' /\ active'[L] = active[L]
      BY <1>3, <3>1
    <3>3. (\A L : Rem(active, L) \in Int) /\ DOMAIN active \subseteq Nat
      BY <1>1, ActiveIs
    <3>4. \A i \in 1..Slots : lic[i].used <= lic[i].allowed
      BY <1>5, <2>0 DEF Budget
    <3>5. Licensed(lic, B, R, active, 0)
      BY <1>5, <1>14
    <3>6. /\ IsBagOf(C, AnyCall) /\ Agree(B, C, LicenseCalls) /\ IsBagOf(R, AnyReply)
          /\ Agree(R, Q, LicenseReplies) /\ r \in DigReplies /\ More(Q, R, r)
          /\ lic \in Licenses /\ DOMAIN active' \subseteq DOMAIN active
      BY <1>1, <1>2, <1>3, <1>7, <3>1
    <3> HIDE DEF B, C, R, Q, r, lic
    <3> QED  BY <1>6, <3>2, <3>3, <3>4, <3>5, <3>6, AnswerLicensed, SMTT(60)
  <2>7. Answered(Q)
    <3>1. Answered(R)
      BY <1>5, <1>14
    <3>2. \A x \in DOMAIN Q : x \in DOMAIN R \/ x = r
      BY <1>2 DEF More
    <3>3. r \notin LicenseReplies /\ r \notin CashReplies
      BY <1>3, ReplyKinds
    <3> HIDE DEF R, Q, r
    <3> QED  BY <2>1, <3>1, <3>2, <3>3 DEF Answered
  <2>8. \A x \in Cell \ D : depthMap'[x] = 0
    <3>1. c \in D
      BY <1>3, <1>5, <1>8, <2>0 DEF Counted
    <3>2. \A x \in Cell \ D : depthMap[x] = 0
      BY <1>14 DEF IInv, Untouched
    <3> QED  BY <2>4, <3>1, <3>2
  <2> QED  BY <2>5, <2>6, <2>7, <2>8
<1>15. Tame(client, replies, {}, {}, 0, discovered)'
  <2>1. f = 0 => client.status = "running"
    BY <1>1 DEF Tame
  <2>2. client.status # "terminated"
    BY <1>1 DEF Tame
  <2> QED  BY <1>2, <1>4, <1>5, <1>8, <1>10, <1>11, <1>12, <1>13, <1>14, <2>1, <2>2 DEF Tame
<1>16. Untouched'
  BY <1>14 DEF Untouched
<1> QED  BY <1>1, <1>2, <1>4, <1>15, <1>16 DEF IInv

LEMMA ServeDigInv ==
    ASSUME IInv, NEW call \in DOMAIN client.calls, ServeDig(call)
    PROVE  IInv'
<1>1. W!IInv /\ IsBagOf(client.calls, AnyCall)
  BY ClientType DEF IInv
<1>2. call \in DigCalls /\ Server!Dig(call) /\ Answer(call, DigReply(call))
  <2>1. call \in AnyCall /\ call.type = "Dig"
    BY <1>1 DEF IsBagOf, ServeDig
  <2>2. call \in DigCalls
    BY <2>1 DEF AnyCall, LicenseCalls, CashCalls, CashCall
  <2> QED  BY <2>2 DEF ServeDig, DigReply
<1>3. DigReply(call) \in DigReplies
  BY <1>1, <1>2, FieldDug
<1>4. DigReply(call) \in AnyReply
  BY <1>3 DEF AnyReply
<1>5. /\ discovered' = discovered
      /\ \/ Delivered(call, DigReply(call)) /\ faults' = faults
         \/ Missed(call)
  BY <1>2, <1>4, AnswerIs
<1>6. CASE Delivered(call, DigReply(call)) /\ faults' = faults
  BY <1>2, <1>5, <1>6, DigDelivered
<1>7. CASE Missed(call)
  <2>1. W!IInv' /\ coins' = coins /\ nextCoin' = nextCoin
    BY <1>1, <1>2, ServerDig
  <2>2. faults' # 0
    BY <1>7 DEF Missed, IInv
  <2>3. Coined(client.coins, client.calls, replies, coins', nextCoin', faults')
    BY <2>1, <2>2 DEF IInv, Tame, Coined
  <2>4. \A t \in TreasureId : treasure[t[1]][t[2]] = 0 => treasure'[t[1]][t[2]] = 0
    BY <1>1, <1>2, FieldDug
  <2>5. \A c \in Cell : counts'[c] <= counts[c]
    BY <1>1, <1>2, FieldDug
  <2> QED  BY <1>5, <1>7, <2>1, <2>3, <2>4, <2>5, MissedInv
<1> QED  BY <1>5, <1>6, <1>7

-----------------------------------------------------------------------------
(***************************************************************************)
(* A call that is no dig is answered: nothing changes for the digs.        *)
(***************************************************************************)
LEMMA OtherDelivered ==
    ASSUME IInv, NEW call, call \notin DigCalls, NEW reply, reply \notin DigReplies,
           Delivered(call, reply)
    PROVE  /\ Conserving(client'.licenses, client'.digQueue)
           /\ faults = 0 => client'.status = "running"
           /\ client'.status # "terminated"
           /\ client'.status = "running" =>
                 /\ Places(client'.digQueue, client'.calls, client'.left, replies', {})
                 /\ Counted(client'.left, replies', {}, counts, discovered, faults)
                 /\ Budget(client'.licenses, client'.calls, replies')
           /\ faults = 0 => InStep(client'.digQueue, client'.calls, replies', depthMap)
           /\ Agree(client.calls, client'.calls, DigCalls)
           /\ Agree(replies, replies', DigReplies)
           /\ IsBagOf(client.calls, AnyCall) /\ IsBagOf(client'.calls, AnyCall)
           /\ IsBagOf(replies, AnyReply) /\ IsBagOf(replies', AnyReply)
<1>1. /\ client \in Clients /\ IsBagOf(replies, AnyReply) /\ IsBagOf(client.calls, AnyCall)
      /\ Tame(client, replies, {}, {}, 0, discovered)
  BY ClientType DEF IInv
<1>2. /\ client' \in Clients /\ IsBagOf(client'.calls, AnyCall) /\ IsBagOf(replies', AnyReply)
      /\ client'.licenses = client.licenses /\ client'.digQueue = client.digQueue
      /\ client'.left = client.left /\ client'.status = client.status
      /\ More(client.calls, client'.calls, call) /\ More(replies', replies, reply)
  BY ClientType DEF Delivered
<1> DEFINE B == client.calls
           C == client'.calls
           Q == replies'
<1>3. Agree(B, C, DigCalls) /\ Agree(replies, Q, DigReplies)
  <2> HIDE DEF B, C, Q
  <2> QED  BY <1>1, <1>2, AgreeIs DEF B, C, Q
<1> HIDE DEF B, C, Q
<1>4. ASSUME client.status = "running"
      PROVE  /\ Places(client.digQueue, C, client.left, Q, {})
             /\ Counted(client.left, Q, {}, counts, discovered, faults)
             /\ Budget(client.licenses, C, Q)
  <2>1. /\ Places(client.digQueue, B, client.left, replies, {})
        /\ Counted(client.left, replies, {}, counts, discovered, faults)
        /\ Budget(client.licenses, B, replies)
    BY <1>1, <1>4 DEF Tame, B
  <2> QED  BY <1>3, <2>1, FramePlaces, FrameCounted, FrameBudget
<1>5. ASSUME faults = 0 PROVE InStep(client.digQueue, C, Q, depthMap)
  <2>1. InStep(client.digQueue, B, replies, depthMap)
    BY <1>1, <1>5 DEF Tame, B
  <2> QED  BY <1>3, <2>1, FrameInStep
<1>6. /\ Conserving(client.licenses, client.digQueue)
      /\ faults = 0 => client.status = "running"
      /\ client.status # "terminated"
  BY <1>1 DEF Tame
<1> QED  BY <1>1, <1>2, <1>3, <1>4, <1>5, <1>6 DEF B, C, Q

-----------------------------------------------------------------------------
(***************************************************************************)
(* An exchange that the server has handled.                                *)
(***************************************************************************)
CashReply(call) ==
    LET status == Server!CashStatus(call.treasure)
        wallet == [i \in 1..registry[call.treasure] |-> nextCoin + i - 1]
    IN  IF status = 200
        THEN [call |-> call, status |-> 200, wallet |-> wallet]
        ELSE [call |-> call, status |-> status]

LEMMA ServerCash ==
    ASSUME W!IInv, NEW t, Server!Cash(t)
    PROVE  /\ W!IInv'
           /\ UNCHANGED <<treasure, depthMap, counts, active>>
           /\ Server!CashStatus(t) \in {200, 409, 503}
           /\ Server!CashStatus(t) = 409 <=> t \notin DOMAIN registry
           /\ Server!CashStatus(t) # 200 => UNCHANGED <<coins, nextCoin, registry>>
           /\ Server!CashStatus(t) = 200 =>
                  /\ registry[t] \in Nat
                  /\ coins' = coins \cup nextCoin..(nextCoin + registry[t] - 1)
                  /\ nextCoin' = nextCoin + registry[t]
                  /\ DOMAIN registry' = DOMAIN registry \ {t}
<1>1. W!Cash(t)
  BY DEF Server!Cash, W!Cash, Server!CashStatus, W!CashStatus, Server!Restrict, W!Restrict,
         Server!fieldVars, W!fieldVars, Server!Wallet, W!Wallet
<1>2. W!IInv'
  BY <1>1, ServerConstants, W!CashInv
<1>3. UNCHANGED <<treasure, depthMap, counts, active>>
  BY DEF Server!Cash, Server!fieldVars
<1>4. /\ Server!CashStatus(t) \in {200, 409, 503}
      /\ Server!CashStatus(t) = 409 <=> t \notin DOMAIN registry
  BY DEF Server!CashStatus
<1>5. Server!CashStatus(t) # 200 => UNCHANGED <<coins, nextCoin, registry>>
  BY DEF Server!Cash
<1>6. ASSUME Server!CashStatus(t) = 200
      PROVE  /\ registry[t] \in Nat
             /\ coins' = coins \cup nextCoin..(nextCoin + registry[t] - 1)
             /\ nextCoin' = nextCoin + registry[t]
             /\ DOMAIN registry' = DOMAIN registry \ {t}
  <2>1. t \in DOMAIN registry
    BY <1>4, <1>6
  <2>2. registry[t] \in Nat
    BY <2>1 DEF W!IInv, W!FieldInv
  <2>3. /\ coins' = coins \cup nextCoin..(nextCoin + registry[t] - 1)
        /\ nextCoin' = nextCoin + registry[t]
        /\ DOMAIN registry' = DOMAIN registry \ {t}
    BY <1>6 DEF Server!Cash, Server!Wallet, Server!Restrict
  <2> QED  BY <2>2, <2>3
<1> QED  BY <1>2, <1>3, <1>4, <1>5, <1>6

LEMMA CashReplyType ==
    ASSUME W!IInv, NEW call \in CashCalls, Server!Cash(call.treasure)
    PROVE  /\ CashReply(call) \in CashReplies
           /\ CashReply(call).call = call
           /\ CashReply(call).status = Server!CashStatus(call.treasure)
           /\ Server!CashStatus(call.treasure) # 200 => CashReply(call) \in CashRefusals
           /\ Server!CashStatus(call.treasure) = 200 =>
                  /\ CashReply(call) \in Payments
                  /\ CashReply(call).wallet =
                         [i \in 1..registry[call.treasure] |-> nextCoin + i - 1]
<1>0. Server!CashStatus(call.treasure) = 200 => registry[call.treasure] \in Nat
  BY ServerCash, Zenon
<1> DEFINE t == call.treasure
           n == registry[t]
           wallet == [i \in 1..n |-> nextCoin + i - 1]
<1>1. Server!CashStatus(t) \in {200, 409, 503}
  BY ServerCash
<1>2. nextCoin \in Nat
  BY DEF W!IInv, W!CoinInv
<1>3. CASE Server!CashStatus(t) = 200
  <2>1. CashReply(call) = [call |-> call, status |-> 200, wallet |-> wallet]
    BY <1>3 DEF CashReply
  <2>2. n \in Nat
    BY <1>0, <1>3
  <2>3. wallet \in Seq(Nat) /\ \A i, j \in DOMAIN wallet : wallet[i] = wallet[j] => i = j
    <3>1. \A i \in 1..n : nextCoin + i - 1 \in Nat
      BY <1>2
    <3> HIDE DEF n
    <3>2. wallet \in Seq(Nat)
      BY <2>2, <3>1, SeqDef
    <3>3. \A i, j \in DOMAIN wallet : wallet[i] = wallet[j] => i = j
      BY <1>2, <2>2
    <3> QED  BY <3>2, <3>3
  <2> HIDE DEF wallet
  <2>4. [call |-> call, status |-> 200, wallet |-> wallet] \in Payments
    BY <2>3 DEF Payments
  <2> QED  BY <1>3, <2>1, <2>4 DEF wallet, CashReplies
<1>4. CASE Server!CashStatus(t) # 200
  <2>1. CashReply(call) = [call |-> call, status |-> Server!CashStatus(t)]
    BY <1>4 DEF CashReply
  <2>2. Server!CashStatus(t) \in {409, 429, 503}
    BY <1>1, <1>4
  <2> QED  BY <1>4, <2>1, <2>2 DEF CashRefusals, CashReplies
<1> QED  BY <1>3, <1>4

LEMMA CoinsNow ==
    ASSUME W!IInv
    PROVE  nextCoin \in Nat /\ coins \subseteq Nat /\ \A k \in coins : k < nextCoin
BY DEF W!IInv, W!CoinInv, W!CoinsIssued

LEMMA CashDelivered ==
    ASSUME IInv, NEW call \in DOMAIN client.calls,
           call \in CashCalls, Server!Cash(call.treasure),
           Delivered(call, CashReply(call)), faults' = faults, discovered' = discovered
    PROVE  IInv'
<1> DEFINE B == client.calls
           C == client'.calls
           R == replies
           Q == replies'
           r == CashReply(call)
           t == call.treasure
           status == Server!CashStatus(t)
           purse == client.coins
           f == faults
<1>1. W!IInv /\ Tame(client, R, {}, {}, 0, discovered)
      /\ discovered \subseteq Cell /\ f \in 0..MaxFaults
  BY DEF IInv
<1>2. /\ client' \in Clients /\ client'.licenses = client.licenses
      /\ client'.coins = purse
      /\ More(B, C, call) /\ More(Q, R, r)
  BY DEF Delivered
<1>3. /\ r \in CashReplies /\ r.call = call /\ r.status = status
      /\ status # 200 => r \in CashRefusals
      /\ status = 200 =>
             /\ r \in Payments
             /\ r.wallet = [i \in 1..registry[t] |-> nextCoin + i - 1]
  BY <1>1, CashReplyType
<1>4. call \notin DigCalls /\ call \notin LicenseCalls
      /\ r \notin DigReplies /\ r \notin LicenseReplies
  BY <1>3, CallKinds, ReplyKinds
<1>5. /\ Conserving(client'.licenses, client'.digQueue)
      /\ faults = 0 => client'.status = "running"
      /\ client'.status # "terminated"
      /\ client'.status = "running" =>
            /\ Places(client'.digQueue, client'.calls, client'.left, replies', {})
            /\ Counted(client'.left, replies', {}, counts, discovered, faults)
            /\ Budget(client'.licenses, client'.calls, replies')
      /\ faults = 0 => InStep(client'.digQueue, client'.calls, replies', depthMap)
  BY <1>4, OtherDelivered
<1>6. /\ IsBagOf(B, AnyCall) /\ IsBagOf(C, AnyCall)
      /\ IsBagOf(R, AnyReply) /\ IsBagOf(Q, AnyReply)
      /\ Agree(B, C, DigCalls) /\ Agree(R, Q, DigReplies)
  BY <1>4, OtherDelivered
<1>7. /\ W!IInv'
      /\ UNCHANGED <<treasure, depthMap, counts, active>>
      /\ status \in {200, 409, 503}
      /\ status = 409 <=> t \notin DOMAIN registry
      /\ status # 200 => UNCHANGED <<coins, nextCoin, registry>>
      /\ status = 200 =>
             /\ registry[t] \in Nat
             /\ coins' = coins \cup nextCoin..(nextCoin + registry[t] - 1)
             /\ nextCoin' = nextCoin + registry[t]
             /\ DOMAIN registry' = DOMAIN registry \ {t}
  BY <1>1, ServerCash
<1>8. /\ Coined(purse, B, R, coins, nextCoin, f)
      /\ Cashed(B, R, {}, treasure, registry, f)
      /\ f = 0 => /\ Licensed(client.licenses, B, R, active, 0)
                  /\ Answered(R)
  BY <1>1 DEF Tame
<1>9. /\ Agree(B, C, LicenseCalls) /\ Agree(R, Q, LicenseReplies)
  <2> HIDE DEF B, C, R, Q, r
  <2> QED  BY <1>2, <1>4, <1>6, AgreeIs
<1> HIDE DEF B, C, R, Q, r, purse, f
<1>10. Cashed(C, Q, {}, treasure, registry', f)
  <2>1. /\ r \notin CashRefusals \/ r.status # 503 =>
                DOMAIN registry \ {call.treasure} \subseteq DOMAIN registry'
        /\ r \in CashRefusals /\ r.status = 503 => DOMAIN registry \subseteq DOMAIN registry'
    <3>1. CASE status = 200
      BY <1>3, <1>7, <3>1
    <3>2. CASE status # 200
      BY <1>7, <3>2
    <3> QED  BY <3>1, <3>2
  <2> HIDE DEF t
  <2> QED  BY <1>2, <1>3, <1>6, <1>8, <2>1, AnswerExchange
<1>11. Coined(purse, C, Q, coins', nextCoin', f)
  <2>1. CASE status = 200
    <3> DEFINE n == registry[t]
    <3>1. r \in Payments /\ DOMAIN r.wallet = 1..n
          /\ \A i \in 1..n : r.wallet[i] = nextCoin + i - 1
      BY <1>3, <2>1
    <3>2. nextCoin \in Nat /\ n \in Nat /\ \A k \in coins : k < nextCoin
      BY <1>1, <1>7, <2>1, CoinsNow
    <3>3. coins' = coins \cup nextCoin..(nextCoin + n - 1) /\ nextCoin' = nextCoin + n
      BY <1>7, <2>1
    <3> HIDE DEF n, t, status
    <3>4. Coined(purse, C, Q, coins \cup nextCoin..(nextCoin + n - 1), nextCoin + n, f)
      BY <1>2, <1>6, <1>8, <1>9, <3>1, <3>2, AnswerPays
    <3> QED  BY <3>3, <3>4
  <2>2. CASE status # 200
    <3>1. coins' = coins /\ nextCoin' = nextCoin /\ r \in CashRefusals
      BY <1>3, <1>7, <2>2
    <3>2. ASSUME NEW k \in Nat PROVE Count(Q, Brings(k)) = Count(R, Brings(k))
      <4>1. r \notin Brings(k)
        <5> SUFFICES ASSUME r \in Payments PROVE FALSE
          BY DEF Brings
        <5>1. r.status = 200
          BY DEF Payments
        <5> QED  BY <1>3, <2>2, <5>1
      <4>2. Count(R, Brings(k)) \in Nat
        BY <1>6, CountType
      <4> QED  BY <1>2, <4>1, <4>2 DEF More
    <3>3. Coined(purse, C, Q, coins, nextCoin, f)
      BY <1>8, <1>9, <3>2, SameCoined
    <3> QED  BY <3>1, <3>3
  <2> QED  BY <2>1, <2>2
<1>12. ASSUME f = 0
       PROVE  Licensed(client.licenses, C, Q, active, 0) /\ Answered(Q)
  <2>1. Licensed(client.licenses, C, Q, active, 0)
    BY <1>6, <1>8, <1>9, <1>12, FrameLicensed
  <2>2. status # 409
    <3>1. call.treasure \in TreasureId /\ call \in CashCallsFor(t)
      BY CashCallType
    <3>2. Exchange(B, R, {}, t) > 0
      <4>1. call \in DOMAIN B \cap CashCallsFor(t)
        BY <3>1 DEF B
      <4>2. 1 <= B[call] /\ B[call] <= Count(B, CashCallsFor(t)) /\ B[call] \in Nat
        BY <1>6, <4>1, CountType DEF IsBagOf
      <4>3. /\ Count(B, CashCallsFor(t)) \in Nat /\ Count(R, AgainFor(t)) \in Nat
            /\ Count(R, FoundAt(t)) \in Nat /\ Num(t \in {}) = 0
        BY <1>6, CountType DEF Num
      <4> QED  BY <4>2, <4>3 DEF Exchange
    <3>3. t \in DOMAIN registry
      BY <1>8, <1>12, <3>1, <3>2 DEF Cashed
    <3> QED  BY <1>7, <3>3
  <2>3. Answered(Q)
    <3>1. Answered(R)
      BY <1>8, <1>12
    <3>2. \A x \in DOMAIN Q : x \in DOMAIN R \/ x = r
      BY <1>2 DEF More
    <3>3. r.status \in {200, 503}
      BY <1>3, <1>7, <2>2
    <3> QED  BY <1>4, <3>1, <3>2, <3>3 DEF Answered
  <2> QED  BY <2>1, <2>3
<1>13. Tame(client, replies, {}, {}, 0, discovered)'
  BY <1>2, <1>5, <1>7, <1>10, <1>11, <1>12 DEF Tame, C, Q, purse, f
<1>14. Untouched'
  BY <1>7 DEF Untouched, IInv
<1> QED  BY <1>1, <1>2, <1>6, <1>7, <1>13, <1>14 DEF IInv, Q, f

LEMMA ServeCashInv ==
    ASSUME IInv, NEW call \in DOMAIN client.calls, ServeCash(call)
    PROVE  IInv'
<1>1. W!IInv /\ IsBagOf(client.calls, AnyCall)
  BY ClientType DEF IInv
<1>2. call \in CashCalls
  <2>1. call \in AnyCall /\ call.type = "Cash"
    BY <1>1 DEF IsBagOf, ServeCash
  <2> QED  BY <2>1 DEF AnyCall, LicenseCalls, DigCalls
<1>3. Server!Cash(call.treasure) /\ Answer(call, CashReply(call))
  BY DEF ServeCash, CashReply
<1>4. CashReply(call) \in AnyReply
  BY <1>1, <1>2, <1>3, CashReplyType DEF AnyReply
<1>5. /\ discovered' = discovered
      /\ \/ Delivered(call, CashReply(call)) /\ faults' = faults
         \/ Missed(call)
  BY <1>3, <1>4, AnswerIs
<1>6. CASE Delivered(call, CashReply(call)) /\ faults' = faults
  BY <1>2, <1>3, <1>5, <1>6, CashDelivered
<1>7. CASE Missed(call)
  <2> DEFINE t == call.treasure
  <2>0. W!IInv /\ Server!Cash(t)
    BY <1>1, <1>3
  <2>1. /\ W!IInv'
        /\ UNCHANGED <<treasure, depthMap, counts, active>>
        /\ Server!CashStatus(t) \in {200, 409, 503}
        /\ Server!CashStatus(t) = 409 <=> t \notin DOMAIN registry
        /\ Server!CashStatus(t) # 200 => UNCHANGED <<coins, nextCoin, registry>>
        /\ Server!CashStatus(t) = 200 =>
               /\ registry[t] \in Nat
               /\ coins' = coins \cup nextCoin..(nextCoin + registry[t] - 1)
               /\ nextCoin' = nextCoin + registry[t]
               /\ DOMAIN registry' = DOMAIN registry \ {t}
    BY <2>0, ServerCash
  <2>2. faults' # 0
    BY <1>7 DEF Missed, IInv
  <2>3. nextCoin \in Nat
    BY <1>1, CoinsNow
  <2>4. /\ coins \subseteq coins' /\ nextCoin' \in Nat /\ nextCoin <= nextCoin'
    <3> HIDE DEF t
    <3>1. CASE Server!CashStatus(t) = 200
      BY <2>1, <2>3, <3>1
    <3>2. CASE Server!CashStatus(t) # 200
      BY <2>1, <2>3, <3>2
    <3> QED  BY <3>1, <3>2
  <2>5. \A k \in Nat : k < nextCoin => k < nextCoin'
    BY <2>3, <2>4
  <2>6. Coined(client.coins, client.calls, replies, coins, nextCoin, faults)
    BY DEF IInv, Tame
  <2>7. Coined(client.coins, client.calls, replies, coins', nextCoin', faults')
    BY <2>2, <2>4, <2>5, <2>6 DEF Coined
  <2>8. \A c \in Cell : counts'[c] <= counts[c]
    <3>1. counts \in [Cell -> 0..MaxDepth]
      BY <1>1, ServerConstants DEF W!IInv, W!FieldInv
    <3>2. \A c \in Cell : counts[c] \in Int
      BY <3>1
    <3> QED  BY <2>1, <3>2
  <2> QED  BY <1>5, <1>7, <2>1, <2>7, <2>8, MissedInv
<1> QED  BY <1>5, <1>6, <1>7

-----------------------------------------------------------------------------
(***************************************************************************)
(* The licences that are active have slots, or are on their way, or lost   *)
(* their slot: they are fewer than the slots while one more is asked for.  *)
(***************************************************************************)
LEMMA BusyFound ==
    ASSUME NEW lic \in Licenses, NEW L, Owed(lic, L) > 0
    PROVE  \E i \in Busy(lic) : lic[i].id = L
<1> SUFFICES ASSUME \A i \in Busy(lic) : lic[i].id # L PROVE FALSE
  OBVIOUS
<1> DEFINE S == 1..Slots
           Zero == [i \in S |-> 0]
<1>1. IsFiniteSet(S)
  BY FS_Interval, GoldRushAssumption
<1>2. \A i \in S : Owing(lic, L)[i] \in Int /\ Owing(lic, L)[i] <= Zero[i] /\ Zero[i] = 0
  <2> SUFFICES ASSUME NEW i \in S PROVE Owing(lic, L)[i] \in Int /\ Owing(lic, L)[i] <= 0
    OBVIOUS
  <2>1. lic[i].allowed \in Nat /\ lic[i].confirmed \in Nat
    BY SlotType
  <2>2. CASE lic[i].id = L
    <3>1. ~(lic[i].confirmed < lic[i].allowed)
      BY <2>2 DEF Busy
    <3>2. Owing(lic, L)[i] = lic[i].allowed - lic[i].confirmed
      BY <2>2 DEF Owing
    <3> QED  BY <2>1, <3>1, <3>2
  <2>3. CASE lic[i].id # L
    BY <2>3 DEF Owing
  <2> QED  BY <2>2, <2>3
<1> HIDE DEF S, Zero
<1>3. Sum(Zero, S) = 0
  <2> DEFINE F == {T \in SUBSET S : Sum(Zero, T) = 0}
  <2>1. {} \in F
    BY SumEmpty
  <2>2. ASSUME NEW T \in SUBSET S, NEW x \in S \ T, T \in F PROVE T \cup {x} \in F
    <3>0. \A i \in S : Zero[i] \in Int
      BY <1>2
    <3>1. Sum(Zero, T \cup {x}) = Zero[x] + Sum(Zero, T)
      BY <1>1, <3>0, SumGrow
    <3> QED  BY <1>2, <2>2, <3>1
  <2>3. S \in F
    <3> HIDE DEF F
    <3> QED  BY <1>1, <2>1, <2>2, FiniteInduction
  <2> QED  BY <2>3
<1>4. Sum(Owing(lic, L), S) <= Sum(Zero, S)
  BY <1>1, <1>2, SumMonotone
<1>5. Owed(lic, L) <= 0
  BY <1>3, <1>4 DEF Owed, S
<1>6. Owed(lic, L) \in Int
  BY SlotSums
<1> QED  BY <1>5, <1>6

\* an image is not larger than what it is the image of
LEMMA ImageBound ==
    ASSUME NEW S, IsFiniteSet(S), NEW g, DOMAIN g = S, NEW T, T = {g[x] : x \in S}
    PROVE  IsFiniteSet(T) /\ Cardinality(T) <= Cardinality(S)
<1> DEFINE h == [x \in S |-> g[x]]
<1>1. h \in Surjection(S, T)
  BY DEF Surjection
<1> HIDE DEF h
<1> QED  BY <1>1, FS_Surjection

LEMMA FreshBound ==
    ASSUME NEW R, IsBagOf(R, AnyReply)
    PROVE  /\ IsFiniteSet(Fresh(R)) /\ Cardinality(Fresh(R)) \in Nat
           /\ Cardinality(Fresh(R)) <= Count(R, LicenseReplies)
<1> DEFINE S == DOMAIN R \cap Grants
           g == [r \in S |-> r.license.id]
           One1 == [r \in S |-> 1]
<1>1. IsFiniteSet(S) /\ \A r \in S : R[r] \in Nat /\ R[r] >= 1
  <2>1. IsFiniteSet(DOMAIN R) /\ R \in [DOMAIN R -> Nat \ {0}]
    BY DEF IsBagOf
  <2>2. IsFiniteSet(S)
    BY <2>1, FS_Subset
  <2> QED  BY <2>1, <2>2
<1>2. IsFiniteSet(Fresh(R)) /\ Cardinality(Fresh(R)) <= Cardinality(S)
  <2>1. DOMAIN g = S /\ Fresh(R) = {g[x] : x \in S}
    BY DEF Fresh
  <2> HIDE DEF S, g
  <2> QED  BY <1>1, <2>1, ImageBound
<1>3. Cardinality(S) <= Count(R, Grants)
  <2>1. \A r \in S : One1[r] = 1 /\ One1[r] \in Int /\ R[r] \in Int /\ One1[r] <= R[r]
    BY <1>1
  <2> HIDE DEF One1, S
  <2>2. Sum(One1, S) = Cardinality(S)
    BY <1>1, <2>1, SumOnes
  <2>3. Sum(One1, S) <= Sum(R, S)
    BY <1>1, <2>1, SumMonotone
  <2> QED  BY <2>2, <2>3 DEF Count, S
<1>4. Count(R, Grants) <= Count(R, LicenseReplies)
  <2>1. Grants \cap AnyReply \subseteq LicenseReplies
    BY Parts
  <2> QED  BY <2>1, CountMonotone
<1>5. /\ Count(R, Grants) \in Nat /\ Count(R, LicenseReplies) \in Nat
  BY CountType
<1>6. Cardinality(S) \in Nat /\ Cardinality(Fresh(R)) \in Nat
  BY <1>1, <1>2, FS_CardinalityType
<1> HIDE DEF S
<1> QED  BY <1>2, <1>3, <1>4, <1>5, <1>6

LEMMA ActiveBounded ==
    ASSUME NEW B, IsBagOf(B, AnyCall), NEW R, IsBagOf(R, AnyReply),
           NEW lic \in Licenses, NEW act, DOMAIN act \subseteq Nat,
           \A L \in DOMAIN act : Rem(act, L) \in Int /\ Rem(act, L) >= 1,
           IsFiniteSet(DOMAIN act),
           NEW call \in DOMAIN B, call \in LicenseCalls,
           Licensed(lic, B, R, act, 0)
    PROVE  Cardinality(DOMAIN act) < Slots
<1>1. PICK Lost \in SUBSET (DOMAIN act \ Fresh(R)) : Accounted(lic, B, R, act, 0, Lost)
  BY DEF Licensed
<1> DEFINE A == DOMAIN act
           g == [i \in Busy(lic) |-> lic[i].id]
           Ids == {g[i] : i \in Busy(lic)}
<1>2. A \subseteq Lost \cup (Fresh(R) \cup Ids)
  <2> SUFFICES ASSUME NEW L \in A, L \notin Lost, L \notin Fresh(R) PROVE L \in Ids
    OBVIOUS
  <2>1. Count(R, DigRepliesOf(L)) + Rem(act, L) <= Owed(lic, L)
    BY <1>1 DEF Accounted
  <2>2. /\ Count(R, DigRepliesOf(L)) \in Nat /\ Rem(act, L) \in Int /\ Rem(act, L) >= 1
        /\ Owed(lic, L) \in Int
    BY CountType, SlotSums
  <2>3. Owed(lic, L) > 0
    BY <2>1, <2>2
  <2>4. PICK i \in Busy(lic) : lic[i].id = L
    BY <2>3, BusyFound
  <2> QED  BY <2>4
<1>3. IsFiniteSet(Lost) /\ Cardinality(Lost) \in Nat
  BY <1>1, FS_CardinalityType DEF Accounted
<1>4. IsFiniteSet(Busy(lic)) /\ Cardinality(Busy(lic)) \in Nat
  BY BusyFinite
<1>5. DOMAIN g = Busy(lic)
  OBVIOUS
<1> HIDE DEF A, g
<1>6. IsFiniteSet(Ids) /\ Cardinality(Ids) <= Cardinality(Busy(lic)) /\ Cardinality(Ids) \in Nat
  <2>1. Ids = {g[x] : x \in Busy(lic)}
    OBVIOUS
  <2> HIDE DEF Ids
  <2>2. IsFiniteSet(Ids) /\ Cardinality(Ids) <= Cardinality(Busy(lic))
    BY <1>4, <1>5, <2>1, ImageBound
  <2> QED  BY <2>2, FS_CardinalityType
<1> HIDE DEF Ids
<1>7. /\ IsFiniteSet(Fresh(R)) /\ Cardinality(Fresh(R)) \in Nat
      /\ Cardinality(Fresh(R)) <= Count(R, LicenseReplies)
  BY FreshBound
<1> DEFINE U == Fresh(R) \cup Ids
<1>8. /\ IsFiniteSet(U) /\ Cardinality(U) \in Nat
      /\ Cardinality(U) <= Cardinality(Fresh(R)) + Cardinality(Ids)
  <2>1. /\ IsFiniteSet(U)
        /\ Cardinality(U) = Cardinality(Fresh(R)) + Cardinality(Ids)
                                - Cardinality(Fresh(R) \cap Ids)
    BY <1>6, <1>7, FS_Union
  <2>2. IsFiniteSet(Fresh(R) \cap Ids)
    BY <1>7, FS_Subset
  <2>3. Cardinality(Fresh(R) \cap Ids) \in Nat /\ Cardinality(U) \in Nat
    BY <2>1, <2>2, FS_CardinalityType
  <2> QED  BY <1>6, <1>7, <2>1, <2>3
<1> HIDE DEF U
<1>9. /\ IsFiniteSet(Lost \cup U)
      /\ Cardinality(Lost \cup U) <= Cardinality(Lost) + Cardinality(U)
      /\ Cardinality(Lost \cup U) \in Nat
  <2>1. /\ IsFiniteSet(Lost \cup U)
        /\ Cardinality(Lost \cup U) = Cardinality(Lost) + Cardinality(U) - Cardinality(Lost \cap U)
    BY <1>3, <1>8, FS_Union
  <2>2. IsFiniteSet(Lost \cap U)
    BY <1>3, FS_Subset
  <2>3. Cardinality(Lost \cap U) \in Nat /\ Cardinality(Lost \cup U) \in Nat
    BY <2>1, <2>2, FS_CardinalityType
  <2> QED  BY <1>3, <1>8, <2>1, <2>3
<1>10. Cardinality(A) <= Cardinality(Lost \cup U)
  <2>1. A \in SUBSET (Lost \cup U)
    BY <1>2 DEF U
  <2> QED  BY <1>9, <2>1, FS_Subset
<1>11. Cardinality(A) \in Nat
  BY FS_CardinalityType DEF A
<1>12. Count(B, LicenseCalls) + Count(R, LicenseReplies)
           + Cardinality(Busy(lic)) + Cardinality(Lost) + 0 = Slots
  BY <1>1 DEF Accounted
<1>13. Count(B, LicenseCalls) >= 1 /\ Count(B, LicenseCalls) \in Nat
  <2>1. call \in DOMAIN B \cap LicenseCalls
    OBVIOUS
  <2>2. 1 <= B[call] /\ B[call] <= Count(B, LicenseCalls) /\ B[call] \in Nat
    BY <2>1, CountType DEF IsBagOf
  <2>3. Count(B, LicenseCalls) \in Nat
    BY CountType
  <2> QED  BY <2>2, <2>3
<1>14. Slots \in Nat /\ Count(R, LicenseReplies) \in Nat
  BY CountType, GoldRushAssumption
<1>15. Cardinality(A) < Slots
  BY <1>3, <1>4, <1>6, <1>7, <1>8, <1>9, <1>10, <1>11, <1>12, <1>13, <1>14
<1> QED  BY <1>15 DEF A

(***************************************************************************)
(* A call for a licence that the server has handled.                       *)
(***************************************************************************)
LEMMA ServerLicense ==
    ASSUME W!IInv, NEW payment, NEW allowed, Server!IssueLicense(payment, allowed)
    PROVE  /\ W!IInv'
           /\ UNCHANGED <<treasure, depthMap, counts, registry, nextCoin>>
           /\ Server!LicenseStatus(payment) \in {200, 402, 409, 502}
           /\ Server!LicenseStatus(payment) = 402 => ~(payment \subseteq coins)
           /\ Server!LicenseStatus(payment) = 409 => Cardinality(DOMAIN active) >= MaxLicenses
           /\ Server!LicenseStatus(payment) # 200 => UNCHANGED <<active, coins>>
           /\ Server!LicenseStatus(payment) = 200 =>
                  /\ Server!NewId \in Nat \ {0} /\ Server!NewId \notin DOMAIN active
                  /\ allowed \in Nat \ {0}
                  /\ DOMAIN active' = DOMAIN active \cup {Server!NewId}
                  /\ active'[Server!NewId].used = 0
                  /\ active'[Server!NewId].allowed = allowed
                  /\ \A id \in DOMAIN active : active'[id] = active[id]
                  /\ coins' = coins \ payment
<1>1. Server!NewId = W!NewId
  BY DEF Server!NewId, W!NewId, Server!Max, W!Max
<1>2. /\ Server!LicenseStatus(payment) = W!LicenseStatus(payment)
      /\ Server!DigsAllowed(payment) = W!DigsAllowed(payment)
  BY SameCardinality
     DEF Server!LicenseStatus, W!LicenseStatus, Server!DigsAllowed, W!DigsAllowed
<1>3. W!IssueLicense(payment, allowed)
  BY <1>1, <1>2 DEF Server!IssueLicense, W!IssueLicense, Server!fieldVars, W!fieldVars,
                    Server!treasureVars, W!treasureVars
<1>4. W!IInv'
  BY <1>3, ServerConstants, W!IssueLicenseInv
<1>5. UNCHANGED <<treasure, depthMap, counts, registry, nextCoin>>
  BY DEF Server!IssueLicense, Server!fieldVars, Server!treasureVars
<1>6. /\ Server!LicenseStatus(payment) \in {200, 402, 409, 502}
      /\ Server!LicenseStatus(payment) = 402 => ~(payment \subseteq coins)
      /\ Server!LicenseStatus(payment) = 409 => Cardinality(DOMAIN active) >= MaxLicenses
  BY SameCardinality DEF Server!LicenseStatus
<1>7. Server!LicenseStatus(payment) # 200 => UNCHANGED <<active, coins>>
  BY DEF Server!IssueLicense
<1>8. ASSUME Server!LicenseStatus(payment) = 200
      PROVE  /\ Server!NewId \in Nat \ {0} /\ Server!NewId \notin DOMAIN active
             /\ allowed \in Nat \ {0}
             /\ DOMAIN active' = DOMAIN active \cup {Server!NewId}
             /\ active'[Server!NewId].used = 0
             /\ active'[Server!NewId].allowed = allowed
             /\ \A id \in DOMAIN active : active'[id] = active[id]
             /\ coins' = coins \ payment
  <2>1. /\ active' = [id \in DOMAIN active \cup {Server!NewId} |->
                          IF id = Server!NewId THEN [used |-> 0, allowed |-> allowed]
                                               ELSE active[id]]
        /\ coins' = coins \ payment
        /\ allowed \in Server!DigsAllowed(payment)
    BY <1>8 DEF Server!IssueLicense
  <2>2. /\ W!NewId \in Nat \ {0}
        /\ \A id \in DOMAIN active : id < W!NewId
    BY ServerConstants, W!NewIdIsNew DEF W!IInv, W!LicenseInv
  <2>3. Server!NewId \notin DOMAIN active
    <3>1. DOMAIN active \subseteq Nat
      BY ActiveIs
    <3>2. \A id \in DOMAIN active : id # W!NewId
      BY <2>2, <3>1
    <3> QED  BY <1>1, <3>2
  <2>4. allowed \in Nat \ {0}
    BY <1>2, <2>1, ServerConstants, W!DigsAllowedPositive
  <2> QED  BY <1>1, <2>1, <2>2, <2>3, <2>4
<1> QED  BY <1>4, <1>5, <1>6, <1>7, <1>8

LicenseReply(call, allowed) ==
    IF Server!LicenseStatus(PaidWith(call)) = 200
    THEN [call |-> call, status |-> 200,
          license |-> [id |-> Server!NewId, allowed |-> allowed]]
    ELSE [call |-> call, status |-> Server!LicenseStatus(PaidWith(call))]

LEMMA LicenseReplyType ==
    ASSUME W!IInv, NEW call \in LicenseCalls, NEW allowed,
           Server!IssueLicense(PaidWith(call), allowed)
    PROVE  /\ LicenseReply(call, allowed) \in LicenseReplies
           /\ LicenseReply(call, allowed).call = call
           /\ LicenseReply(call, allowed).status = Server!LicenseStatus(PaidWith(call))
           /\ Server!LicenseStatus(PaidWith(call)) # 200 =>
                  LicenseReply(call, allowed) \in Refusals
           /\ Server!LicenseStatus(PaidWith(call)) = 200 =>
                  /\ LicenseReply(call, allowed) \in Grants
                  /\ LicenseReply(call, allowed).license.id = Server!NewId
                  /\ LicenseReply(call, allowed).license.allowed = allowed
<1> DEFINE status == Server!LicenseStatus(PaidWith(call))
           license == [id |-> Server!NewId, allowed |-> allowed]
<1>1. status \in {200, 402, 409, 502}
  BY ServerLicense
<1>2. CASE status = 200
  <2>1. LicenseReply(call, allowed) = [call |-> call, status |-> 200, license |-> license]
    BY <1>2 DEF LicenseReply
  <2>2. Server!NewId \in Nat \ {0} /\ allowed \in Nat \ {0}
    BY <1>2, ServerLicense
  <2>3. license \in [id : Nat \ {0}, allowed : Nat \ {0}]
        /\ license.id = Server!NewId /\ license.allowed = allowed
    BY <2>2
  <2> HIDE DEF license
  <2>4. [call |-> call, status |-> 200, license |-> license] \in Grants
    BY <2>3 DEF Grants
  <2> QED  BY <1>2, <2>1, <2>3, <2>4 DEF LicenseReplies
<1>3. CASE status # 200
  <2>1. LicenseReply(call, allowed) = [call |-> call, status |-> status]
    BY <1>3 DEF LicenseReply
  <2>2. status \in {402, 409, 429, 502}
    BY <1>1, <1>3
  <2> HIDE DEF status
  <2>3. [call |-> call, status |-> status] \in Refusals
    BY <2>2 DEF Refusals
  <2> QED  BY <1>3, <2>1, <2>3 DEF LicenseReplies, status
<1> QED  BY <1>2, <1>3

(***************************************************************************)
(* The licences when the answer is on its way.                             *)
(***************************************************************************)
LEMMA AnswerRefused ==
    ASSUME NEW B, IsBagOf(B, AnyCall), NEW C, IsBagOf(C, AnyCall), Agree(B, C, DigCalls),
           NEW call \in LicenseCalls, More(B, C, call),
           NEW R, IsBagOf(R, AnyReply), NEW Q, IsBagOf(Q, AnyReply), Agree(R, Q, DigReplies),
           NEW r \in Refusals, More(Q, R, r),
           NEW lic, NEW act, Licensed(lic, B, R, act, 0)
    PROVE  Licensed(lic, C, Q, act, 0)
<1>1. r \notin Grants /\ r \in LicenseReplies
  BY DEF Grants, Refusals, LicenseReplies
<1>2. Agree(R, Q, Grants)
  BY <1>1, AgreeIs
<1>3. DOMAIN Q \cap Grants = DOMAIN R \cap Grants /\ Fresh(Q) = Fresh(R)
  BY <1>2 DEF Agree, Fresh
<1>4. \A u \in Grants : Count(Q, {u}) = Count(R, {u})
  BY <1>2 DEF Agree
<1>5. /\ \A L : Count(C, DigCallsOf(L)) = Count(B, DigCallsOf(L))
      /\ \A L : Count(Q, DigRepliesOf(L)) = Count(R, DigRepliesOf(L))
  BY Parts DEF Agree
<1>6. Entitled(lic, C, Q, act)
  BY <1>3, <1>4, <1>5 DEF Licensed, Entitled
<1>7. PICK Lost \in SUBSET (DOMAIN act \ Fresh(R)) : Accounted(lic, B, R, act, 0, Lost)
  BY DEF Licensed
<1>8. Count(C, LicenseCalls) + Count(Q, LicenseReplies)
          = Count(B, LicenseCalls) + Count(R, LicenseReplies)
  <2>1. /\ Count(B, LicenseCalls) = Count(C, LicenseCalls) + 1
        /\ Count(Q, LicenseReplies) = Count(R, LicenseReplies) + 1
    BY <1>1 DEF More
  <2>2. Count(C, LicenseCalls) \in Nat /\ Count(R, LicenseReplies) \in Nat
    BY CountType
  <2> QED  BY <2>1, <2>2
<1>9. Accounted(lic, C, Q, act, 0, Lost)
  BY <1>3, <1>5, <1>7, <1>8 DEF Accounted
<1> QED  BY <1>3, <1>6, <1>7, <1>9 DEF Licensed

LEMMA AnswerGranted ==
    ASSUME NEW B, IsBagOf(B, AnyCall), NEW C, IsBagOf(C, AnyCall), Agree(B, C, DigCalls),
           NEW call \in LicenseCalls, More(B, C, call),
           NEW R, IsBagOf(R, AnyReply), NEW Q, IsBagOf(Q, AnyReply), Agree(R, Q, DigReplies),
           NEW r \in Grants, More(Q, R, r),
           NEW lic \in Licenses, \A i \in 1..Slots : lic[i].used <= lic[i].allowed,
           NEW act, r.license.id \notin DOMAIN act,
           NEW act2, DOMAIN act2 = DOMAIN act \cup {r.license.id},
           act2[r.license.id].used = 0, act2[r.license.id].allowed = r.license.allowed,
           \A L \in DOMAIN act : act2[L] = act[L],
           Licensed(lic, B, R, act, 0)
    PROVE  Licensed(lic, C, Q, act2, 0)
<1> DEFINE id == r.license.id
<1>1. /\ r \in LicenseReplies /\ id \in Nat /\ r.license.allowed \in Nat
  BY GrantType
<1>2. /\ \A L : Count(C, DigCallsOf(L)) = Count(B, DigCallsOf(L))
      /\ \A L : Count(Q, DigRepliesOf(L)) = Count(R, DigRepliesOf(L))
  BY Parts DEF Agree
<1>3. /\ \A L : L # id => Rem(act2, L) = Rem(act, L)
      /\ Rem(act, id) = 0 /\ Rem(act2, id) \in Nat
  <2>1. ASSUME NEW L, L # id PROVE Rem(act2, L) = Rem(act, L)
    BY <2>1 DEF Rem
  <2>2. Rem(act, id) = 0
    BY DEF Rem
  <2>3. Rem(act2, id) = r.license.allowed - 0
    BY DEF Rem
  <2> QED  BY <1>1, <2>1, <2>2, <2>3
<1>4. Entitled(lic, B, R, act)
  BY DEF Licensed
<1>5. PICK Lost \in SUBSET (DOMAIN act \ Fresh(R)) : Accounted(lic, B, R, act, 0, Lost)
  BY DEF Licensed
<1>6. Spare(lic, id) + Count(B, DigCallsOf(id)) = 0
  <2>1. Spare(lic, id) \in Nat /\ Count(B, DigCallsOf(id)) \in Nat
    BY SpareNat, CountType
  <2>2. Spare(lic, id) + Count(B, DigCallsOf(id)) <= Rem(act, id)
    BY <1>1, <1>4 DEF Entitled
  <2> QED  BY <1>3, <2>1, <2>2
<1>7. DOMAIN Q \cap Grants = (DOMAIN R \cap Grants) \cup {r}
  BY DEF More
<1>8. Fresh(Q) = Fresh(R) \cup {id}
  <2>1. ASSUME NEW L \in Fresh(Q) PROVE L \in Fresh(R) \cup {id}
    <3>1. PICK u \in DOMAIN Q \cap Grants : u.license.id = L
      BY <2>1 DEF Fresh
    <3> QED  BY <1>7, <3>1 DEF Fresh
  <2>2. ASSUME NEW L \in Fresh(R) \cup {id} PROVE L \in Fresh(Q)
    <3>1. CASE L = id
      BY <1>7, <3>1 DEF Fresh
    <3>2. CASE L \in Fresh(R)
      <4>1. PICK u \in DOMAIN R \cap Grants : u.license.id = L
        BY <3>2 DEF Fresh
      <4> QED  BY <1>7, <4>1 DEF Fresh
    <3> QED  BY <2>2, <3>1, <3>2
  <2> QED  BY <2>1, <2>2
<1>9. \A u \in DOMAIN R \cap Grants : /\ u.license.id \in DOMAIN act
                                      /\ act[u.license.id].used = 0
                                      /\ act[u.license.id].allowed = u.license.allowed
                                      /\ \A v \in DOMAIN R \cap Grants :
                                            v.license.id = u.license.id => v = u
                                      /\ Count(R, {u}) = 1
  BY <1>4 DEF Entitled
<1>10. r \notin DOMAIN R
  BY <1>9
<1>11. Count(Q, {r}) = 1
  <2>1. Count(R, {r}) \in Nat /\ (Count(R, {r}) # 0 => \E x \in DOMAIN R : x \in {r})
    BY CountType
  <2>2. Count(R, {r}) = 0
    BY <1>10, <2>1
  <2>3. Count(Q, {r}) = Count(R, {r}) + 1
    BY DEF More
  <2> QED  BY <2>2, <2>3
<1>12. ASSUME NEW u \in DOMAIN Q \cap Grants
       PROVE  /\ u.license.id \in DOMAIN act2
              /\ act2[u.license.id].used = 0
              /\ act2[u.license.id].allowed = u.license.allowed
              /\ \A v \in DOMAIN Q \cap Grants : v.license.id = u.license.id => v = u
              /\ Count(Q, {u}) = 1
  <2>1. CASE u = r
    <3>1. \A v \in DOMAIN Q \cap Grants : v.license.id = u.license.id => v = u
      BY <1>7, <1>9, <2>1
    <3> QED  BY <1>11, <2>1, <3>1
  <2>2. CASE u # r
    <3>1. u \in DOMAIN R \cap Grants
      BY <1>7, <2>2
    <3>2. u.license.id \in DOMAIN act /\ u.license.id # id
      BY <1>9, <3>1
    <3>3. Count(Q, {u}) = 1
      <4>1. Count(Q, {u}) = Count(R, {u}) + (IF r \in {u} THEN 1 ELSE 0)
        BY DEF More
      <4>2. Count(R, {u}) = 1
        BY <1>9, <3>1
      <4> QED  BY <2>2, <4>1, <4>2
    <3>4. \A v \in DOMAIN Q \cap Grants : v.license.id = u.license.id => v = u
      BY <1>7, <1>9, <3>1, <3>2
    <3>5. act2[u.license.id] = act[u.license.id]
      BY <3>2
    <3> QED  BY <1>9, <3>1, <3>2, <3>3, <3>4, <3>5
  <2> QED  BY <2>1, <2>2
<1>13. ASSUME NEW L \in Nat PROVE Spare(lic, L) + Count(C, DigCallsOf(L)) <= Rem(act2, L)
  <2>1. Spare(lic, L) + Count(B, DigCallsOf(L)) <= Rem(act, L)
    BY <1>4 DEF Entitled
  <2> HIDE DEF id
  <2>2. CASE L = id
    BY <1>2, <1>3, <1>6, <2>2
  <2>3. CASE L # id
    BY <1>2, <1>3, <2>1, <2>3
  <2> QED  BY <2>2, <2>3
<1>14. Entitled(lic, C, Q, act2)
  BY <1>12, <1>13 DEF Entitled
<1>15. Lost \in SUBSET (DOMAIN act2 \ Fresh(Q))
  BY <1>8
<1>16. ASSUME NEW L \in Lost \cup Fresh(Q) PROVE Spare(lic, L) + Count(C, DigCallsOf(L)) = 0
  <2>1. CASE L = id
    BY <1>2, <1>6, <2>1
  <2>2. CASE L \in Lost \cup Fresh(R)
    <3>1. Spare(lic, L) + Count(B, DigCallsOf(L)) = 0
      BY <1>5, <2>2 DEF Accounted
    <3> QED  BY <1>2, <3>1
  <2> QED  BY <1>8, <2>1, <2>2
<1>17. ASSUME NEW L \in DOMAIN act2 \ (Lost \cup Fresh(Q))
       PROVE  Count(Q, DigRepliesOf(L)) + Rem(act2, L) <= Owed(lic, L)
  <2>1. L # id /\ L \in DOMAIN act \ (Lost \cup Fresh(R))
    BY <1>8
  <2>2. Count(R, DigRepliesOf(L)) + Rem(act, L) <= Owed(lic, L)
    BY <1>5, <2>1 DEF Accounted
  <2>3. Count(Q, DigRepliesOf(L)) = Count(R, DigRepliesOf(L)) /\ Rem(act2, L) = Rem(act, L)
    BY <1>2, <1>3, <2>1
  <2> QED  BY <2>2, <2>3
<1>18. Count(C, LicenseCalls) + Count(Q, LicenseReplies)
           = Count(B, LicenseCalls) + Count(R, LicenseReplies)
  <2>1. /\ Count(B, LicenseCalls) = Count(C, LicenseCalls) + 1
        /\ Count(Q, LicenseReplies) = Count(R, LicenseReplies) + 1
    BY <1>1 DEF More
  <2>2. Count(C, LicenseCalls) \in Nat /\ Count(R, LicenseReplies) \in Nat
    BY CountType
  <2> QED  BY <2>1, <2>2
<1>19. Accounted(lic, C, Q, act2, 0, Lost)
  BY <1>5, <1>16, <1>17, <1>18 DEF Accounted
<1> QED  BY <1>14, <1>15, <1>19 DEF Licensed

LEMMA LicenseDelivered ==
    ASSUME IInv, NEW call \in DOMAIN client.calls,
           call \in LicenseCalls, NEW allowed, Server!IssueLicense(PaidWith(call), allowed),
           Delivered(call, LicenseReply(call, allowed)), faults' = faults,
           discovered' = discovered
    PROVE  IInv'
<1> DEFINE B == client.calls
           C == client'.calls
           R == replies
           Q == replies'
           r == LicenseReply(call, allowed)
           status == Server!LicenseStatus(PaidWith(call))
           lic == client.licenses
           purse == client.coins
           f == faults
<1>1. W!IInv /\ Tame(client, R, {}, {}, 0, discovered)
      /\ discovered \subseteq Cell /\ f \in 0..MaxFaults /\ lic \in Licenses
  BY ClientType DEF IInv
<1>2. /\ client' \in Clients /\ client'.licenses = lic
      /\ client'.coins = purse
      /\ More(B, C, call) /\ More(Q, R, r)
  BY DEF Delivered
<1>3. /\ r \in LicenseReplies /\ r.call = call /\ r.status = status
      /\ status # 200 => r \in Refusals
      /\ status = 200 => /\ r \in Grants
                         /\ r.license.id = Server!NewId
                         /\ r.license.allowed = allowed
  BY <1>1, LicenseReplyType
<1>4. call \notin DigCalls /\ call \notin CashCalls
      /\ r \notin DigReplies /\ r \notin CashReplies
  BY <1>3, CallKinds, ReplyKinds
<1>5. /\ Conserving(client'.licenses, client'.digQueue)
      /\ faults = 0 => client'.status = "running"
      /\ client'.status # "terminated"
      /\ client'.status = "running" =>
            /\ Places(client'.digQueue, client'.calls, client'.left, replies', {})
            /\ Counted(client'.left, replies', {}, counts, discovered, faults)
            /\ Budget(client'.licenses, client'.calls, replies')
      /\ faults = 0 => InStep(client'.digQueue, client'.calls, replies', depthMap)
  BY <1>4, OtherDelivered
<1>6. /\ IsBagOf(B, AnyCall) /\ IsBagOf(C, AnyCall)
      /\ IsBagOf(R, AnyReply) /\ IsBagOf(Q, AnyReply)
      /\ Agree(B, C, DigCalls) /\ Agree(R, Q, DigReplies)
  BY <1>4, OtherDelivered
<1>7. /\ W!IInv'
      /\ UNCHANGED <<treasure, depthMap, counts, registry, nextCoin>>
      /\ status \in {200, 402, 409, 502}
      /\ status = 402 => ~(PaidWith(call) \subseteq coins)
      /\ status = 409 => Cardinality(DOMAIN active) >= MaxLicenses
      /\ status # 200 => UNCHANGED <<active, coins>>
      /\ status = 200 =>
             /\ Server!NewId \in Nat \ {0} /\ Server!NewId \notin DOMAIN active
             /\ allowed \in Nat \ {0}
             /\ DOMAIN active' = DOMAIN active \cup {Server!NewId}
             /\ active'[Server!NewId].used = 0
             /\ active'[Server!NewId].allowed = allowed
             /\ \A id \in DOMAIN active : active'[id] = active[id]
             /\ coins' = coins \ PaidWith(call)
  BY <1>1, ServerLicense
<1>8. /\ Coined(purse, B, R, coins, nextCoin, f)
      /\ Cashed(B, R, {}, treasure, registry, f)
      /\ f = 0 => Budget(lic, B, R)
      /\ f = 0 => /\ Licensed(lic, B, R, active, 0)
                  /\ Answered(R)
  BY <1>1 DEF Tame
<1>9. /\ Agree(B, C, CashCalls) /\ Agree(R, Q, CashReplies)
  <2> HIDE DEF B, C, R, Q, r
  <2> QED  BY <1>2, <1>4, <1>6, AgreeIs
<1>10. call \in DOMAIN B
  OBVIOUS
<1> HIDE DEF B, C, R, Q, r, purse, f, lic
<1>11. Cashed(C, Q, {}, treasure, registry', f)
  <2>1. Cashed(C, Q, {}, treasure, registry, f)
    BY <1>6, <1>8, <1>9, FrameCashed
  <2> QED  BY <1>7, <2>1
<1>12. ASSUME f = 0 PROVE status \in {200, 502}
  <2>1. status # 402
    <3>1. PaidWith(call) \subseteq coins
      BY <1>6, <1>8, <1>10, <1>12, CoinPaid
    <3> QED  BY <1>7, <3>1
  <2>2. status # 409
    <3>1. /\ DOMAIN active \subseteq Nat /\ IsFiniteSet(DOMAIN active)
          /\ \A L \in DOMAIN active : Rem(active, L) \in Int /\ Rem(active, L) >= 1
      <4>1. DOMAIN active \subseteq Nat
        BY <1>1, ActiveIs
      <4>2. IsFiniteSet(DOMAIN active)
        BY <1>1, ServerConstants, W!NewIdIsNew DEF W!IInv, W!LicenseInv, W!IsFiniteSet, IsFiniteSet
      <4>3. \A L \in DOMAIN active : /\ active[L].used \in Nat /\ active[L].allowed \in Nat
                                     /\ active[L].used < active[L].allowed
        BY <1>1, ActiveIs DEF W!IInv, W!LicenseInv, W!LicenseBudget
      <4>4. \A L \in DOMAIN active : Rem(active, L) = active[L].allowed - active[L].used
        BY DEF Rem
      <4> QED  BY <4>1, <4>2, <4>3, <4>4
    <3>2. Licensed(lic, B, R, active, 0)
      BY <1>8, <1>12
    <3>3. Cardinality(DOMAIN active) < Slots
      BY <1>1, <1>6, <1>10, <3>1, <3>2, ActiveBounded
    <3>4. Cardinality(DOMAIN active) \in Nat
      BY <3>1, FS_CardinalityType
    <3>5. Slots \in Nat /\ Slots <= MaxLicenses /\ MaxLicenses \in Nat
      BY GoldRushAssumption DEF Server!WorldAssumption
    <3> QED  BY <1>7, <3>3, <3>4, <3>5
  <2> QED  BY <1>7, <2>1, <2>2
<1>13. Coined(purse, C, Q, coins', nextCoin', f)
  <2>1. coins' \subseteq coins /\ coins \ PaidWith(call) \subseteq coins'
    BY <1>7
  <2>2. f = 0 => coins' \cap PaidWith(call) = {}
    <3> SUFFICES ASSUME f = 0 PROVE coins' \cap PaidWith(call) = {}
      OBVIOUS
    <3>1. CASE status = 200
      BY <1>7, <3>1
    <3>2. CASE status = 502
      <4>1. PaidWith(call) = {}
        BY <3>2, SameCardinality DEF status, Server!LicenseStatus
      <4> QED  BY <4>1
    <3> QED  BY <1>12, <3>1, <3>2
  <2>3. Coined(purse, C, Q, coins', nextCoin, f)
    <3> DEFINE wallet2 == coins'
    <3> HIDE DEF wallet2
    <3>1. /\ wallet2 \subseteq coins /\ coins \ PaidWith(call) \subseteq wallet2
          /\ f = 0 => wallet2 \cap PaidWith(call) = {}
      BY <2>1, <2>2 DEF wallet2
    <3>2. Coined(purse, C, Q, wallet2, nextCoin, f)
      BY <1>2, <1>6, <1>8, <1>9, <3>1, AnswerSpends
    <3> QED  BY <3>2 DEF wallet2
  <2> QED  BY <1>7, <2>3
<1>14. ASSUME f = 0
       PROVE  Licensed(lic, C, Q, active', 0) /\ Answered(Q)
  <2>1. \A i \in 1..Slots : lic[i].used <= lic[i].allowed
    BY <1>8, <1>14 DEF Budget
  <2>2. Licensed(lic, B, R, active, 0)
    BY <1>8, <1>14
  <2>3. Licensed(lic, C, Q, active', 0)
    <3>1. CASE status = 200
      <4>1. /\ r \in Grants /\ r.license.id \notin DOMAIN active
            /\ DOMAIN active' = DOMAIN active \cup {r.license.id}
            /\ active'[r.license.id].used = 0
            /\ active'[r.license.id].allowed = r.license.allowed
            /\ \A L \in DOMAIN active : active'[L] = active[L]
        BY <1>3, <1>7, <3>1
      <4> QED  BY <1>1, <1>2, <1>6, <2>1, <2>2, <4>1, AnswerGranted
    <3>2. CASE status # 200
      <4>1. r \in Refusals /\ active' = active
        BY <1>3, <1>7, <3>2
      <4>2. Licensed(lic, C, Q, active, 0)
        BY <1>2, <1>6, <2>2, <4>1, AnswerRefused
      <4> QED  BY <4>1, <4>2
    <3> QED  BY <3>1, <3>2
  <2>4. Answered(Q)
    <3>1. Answered(R)
      BY <1>8, <1>14
    <3>2. \A x \in DOMAIN Q : x \in DOMAIN R \/ x = r
      BY <1>2 DEF More
    <3>3. r.status \in {200, 502}
      BY <1>3, <1>12, <1>14
    <3> QED  BY <1>4, <3>1, <3>2, <3>3 DEF Answered
  <2> QED  BY <2>3, <2>4
<1>15. Tame(client, replies, {}, {}, 0, discovered)'
  BY <1>2, <1>5, <1>7, <1>11, <1>13, <1>14 DEF Tame, C, Q, purse, f, lic
<1>16. Untouched'
  BY <1>7 DEF Untouched, IInv
<1> QED  BY <1>1, <1>2, <1>6, <1>7, <1>15, <1>16 DEF IInv, Q, f

LEMMA ServeLicenseInv ==
    ASSUME IInv, NEW call \in DOMAIN client.calls, ServeLicense(call)
    PROVE  IInv'
<1>1. /\ W!IInv /\ IsBagOf(client.calls, AnyCall) /\ IsBagOf(replies, AnyReply)
      /\ Coined(client.coins, client.calls, replies, coins, nextCoin, faults)
  BY ClientType DEF IInv, Tame
<1>2. call \in LicenseCalls
  <2>1. call \in AnyCall /\ call.type \in LicenseTypes
    BY <1>1 DEF IsBagOf, ServeLicense
  <2> QED  BY <2>1 DEF AnyCall, DigCalls, CashCalls, CashCall, LicenseTypes
<1>3. PICK allowed : /\ Server!IssueLicense(PaidWith(call), allowed)
                     /\ Answer(call, LicenseReply(call, allowed))
  BY DEF ServeLicense, PaidWith, LicenseReply
<1>4. LicenseReply(call, allowed) \in AnyReply
  BY <1>1, <1>2, <1>3, LicenseReplyType DEF AnyReply
<1>5. /\ discovered' = discovered
      /\ \/ Delivered(call, LicenseReply(call, allowed)) /\ faults' = faults
         \/ Missed(call)
  BY <1>3, <1>4, AnswerIs
<1>6. CASE Delivered(call, LicenseReply(call, allowed)) /\ faults' = faults
  BY <1>2, <1>3, <1>5, <1>6, LicenseDelivered
<1>7. CASE Missed(call)
  <2> DEFINE status == Server!LicenseStatus(PaidWith(call))
  <2>1. /\ W!IInv'
        /\ UNCHANGED <<treasure, depthMap, counts, registry, nextCoin>>
        /\ status \in {200, 402, 409, 502}
        /\ status = 402 => ~(PaidWith(call) \subseteq coins)
        /\ status = 409 => Cardinality(DOMAIN active) >= MaxLicenses
        /\ status # 200 => UNCHANGED <<active, coins>>
        /\ status = 200 =>
               /\ Server!NewId \in Nat \ {0} /\ Server!NewId \notin DOMAIN active
               /\ allowed \in Nat \ {0}
               /\ DOMAIN active' = DOMAIN active \cup {Server!NewId}
               /\ active'[Server!NewId].used = 0
               /\ active'[Server!NewId].allowed = allowed
               /\ \A id \in DOMAIN active : active'[id] = active[id]
               /\ coins' = coins \ PaidWith(call)
    BY <1>1, <1>3, ServerLicense
  <2>2. faults' # 0
    BY <1>7 DEF Missed, IInv
  <2>3. coins \ PaidWith(call) \subseteq coins'
    BY <2>1
  <2>4. \A k \in PaidWith(call) : ~InPurse(client.coins, k) /\ Count(replies, Brings(k)) = 0
    BY <1>1, <1>2, CoinPaid
  <2>5. Coined(client.coins, client.calls, replies, coins', nextCoin, faults')
    BY <1>1, <2>2, <2>3, <2>4 DEF Coined
  <2>6. \A c \in Cell : counts'[c] <= counts[c]
    <3>1. counts \in [Cell -> 0..MaxDepth]
      BY <1>1, ServerConstants DEF W!IInv, W!FieldInv
    <3>2. \A c \in Cell : counts[c] \in Int
      BY <3>1
    <3> QED  BY <2>1, <3>2
  <2>7. /\ nextCoin' = nextCoin
        /\ \A t \in TreasureId : treasure[t[1]][t[2]] = 0 => treasure'[t[1]][t[2]] = 0
    BY <2>1
  <2> QED  BY <1>5, <1>7, <2>1, <2>5, <2>6, <2>7, MissedInv
<1> QED  BY <1>5, <1>6, <1>7

-----------------------------------------------------------------------------
(***************************************************************************)
(* The rate limiter refuses a call.                                        *)
(***************************************************************************)
LEMMA FaultRelaxes ==
    ASSUME NEW f, NEW f2, f2 # 0
    PROVE  /\ \A purse, B, R, wallet, next :
                  Coined(purse, B, R, wallet, next, f) => Coined(purse, B, R, wallet, next, f2)
           /\ \A B, R, F, ground, reg :
                  Cashed(B, R, F, ground, reg, f) => Cashed(B, R, F, ground, reg, f2)
           /\ \A left, R, F, cnt, D :
                  Counted(left, R, F, cnt, D, f) => Counted(left, R, F, cnt, D, f2)
<1>1. \A purse, B, R, wallet, next :
          Coined(purse, B, R, wallet, next, f) => Coined(purse, B, R, wallet, next, f2)
  BY DEF Coined
<1>2. \A B, R, F, ground, reg :
          Cashed(B, R, F, ground, reg, f) => Cashed(B, R, F, ground, reg, f2)
  BY DEF Cashed
<1>3. \A left, R, F, cnt, D :
          Counted(left, R, F, cnt, D, f) => Counted(left, R, F, cnt, D, f2)
  BY DEF Counted
<1> QED  BY <1>1, <1>2, <1>3

LEMMA RejectInv ==
    ASSUME IInv, NEW call \in DOMAIN client.calls, Reject(call)
    PROVE  IInv'
<1>1. PICK status \in {429, Failed} : Arrive(call, [call |-> call, status |-> status])
  BY DEF Reject
<1>2. call \in AnyCall
  BY ClientType DEF IInv, IsBagOf
<1> DEFINE r == [call |-> call, status |-> status]
<1>3. r \in AnyReply
  BY <1>2, RefusalType
<1>4. Delivered(call, r)
  <2> HIDE DEF r
  <2>1. Arrive(call, r)
    BY <1>1 DEF r
  <2> QED  BY <1>3, <2>1, DeliveredIs DEF Arrive
<1>5. Missed(call) /\ discovered' = discovered
  BY <1>4 DEF Missed, Refused, Reject
<1>6. /\ UNCHANGED <<treasure, depthMap, counts, registry, active, coins, nextCoin>>
      /\ W!IInv'
  BY ServerStands DEF Reject, serverVars, IInv
<1>7. faults' # 0
  BY <1>5 DEF Missed, IInv
<1>8. Coined(client.coins, client.calls, replies, coins', nextCoin', faults')
  BY <1>6, <1>7, FaultRelaxes DEF IInv, Tame
<1>9. \A c \in Cell : counts'[c] <= counts[c]
  <2>1. counts \in [Cell -> 0..MaxDepth]
    BY ServerConstants DEF IInv, W!IInv, W!FieldInv
  <2>2. \A c \in Cell : counts[c] \in Int
    BY <2>1
  <2> QED  BY <1>6, <2>2
<1>10. \A t \in TreasureId : treasure[t[1]][t[2]] = 0 => treasure'[t[1]][t[2]] = 0
  BY <1>6
<1> QED  BY <1>5, <1>6, <1>8, <1>9, <1>10, MissedInv

LEMMA ServeInv ==
    ASSUME IInv, NEW call \in Calls, Serve(call)
    PROVE  IInv'
<1>1. call \in DOMAIN client.calls
  BY DEF Calls, BagToSet
<1> QED  BY <1>1, ServeDigInv, ServeCashInv, ServeLicenseInv, RejectInv DEF Serve

(***************************************************************************)
(* Time passes.                                                            *)
(***************************************************************************)
LEMMA ClockInv == ASSUME IInv, Tick PROVE IInv'
<1>1. /\ Server!Tick /\ client' = client /\ replies' = replies
      /\ discovered' = discovered /\ faults' = faults
  BY DEF Tick
<1>2. W!Tick
  BY <1>1 DEF Server!Tick, W!Tick, Server!fieldVars, W!fieldVars, Server!treasureVars,
              W!treasureVars, Server!moneyVars, W!moneyVars
<1>3. W!IInv'
  BY <1>2, ServerConstants, W!TickInv DEF IInv
<1>4. UNCHANGED <<treasure, depthMap, counts, registry, active, coins, nextCoin>>
  BY <1>1 DEF Server!Tick, Server!fieldVars, Server!treasureVars, Server!moneyVars
<1>5. Tame(client, replies, {}, {}, 0, discovered)'
  BY <1>1, <1>4 DEF IInv, Tame
<1> QED  BY <1>1, <1>3, <1>4, <1>5 DEF IInv, Untouched

(***************************************************************************)
(* The pool is gone.                                                       *)
(***************************************************************************)
LEMMA ExitInv == ASSUME IInv, Exit PROVE IInv'
<1>1. /\ client \in Clients /\ client.status = "stopped"
      /\ client' = [client EXCEPT !.status = "ended"]
      /\ UNCHANGED serverVars /\ replies' = replies
      /\ discovered' = discovered /\ faults' = faults
  BY DEF Exit, IInv
<1>2. /\ client' \in Clients /\ client'.licenses = client.licenses
      /\ client'.digQueue = client.digQueue /\ client'.left = client.left
      /\ client'.coins = client.coins /\ client'.calls = client.calls
      /\ client'.status = "ended"
  BY <1>1 DEF Clients
<1>3. W!IInv'
  BY <1>1, ServerStands DEF IInv
<1>4. UNCHANGED <<treasure, depthMap, counts, registry, active, coins, nextCoin>>
  BY <1>1 DEF serverVars
<1>5. Tame(client, replies, {}, {}, 0, discovered)'
  BY <1>1, <1>2, <1>4 DEF IInv, Tame
<1> QED  BY <1>1, <1>2, <1>3, <1>4, <1>5 DEF IInv, Untouched

LEMMA StandInv == ASSUME IInv, UNCHANGED vars PROVE IInv'
<1>1. /\ UNCHANGED serverVars /\ client' = client /\ replies' = replies
      /\ discovered' = discovered /\ faults' = faults
  BY DEF vars
<1>2. W!IInv'
  BY <1>1, ServerStands
<1>3. UNCHANGED <<treasure, depthMap, counts, registry, active, coins, nextCoin>>
  BY <1>1 DEF serverVars
<1>4. Tame(client, replies, {}, {}, 0, discovered)'
  BY <1>1, <1>3 DEF IInv, Tame
<1> QED  BY <1>1, <1>2, <1>3, <1>4 DEF IInv, Untouched

LEMMA NextInv == IInv /\ [Next]_vars => IInv'
<1> SUFFICES ASSUME IInv, [Next]_vars PROVE IInv'
  OBVIOUS
<1>1. ASSUME NEW c \in Cell, Discover(c) PROVE IInv'
  BY <1>1, DiscoverInv
<1>2. ASSUME NEW c \in Cell, NEW d \in Cell, DiscoverBoth(c, d) PROVE IInv'
  BY <1>2, DiscoverBothInv
<1>3. ASSUME NEW call \in Calls, Serve(call) PROVE IInv'
  BY <1>3, ServeInv
<1>4. ASSUME NEW reply \in BagToSet(replies), Handle(reply) PROVE IInv'
  BY <1>4, HandleInv
<1>5. CASE Tick
  BY <1>5, ClockInv
<1>6. CASE Exit
  BY <1>6, ExitInv
<1>7. CASE UNCHANGED vars
  BY <1>7, StandInv
<1> QED  BY <1>1, <1>2, <1>3, <1>4, <1>5, <1>6, <1>7 DEF Next

-----------------------------------------------------------------------------
(***************************************************************************)
(* The calls of fireInitRequests.                                          *)
(***************************************************************************)
FirstCalls == IF Slots = 0 THEN EmptyBag ELSE [call \in {FreeLicense} |-> Slots]

LEMMA FirstCallsAre ==
    /\ IsBagOf(FirstCalls, AnyCall)
    /\ Count(FirstCalls, LicenseCalls) = Slots
    /\ \A T : FreeLicense \notin T => Count(FirstCalls, T) = 0
    /\ DOMAIN FirstCalls \subseteq {FreeLicense}
<1>1. Slots \in Nat
  BY GoldRushAssumption
<1>2. FreeLicense \in LicenseCalls /\ FreeLicense \in AnyCall
  BY DEF FreeLicense, LicenseCalls, AnyCall
<1>3. CASE Slots = 0
  <2>1. FirstCalls = EmptyBag
    BY <1>3 DEF FirstCalls
  <2> QED  BY <1>3, <2>1, EmptyBagIs
<1>4. CASE Slots # 0
  <2> DEFINE B == [call \in {FreeLicense} |-> Slots]
  <2>1. FirstCalls = B
    BY <1>4 DEF FirstCalls
  <2>2. DOMAIN B = {FreeLicense} /\ B[FreeLicense] = Slots
    OBVIOUS
  <2>3. B \in [{FreeLicense} -> Nat \ {0}]
    BY <1>1, <1>4
  <2>4. IsFiniteSet({FreeLicense}) /\ IsFiniteSet({})
    BY FS_Singleton, FS_EmptySet
  <2>5. IsBagOf(B, AnyCall)
    BY <1>2, <2>2, <2>3, <2>4 DEF IsBagOf
  <2> HIDE DEF B
  <2>6. ASSUME NEW T, FreeLicense \notin T PROVE Count(B, T) = 0
    <3>1. DOMAIN B \cap T = {}
      BY <2>2, <2>6
    <3> QED  BY <3>1, SumEmpty DEF Count
  <2>7. Count(B, LicenseCalls) = Slots
    <3>1. DOMAIN B \cap LicenseCalls = {} \cup {FreeLicense}
      BY <1>2, <2>2
    <3>2. \A y \in {} \cup {FreeLicense} : B[y] \in Int
      BY <1>1, <2>2
    <3>3. Sum(B, {} \cup {FreeLicense}) = B[FreeLicense] + Sum(B, {})
      BY <2>4, <3>2, SumAdd
    <3>4. Sum(B, {}) = 0
      BY SumEmpty
    <3>5. Count(B, LicenseCalls) = B[FreeLicense] + 0
      BY <3>1, <3>3, <3>4 DEF Count
    <3> QED  BY <1>1, <2>2, <3>5
  <2> QED  BY <2>1, <2>2, <2>5, <2>6, <2>7
<1> QED  BY <1>3, <1>4

\* slots without a licence owe nothing
LEMMA EmptySlots ==
    ASSUME NEW lic, \A i \in 1..Slots : /\ lic[i].allowed = 0 /\ lic[i].used = 0
                                       /\ lic[i].confirmed = 0
    PROVE  \A L : Owed(lic, L) = 0 /\ Spare(lic, L) = 0
<1> TAKE L
<1>1. IsFiniteSet(1..Slots)
  BY FS_Interval, GoldRushAssumption
<1>2. \A x \in 1..Slots : Owing(lic, L)[x] = 0 /\ Sparing(lic, L)[x] = 0
  BY DEF Owing, Sparing
<1>3. \A f : (\A x \in 1..Slots : f[x] = 0) => Sum(f, 1..Slots) = 0
  <2> TAKE f
  <2> HAVE \A x \in 1..Slots : f[x] = 0
  <2>1. /\ \A x \in 1..Slots : f[x] \in Int
        /\ \A x \in 1..Slots : f[x] = f[x] + f[x]
    OBVIOUS
  <2>2. Sum(f, 1..Slots) \in Int
    BY <1>1, <2>1, SumInt
  <2>3. Sum(f, 1..Slots) = Sum(f, 1..Slots) + Sum(f, 1..Slots)
    BY <1>1, <2>1, SumPlus
  <2> QED  BY <2>2, <2>3
<1> QED  BY <1>2, <1>3 DEF Owed, Spare

LEMMA InitInv == Init => IInv
<1> SUFFICES ASSUME Init PROVE IInv
  OBVIOUS
<1> DEFINE lic == [i \in 1..Slots |-> NoLicense]
           left == [c \in Cell |-> 0]
           B == FirstCalls
           R == EmptyBag
<1>1. /\ client.licenses = lic /\ client.digQueue = <<>> /\ client.left = left
      /\ client.coins = <<>> /\ client.calls = B /\ client.status = "running"
      /\ replies = R /\ discovered = {} /\ faults = 0
  BY DEF Init, FirstCalls
<1>2. /\ IsBagOf(B, AnyCall) /\ Count(B, LicenseCalls) = Slots
      /\ \A T : FreeLicense \notin T => Count(B, T) = 0
      /\ DOMAIN B \subseteq {FreeLicense}
  BY FirstCallsAre
<1>3. IsBagOf(R, AnyReply) /\ DOMAIN R = {} /\ \A T : Count(R, T) = 0
  BY EmptyBagIs
<1>4. Slots \in Nat /\ MaxDepth \in Nat /\ MaxFaults \in Nat
  BY GoldRushAssumption DEF Server!WorldAssumption
<1>5. W!Init
  <2>1. Server!Cell = W!Cell /\ Server!Depths = W!Depths
    BY ServerConstants DEF Cell, Server!Depths, W!Depths
  <2>2. \A c : Server!TreasuresBelow(treasure, c) = W!TreasuresBelow(treasure, c)
    BY <2>1 DEF Server!TreasuresBelow, W!TreasuresBelow
  <2>3. \A c : Server!Cardinality(Server!TreasuresBelow(treasure, c))
                  = W!Cardinality(W!TreasuresBelow(treasure, c))
    BY <2>2, SameCardinality
  <2>4. counts = [c \in W!Cell |-> W!Cardinality(W!TreasuresBelow(treasure, c))]
    BY <2>1, <2>3 DEF Init, Server!Init
  <2> QED  BY <2>1, <2>4 DEF Init, Server!Init, W!Init
<1>6. W!IInv
  BY <1>5, W!InitInv, ServerConstants
<1>7. /\ \A c \in Cell : depthMap[c] = 0
      /\ coins = {} /\ DOMAIN active = {}
  BY DEF Init, Server!Init, Cell
<1>8. /\ FreeLicense \notin DigCalls /\ FreeLicense \notin CashCalls
      /\ \A k : FreeLicense \notin {PaidLicense(k)}
  BY CallKinds DEF FreeLicense, LicenseCalls, PaidLicense
<1>9. /\ \A L : Count(B, DigCallsOf(L)) = 0
      /\ \A c : Count(B, DigCallsIn(c)) = 0
      /\ \A t : Count(B, CashCallsFor(t)) = 0
      /\ \A k : Count(B, {PaidLicense(k)}) = 0
  BY <1>2, <1>8, Parts
<1> HIDE DEF R, B
<1>10. client \in Clients
  <2>1. lic \in [1..Slots -> Slot]
    BY DEF Slot, NoLicense
  <2>2. left \in [Cell -> 0..MaxDepth]
    BY <1>4
  <2>3. B \in CallBags
    BY <1>2, CallBagsAre
  <2>4. client = [licenses |-> lic, digQueue |-> <<>>, left |-> left, coins |-> <<>>,
                  calls |-> B, status |-> "running"]
    BY DEF Init, FirstCalls, B
  <2> HIDE DEF lic, left
  <2> QED  BY <2>1, <2>2, <2>3, <2>4 DEF Clients
<1>11. \A i \in 1..Slots : /\ lic[i].id = 0 /\ lic[i].allowed = 0
                           /\ lic[i].used = 0 /\ lic[i].confirmed = 0
  BY DEF NoLicense
<1>12. \A c \in Cell : left[c] = 0
  OBVIOUS
<1> HIDE DEF lic, left
<1>13. Conserving(lic, <<>>)
  BY DEF Conserving
<1>14. Coined(<<>>, B, R, coins, nextCoin, 0)
  <2>1. \A k \in Nat : CoinUse(<<>>, B, R, k) = 0 /\ ~InPurse(<<>>, k)
    BY <1>3, <1>9 DEF CoinUse, InPurse, Num
  <2> QED  BY <1>3, <1>7, <2>1 DEF Coined
<1>15. Cashed(B, R, {}, treasure, registry, 0)
  <2>1. \A t : Exchange(B, R, {}, t) = 0
    BY <1>3, <1>9 DEF Exchange, Num
  <2> QED  BY <2>1 DEF Cashed
<1>16. Places(<<>>, B, left, R, {})
  BY <1>3, <1>9, <1>12 DEF Places, UnderWay, QCells, Num
<1>17. Counted(left, R, {}, counts, {}, 0)
  BY <1>12 DEF Counted
<1>18. \A L : Owed(lic, L) = 0 /\ Spare(lic, L) = 0
  BY <1>11, EmptySlots
<1>19. Budget(lic, B, R)
  BY <1>3, <1>9, <1>11, <1>18 DEF Budget
<1>20. InStep(<<>>, B, R, depthMap)
  BY <1>2, <1>3, <1>8 DEF InStep
<1>21. Licensed(lic, B, R, active, 0)
  <2>1. Entitled(lic, B, R, active)
    BY <1>3, <1>7, <1>9, <1>18 DEF Entitled, Rem
  <2>2. Fresh(R) = {}
    BY <1>3 DEF Fresh
  <2>3. Busy(lic) = {}
    BY <1>11 DEF Busy
  <2>4. IsFiniteSet({}) /\ Cardinality({}) = 0
    BY FS_EmptySet
  <2>5. Accounted(lic, B, R, active, 0, {})
    BY <1>2, <1>3, <1>4, <1>7, <2>2, <2>3, <2>4 DEF Accounted
  <2>6. {} \in SUBSET (DOMAIN active \ Fresh(R))
    OBVIOUS
  <2> QED  BY <2>1, <2>5, <2>6 DEF Licensed
<1>22. Answered(R)
  BY <1>3 DEF Answered
<1>23. Tame(client, replies, {}, {}, 0, discovered)
  BY <1>1, <1>13, <1>14, <1>15, <1>16, <1>17, <1>19, <1>20, <1>21, <1>22 DEF Tame
<1>24. Untouched
  BY <1>7 DEF Untouched
<1> QED  BY <1>1, <1>3, <1>4, <1>6, <1>10, <1>23, <1>24 DEF IInv

LEMMA Invariance == Spec => []IInv
<1>1. Init => IInv
  BY InitInv
<1>2. IInv /\ [Next]_vars => IInv'
  BY NextInv
<1> QED  BY <1>1, <1>2, PTL DEF Spec

-----------------------------------------------------------------------------
(***************************************************************************)
(* What the sets that the properties speak of are in terms of the counts.  *)
(***************************************************************************)
LEMMA CountCard ==
    ASSUME NEW M, NEW B, IsBagOf(B, M), NEW T, Count(B, T) <= 1
    PROVE  Cardinality(DOMAIN B \cap T) = Count(B, T)
<1>1. CASE DOMAIN B \cap T = {}
  <2>1. Count(B, T) = 0
    BY <1>1, SumEmpty DEF Count
  <2> QED  BY <1>1, <2>1, FS_EmptySet
<1>2. CASE DOMAIN B \cap T # {}
  <2>1. PICK x \in DOMAIN B : x \in T
    BY <1>2
  <2>2. Count(B, T) = 1 /\ \A y \in DOMAIN B : y \in T => y = x
    BY <2>1, CountOne
  <2>3. DOMAIN B \cap T = {x}
    BY <2>1, <2>2
  <2> QED  BY <2>2, <2>3, FS_Singleton
<1> QED  BY <1>1, <1>2

\* the calls and replies of a type are those of its set
LEMMA CallTyped ==
    /\ \A call \in AnyCall : /\ call.type = "Dig" <=> call \in DigCalls
                             /\ call.type = "Cash" <=> call \in CashCalls
                             /\ call.type \in LicenseTypes <=> call \in LicenseCalls
                             /\ call.type \in CallTypes
    /\ \A call \in LicenseCalls :
          call.type = "IssuePaidLicense" <=> \E k \in Nat : call = PaidLicense(k)
<1>1. /\ \A call \in DigCalls : call.type = "Dig"
      /\ \A call \in CashCalls : call.type = "Cash"
      /\ \A call \in LicenseCalls : call.type \in LicenseTypes
      /\ "Dig" \notin LicenseTypes /\ "Cash" \notin LicenseTypes
  BY DEF DigCalls, CashCalls, CashCall, LicenseCalls, LicenseTypes
<1>2. ASSUME NEW call \in LicenseCalls, call.type = "IssuePaidLicense"
      PROVE  \E k \in Nat : call = PaidLicense(k)
  <2>1. call \in [type : {"IssuePaidLicense"}, coin : Nat]
    BY <1>2 DEF LicenseCalls
  <2> QED  BY <2>1 DEF PaidLicense
<1>3. \A k \in Nat : PaidLicense(k).type = "IssuePaidLicense"
  BY DEF PaidLicense
<1> QED  BY <1>1, <1>2, <1>3 DEF AnyCall, CallTypes

LEMMA ReplyTyped ==
    \A r \in AnyReply : /\ r.call \in AnyCall
                        /\ r.call \in DigCalls <=> r \in DigReplies
                        /\ r.call \in CashCalls <=> r \in CashReplies
                        /\ r.call \in LicenseCalls <=> r \in LicenseReplies
<1>1. /\ \A x \in LicenseReplies : x.call \in LicenseCalls
      /\ \A x \in DigReplies : x.call \in DigCalls
      /\ \A x \in CashReplies : x.call \in CashCalls
  BY DEF LicenseReplies, Grants, Refusals, DigReplies, CashReplies, Payments,
         CashRefusals
<1> QED  BY <1>1, CallKinds DEF AnyReply, AnyCall

LEMMA DigSets ==
    ASSUME IInv
    PROVE  \A c \in Cell : /\ Digging(c) = DOMAIN client.calls \cap DigCallsIn(c)
                           /\ Dug(c) = DOMAIN replies \cap DigRepliesIn(c)
<1>1. DOMAIN client.calls \subseteq AnyCall /\ DOMAIN replies \subseteq AnyReply
  BY ClientType DEF IInv, IsBagOf
<1>2. \A r \in AnyReply : r.call.type = "Dig" <=> r \in DigReplies
  BY CallTyped, ReplyTyped
<1> QED  BY <1>1, <1>2, CallTyped
         DEF Digging, Dug, Calls, BagToSet, DigCallsIn, DigRepliesIn

-----------------------------------------------------------------------------
LEMMA TypeFromInv == IInv => TypeOK
<1> SUFFICES ASSUME IInv PROVE TypeOK
  OBVIOUS
<1>1. Server!TypeOK
  <2>1. W!TypeOK
    BY ServerConstants, W!TypeFromInv DEF IInv
  <2> QED  BY <2>1 DEF W!TypeOK, Server!TypeOK, W!Cell, Server!Cell, W!Depths,
                       Server!Depths, W!TreasureId, Server!TreasureId, W!License,
                       Server!License
<1>2. client.licenses \in [1..Slots -> Slot] /\ client.left \in [Cell -> 0..MaxDepth]
      /\ client.coins \in Seq(Nat)
      /\ client.status \in {"running", "stopped", "ended", "terminated"}
      /\ client.digQueue \in Seq([cell : Cell, depth : 1..(MaxDepth + 1)])
  BY DEF IInv, Clients, Digs
<1>3. IsBagOf(client.calls, AnyCall) /\ IsBagOf(replies, AnyReply)
  BY ClientType DEF IInv
<1>4. \A B, M : IsBagOf(B, M) => IsABag(B)
  <2> TAKE B, M
  <2> HAVE IsBagOf(B, M)
  <2>1. Nat \ {0} = {n \in Nat : n > 0}
    OBVIOUS
  <2> QED  BY <2>1 DEF IsBagOf, IsABag
<1>5. \A call \in Calls : call.type \in CallTypes
  BY <1>3, CallTyped DEF Calls, BagToSet, IsBagOf
<1> QED  BY <1>1, <1>2, <1>3, <1>4, <1>5 DEF IInv, TypeOK

(***************************************************************************)
(* Every variable keeps its type, whatever the network does; in particular *)
(* the depth of a dig never passes the depth of the field by more than one *)
(* and what is left of a cell never becomes negative (app.cpp:268-282).    *)
(***************************************************************************)
THEOREM ClientTyped == Spec => []TypeOK
<1>1. IInv => TypeOK
  BY TypeFromInv
<1> QED  BY <1>1, Invariance, PTL

(***************************************************************************)
(* No handler throws (state.h:142-150), and without faults of the network  *)
(* no error ends run() (app.cpp:205-210, 271-273, 283-289, 298-303).       *)
(***************************************************************************)
THEOREM NeverFatal == Spec => []NoFatal
<1>1. IInv => NoFatal
  BY DEF IInv, Tame, NoFatal
<1> QED  BY <1>1, Invariance, PTL

(***************************************************************************)
(* No dig is delayed while a licence has one to spare (app.cpp:219-228).   *)
(***************************************************************************)
THEOREM ConservesWork == Spec => []WorkConserving
<1>1. ASSUME IInv PROVE WorkConserving
  <2>1. Conserving(client.licenses, client.digQueue)
    BY <1>1 DEF IInv, Tame
  <2> QED  BY <2>1 DEF Conserving, WorkConserving, HasAvailableLicense, SlotsWhere, Available
<1> QED  BY <1>1, Invariance, PTL

(***************************************************************************)
(* Without faults a cell with treasures left has one dig under way, for    *)
(* its next depth, and a cell without has none (app.cpp:268-282).          *)
(***************************************************************************)
THEOREM DigsInStep == Spec => []DigInStep
<1>1. ASSUME IInv PROVE DigInStep
  <2> SUFFICES ASSUME faults = 0, NEW c \in Cell
               PROVE  /\ Cardinality(Waiting(c)) + Cardinality(Digging(c))
                             + Cardinality(Dug(c))
                                = (IF client.left[c] > 0 THEN 1 ELSE 0)
                      /\ \A i \in Waiting(c) : client.digQueue[i].depth = depthMap[c] + 1
                      /\ \A call \in Digging(c) :
                             client.calls[call] = 1 /\ call.depth = depthMap[c] + 1
                      /\ \A reply \in Dug(c) :
                             replies[reply] = 1 /\ reply.call.depth = depthMap[c]
    BY DEF DigInStep
  <2> DEFINE q == client.digQueue
             B == client.calls
             R == replies
  <2>1. /\ Places(q, B, client.left, R, {})
        /\ InStep(q, B, R, depthMap)
    BY <1>1 DEF IInv, Tame
  <2>2. IsBagOf(B, AnyCall) /\ IsBagOf(R, AnyReply) /\ q \in Seq(Digs)
    BY <1>1, ClientType DEF IInv
  <2>3. Digging(c) = DOMAIN B \cap DigCallsIn(c) /\ Dug(c) = DOMAIN R \cap DigRepliesIn(c)
    BY <1>1, DigSets
  <2> HIDE DEF B, R, q
  <2>4. Count(B, DigCallsIn(c)) \in Nat /\ Count(R, DigRepliesIn(c)) \in Nat
    BY <2>2, CountType
  <2>5. Waiting(c) = {i \in DOMAIN q : q[i].cell = c}
    BY DEF Waiting, q
  <2>6. Cardinality(Waiting(c)) = Num(c \in QCells(q))
    <3>1. CASE c \in QCells(q)
      <4>1. PICK i \in DOMAIN q : q[i].cell = c
        BY <3>1 DEF QCells
      <4>2. Waiting(c) = {i}
        BY <2>1, <2>5, <4>1 DEF Places
      <4> QED  BY <3>1, <4>2, FS_Singleton DEF Num
    <3>2. CASE c \notin QCells(q)
      <4>1. Waiting(c) = {}
        BY <2>5, <3>2 DEF QCells
      <4> QED  BY <3>2, <4>1, FS_EmptySet DEF Num
    <3> QED  BY <3>1, <3>2
  <2>7. Count(B, DigCallsIn(c)) + Count(R, DigRepliesIn(c)) + Num(c \in QCells(q))
            = Num(client.left[c] > 0)
    <3>1. UnderWay(B, R, c) + Num(c \in QCells(q)) + Num(c \in {}) = Num(client.left[c] > 0)
      BY <2>1 DEF Places
    <3>2. Num(c \in {}) = 0 /\ Num(c \in QCells(q)) \in Nat
      BY DEF Num
    <3> QED  BY <2>4, <3>1, <3>2 DEF UnderWay
  <2>8. Num(client.left[c] > 0) \in {0, 1} /\ Num(c \in QCells(q)) \in {0, 1}
    BY DEF Num
  <2>9. Count(B, DigCallsIn(c)) <= 1 /\ Count(R, DigRepliesIn(c)) <= 1
    BY <2>4, <2>7, <2>8
  <2>10. /\ Cardinality(Digging(c)) = Count(B, DigCallsIn(c))
         /\ Cardinality(Dug(c)) = Count(R, DigRepliesIn(c))
    BY <2>2, <2>3, <2>9, CountCard
  <2>11. Cardinality(Waiting(c)) + Cardinality(Digging(c)) + Cardinality(Dug(c))
             = Num(client.left[c] > 0)
    BY <2>4, <2>6, <2>7, <2>8, <2>10
  <2>12. \A i \in Waiting(c) : client.digQueue[i].depth = depthMap[c] + 1
    BY <2>1, <2>5 DEF InStep, q
  <2>13. ASSUME NEW call \in Digging(c)
         PROVE  client.calls[call] = 1 /\ call.depth = depthMap[c] + 1
    <3>1. call \in DOMAIN B /\ call \in DigCallsIn(c)
      BY <2>3
    <3>2. B[call] = 1
      BY <2>2, <2>9, <3>1, CountOne
    <3> QED  BY <2>1, <3>1, <3>2 DEF InStep, DigCallsIn, B
  <2>14. ASSUME NEW reply \in Dug(c)
         PROVE  replies[reply] = 1 /\ reply.call.depth = depthMap[c]
    <3>1. reply \in DOMAIN R /\ reply \in DigRepliesIn(c)
      BY <2>3
    <3>2. R[reply] = 1
      BY <2>2, <2>9, <3>1, CountOne
    <3> QED  BY <2>1, <3>1, <3>2 DEF InStep, DigRepliesIn, R
  <2>15. Cardinality(Waiting(c)) + Cardinality(Digging(c)) + Cardinality(Dug(c))
             = (IF client.left[c] > 0 THEN 1 ELSE 0)
    BY <2>11 DEF Num
  <2> QED  BY <2>12, <2>13, <2>14, <2>15
<1> QED  BY <1>1, Invariance, PTL

(***************************************************************************)
(* Without faults the client's count of the treasures left in a cell is    *)
(* the server's, but for the treasure in an answer not handled yet         *)
(* (app.cpp:268-272).                                                      *)
(***************************************************************************)
THEOREM CountsOfLeftAgree == Spec => []LeftAgrees
<1>1. ASSUME IInv PROVE LeftAgrees
  <2> DEFINE Found(c) == {reply \in Dug(c) : reply.status = 200}
  <2> SUFFICES ASSUME faults = 0, NEW c \in discovered
               PROVE  client.left[c] = counts[c] + Cardinality(Found(c))
    BY DEF LeftAgrees
  <2>1. c \in Cell
    BY <1>1 DEF IInv
  <2> DEFINE B == client.calls
             R == replies
  <2>2. /\ Places(client.digQueue, B, client.left, R, {})
        /\ Counted(client.left, R, {}, counts, discovered, faults)
    BY <1>1 DEF IInv, Tame
  <2>3. IsBagOf(B, AnyCall) /\ IsBagOf(R, AnyReply)
    BY <1>1, ClientType DEF IInv
  <2>4. Found(c) = DOMAIN R \cap FoundIn(c)
    BY <1>1, <2>1, DigSets DEF FoundIn
  <2> HIDE DEF B, R, Found
  <2>5. Count(B, DigCallsIn(c)) \in Nat /\ Count(R, DigRepliesIn(c)) \in Nat
    BY <2>3, CountType
  <2>6. Count(R, DigRepliesIn(c)) <= 1
    <3>1. UnderWay(B, R, c) + Num(c \in QCells(client.digQueue)) + Num(c \in {})
              = Num(client.left[c] > 0)
      BY <2>1, <2>2 DEF Places
    <3>2. /\ Num(c \in {}) \in Nat /\ Num(c \in QCells(client.digQueue)) \in Nat
          /\ Num(client.left[c] > 0) \in {0, 1}
      BY DEF Num
    <3> QED  BY <2>5, <3>1, <3>2 DEF UnderWay
  <2>7. Count(R, FoundIn(c)) <= 1 /\ Count(R, FoundIn(c)) \in Nat
    <3>1. FoundIn(c) \cap AnyReply \subseteq DigRepliesIn(c)
      BY DEF FoundIn
    <3>2. Count(R, FoundIn(c)) <= Count(R, DigRepliesIn(c))
      BY <2>3, <3>1, CountMonotone
    <3>3. Count(R, FoundIn(c)) \in Nat
      BY <2>3, CountType
    <3> QED  BY <2>5, <2>6, <3>2, <3>3
  <2>8. Cardinality(Found(c)) = Count(R, FoundIn(c))
    BY <2>3, <2>4, <2>7, CountCard
  <2>9. client.left[c] = counts[c] + Uncounted(R, {}, c)
    BY <2>1, <2>2 DEF Counted
  <2>10. Uncounted(R, {}, c) = Count(R, FoundIn(c))
    BY <2>7 DEF Uncounted, Num
  <2> QED  BY <2>8, <2>9, <2>10
<1> QED  BY <1>1, Invariance, PTL

(***************************************************************************)
(* The coins the client believes to have are coins the server takes, each  *)
(* of them once, whatever the network does (app.cpp:305, state.h:122-136); *)
(* without faults no coin of the server is forgotten.                      *)
(***************************************************************************)
THEOREM PurseAgrees == Spec => []CoinsAgree
<1>1. ASSUME IInv PROVE CoinsAgree
  <2> DEFINE purse == client.coins
             B == client.calls
             R == replies
  <2>1. Coined(purse, B, R, coins, nextCoin, faults)
    BY <1>1 DEF IInv, Tame
  <2>2. IsBagOf(B, AnyCall) /\ IsBagOf(R, AnyReply) /\ purse \in Seq(Nat)
    BY <1>1, ClientType DEF IInv
  <2>3. DOMAIN B \subseteq AnyCall /\ DOMAIN R \subseteq AnyReply
    BY <2>2 DEF IsBagOf
  <2>4. \A k : k \in Purse <=> InPurse(purse, k)
    BY DEF Purse, ToSet, InPurse
  <2>5. \A k : InPurse(purse, k) => k \in Nat
    BY <2>2, ElementOfSeq DEF InPurse
  <2>6. \A r \in DOMAIN R : r.call.type = "Cash" /\ r.status = 200 <=> r \in Payments
    <3>1. \A r \in AnyReply : r.call.type = "Cash" <=> r \in CashReplies
      BY CallTyped, ReplyTyped
    <3>2. \A r \in CashReplies : r.status = 200 <=> r \in Payments
      BY DEF CashReplies, Payments, CashRefusals, Failed
    <3>3. Payments \subseteq CashReplies
      BY DEF CashReplies
    <3> QED  BY <2>3, <3>1, <3>2, <3>3
  <2>7. \A k : k \in Earned <=> \E r \in DOMAIN R : r \in Brings(k)
    <3> TAKE k
    <3>1. k \in Earned <=> \E r \in DOMAIN R : r \in Payments /\ k \in ToSet(r.wallet)
      BY <2>6 DEF Earned, BagToSet
    <3>2. \A r : k \in ToSet(r.wallet) <=> \E i \in DOMAIN r.wallet : r.wallet[i] = k
      BY DEF ToSet
    <3> QED  BY <3>1, <3>2 DEF Brings
  <2>8. \A k : k \in Earned => k \in Nat
    <3> SUFFICES ASSUME NEW k \in Earned PROVE k \in Nat
      OBVIOUS
    <3>1. PICK r \in DOMAIN R : r \in Brings(k)
      BY <2>7
    <3>2. r \in Payments /\ \E i \in DOMAIN r.wallet : r.wallet[i] = k
      BY <3>1 DEF Brings
    <3>3. r.wallet \in Seq(Nat)
      BY <3>2 DEF Payments
    <3> QED  BY <3>2, <3>3, ElementOfSeq
  <2>9. \A k : k \in Paying <=> k \in Nat /\ PaidLicense(k) \in DOMAIN B
    <3> TAKE k
    <3>1. ASSUME k \in Paying PROVE k \in Nat /\ PaidLicense(k) \in DOMAIN B
      <4>1. PICK d \in DOMAIN B : d.type = "IssuePaidLicense" /\ d.coin = k
        BY <3>1 DEF Paying, Calls, BagToSet
      <4>2. d \in LicenseCalls
        BY <2>3, <4>1, CallTyped DEF LicenseTypes
      <4>3. PICK n \in Nat : d = PaidLicense(n)
        BY <4>1, <4>2, CallTyped
      <4>4. n = k
        BY <4>1, <4>3 DEF PaidLicense
      <4> QED  BY <4>3, <4>4
    <3>2. ASSUME k \in Nat, PaidLicense(k) \in DOMAIN B PROVE k \in Paying
      <4>1. PaidLicense(k).type = "IssuePaidLicense" /\ PaidLicense(k).coin = k
        BY DEF PaidLicense
      <4> QED  BY <3>2, <4>1 DEF Paying, Calls, BagToSet
    <3> QED  BY <3>1, <3>2
  <2> HIDE DEF purse, B, R
  <2>10. ASSUME NEW k \in Nat
         PROVE  /\ k \in Earned <=> Count(R, Brings(k)) > 0
                /\ k \in Paying <=> Count(B, {PaidLicense(k)}) > 0
                /\ k \in Purse <=> Num(InPurse(purse, k)) = 1
                /\ Num(InPurse(purse, k)) \in {0, 1}
                /\ Count(R, Brings(k)) \in Nat
                /\ Count(B, {PaidLicense(k)}) \in Nat
    <3>1. Count(R, Brings(k)) \in Nat /\ Count(B, {PaidLicense(k)}) \in Nat
      BY <2>2, CountType
    <3>2. k \in Earned <=> Count(R, Brings(k)) > 0
      <4>1. ASSUME k \in Earned PROVE Count(R, Brings(k)) > 0
        <5>1. PICK r \in DOMAIN R : r \in Brings(k)
          BY <2>7, <4>1
        <5>2. 1 <= R[r] /\ R[r] <= Count(R, Brings(k)) /\ R[r] \in Nat
          BY <2>2, <5>1, CountType DEF IsBagOf
        <5> QED  BY <3>1, <5>2
      <4>2. ASSUME Count(R, Brings(k)) > 0 PROVE k \in Earned
        BY <2>2, <2>7, <4>2, CountType
      <4> QED  BY <4>1, <4>2
    <3>3. k \in Paying <=> Count(B, {PaidLicense(k)}) > 0
      <4>1. ASSUME k \in Paying PROVE Count(B, {PaidLicense(k)}) > 0
        <5>1. PaidLicense(k) \in DOMAIN B /\ PaidLicense(k) \in {PaidLicense(k)}
          BY <2>9, <4>1
        <5> DEFINE p == PaidLicense(k)
        <5>2. 1 <= B[p] /\ B[p] <= Count(B, {p}) /\ B[p] \in Nat
          BY <2>2, <5>1, CountType DEF IsBagOf
        <5> QED  BY <3>1, <5>2
      <4>2. ASSUME Count(B, {PaidLicense(k)}) > 0 PROVE k \in Paying
        <5>1. \E x \in DOMAIN B : x \in {PaidLicense(k)}
          BY <2>2, <4>2, CountType
        <5> QED  BY <2>9, <5>1
      <4> QED  BY <4>1, <4>2
    <3> QED  BY <2>4, <3>1, <3>2, <3>3 DEF Num
  <2>11. ASSUME NEW k \in Nat
         PROVE  /\ ~(k \in Purse /\ k \in Earned)
                /\ k \in Purse \cup Earned => k \in coins
                /\ faults = 0 => /\ k \in Paying <=> k \in coins /\ k \notin Purse \cup Earned
                                 /\ ~(k \in Paying /\ k \in Purse \cup Earned)
    <3> DEFINE u == Num(InPurse(purse, k))
               v == Count(B, {PaidLicense(k)})
               w == Count(R, Brings(k))
    <3>1. /\ k \in Earned <=> w > 0
          /\ k \in Paying <=> v > 0
          /\ k \in Purse <=> u = 1
          /\ u \in {0, 1} /\ v \in Nat /\ w \in Nat
      BY <2>10
    <3>2. /\ u + v + w <= 1
          /\ k \in Purse => k \in coins
          /\ w > 0 => k \in coins
          /\ faults = 0 => (k \in coins <=> u + v + w = 1)
      BY <2>1, <2>4 DEF Coined, CoinUse
    <3> HIDE DEF u, v, w
    <3> QED  BY <3>1, <3>2
  <2>12. IsInjective(client.coins)
    BY <2>1 DEF Coined, IsInjective, purse
  <2>13. coins \in SUBSET Nat
    BY <1>1 DEF IInv, W!IInv, W!CoinInv
  <2>14. Purse \subseteq Nat /\ Earned \subseteq Nat /\ Paying \subseteq Nat
    BY <2>4, <2>5, <2>8, <2>9
  <2>15. Purse \cap Earned = {} /\ Purse \cup Earned \subseteq coins
    BY <2>11, <2>14
  <2>16. ASSUME faults = 0
         PROVE  /\ Paying = coins \ (Purse \cup Earned)
                /\ Paying \cap (Purse \cup Earned) = {}
    <3>1. \A k \in Paying : k \in coins /\ k \notin Purse \cup Earned
      BY <2>11, <2>14, <2>16
    <3>2. \A k \in coins : k \notin Purse \cup Earned => k \in Paying
      BY <2>11, <2>13, <2>16
    <3> QED  BY <3>1, <3>2
  <2> QED  BY <2>12, <2>15, <2>16 DEF CoinsAgree
<1> QED  BY <1>1, Invariance, PTL

(***************************************************************************)
(* The number of elements of a bag that satisfy a test.                    *)
(***************************************************************************)
LEMMA LicencesInBags ==
    ASSUME IInv
    PROVE  /\ InBag(client.calls, LAMBDA call : call.type \in LicenseTypes)
                  = Count(client.calls, LicenseCalls)
           /\ InBag(replies, LAMBDA reply : reply.call.type \in LicenseTypes)
                  = Count(replies, LicenseReplies)
<1>1. DOMAIN client.calls \subseteq AnyCall /\ DOMAIN replies \subseteq AnyReply
  BY ClientType DEF IInv, IsBagOf
<1>2. {call \in DOMAIN client.calls : call.type \in LicenseTypes}
          = DOMAIN client.calls \cap LicenseCalls
  BY <1>1, CallTyped
<1>3. {r \in DOMAIN replies : r.call.type \in LicenseTypes}
          = DOMAIN replies \cap LicenseReplies
  BY <1>1, CallTyped, ReplyTyped
<1> QED  BY <1>2, <1>3 DEF InBag, Count, Sum

(***************************************************************************)
(* Without faults the licences asked for, on their way or in use are never *)
(* more than there are slots, so that the server never refuses one         *)
(* (app.cpp:34-38, 247-254; world.py:321).                                 *)
(***************************************************************************)
LicensesWithinSlots ==
    LET Owes(l) == l.confirmed < l.allowed
    IN  faults = 0 =>
            Cardinality(SlotsWhere(client, Owes))
            + InBag(client.calls, LAMBDA call : call.type \in LicenseTypes)
            + InBag(replies, LAMBDA reply : reply.call.type \in LicenseTypes)
                <= Slots

THEOREM NeverTooManyLicenses == Spec => []LicensesWithinSlots
<1>1. ASSUME IInv PROVE LicensesWithinSlots
  <2> SUFFICES ASSUME faults = 0
               PROVE  Cardinality(Busy(client.licenses))
                      + Count(client.calls, LicenseCalls)
                      + Count(replies, LicenseReplies) <= Slots
    BY <1>1, LicencesInBags DEF LicensesWithinSlots, SlotsWhere, Busy
  <2>1. PICK Lost : Accounted(client.licenses, client.calls, replies, active, 0, Lost)
    BY <1>1 DEF IInv, Tame, Licensed
  <2>2. /\ Cardinality(Lost) \in Nat
        /\ Count(client.calls, LicenseCalls) + Count(replies, LicenseReplies)
              + Cardinality(Busy(client.licenses)) + Cardinality(Lost) + 0 = Slots
    BY <2>1, FS_CardinalityType DEF Accounted
  <2>3. /\ Count(client.calls, LicenseCalls) \in Nat /\ Count(replies, LicenseReplies) \in Nat
        /\ Cardinality(Busy(client.licenses)) \in Nat /\ Slots \in Nat
    BY <1>1, ClientType, CountType, BusyFinite, GoldRushAssumption DEF IInv
  <2> QED  BY <2>2, <2>3
<1> QED  BY <1>1, Invariance, PTL
=============================================================================
