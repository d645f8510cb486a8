---------------------------- MODULE GoldRushLife ----------------------------
(***************************************************************************)
(* The client implements the abstract life of a treasure (TreasureLife),   *)
(* for every field, number of licences and sequence of faults; and what    *)
(* follows of the treasures of the client from that life alone. And the    *)
(* life of its slots: each has a licence or one on its way, as long as the *)
(* numbers of the licences in use are distinct.                            *)
(***************************************************************************)
EXTENDS GoldRushProofs

-----------------------------------------------------------------------------
(***************************************************************************)
(* The client neither forgets nor doubles an exchange: a handler only      *)
(* replaces an answer by the call that follows from it, and the run goes   *)
(* on or is stopped.                                                       *)
(***************************************************************************)
SameCash(s, t) == /\ Agree(s.calls, t.calls, CashCalls)
                  /\ t.status \in {s.status, "stopped"}

LEMMA SameCashTrans ==
    ASSUME NEW s, NEW t, NEW u, SameCash(s, t), SameCash(t, u)
    PROVE  SameCash(s, u)
<1>1. \A T : T \subseteq CashCalls => Count(u.calls, T) = Count(s.calls, T)
  BY DEF SameCash, Agree
<1>2. DOMAIN s.calls \cap CashCalls = DOMAIN u.calls \cap CashCalls
  BY DEF SameCash, Agree
<1>3. u.status \in {s.status, "stopped"}
  BY DEF SameCash
<1> QED  BY <1>1, <1>2, <1>3 DEF SameCash, Agree

LEMMA IssueKeeps ==
    ASSUME NEW s \in Clients
    PROVE  SameCash(s, ScheduleIssueLicense(s))
<1> DEFINE t == ScheduleIssueLicense(s)
<1>1. t \in Clients /\ Requested(s, t)
  BY ScheduleIssueLicenseIs
<1> HIDE DEF t
<1>2. PICK call \in LicenseCalls : More(t.calls, s.calls, call)
  BY <1>1 DEF Requested
<1>3. call \notin CashCalls
  BY CallKinds
<1>4. IsBagOf(s.calls, AnyCall) /\ IsBagOf(t.calls, AnyCall)
  BY <1>1, ClientType
<1>5. t.status = s.status
  BY <1>1 DEF Requested
<1>6. Agree(s.calls, t.calls, CashCalls)
  BY <1>2, <1>3, <1>4, AgreeIs
<1> QED  BY <1>5, <1>6 DEF SameCash, t

LEMMA DigKeeps ==
    ASSUME NEW s \in Clients, NEW dig \in Digs
    PROVE  /\ ScheduleDig(s, dig) \in Clients /\ SameCash(s, ScheduleDig(s, dig))
           /\ ScheduleDig(s, dig).status = s.status
<1> DEFINE t == ScheduleDig(s, dig)
<1>1. t \in Clients /\ (Assigned(s, t, dig) \/ Delayed(s, t, dig))
  BY ScheduleDigIs
<1> HIDE DEF t
<1>2. IsBagOf(s.calls, AnyCall) /\ IsBagOf(t.calls, AnyCall)
  BY <1>1, ClientType
<1>3. ASSUME Delayed(s, t, dig) PROVE SameCash(s, t) /\ t.status = s.status
  BY <1>3, AgreeSame DEF Delayed, SameCash
<1>4. ASSUME Assigned(s, t, dig) PROVE SameCash(s, t) /\ t.status = s.status
  <2>1. PICK i \in 1..Slots : More(t.calls, s.calls, DigCall(s.licenses[i].id, dig))
    BY <1>4 DEF Assigned
  <2>2. DigCall(s.licenses[i].id, dig) \notin CashCalls
    BY DEF DigCall, CashCalls, CashCall
  <2>3. Agree(s.calls, t.calls, CashCalls)
    BY <1>2, <2>1, <2>2, AgreeIs
  <2> QED  BY <1>4, <2>3 DEF Assigned, SameCash
<1> QED  BY <1>1, <1>3, <1>4 DEF t

LEMMA QueueKeeps ==
    ASSUME NEW s \in Clients
    PROVE  SameCash(s, ScheduleQueuedDigs(s))
<1> DEFINE q == s.digQueue
           n == Len(q)
           first == [s EXCEPT !.digQueue = <<>>]
<1>1. /\ q \in Seq(Digs) /\ n \in Nat /\ DOMAIN q = 1..n
      /\ \A i \in 1..n : q[i] \in Digs
  BY ClientType, LenProperties, ElementOfSeq
<1>2. PICK run : /\ ScheduleQueuedDigs(s) = run[1..n]
                 /\ run[1..0] = first
                 /\ \A k \in 0..(n - 1) :
                       run[1..(k + 1)] = ScheduleDig(run[1..k], q[k + 1])
  BY <1>1, RunSteps
<1>3. first \in Clients /\ SameCash(s, first)
  <2>1. <<>> \in Seq(Digs)
    BY EmptySeq
  <2>2. first \in Clients /\ first.calls = s.calls /\ first.status = s.status
    BY <2>1 DEF Clients
  <2> QED  BY <2>2, AgreeSame DEF SameCash
<1> HIDE DEF first, n, q
<1> DEFINE Good(k) == run[1..k] \in Clients /\ SameCash(s, run[1..k])
           P == {k \in Nat : k <= n => Good(k)}
<1>4. 0 \in P
  BY <1>2, <1>3
<1>5. ASSUME NEW k \in Nat, k \in P PROVE k + 1 \in P
  <2> SUFFICES ASSUME k + 1 <= n PROVE Good(k + 1)
    OBVIOUS
  <2> DEFINE t == run[1..k]
             dig == q[k + 1]
  <2>1. k <= n /\ k \in 0..(n - 1) /\ k + 1 \in 1..n
    BY <1>1
  <2>2. t \in Clients /\ SameCash(s, t)
    BY <1>5, <2>1
  <2>3. run[1..(k + 1)] = ScheduleDig(t, dig)
    BY <1>2, <2>1
  <2>4. dig \in Digs
    BY <1>1, <2>1
  <2> HIDE DEF t, dig
  <2>5. ScheduleDig(t, dig) \in Clients /\ SameCash(t, ScheduleDig(t, dig))
    BY <2>2, <2>4, DigKeeps
  <2> QED  BY <2>2, <2>3, <2>5, SameCashTrans
<1>6. Nat \subseteq P
  <2> HIDE DEF P
  <2> QED  BY <1>4, <1>5, SetInduction
<1>7. Good(n)
  BY <1>1, <1>6
<1> QED  BY <1>2, <1>7

LEMMA ConfirmKeeps ==
    ASSUME NEW s \in Clients, NEW i \in 1..Slots
    PROVE  SameCash(s, Confirm(s, i))
<1> DEFINE t == [s EXCEPT !.licenses[i].confirmed = @ + 1]
           new == [s.licenses EXCEPT ![i].confirmed = @ + 1]
<1>1. t \in Clients /\ t.calls = s.calls /\ t.status = s.status
  <2>1. s.licenses \in Licenses
    BY ClientType
  <2>2. ConfirmsOne(s.licenses, new, i)
    BY DEF ConfirmsOne
  <2>3. t = [s EXCEPT !.licenses = new]
    BY DEF Clients
  <2> HIDE DEF new, t
  <2>4. new \in [1..Slots -> Slot]
    BY <2>1, <2>2, TakeSlot DEF Licenses
  <2>5. /\ [s EXCEPT !.licenses = new] \in Clients
        /\ [s EXCEPT !.licenses = new].calls = s.calls
        /\ [s EXCEPT !.licenses = new].status = s.status
    BY <2>4 DEF Clients
  <2> QED  BY <2>3, <2>5
<1>2. Confirm(s, i) = IF Done(t.licenses[i]) THEN ScheduleIssueLicense(t) ELSE t
  BY DEF Confirm
<1> HIDE DEF t
<1>3. SameCash(s, t)
  BY <1>1, AgreeSame DEF SameCash
<1>4. SameCash(t, ScheduleIssueLicense(t))
  BY <1>1, IssueKeeps
<1> QED  BY <1>2, <1>3, <1>4, SameCashTrans

(***************************************************************************)
(* How many exchanges of a treasure there are, with none about to be made. *)
(***************************************************************************)
Exchanges(calls, R, t) == Count(calls, CashCallsFor(t)) + Count(R, AgainFor(t))
                              + Count(R, FoundAt(t))

LEMMA ExchangesAre ==
    ASSUME NEW B, IsBagOf(B, AnyCall), NEW R, IsBagOf(R, AnyReply), NEW t
    PROVE  /\ Exchanges(B, R, t) = Exchange(B, R, {}, t)
           /\ Exchanges(B, R, t) \in Nat
           /\ Count(B, CashCallsFor(t)) \in Nat
           /\ Count(R, AgainFor(t)) \in Nat /\ Count(R, FoundAt(t)) \in Nat
<1>1. /\ Count(B, CashCallsFor(t)) \in Nat
      /\ Count(R, AgainFor(t)) \in Nat /\ Count(R, FoundAt(t)) \in Nat
  BY CountType
<1> QED  BY <1>1 DEF Exchanges, Exchange, Num

LEMMA FoundKeeps ==
    ASSUME NEW s \in Clients, NEW call \in DigCalls, call.depth \in 1..MaxDepth,
           s.left[call.cell] > 0
    PROVE  \/ /\ call.depth >= MinDepthToCash
              /\ TreasureFound(s, call).status \in {s.status, "stopped"}
              /\ \A T : T \subseteq CashCalls =>
                     Count(TreasureFound(s, call).calls, T) =
                         Count(s.calls, T)
                         + (IF CashCall(<<call.cell, call.depth>>, call.depth) \in T
                            THEN 1 ELSE 0)
           \/ /\ ~(call.depth >= MinDepthToCash)
              /\ SameCash(s, TreasureFound(s, call))
<1> DEFINE c == call.cell
           tr == <<c, call.depth>>
           cash == CashCall(tr, call.depth)
           u == IF call.depth >= MinDepthToCash THEN Send(s, cash) ELSE s
           left == [s.left EXCEPT ![c] = @ - 1]
           t == [u EXCEPT !.left[c] = @ - 1]
           next == [cell |-> c, depth |-> call.depth + 1]
<1>1. next \in Digs /\ c \in Cell /\ tr \in TreasureId /\ tr[1] = c /\ tr[2] = call.depth
  BY NextDig
<1>2. s.left \in [Cell -> 0..MaxDepth]
  BY ClientType
<1>3. left \in [Cell -> 0..MaxDepth] /\ left[c] \in Nat
  <2>1. MaxDepth \in Nat
    BY GoldRushAssumption DEF Server!WorldAssumption
  <2>2. s.left[c] \in 0..MaxDepth /\ s.left[c] - 1 \in 0..MaxDepth
    BY <1>1, <1>2, <2>1
  <2> QED  BY <1>1, <1>2, <2>1, <2>2
<1>4. TreasureFound(s, call) =
          IF t.left[c] < 0 THEN Stop(t)
          ELSE IF t.left[c] = 0 THEN t ELSE ScheduleDig(t, next)
  BY DEF TreasureFound
<1>5. /\ u \in Clients /\ u.left = s.left /\ u.status = s.status
      /\ \/ /\ call.depth >= MinDepthToCash
            /\ More(u.calls, s.calls, cash)
         \/ /\ ~(call.depth >= MinDepthToCash)
            /\ u.calls = s.calls
  <2>1. CASE call.depth >= MinDepthToCash
    <3>1. cash \in AnyCall
      BY <1>1, <2>1 DEF AnyCall, CashCalls
    <3> HIDE DEF cash
    <3>2. /\ Send(s, cash) \in Clients
          /\ More(Send(s, cash).calls, s.calls, cash)
          /\ Send(s, cash) = [s EXCEPT !.calls = Send(s, cash).calls]
      BY <3>1, SendIs
    <3>3. Send(s, cash).left = s.left /\ Send(s, cash).status = s.status
      BY <3>2 DEF Clients
    <3>4. u = Send(s, cash)
      BY <2>1
    <3> HIDE DEF u
    <3> QED  BY <2>1, <3>2, <3>3, <3>4
  <2>2. CASE ~(call.depth >= MinDepthToCash)
    BY <2>2
  <2> QED  BY <2>1, <2>2
<1> HIDE DEF u, cash, next
<1>6. t = [u EXCEPT !.left = left]
  BY <1>5 DEF Clients
<1> HIDE DEF left
<1>7. t \in Clients /\ t.calls = u.calls /\ t.left = left /\ t.status = s.status
  <2> HIDE DEF t
  <2>1. /\ [u EXCEPT !.left = left] \in Clients
        /\ [u EXCEPT !.left = left].calls = u.calls
        /\ [u EXCEPT !.left = left].left = left
        /\ [u EXCEPT !.left = left].status = u.status
    BY <1>3, <1>5 DEF Clients
  <2> QED  BY <1>5, <1>6, <2>1
<1> HIDE DEF t
<1>8. SameCash(t, TreasureFound(s, call))
  <2>1. CASE left[c] = 0
    <3>1. TreasureFound(s, call) = t
      BY <1>4, <1>7, <2>1
    <3> QED  BY <3>1, AgreeSame DEF SameCash
  <2>2. CASE left[c] # 0
    <3>1. TreasureFound(s, call) = ScheduleDig(t, next)
      BY <1>3, <1>4, <1>7, <2>2
    <3> QED  BY <1>1, <1>7, <3>1, DigKeeps
  <2> QED  BY <2>1, <2>2
<1> DEFINE v == TreasureFound(s, call)
<1> HIDE DEF v
<1>9. \A T : T \subseteq CashCalls => Count(v.calls, T) = Count(t.calls, T)
  BY <1>8 DEF SameCash, Agree, v
<1>10. CASE call.depth >= MinDepthToCash
  <2>1. More(t.calls, s.calls, cash)
    BY <1>5, <1>7, <1>10
  <2>2. \A T : T \subseteq CashCalls =>
            Count(v.calls, T) = Count(s.calls, T) + (IF cash \in T THEN 1 ELSE 0)
    BY <1>9, <2>1 DEF More
  <2>3. v.status \in {s.status, "stopped"}
    BY <1>7, <1>8 DEF SameCash, v
  <2> QED  BY <1>10, <2>2, <2>3 DEF cash, v
<1>11. CASE ~(call.depth >= MinDepthToCash)
  <2>1. t.calls = s.calls
    BY <1>5, <1>7, <1>11
  <2>2. SameCash(s, t)
    BY <1>7, <2>1, AgreeSame DEF SameCash
  <2> QED  BY <1>8, <1>11, <2>2, SameCashTrans
<1> QED  BY <1>10, <1>11

Carries(s, R, u, Q, t) == /\ t \in TreasureId /\ t[2] >= MinDepthToCash =>
                                 Exchanges(u.calls, Q, t) = Exchanges(s.calls, R, t)
                          /\ u.status \in {s.status, "stopped"}

LEMMA NoExchange ==
    ASSUME NEW s, NEW u, SameCash(s, u),
           NEW R, IsBagOf(R, AnyReply), NEW Q, IsBagOf(Q, AnyReply), NEW r, More(R, Q, r),
           NEW t, r \notin AgainFor(t), r \notin FoundAt(t)
    PROVE  Carries(s, R, u, Q, t)
<1>1. Count(u.calls, CashCallsFor(t)) = Count(s.calls, CashCallsFor(t))
  BY Parts DEF SameCash, Agree
<1>2. /\ Count(R, AgainFor(t)) = Count(Q, AgainFor(t)) + 0
      /\ Count(R, FoundAt(t)) = Count(Q, FoundAt(t)) + 0
      /\ Count(Q, AgainFor(t)) \in Nat /\ Count(Q, FoundAt(t)) \in Nat
  BY CountType DEF More
<1>3. Exchanges(u.calls, Q, t) = Exchanges(s.calls, R, t)
  BY <1>1, <1>2 DEF Exchanges
<1> QED  BY <1>3 DEF Carries, SameCash

LEMMA StopKeeps ==
    ASSUME NEW s \in Clients
    PROVE  SameCash(s, Stop(s))
<1>1. Stop(s).calls = s.calls /\ Stop(s).status = "stopped"
  BY DEF Stop, Clients
<1> QED  BY <1>1, AgreeSame DEF SameCash

LEMMA ProcessLicenseKeeps ==
    ASSUME NEW s \in Clients, NEW r \in LicenseReplies, r.status # Failed
    PROVE  SameCash(s, ProcessLicense(s, r))
<1>1. CASE r \in Grants
  <2>1. r.status = 200
    BY <1>1 DEF Grants
  <2> DEFINE u == AddLicense(s, r.license)
             S == {j \in 1..Slots : Done(s.licenses[j])}
             i == Min(S)
  <2>2. ProcessLicense(s, r) = ScheduleQueuedDigs(u)
    BY <2>1 DEF ProcessLicense
  <2>3. u = IF S = {} THEN s ELSE [s EXCEPT !.licenses[i] = Granted(r)]
    BY DEF AddLicense, SlotsWhere, FirstSlot, Granted
  <2>4. u \in Clients /\ u.calls = s.calls /\ u.status = s.status
    <3>1. CASE S = {}
      BY <2>3, <3>1
    <3>2. CASE S # {}
      <4> DEFINE lic == [s.licenses EXCEPT ![i] = Granted(r)]
      <4>1. s.licenses \in [1..Slots -> Slot]
        BY DEF Clients
      <4>2. Granted(r) \in Slot
        <5>1. r.license.id \in Nat /\ r.license.allowed \in Nat
          BY <1>1, GrantType
        <5> QED  BY <5>1 DEF Granted, Slot
      <4> HIDE DEF i
      <4>3. lic \in [1..Slots -> Slot]
        BY <4>1, <4>2
      <4>4. u = [s EXCEPT !.licenses = lic]
        BY <2>3, <3>2 DEF Clients
      <4> HIDE DEF lic, u
      <4>5. /\ [s EXCEPT !.licenses = lic] \in Clients
            /\ [s EXCEPT !.licenses = lic].calls = s.calls
            /\ [s EXCEPT !.licenses = lic].status = s.status
        BY <4>3 DEF Clients
      <4> QED  BY <4>4, <4>5
    <3> QED  BY <3>1, <3>2
  <2> HIDE DEF u
  <2>5. SameCash(s, u)
    BY <2>4, AgreeSame DEF SameCash
  <2> QED  BY <2>2, <2>4, <2>5, QueueKeeps, SameCashTrans
<1>2. CASE r \in Refusals
  <2>1. r.status \in {402, 409, 429, 502}
    BY <1>2 DEF Refusals
  <2>2. CASE r.status = 502
    <3>1. ProcessLicense(s, r) = ScheduleIssueLicense(s)
      BY <2>2 DEF ProcessLicense
    <3> QED  BY <3>1, IssueKeeps
  <2>3. CASE r.status # 502
    <3>1. r.status \in 400..499
      BY <2>1, <2>3
    <3>2. ProcessLicense(s, r) = Stop(s)
      BY <3>1 DEF ProcessLicense
    <3> QED  BY <3>2, StopKeeps
  <2> QED  BY <2>2, <2>3
<1> QED  BY <1>1, <1>2 DEF LicenseReplies

LEMMA ProcessCashKeeps ==
    ASSUME NEW s \in Clients,
           NEW R, IsBagOf(R, AnyReply), NEW Q, IsBagOf(Q, AnyReply),
           NEW r \in CashReplies, r.status # Failed, More(R, Q, r), NEW t
    PROVE  Carries(s, R, ProcessCash(s, r), Q, t)
<1>1. r \notin FoundAt(t)
  BY ReplyKinds, Parts
<1>2. CASE r \in Payments
  <2>1. r.status = 200
    BY <1>2 DEF Payments
  <2>2. ProcessCash(s, r).calls = s.calls /\ ProcessCash(s, r).status = s.status
    BY <2>1 DEF ProcessCash, Clients
  <2>3. r \notin AgainFor(t)
    BY <2>1 DEF AgainFor
  <2>4. SameCash(s, ProcessCash(s, r))
    BY <2>2, AgreeSame DEF SameCash
  <2> QED  BY <1>1, <2>3, <2>4, NoExchange
<1>3. CASE r \in CashRefusals /\ r.status # 503
  <2>1. r.status \in {409, 429}
    BY <1>3 DEF CashRefusals
  <2>2. ProcessCash(s, r) = Stop(s)
    <3>1. CASE r.status = 409
      BY <3>1 DEF ProcessCash
    <3>2. CASE r.status = 429
      BY <3>2 DEF ProcessCash
    <3> QED  BY <2>1, <3>1, <3>2
  <2>3. r \notin AgainFor(t)
    BY <1>3 DEF AgainFor
  <2>4. SameCash(s, ProcessCash(s, r))
    BY <2>2, StopKeeps
  <2> QED  BY <1>1, <2>3, <2>4, NoExchange
<1>4. CASE r \in CashRefusals /\ r.status = 503
  <2> DEFINE call == r.call
             u == ProcessCash(s, r)
  <2>1. u = Send(s, call)
    BY <1>4 DEF ProcessCash
  <2>2. call \in CashCalls /\ call \in AnyCall
    BY <1>4 DEF CashRefusals, AnyCall
  <2> HIDE DEF call, u
  <2>3. More(u.calls, s.calls, call)
    BY <2>1, <2>2, SendIs
  <2>11. u.status = s.status
    <3>1. Send(s, call) = [s EXCEPT !.calls = Send(s, call).calls]
      BY <2>2, SendIs
    <3> QED  BY <2>1, <3>1 DEF Clients
  <2>4. r \in AgainFor(t) <=> call.treasure = t
    BY <1>4 DEF AgainFor, call
  <2>5. call \in CashCallsFor(t) <=> call.treasure = t
    BY <2>2 DEF CashCallsFor
  <2>6. IsBagOf(s.calls, AnyCall)
    BY ClientType
  <2>7. /\ Count(s.calls, CashCallsFor(t)) \in Nat /\ Count(Q, AgainFor(t)) \in Nat
        /\ Count(Q, FoundAt(t)) \in Nat
    BY <2>6, CountType
  <2>8. Count(R, FoundAt(t)) = Count(Q, FoundAt(t)) + 0
    BY <1>1 DEF More
  <2>9. CASE call.treasure = t
    <3>1. Count(R, AgainFor(t)) = Count(Q, AgainFor(t)) + 1
      BY <2>4, <2>9 DEF More
    <3>2. Count(u.calls, CashCallsFor(t)) = Count(s.calls, CashCallsFor(t)) + 1
      BY <2>3, <2>5, <2>9 DEF More
    <3> QED  BY <2>7, <2>8, <2>11, <3>1, <3>2 DEF Carries, Exchanges, u
  <2>10. CASE call.treasure # t
    <3>1. Count(R, AgainFor(t)) = Count(Q, AgainFor(t)) + 0
      BY <2>4, <2>10 DEF More
    <3>2. Count(u.calls, CashCallsFor(t)) = Count(s.calls, CashCallsFor(t)) + 0
      BY <2>3, <2>5, <2>10 DEF More
    <3> QED  BY <2>7, <2>8, <2>11, <3>1, <3>2 DEF Carries, Exchanges, u
  <2> QED  BY <2>9, <2>10
<1> QED  BY <1>2, <1>3, <1>4 DEF CashReplies

LEMMA ProcessDigKeeps ==
    ASSUME NEW s \in Clients, s.status = "running",
           NEW R, IsBagOf(R, AnyReply), NEW Q, IsBagOf(Q, AnyReply),
           NEW r \in DigReplies, More(R, Q, r),
           NEW D, W!IInv, Tame(s, R, {}, {}, 0, D), NEW t
    PROVE  Carries(s, R, ProcessDig(s, r), Q, t)
<1> DEFINE call == r.call
           c == call.cell
           S == {j \in 1..Slots : s.licenses[j].id = call.license}
           i == Min(S)
           u == Confirm(s, i)
           next == [cell |-> c, depth |-> call.depth + 1]
<1>1. /\ call \in DigCalls /\ c \in Cell /\ call.depth \in Nat
      /\ r.status \in {200, 404} => call.depth \in 1..MaxDepth
      /\ r \in FoundAt(t) => r.status = 200
      /\ t \in TreasureId => (r \in FoundAt(t) <=> t \in HasDug(r))
  BY ReplyType DEF FoundAt, FoundIn
<1>2. r \in DOMAIN R /\ r \notin AgainFor(t)
  BY BagSmaller, ReplyKinds, Parts
<1>3. ProcessDig(s, r) =
          IF r.status \notin {200, 404} THEN Stop(s)
          ELSE IF S = {} THEN Terminate(s)
          ELSE IF r.status = 200 THEN TreasureFound(u, call) ELSE ScheduleDig(u, next)
  BY DEF ProcessDig, SlotsWhere, FirstSlot
<1> HIDE DEF S
<1>4. CASE r.status \notin {200, 404}
  <2>1. r \notin FoundAt(t)
    BY <1>1, <1>4
  <2>2. SameCash(s, ProcessDig(s, r))
    BY <1>3, <1>4, StopKeeps
  <2> QED  BY <1>2, <2>1, <2>2, NoExchange
<1>5. CASE r.status \in {200, 404}
  <2>1. i \in 1..Slots /\ s.licenses[i].id = call.license /\ S # {}
    BY <1>2, DigLicense DEF S
  <2> HIDE DEF i
  <2>2. u \in Clients /\ u.left = s.left
    BY <2>1, ConfirmTame
  <2>3. SameCash(s, u)
    BY <2>1, ConfirmKeeps
  <2>6. u.status \in {s.status, "stopped"}
    BY <2>3 DEF SameCash
  <2> HIDE DEF u
  <2>4. CASE r.status = 404
    <3>1. ProcessDig(s, r) = ScheduleDig(u, next)
      BY <1>3, <2>1, <2>4
    <3>2. r \notin FoundAt(t)
      BY <1>1, <2>4
    <3>3. next \in Digs
      BY <1>1, <2>4, NextDig
    <3> HIDE DEF next
    <3>4. SameCash(s, ProcessDig(s, r))
      BY <2>2, <2>3, <3>1, <3>3, DigKeeps, SameCashTrans
    <3> QED  BY <1>2, <3>2, <3>4, NoExchange
  <2>5. CASE r.status = 200
    <3> DEFINE v == TreasureFound(u, call)
               tr == <<c, call.depth>>
               cash == CashCall(tr, call.depth)
    <3>1. ProcessDig(s, r) = v
      BY <1>3, <2>1, <2>5
    <3>2. t \in TreasureId => (r \in FoundAt(t) <=> t = tr)
      BY <1>1, <2>5 DEF HasDug
    <3>3. u.left[c] > 0
      <4>1. IsBagOf(s.calls, AnyCall)
        BY ClientType
      <4>2. s.left[c] > 0
        BY <4>1, TakePlaces DEF Tame
      <4> QED  BY <2>2, <4>2
    <3>4. call.depth \in 1..MaxDepth
      BY <1>1, <1>5
    <3>5. \/ /\ call.depth >= MinDepthToCash
             /\ v.status \in {u.status, "stopped"}
             /\ \A T : T \subseteq CashCalls =>
                    Count(v.calls, T) = Count(u.calls, T) + (IF cash \in T THEN 1 ELSE 0)
          \/ /\ ~(call.depth >= MinDepthToCash)
             /\ SameCash(u, v)
      <4> HIDE DEF call
      <4> QED  BY <1>1, <2>2, <3>3, <3>4, FoundKeeps
    <3> HIDE DEF v
    <3>10. v.status \in {s.status, "stopped"}
      BY <2>6, <3>5 DEF SameCash
    <3>6. /\ IsBagOf(s.calls, AnyCall)
          /\ Count(s.calls, CashCallsFor(t)) \in Nat /\ Count(Q, AgainFor(t)) \in Nat
          /\ Count(Q, FoundAt(t)) \in Nat
      BY ClientType, CountType
    <3>7. Count(R, AgainFor(t)) = Count(Q, AgainFor(t)) + 0
      BY <1>2 DEF More
    <3>11. SUFFICES ASSUME t \in TreasureId, t[2] >= MinDepthToCash
                    PROVE  Exchanges(v.calls, Q, t) = Exchanges(s.calls, R, t)
      BY <3>1, <3>10 DEF Carries
    <3>8. CASE t = tr
      <4>1. call.depth >= MinDepthToCash
        BY <3>8, <3>11
      <4>2. cash \in CashCallsFor(t) /\ CashCallsFor(t) \subseteq CashCalls
        <5>1. tr \in TreasureId /\ tr[2] = call.depth /\ tr[2] >= MinDepthToCash
          BY <3>8, <3>11, <4>1
        <5>2. cash \in CashCalls /\ cash.treasure = tr
          BY <5>1 DEF CashCalls, CashCall
        <5> QED  BY <3>8, <5>2, Parts DEF CashCallsFor
      <4>3. Count(v.calls, CashCallsFor(t)) = Count(u.calls, CashCallsFor(t)) + 1
        <5> HIDE DEF cash
        <5> QED  BY <3>5, <4>1, <4>2
      <4>4. Count(u.calls, CashCallsFor(t)) = Count(s.calls, CashCallsFor(t))
        BY <2>3, <4>2 DEF SameCash, Agree
      <4>5. Count(R, FoundAt(t)) = Count(Q, FoundAt(t)) + 1
        BY <3>2, <3>8, <3>11 DEF More
      <4> QED  BY <3>6, <3>7, <4>3, <4>4, <4>5 DEF Exchanges
    <3>9. CASE t # tr
      <4>1. cash \notin CashCallsFor(t)
        BY <3>9 DEF CashCallsFor, CashCall
      <4>2. Count(v.calls, CashCallsFor(t)) = Count(u.calls, CashCallsFor(t)) + 0
        <5>1. CASE call.depth >= MinDepthToCash
          <6> HIDE DEF cash
          <6> QED  BY <3>5, <4>1, <5>1, Parts
        <5>2. CASE ~(call.depth >= MinDepthToCash)
          <6>1. Count(v.calls, CashCallsFor(t)) = Count(u.calls, CashCallsFor(t))
            BY <3>5, <5>2, Parts DEF SameCash, Agree
          <6>2. Count(u.calls, CashCallsFor(t)) \in Nat
            BY <2>2, ClientType, CountType
          <6> QED  BY <6>1, <6>2
        <5> QED  BY <5>1, <5>2
      <4>3. Count(u.calls, CashCallsFor(t)) = Count(s.calls, CashCallsFor(t))
        BY <2>3, Parts DEF SameCash, Agree
      <4>4. Count(R, FoundAt(t)) = Count(Q, FoundAt(t)) + 0
        BY <3>2, <3>9, <3>11 DEF More
      <4> QED  BY <3>6, <3>7, <4>2, <4>3, <4>4 DEF Exchanges
    <3> QED  BY <3>8, <3>9
  <2> QED  BY <1>5, <2>4, <2>5
<1> QED  BY <1>4, <1>5

LEMMA HandleKeeps ==
    ASSUME IInv, NEW reply, Handle(reply), NEW t
    PROVE  Carries(client, replies, client', replies', t)
<1>1. reply \in DOMAIN replies
  BY DEF Handle, BagIn, BagToSet
<1> DEFINE Q == replies (-) SetToBag({reply})
<1>2. IsBagOf(replies, AnyReply) /\ reply \in AnyReply
  BY <1>1 DEF IInv, IsBagOf
<1>3. IsBagOf(Q, AnyReply) /\ More(replies, Q, reply)
  BY <1>1, <1>2, RemoveIsLess
<1> HIDE DEF Q
<1>4. replies' = Q /\ client' = Process(client, reply) /\ client.status = "running"
  BY DEF Handle, Q
<1>5. W!IInv /\ client \in Clients /\ Tame(client, replies, {}, {}, 0, discovered)
  BY DEF IInv
<1>6. Carries(client, replies, Process(client, reply), Q, t)
  <2>0. CASE reply.status = Failed
    <3>1. Process(client, reply) = Stop(client)
      BY <2>0 DEF Process
    <3>2. reply \notin AgainFor(t) /\ reply \notin FoundAt(t)
      BY <2>0 DEF AgainFor, FoundAt, FoundIn, Failed
    <3> QED  BY <1>2, <1>3, <1>5, <3>1, <3>2, StopKeeps, NoExchange
  <2>1. CASE reply \in LicenseReplies /\ reply.status # Failed
    <3>1. reply.call.type \in LicenseTypes
      BY <2>1 DEF LicenseReplies, Grants, Refusals, LicenseCalls, LicenseTypes
    <3>2. reply.call.type # "Dig" /\ reply.call.type # "Cash"
      BY <3>1 DEF LicenseTypes
    <3>3. Process(client, reply) = ProcessLicense(client, reply)
      BY <2>1, <3>1, <3>2 DEF Process
    <3>4. reply \notin AgainFor(t) /\ reply \notin FoundAt(t)
      BY <2>1, ReplyKinds, Parts
    <3> QED  BY <1>2, <1>3, <1>5, <2>1, <3>3, <3>4, ProcessLicenseKeeps, NoExchange
  <2>2. CASE reply \in DigReplies /\ reply.status # Failed
    <3>1. reply.call.type = "Dig"
      BY <2>2 DEF DigReplies, DigCalls
    <3>2. reply.call.type \notin LicenseTypes /\ reply.call.type # "Cash"
      BY <3>1 DEF LicenseTypes
    <3>3. Process(client, reply) = ProcessDig(client, reply)
      BY <2>2, <3>1, <3>2 DEF Process
    <3> QED  BY <1>2, <1>3, <1>4, <1>5, <2>2, <3>3, ProcessDigKeeps
  <2>3. CASE reply \in CashReplies /\ reply.status # Failed
    <3>1. reply.call.type = "Cash"
      BY <2>3 DEF CashReplies, Payments, CashRefusals, CashCalls, CashCall
    <3>2. reply.call.type \notin LicenseTypes /\ reply.call.type # "Dig"
      BY <3>1 DEF LicenseTypes
    <3>3. Process(client, reply) = ProcessCash(client, reply)
      BY <2>3, <3>1, <3>2 DEF Process
    <3> QED  BY <1>2, <1>3, <1>5, <2>3, <3>3, ProcessCashKeeps
  <2> QED  BY <1>2, <2>0, <2>1, <2>2, <2>3 DEF AnyReply
<1> QED  BY <1>4, <1>6

-----------------------------------------------------------------------------
(***************************************************************************)
(* The stage of a treasure, from how many exchanges of it there are.       *)
(***************************************************************************)
StageFrom(t, ground, reg, n) ==
    IF ground[t[1]][t[2]] > 0 THEN "buried"
    ELSE IF t \notin DOMAIN reg THEN "gone"
    ELSE IF t[2] < MinDepthToCash THEN "left"
    ELSE IF n = 0 THEN "lost"
    ELSE IF n = 1 THEN "cashing" ELSE "cashed twice"

\* the exchanges that will still be made: a run that has stopped looks at no
\* more answers, and one that has ended makes no more calls
Live(s, R, t) == IF s.status = "running" THEN Exchanges(s.calls, R, t)
                 ELSE IF s.status = "stopped" THEN Count(s.calls, CashCallsFor(t))
                 ELSE 0

Now(t) == Live(client, replies, t)
After(t) == Live(client', replies', t)

Stages == [t \in Server!TreasureId |-> StageOf(t)]
Staged == \A t \in TreasureId :
              Stages[t] = StageFrom(t, treasure, registry, Now(t))

LEMMA StagesAre == IInv => Staged
<1> SUFFICES ASSUME IInv, NEW t \in TreasureId
             PROVE  Stages[t] = StageFrom(t, treasure, registry, Now(t))
  BY DEF Staged
<1> DEFINE again(r) == /\ r.call.type = "Cash" /\ r.call.treasure = t /\ r.status = 503
           found(r) == /\ r.call.type = "Dig" /\ <<r.call.cell, r.call.depth>> = t
                       /\ r.status = 200
<1>1. /\ IsBagOf(client.calls, AnyCall) /\ IsBagOf(replies, AnyReply)
      /\ DOMAIN client.calls \subseteq AnyCall /\ DOMAIN replies \subseteq AnyReply
  BY ClientType DEF IInv, IsBagOf
<1>2. {call \in DOMAIN client.calls : call.type = "Cash" /\ call.treasure = t}
          = DOMAIN client.calls \cap CashCallsFor(t)
  <2>1. \A call \in AnyCall : call.type = "Cash" <=> call \in CashCalls
    BY DEF AnyCall, LicenseCalls, DigCalls, CashCalls, CashCall
  <2> QED  BY <1>1, <2>1 DEF CashCallsFor
<1>3. \A r \in AnyReply : again(r) <=> r \in AgainFor(t)
  <2> TAKE r \in AnyReply
  <2>1. r \in CashRefusals => r \in CashReplies /\ r.call.type = "Cash"
    BY DEF CashRefusals, CashReplies, CashCalls, CashCall
  <2>2. r.call.type = "Cash" => r \in CashReplies
    BY DEF AnyReply, LicenseReplies, Grants, Refusals, LicenseCalls, DigReplies, DigCalls
  <2>3. r \in Payments => r.status # 503
    BY DEF Payments
  <2> QED  BY <2>1, <2>2, <2>3 DEF AgainFor, CashReplies
<1>4. \A r \in AnyReply : found(r) <=> r \in FoundAt(t)
  <2> TAKE r \in AnyReply
  <2>1. r \in DigReplies <=> r.call.type = "Dig"
    BY DEF AnyReply, LicenseReplies, Grants, Refusals, LicenseCalls, DigReplies, DigCalls,
           CashReplies, Payments, CashRefusals, CashCalls, CashCall
  <2>2. r \in DigReplies => (r \in FoundAt(t) <=> t \in HasDug(r))
    BY ReplyType
  <2>3. r \in FoundAt(t) => r \in DigReplies
    BY Parts
  <2> QED  BY <2>1, <2>2, <2>3 DEF HasDug
<1>5. {r \in DOMAIN replies : again(r) \/ found(r)}
          = DOMAIN replies \cap (AgainFor(t) \cup FoundAt(t))
  <2> HIDE DEF again, found
  <2> QED  BY <1>1, <1>3, <1>4
<1>6. AgainFor(t) \cap FoundAt(t) = {}
  BY ReplyKinds, Parts
<1>7. Count(replies, AgainFor(t) \cup FoundAt(t))
          = Count(replies, AgainFor(t)) + Count(replies, FoundAt(t))
  BY <1>1, <1>6, CountUnion
<1>8. /\ Exchanging(t) = Count(client.calls, CashCallsFor(t))
      /\ Returning(t) = Count(replies, AgainFor(t) \cup FoundAt(t))
  <2> DEFINE A == {call \in DOMAIN client.calls : call.type = "Cash" /\ call.treasure = t}
             B == {r \in DOMAIN replies : again(r) \/ found(r)}
  <2>1. /\ Exchanging(t) = SumFunctionOnSet(client.calls, A)
        /\ Returning(t) = SumFunctionOnSet(replies, B)
    BY DEF Exchanging, Returning, InBag
  <2> HIDE DEF A, B
  <2> QED  BY <1>2, <1>5, <2>1 DEF A, B, Count, Sum
<1>9. Cashing(t) = Now(t)
  <2>1. Exchanging(t) + Returning(t) = Exchanges(client.calls, replies, t)
    BY <1>1, <1>7, <1>8, CountType DEF Exchanges
  <2>2. Cashing(t) = IF client.status = "running" THEN Exchanging(t) + Returning(t)
                     ELSE IF client.status = "stopped" THEN Exchanging(t) ELSE 0
    <3>1. CASE client.status = "running"
      BY <3>1 DEF Cashing
    <3>2. CASE client.status = "stopped"
      BY <3>2 DEF Cashing
    <3>3. CASE client.status # "running" /\ client.status # "stopped"
      BY <3>3 DEF Cashing
    <3> QED  BY <3>1, <3>2, <3>3
  <2> QED  BY <1>8, <2>1, <2>2 DEF Now, Live
<1>10. Stages[t] = StageOf(t)
  BY DEF Stages, TreasureId
<1>12. StageOf(t) = StageFrom(t, treasure, registry, Cashing(t))
  <2> DEFINE n == Cashing(t)
             end == CASE n = 0 -> "lost" [] n = 1 -> "cashing" [] OTHER -> "cashed twice"
  <2>1. end = IF n = 0 THEN "lost" ELSE IF n = 1 THEN "cashing" ELSE "cashed twice"
    <3> HIDE DEF n
    <3>1. CASE n = 0
      BY <3>1
    <3>2. CASE n = 1
      BY <3>2
    <3>3. CASE n # 0 /\ n # 1
      BY <3>3
    <3> QED  BY <3>1, <3>2, <3>3
  <2>2. StageOf(t) = IF treasure[t[1]][t[2]] > 0 THEN "buried"
                     ELSE IF t \notin DOMAIN registry THEN "gone"
                     ELSE IF t[2] < MinDepthToCash THEN "left" ELSE end
    BY DEF StageOf
  <2> HIDE DEF end
  <2> QED  BY <2>1, <2>2 DEF StageFrom
<1> QED  BY <1>9, <1>10, <1>12

(***************************************************************************)
(* The steps of the abstract specification.                                *)
(***************************************************************************)
Passes(t, from, to) == /\ Stages[t] = from /\ Stages'[t] = to
                       /\ \A u \in TreasureId \ {t} : Stages'[u] = Stages[u]

LEMMA StagesSame ==
    ASSUME \A t \in TreasureId : Stages'[t] = Stages[t]
    PROVE  Stages' = Stages
BY DEF Stages, TreasureId

LEMMA LifeMove ==
    ASSUME NEW t \in TreasureId, NEW from, NEW to, Passes(t, from, to)
    PROVE  Life!Move(t, from, to)
<1>1. Stages' = [Stages EXCEPT ![t] = to]
  BY DEF Passes, Stages, TreasureId
<1> QED  BY <1>1 DEF Life!Move, Stages, Passes

-----------------------------------------------------------------------------
(***************************************************************************)
(* How a step of the client or of the server changes the stages.           *)
(***************************************************************************)
LEMMA LiveIs ==
    ASSUME NEW s \in Clients, NEW R, IsBagOf(R, AnyReply), NEW t
    PROVE  /\ Live(s, R, t) \in Nat /\ Exchanges(s.calls, R, t) \in Nat
           /\ Live(s, R, t) <= Exchanges(s.calls, R, t)
<1>1. IsBagOf(s.calls, AnyCall)
  BY ClientType
<1>2. /\ Exchanges(s.calls, R, t) \in Nat /\ Count(s.calls, CashCallsFor(t)) \in Nat
      /\ Count(R, AgainFor(t)) \in Nat /\ Count(R, FoundAt(t)) \in Nat
  BY <1>1, ExchangesAre
<1>3. Exchanges(s.calls, R, t) = Count(s.calls, CashCallsFor(t)) + Count(R, AgainFor(t))
                                     + Count(R, FoundAt(t))
  BY DEF Exchanges
<1> QED  BY <1>2, <1>3 DEF Live

LEMMA StageBefore ==
    ASSUME IInv, NEW t \in TreasureId
    PROVE  /\ Stages[t] = StageFrom(t, treasure, registry, Now(t))
           /\ Now(t) \in {0, 1}
           /\ Now(t) = 1 => treasure[t[1]][t[2]] = 0
<1>1. Stages[t] = StageFrom(t, treasure, registry, Now(t))
  BY StagesAre DEF Staged
<1> DEFINE n == Exchanges(client.calls, replies, t)
<1>2. client \in Clients /\ IsBagOf(client.calls, AnyCall) /\ IsBagOf(replies, AnyReply)
  BY ClientType DEF IInv
<1>3. n = Exchange(client.calls, replies, {}, t) /\ n \in Nat
  BY <1>2, ExchangesAre
<1>4. n <= 1 /\ (n > 0 => treasure[t[1]][t[2]] = 0)
  BY <1>3 DEF IInv, Tame, Cashed
<1>5. Now(t) \in Nat /\ Now(t) <= n
  BY <1>2, LiveIs DEF Now
<1> HIDE DEF n
<1> QED  BY <1>1, <1>3, <1>4, <1>5

LEMMA StageAfter ==
    IInv' => \A t \in TreasureId : Stages'[t] = StageFrom(t, treasure', registry', After(t))
<1>1. IInv' => Staged'
  BY StagesAre, PTL
<1>2. \A t : Now(t)' = After(t)
  BY DEF Now, After
<1> QED  BY <1>1, <1>2 DEF Staged

LEMMA StageSame ==
    ASSUME IInv, IInv', NEW t \in TreasureId,
           treasure'[t[1]][t[2]] = treasure[t[1]][t[2]],
           t \in DOMAIN registry' <=> t \in DOMAIN registry,
           t[2] >= MinDepthToCash /\ t \in DOMAIN registry => After(t) = Now(t)
    PROVE  Stages'[t] = Stages[t]
<1>1. t[2] \in Nat /\ MinDepthToCash \in Nat
  BY GoldRushAssumption DEF TreasureId, Server!TreasureId, Server!Depths, Server!WorldAssumption
<1>2. Stages'[t] = StageFrom(t, treasure', registry', After(t))
  BY StageAfter
<1>3. Stages[t] = StageFrom(t, treasure, registry, Now(t))
  BY StageBefore
<1>4. CASE t[2] >= MinDepthToCash /\ t \in DOMAIN registry
  <2>1. After(t) = Now(t)
    BY <1>4
  <2> DEFINE Known(g, n) == IF g > 0 THEN "buried"
                            ELSE IF t[2] < MinDepthToCash THEN "left"
                            ELSE IF n = 0 THEN "lost"
                            ELSE IF n = 1 THEN "cashing" ELSE "cashed twice"
  <2>2. t \in DOMAIN registry'
    BY <1>4
  <2>3. /\ Stages[t] = Known(treasure[t[1]][t[2]], Now(t))
        /\ Stages'[t] = Known(treasure'[t[1]][t[2]], After(t))
    BY <1>2, <1>3, <1>4, <2>2 DEF StageFrom
  <2> HIDE DEF Known
  <2> QED  BY <2>1, <2>3
<1>5. CASE t \notin DOMAIN registry
  <2> DEFINE Free(g) == IF g > 0 THEN "buried" ELSE "gone"
  <2>1. t \notin DOMAIN registry'
    BY <1>5
  <2>2. /\ Stages[t] = Free(treasure[t[1]][t[2]])
        /\ Stages'[t] = Free(treasure'[t[1]][t[2]])
    BY <1>2, <1>3, <1>5, <2>1 DEF StageFrom
  <2> HIDE DEF Free
  <2> QED  BY <2>2
<1>6. CASE ~(t[2] >= MinDepthToCash)
  <2> DEFINE Shallow(g, dug) == IF g > 0 THEN "buried" ELSE IF dug THEN "left" ELSE "gone"
  <2>1. t[2] < MinDepthToCash
    BY <1>1, <1>6
  <2>2. /\ Stages[t] = Shallow(treasure[t[1]][t[2]], t \in DOMAIN registry)
        /\ Stages'[t] = Shallow(treasure'[t[1]][t[2]], t \in DOMAIN registry')
    BY <1>2, <1>3, <2>1 DEF StageFrom
  <2>3. CASE t \in DOMAIN registry
    BY <2>2, <2>3
  <2>4. CASE t \notin DOMAIN registry
    BY <1>5, <2>4
  <2> QED  BY <2>3, <2>4
<1> QED  BY <1>4, <1>5, <1>6

(***************************************************************************)
(* An exchange that will not be made after all.                            *)
(***************************************************************************)
Dropped(t) == Stages[t] = "cashing" /\ Stages'[t] = "lost"

LEMMA StageDrop ==
    ASSUME IInv, IInv', NEW t \in TreasureId,
           treasure'[t[1]][t[2]] = treasure[t[1]][t[2]],
           t \in DOMAIN registry' <=> t \in DOMAIN registry,
           After(t) = 0
    PROVE  /\ Stages'[t] = Stages[t] \/ Dropped(t)
           /\ Stages'[t] # "cashing"
<1>1. Stages'[t] = StageFrom(t, treasure', registry', 0)
  BY StageAfter
<1>2. /\ Stages[t] = StageFrom(t, treasure, registry, Now(t))
      /\ Now(t) \in {0, 1} /\ (Now(t) = 1 => treasure[t[1]][t[2]] = 0)
  BY StageBefore
<1> DEFINE From(n) == IF treasure[t[1]][t[2]] > 0 THEN "buried"
                      ELSE IF t \notin DOMAIN registry THEN "gone"
                      ELSE IF t[2] < MinDepthToCash THEN "left"
                      ELSE IF n = 0 THEN "lost"
                      ELSE IF n = 1 THEN "cashing" ELSE "cashed twice"
<1>3. Stages'[t] = From(0) /\ Stages[t] = From(Now(t))
  BY <1>1, <1>2 DEF StageFrom
<1>4. CASE Now(t) = 0
  BY <1>3, <1>4
<1>5. CASE Now(t) = 1
  BY <1>3, <1>5 DEF Dropped
<1> QED  BY <1>2, <1>4, <1>5

(***************************************************************************)
(* An answer takes the place of its call.                                  *)
(***************************************************************************)
Working == client.status \in {"running", "stopped"} /\ client'.status = client.status

LEMMA DeliveredCounts ==
    ASSUME IInv, client.status \in {"running", "stopped"},
           NEW call \in DOMAIN client.calls, NEW r \in AnyReply,
           Delivered(call, r), NEW t \in TreasureId
    PROVE  LET before == IF call \in CashCallsFor(t) THEN 1 ELSE 0
               after == IF client.status = "running" /\ (r \in AgainFor(t) \/ r \in FoundAt(t))
                        THEN 1 ELSE 0
           IN  After(t) + before = Now(t) + after
<1> DEFINE C == client'.calls
           Q == replies'
<1>1. /\ More(client.calls, C, call) /\ More(Q, replies, r)
      /\ IsBagOf(C, AnyCall) /\ IsBagOf(replies, AnyReply)
      /\ client'.status = client.status
  BY ClientType DEF Delivered, IInv
<1>2. /\ Count(C, CashCallsFor(t)) \in Nat
      /\ Count(replies, AgainFor(t)) \in Nat /\ Count(replies, FoundAt(t)) \in Nat
  BY <1>1, CountType
<1>3. r \notin AgainFor(t) \/ r \notin FoundAt(t)
  BY ReplyKinds, Parts
<1>4. Count(client.calls, CashCallsFor(t))
          = Count(C, CashCallsFor(t)) + (IF call \in CashCallsFor(t) THEN 1 ELSE 0)
  BY <1>1 DEF More
<1>5. Count(Q, AgainFor(t)) = Count(replies, AgainFor(t)) + (IF r \in AgainFor(t) THEN 1 ELSE 0)
  BY <1>1 DEF More
<1>6. Count(Q, FoundAt(t)) = Count(replies, FoundAt(t)) + (IF r \in FoundAt(t) THEN 1 ELSE 0)
  BY <1>1 DEF More
<1>7. CASE client.status = "running"
  <2>1. /\ After(t) = Count(C, CashCallsFor(t)) + Count(Q, AgainFor(t)) + Count(Q, FoundAt(t))
        /\ Now(t) = Count(client.calls, CashCallsFor(t)) + Count(replies, AgainFor(t))
                        + Count(replies, FoundAt(t))
    BY <1>1, <1>7 DEF After, Now, Live, Exchanges
  <2> HIDE DEF C, Q
  <2> QED  BY <1>2, <1>3, <1>4, <1>5, <1>6, <1>7, <2>1
<1>8. CASE client.status = "stopped"
  <2>1. /\ After(t) = Count(C, CashCallsFor(t))
        /\ Now(t) = Count(client.calls, CashCallsFor(t))
    BY <1>1, <1>8 DEF After, Now, Live
  <2> HIDE DEF C, Q
  <2> QED  BY <1>2, <1>4, <1>8, <2>1
<1> QED  BY <1>7, <1>8

LEMMA LiveNumbers ==
    ASSUME IInv, IInv', NEW t
    PROVE  Now(t) \in Nat /\ After(t) \in Nat
<1>1. client \in Clients /\ IsBagOf(replies, AnyReply)
  BY DEF IInv
<1>2. client' \in Clients /\ IsBagOf(replies', AnyReply)
  <2>1. Clients' = Clients /\ AnyReply' = AnyReply
    BY DEF Clients
  <2> QED  BY <2>1 DEF IInv
<1> QED  BY <1>1, <1>2, LiveIs DEF Now, After

\* a fault takes away the exchange that the call makes, or nothing
LEMMA MissedCounts ==
    ASSUME IInv, IInv', client.status \in {"running", "stopped"},
           NEW call \in DOMAIN client.calls, Missed(call), NEW t \in TreasureId
    PROVE  /\ client'.status = client.status /\ faults' = faults + 1
           /\ \/ After(t) = Now(t)
              \/ call \in CashCallsFor(t) /\ After(t) + 1 = Now(t)
<1>1. faults' = faults + 1
  BY DEF Missed
<1>2. CASE client' = client /\ replies' = replies
  BY <1>1, <1>2 DEF After, Now
<1>3. CASE Refused(call)
  <2>1. PICK status \in {429, Failed} : Delivered(call, [call |-> call, status |-> status])
    BY <1>3 DEF Refused
  <2> DEFINE r == [call |-> call, status |-> status]
  <2>2. call \in AnyCall
    BY ClientType DEF IInv, IsBagOf
  <2>3. r \in AnyReply /\ r.status \notin {200, 503}
    BY <2>2, RefusalType
  <2> HIDE DEF r
  <2>4. Delivered(call, r)
    BY <2>1 DEF r
  <2>5. r \notin AgainFor(t) /\ r \notin FoundAt(t)
    BY <2>3 DEF AgainFor, FoundAt, FoundIn
  <2>6. After(t) + (IF call \in CashCallsFor(t) THEN 1 ELSE 0) = Now(t) + 0
    BY <2>3, <2>4, <2>5, DeliveredCounts
  <2>7. Now(t) \in Nat /\ After(t) \in Nat
    BY LiveNumbers
  <2>8. client'.status = client.status
    BY <2>4 DEF Delivered
  <2> QED  BY <1>1, <2>6, <2>7, <2>8
<1> QED  BY <1>2, <1>3 DEF Missed

(***************************************************************************)
(* The steps of the abstract specification that have no dig in them.       *)
(***************************************************************************)
lifeVars == <<Stages, client.status, faults>>

Counting == faults' = faults \/ faults' = faults + 1

LifeStep == Life!Next \/ UNCHANGED lifeVars

LEMMA LifeStill ==
    ASSUME Working, Counting, \A t \in TreasureId : Stages'[t] = Stages[t]
    PROVE  LifeStep
<1>1. Stages' = Stages
  BY StagesSame
<1>2. CASE client.status = "running" /\ faults' = faults
  BY <1>1, <1>2 DEF Working, LifeStep, lifeVars
<1>3. CASE client.status = "running" /\ faults' = faults + 1
  BY <1>1, <1>3 DEF Working, LifeStep, Life!Next, Life!Fault, Stages
<1>4. CASE client.status = "stopped"
  BY <1>1, <1>4 DEF Working, Counting, LifeStep, Life!Next, Life!Complete, Stages
<1> QED  BY <1>2, <1>3, <1>4 DEF Working, Counting

LEMMA LifePay ==
    ASSUME NEW t \in TreasureId, Passes(t, "cashing", "gone"), Working, Counting
    PROVE  LifeStep
<1>1. Life!Pay(t)
  BY LifeMove DEF Life!Pay
<1>2. t \in Server!TreasureId
  BY DEF TreasureId
<1> QED  BY <1>1, <1>2 DEF Working, Counting, LifeStep, Life!Next, Life!Progress, Life!Fault,
                           Life!Complete

LEMMA LifeLose ==
    ASSUME NEW t \in TreasureId, Life!Lose(t), Working, Counting,
           client.status = "stopped" \/ faults' = faults + 1
    PROVE  LifeStep
<1>1. t \in Server!TreasureId
  BY DEF TreasureId
<1> QED  BY <1>1 DEF Working, Counting, LifeStep, Life!Next, Life!Fault, Life!Complete

LEMMA LifeDrop ==
    ASSUME NEW t \in TreasureId, Dropped(t),
           \A u \in TreasureId \ {t} : Stages'[u] = Stages[u], Working, Counting,
           client.status = "stopped" \/ faults' = faults + 1
    PROVE  LifeStep
<1>1. Life!Lose(t)
  BY LifeMove DEF Life!Lose, Passes, Dropped
<1> QED  BY <1>1, LifeLose

\* of all the treasures that are being exchanged, any may be lost with the run
LEMMA LifeDropAll ==
    ASSUME \A t \in TreasureId : Stages'[t] = Stages[t] \/ Dropped(t)
    PROVE  \E T \in SUBSET Server!TreasureId :
               /\ Life!LoseAll(T)
               /\ (\A t \in TreasureId : Stages'[t] # "cashing")
                      => T = {t \in Server!TreasureId : Stages[t] = "cashing"}
<1> DEFINE T == {t \in Server!TreasureId : Dropped(t)}
<1>1. \A t \in T : Stages[t] = "cashing"
  BY DEF Dropped
<1>2. \A t \in Server!TreasureId : Stages'[t] = IF t \in T THEN "lost" ELSE Stages[t]
  BY DEF Dropped, TreasureId
<1>3. ASSUME \A t \in TreasureId : Stages'[t] # "cashing"
      PROVE  T = {t \in Server!TreasureId : Stages[t] = "cashing"}
  BY <1>2, <1>3 DEF Dropped, TreasureId
<1> HIDE DEF T
<1>4. Stages' = [t \in Server!TreasureId |-> IF t \in T THEN "lost" ELSE Stages[t]]
  BY <1>2 DEF Stages
<1>5. Life!LoseAll(T)
  BY <1>1, <1>4 DEF Life!LoseAll, Stages
<1>6. T \in SUBSET Server!TreasureId
  BY DEF T
<1> QED  BY <1>3, <1>5, <1>6

-----------------------------------------------------------------------------
(***************************************************************************)
(* A dig: the treasure leaves the ground, from the top of its cell down.   *)
(***************************************************************************)
Unearthed(t) ==
    /\ Stages[t] = "buried" /\ Now(t) = 0
    /\ \A u \in TreasureId : Life!Above(u, t) => Stages[u] # "buried"
    /\ treasure'[t[1]][t[2]] = 0 /\ t \in DOMAIN registry'
    /\ \A u \in TreasureId \ {t} :
          /\ treasure'[u[1]][u[2]] = treasure[u[1]][u[2]]
          /\ u \in DOMAIN registry' <=> u \in DOMAIN registry

LEMMA DigUnearths ==
    ASSUME IInv, NEW call \in DigCalls, Server!Dig(call), Server!DigStatus(call) = 200
    PROVE  <<call.cell, call.depth>> \in TreasureId /\ Unearthed(<<call.cell, call.depth>>)
<1> DEFINE c == call.cell
           d == call.depth
           t == <<c, d>>
<1>1. W!IInv /\ c \in Cell
  BY DEF IInv, DigCalls
<1>2. /\ depthMap' = [depthMap EXCEPT ![c] = @ + 1]
      /\ d = depthMap[c] + 1 /\ d \in 1..MaxDepth
      /\ treasure[c][d] # 0 /\ Server!Unearth(c, d)
  BY <1>1, ServerDig
<1>3. /\ treasure \in [Cell -> [1..MaxDepth -> Nat]] /\ W!NothingLeftAbove
      /\ depthMap \in [Cell -> 0..MaxDepth]
  BY <1>1, ServerConstants DEF W!IInv, W!FieldInv
<1>4. DOMAIN registry' = DOMAIN registry \cup {t}
  BY <1>2 DEF Server!Unearth
<1>5. \A u \in TreasureId : u[1] \in Cell /\ u[2] \in 1..MaxDepth /\ u = <<u[1], u[2]>>
  BY DEF TreasureId, Server!TreasureId, Server!Depths, Cell
<1>6. t \in TreasureId /\ t[1] = c /\ t[2] = d
  BY <1>1, <1>2 DEF TreasureId, Server!TreasureId, Server!Depths, Cell
<1>7. \A x \in Cell, y \in 1..MaxDepth :
          treasure'[x][y] = IF x = c /\ y = d THEN 0 ELSE treasure[x][y]
  <2>1. /\ d \in 1..MaxDepth /\ c \in Cell
        /\ treasure \in [Cell -> [1..MaxDepth -> Nat]]
    BY <1>1, <1>2, <1>3
  <2>2. treasure' = [treasure EXCEPT ![c][d] = 0]
    BY <1>2 DEF Server!Unearth
  <2> HIDE DEF c, d
  <2>3. treasure'[c] = [treasure[c] EXCEPT ![d] = 0]
    BY <2>1, <2>2
  <2>4. \A x \in Cell \ {c} : treasure'[x] = treasure[x]
    BY <2>1, <2>2
  <2>5. treasure[c] \in [1..MaxDepth -> Nat]
    BY <2>1
  <2>6. \A y \in 1..MaxDepth : treasure'[c][y] = IF y = d THEN 0 ELSE treasure[c][y]
    BY <2>1, <2>3, <2>5
  <2> QED  BY <2>4, <2>6
<1>8. Stages[t] = "buried" /\ Now(t) = 0
  <2>1. treasure[t[1]][t[2]] > 0
    <3>1. treasure[c][d] \in Nat /\ treasure[c][d] # 0
      <4>1. treasure[c] \in [1..MaxDepth -> Nat]
        BY <1>1, <1>3
      <4>2. d \in 1..MaxDepth /\ treasure[c][d] # 0
        BY <1>2
      <4>3. MaxDepth \in Nat
        BY GoldRushAssumption DEF Server!WorldAssumption
      <4> HIDE DEF c, d
      <4> QED  BY <4>1, <4>2, <4>3
    <3>2. treasure[c][d] > 0
      BY <3>1
    <3> HIDE DEF t, c, d
    <3> QED  BY <1>6, <3>2
  <2>2. Now(t) = 0
    BY <1>6, <2>1, StageBefore
  <2>3. Stages[t] = StageFrom(t, treasure, registry, Now(t))
    BY <1>6, StageBefore
  <2> QED  BY <2>1, <2>2, <2>3 DEF StageFrom
<1>9. ASSUME NEW u \in TreasureId, Life!Above(u, t) PROVE Stages[u] # "buried"
  <2>1. u[1] = c /\ u[2] < d /\ u[2] \in 1..MaxDepth
    BY <1>5, <1>6, <1>9 DEF Life!Above
  <2>2. ~(treasure[c][u[2]] > 0)
    <3>1. treasure[c][u[2]] > 0 => u[2] > depthMap[c]
      BY <1>1, <1>3, <2>1, ServerConstants DEF W!NothingLeftAbove
    <3>2. depthMap[c] \in 0..MaxDepth /\ MaxDepth \in Nat
      BY <1>1, <1>3, GoldRushAssumption DEF Server!WorldAssumption
    <3> QED  BY <1>2, <2>1, <3>1, <3>2
  <2>3. Stages[u] = StageFrom(u, treasure, registry, Now(u))
    BY StageBefore
  <2> QED  BY <2>1, <2>2, <2>3 DEF StageFrom
<1>10. treasure'[t[1]][t[2]] = 0 /\ t \in DOMAIN registry'
  <2>1. treasure'[c][d] = 0
    BY <1>1, <1>2, <1>7
  <2> QED  BY <1>4, <1>6, <2>1
<1>11. ASSUME NEW u \in TreasureId \ {t}
       PROVE  /\ treasure'[u[1]][u[2]] = treasure[u[1]][u[2]]
              /\ u \in DOMAIN registry' <=> u \in DOMAIN registry
  <2>1. u[1] # c \/ u[2] # d
    BY <1>5
  <2> QED  BY <1>4, <1>5, <1>7, <2>1
<1> QED  BY <1>6, <1>8, <1>9, <1>10, <1>11 DEF Unearthed

LEMMA LifeDig ==
    ASSUME IInv, IInv', NEW t \in TreasureId, Unearthed(t),
           \A u \in TreasureId \ {t} : After(u) = Now(u), Working, Counting,
           \/ After(t) = 1 /\ client.status = "running"
           \/ After(t) = 0 /\ (client.status = "stopped" \/ faults' = faults + 1)
    PROVE  LifeStep
<1>1. t \in Server!TreasureId /\ t[2] \in Nat /\ MinDepthToCash \in Nat
  BY GoldRushAssumption DEF TreasureId, Server!TreasureId, Server!Depths, Server!WorldAssumption
<1>2. \A u \in TreasureId \ {t} : Stages'[u] = Stages[u]
  BY StageSame DEF Unearthed
<1>3. Stages'[t] = StageFrom(t, treasure', registry', After(t))
  BY StageAfter
<1>4. Life!OnTop(t)
  BY DEF Life!OnTop, Unearthed, Stages, TreasureId
<1>5. CASE t[2] >= MinDepthToCash /\ After(t) = 0
  <2>1. Stages'[t] = "lost"
    <3>1. ~(t[2] < MinDepthToCash)
      BY <1>1, <1>5
    <3>2. treasure'[t[1]][t[2]] = 0 /\ t \in DOMAIN registry'
      BY DEF Unearthed
    <3> QED  BY <1>3, <1>5, <3>1, <3>2 DEF StageFrom
  <2>2. Life!Move(t, "buried", "lost")
    BY <1>2, <2>1, LifeMove DEF Passes, Unearthed
  <2>3. Life!Lose(t)
    BY <1>4, <1>5, <2>2 DEF Life!Lose, Life!Worth
  <2> QED  BY <1>5, <2>3, LifeLose
<1>6. CASE t[2] >= MinDepthToCash /\ After(t) = 1
  <2>1. Stages'[t] = "cashing"
    <3>1. ~(t[2] < MinDepthToCash)
      BY <1>1, <1>6
    <3>2. treasure'[t[1]][t[2]] = 0 /\ t \in DOMAIN registry'
      BY DEF Unearthed
    <3> QED  BY <1>3, <1>6, <3>1, <3>2 DEF StageFrom
  <2>2. Life!Move(t, "buried", "cashing")
    BY <1>2, <2>1, LifeMove DEF Passes, Unearthed
  <2>3. Life!Dig(t) /\ client.status = "running"
    BY <1>4, <1>6, <2>2 DEF Life!Dig, Life!Worth
  <2> QED  BY <1>1, <2>3
           DEF Working, Counting, LifeStep, Life!Next, Life!Progress, Life!Fault
<1>7. CASE ~(t[2] >= MinDepthToCash)
  <2>1. Stages'[t] = "left"
    <3>1. t[2] < MinDepthToCash
      BY <1>1, <1>7
    <3>2. treasure'[t[1]][t[2]] = 0 /\ t \in DOMAIN registry'
      BY DEF Unearthed
    <3> QED  BY <1>3, <3>1, <3>2 DEF StageFrom
  <2>2. Life!Move(t, "buried", "left")
    BY <1>2, <2>1, LifeMove DEF Passes, Unearthed
  <2>3. Life!Dig(t) /\ Life!Lose(t)
    BY <1>4, <1>7, <2>2 DEF Life!Dig, Life!Lose, Life!Worth
  <2> QED  BY <1>1, <2>3
           DEF Working, Counting, LifeStep, Life!Next, Life!Progress, Life!Fault, Life!Complete
<1> QED  BY <1>5, <1>6, <1>7

(***************************************************************************)
(* Nothing changes in the ground or in the registry, nor any exchange.     *)
(***************************************************************************)
Quiet == /\ treasure' = treasure /\ DOMAIN registry' = DOMAIN registry
         /\ \A t \in TreasureId : t[2] >= MinDepthToCash => After(t) = Now(t)

LEMMA LifeQuiet ==
    ASSUME IInv, IInv', Quiet, Working, Counting
    PROVE  LifeStep
<1>1. \A t \in TreasureId : Stages'[t] = Stages[t]
  BY StageSame DEF Quiet
<1> QED  BY <1>1, LifeStill

LEMMA ServeDigLife ==
    ASSUME IInv, client.status \in {"running", "stopped"},
           NEW call \in DOMAIN client.calls, ServeDig(call)
    PROVE  LifeStep
<1>1. W!IInv /\ IsBagOf(client.calls, AnyCall) /\ IInv'
  BY ClientType, ServeDigInv DEF IInv
<1> DEFINE r == DigReply(call)
           tr == <<call.cell, call.depth>>
<1>2. call \in DigCalls /\ Server!Dig(call) /\ Answer(call, r)
  <2>1. call \in AnyCall /\ call.type = "Dig"
    BY <1>1 DEF IsBagOf, ServeDig
  <2>2. call \in DigCalls
    BY <2>1 DEF AnyCall, LicenseCalls, CashCalls, CashCall
  <2> QED  BY <2>2 DEF ServeDig, DigReply
<1>3. r \in DigReplies /\ r \in AnyReply /\ r.call = call
      /\ r.status = Server!DigStatus(call)
  BY <1>1, <1>2, FieldDug DEF AnyReply
<1>4. (Delivered(call, r) /\ faults' = faults) \/ Missed(call)
  BY <1>2, <1>3, AnswerIs
<1> HIDE DEF r
<1>5. Working /\ Counting
  <2>1. CASE Missed(call)
    <3>1. client'.status = client.status
      BY <2>1 DEF Missed, Refused, Delivered
    <3> QED  BY <2>1, <3>1 DEF Missed, Working, Counting
  <2> QED  BY <1>4, <2>1 DEF Delivered, Working, Counting
<1>6. \A u : call \notin CashCallsFor(u)
  BY <1>2, CallKinds, Parts
<1>7. ASSUME NEW t \in TreasureId, Delivered(call, r)
      PROVE  After(t) = Now(t) + (IF client.status = "running" /\ t \in HasDug(r)
                                  THEN 1 ELSE 0)
  <2>1. r \notin AgainFor(t)
    BY <1>3, ReplyKinds, Parts
  <2>2. r \in FoundAt(t) <=> t \in HasDug(r)
    BY <1>3, ReplyType
  <2>3. After(t) + 0 = Now(t) + (IF client.status = "running" /\ r \in FoundAt(t)
                                 THEN 1 ELSE 0)
    BY <1>3, <1>6, <1>7, <2>1, DeliveredCounts
  <2>4. After(t) \in Nat /\ Now(t) \in Nat
    BY <1>1, LiveNumbers
  <2> QED  BY <2>2, <2>3, <2>4
<1>8. \A u \in TreasureId : Missed(call) => After(u) = Now(u)
  BY <1>1, <1>6, MissedCounts
<1>9. CASE r.status = 200
  <2>1. tr \in TreasureId /\ Unearthed(tr)
    <3>1. Server!DigStatus(call) = 200
      BY <1>3, <1>9
    <3> QED  BY <1>2, <3>1, DigUnearths
  <2>2. HasDug(r) = {tr}
    BY <1>3, <1>9 DEF HasDug
  <2> HIDE DEF tr
  <2>3. Now(tr) = 0
    BY <2>1 DEF Unearthed
  <2>4. \A u \in TreasureId \ {tr} : After(u) = Now(u)
    <3> TAKE u \in TreasureId \ {tr}
    <3>1. CASE Delivered(call, r)
      <4>1. After(u) = Now(u) + 0
        BY <1>7, <2>2, <3>1
      <4>2. Now(u) \in {0, 1}
        BY StageBefore
      <4> QED  BY <4>1, <4>2
    <3> QED  BY <1>4, <1>8, <3>1
  <2>5. \/ After(tr) = 1 /\ client.status = "running"
        \/ After(tr) = 0 /\ (client.status = "stopped" \/ faults' = faults + 1)
    <3>1. CASE Delivered(call, r) /\ client.status = "running"
      BY <1>7, <2>1, <2>2, <2>3, <3>1
    <3>2. CASE Delivered(call, r) /\ client.status = "stopped"
      BY <1>7, <2>1, <2>2, <2>3, <3>2
    <3>3. CASE Missed(call)
      BY <1>8, <2>1, <2>3, <3>3 DEF Missed
    <3> QED  BY <1>4, <3>1, <3>2, <3>3
  <2> QED  BY <1>1, <1>5, <2>1, <2>4, <2>5, LifeDig
<1>10. CASE r.status # 200
  <2>1. treasure' = treasure /\ registry' = registry
    BY <1>1, <1>2, <1>3, <1>10, ServerDig
  <2>2. \A u \in TreasureId : After(u) = Now(u)
    <3> TAKE u \in TreasureId
    <3>1. CASE Delivered(call, r)
      <4>1. u \notin HasDug(r)
        BY <1>10 DEF HasDug
      <4>2. After(u) = Now(u) + 0
        BY <1>7, <3>1, <4>1
      <4>3. Now(u) \in {0, 1}
        BY StageBefore
      <4> QED  BY <4>2, <4>3
    <3> QED  BY <1>4, <1>8, <3>1
  <2>3. Quiet
    BY <2>1, <2>2 DEF Quiet
  <2> QED  BY <1>1, <1>5, <2>3, LifeQuiet
<1> QED  BY <1>9, <1>10

-----------------------------------------------------------------------------
(***************************************************************************)
(* An exchange: the treasure leaves the registry, or the call is refused.  *)
(***************************************************************************)
LEMMA CashingNow ==
    ASSUME IInv, client.status \in {"running", "stopped"},
           NEW call \in DOMAIN client.calls, call \in CashCalls
    PROVE  /\ call.treasure \in TreasureId
           /\ treasure[call.treasure[1]][call.treasure[2]] = 0
           /\ ~(call.treasure[2] < MinDepthToCash)
           /\ Now(call.treasure) = 1
           /\ call.treasure \in DOMAIN registry => Stages[call.treasure] = "cashing"
<1> DEFINE t == call.treasure
<1>1. PICK u \in TreasureId : u[2] >= MinDepthToCash /\ call = CashCall(u, u[2])
  BY DEF CashCalls
<1>2. t \in TreasureId /\ t[2] >= MinDepthToCash
  BY <1>1 DEF CashCall
<1>3. t[2] \in Nat /\ MinDepthToCash \in Nat
  BY <1>2, GoldRushAssumption
     DEF TreasureId, Server!TreasureId, Server!Depths, Server!WorldAssumption
<1>4. ~(t[2] < MinDepthToCash)
  BY <1>2, <1>3
<1>5. IsBagOf(client.calls, AnyCall) /\ IsBagOf(replies, AnyReply)
  BY ClientType DEF IInv
<1>6. Count(client.calls, CashCallsFor(t)) >= 1
  <2>1. call \in DOMAIN client.calls \cap CashCallsFor(t)
    BY DEF CashCallsFor
  <2>2. client.calls[call] \in Nat
    BY <1>5 DEF IsBagOf
  <2>3. /\ Count(client.calls, CashCallsFor(t)) \in Nat
        /\ 1 <= client.calls[call] /\ client.calls[call] <= Count(client.calls, CashCallsFor(t))
    BY <1>5, <2>1, CountType
  <2> QED  BY <2>2, <2>3
<1>7. Count(replies, AgainFor(t)) \in Nat /\ Count(replies, FoundAt(t)) \in Nat
      /\ Count(client.calls, CashCallsFor(t)) \in Nat
  BY <1>5, CountType
<1> HIDE DEF t
<1>11. Now(t) >= 1
  BY <1>6, <1>7 DEF Now, Live, Exchanges
<1>8. Now(t) \in {0, 1} /\ (Now(t) = 1 => treasure[t[1]][t[2]] = 0)
      /\ Stages[t] = StageFrom(t, treasure, registry, Now(t))
  BY <1>2, StageBefore
<1>9. Now(t) = 1
  BY <1>8, <1>11
<1>10. t \in DOMAIN registry => Stages[t] = "cashing"
  BY <1>4, <1>8, <1>9 DEF StageFrom
<1> QED  BY <1>2, <1>4, <1>8, <1>9, <1>10 DEF t

\* all other exchanges stay, this one too or it is dropped
CashLeft(call, r) ==
    /\ \A u \in TreasureId \ {call.treasure} : After(u) = Now(u)
    /\ \/ After(call.treasure) = Now(call.treasure)
       \/ /\ After(call.treasure) = 0
          /\ client.status = "stopped" \/ faults' = faults + 1 \/ r.status # 503

LEMMA CashCounts ==
    ASSUME IInv, IInv', client.status \in {"running", "stopped"},
           NEW call \in DOMAIN client.calls, call \in CashCalls,
           NEW r \in CashReplies, r.call = call, Delivered(call, r) \/ Missed(call)
    PROVE  Working /\ CashLeft(call, r)
<1> DEFINE t == call.treasure
<1>1. r \in AnyReply /\ \A u : r \notin FoundAt(u)
  BY ReplyKinds, Parts DEF AnyReply
<1>2. \A u : call \in CashCallsFor(u) <=> u = t
  BY CashCallType
<1>3. \A u : r \in AgainFor(u) <=> u = t /\ r.status = 503
  BY DEF AgainFor, CashReplies, Payments
<1>4. \A u \in TreasureId : After(u) \in Nat /\ Now(u) \in Nat
  BY LiveNumbers
<1>5. t \in TreasureId /\ Now(t) = 1
  BY CashingNow
<1> HIDE DEF t
<1>6. CASE Delivered(call, r)
  <2>1. ASSUME NEW u \in TreasureId \ {t} PROVE After(u) = Now(u)
    <3>1. After(u) + 0 = Now(u) + 0
      BY <1>1, <1>2, <1>3, <1>6, <2>1, DeliveredCounts
    <3> QED  BY <1>4, <3>1
  <2>2. CASE r.status = 503 /\ client.status = "running"
    <3>1. After(t) + 1 = Now(t) + 1
      BY <1>1, <1>2, <1>3, <1>5, <1>6, <2>2, DeliveredCounts
    <3>2. After(t) = Now(t)
      BY <1>4, <1>5, <3>1
    <3> QED  BY <1>6, <2>1, <3>2 DEF CashLeft, t, Working, Delivered
  <2>3. CASE r.status # 503 \/ client.status = "stopped"
    <3>1. After(t) + 1 = Now(t) + 0
      BY <1>1, <1>2, <1>3, <1>5, <1>6, <2>3, DeliveredCounts
    <3>2. After(t) = 0
      BY <1>4, <1>5, <3>1
    <3> QED  BY <1>6, <2>1, <2>3, <3>2 DEF CashLeft, t, Working, Delivered
  <2> QED  BY <2>2, <2>3
<1>7. CASE Missed(call)
  <2>1. ASSUME NEW u \in TreasureId
        PROVE  /\ client'.status = client.status /\ faults' = faults + 1
               /\ After(u) = Now(u) \/ (u = t /\ After(u) + 1 = Now(u))
    BY <1>2, <1>7, <2>1, MissedCounts
  <2>2. After(t) = Now(t) \/ After(t) = 0
    BY <1>4, <1>5, <2>1
  <2> QED  BY <1>5, <2>1, <2>2 DEF CashLeft, t, Working
<1> QED  BY <1>6, <1>7

LEMMA CashOver ==
    ASSUME IInv, IInv', NEW t \in TreasureId, Working, Counting,
           \A u \in TreasureId \ {t} : After(u) = Now(u),
           \/ After(t) = Now(t)
           \/ After(t) = 0 /\ (client.status = "stopped" \/ faults' = faults + 1),
           treasure' = treasure, registry' = registry
    PROVE  LifeStep
<1>1. \A u \in TreasureId \ {t} : Stages'[u] = Stages[u]
  BY StageSame
<1>2. CASE After(t) = Now(t)
  <2>1. Stages'[t] = Stages[t]
    BY <1>2, StageSame
  <2> QED  BY <1>1, <2>1, LifeStill
<1>3. CASE After(t) = 0 /\ (client.status = "stopped" \/ faults' = faults + 1)
  <2>1. Stages'[t] = Stages[t] \/ Dropped(t)
    BY <1>3, StageDrop
  <2> QED  BY <1>1, <1>3, <2>1, LifeStill, LifeDrop
<1> QED  BY <1>2, <1>3

LEMMA ServeCashLife ==
    ASSUME IInv, client.status \in {"running", "stopped"},
           NEW call \in DOMAIN client.calls, ServeCash(call)
    PROVE  LifeStep
<1> DEFINE r == CashReply(call)
           t == call.treasure
           status == Server!CashStatus(t)
<1>1. W!IInv /\ IsBagOf(client.calls, AnyCall) /\ IInv'
  BY ClientType, ServeCashInv DEF IInv
<1>2. call \in CashCalls
  <2>1. call \in AnyCall /\ call.type = "Cash"
    BY <1>1 DEF IsBagOf, ServeCash
  <2> QED  BY <2>1 DEF AnyCall, LicenseCalls, DigCalls
<1>3. Server!Cash(t) /\ Answer(call, r)
  BY DEF ServeCash, CashReply
<1>4. r \in CashReplies /\ r \in AnyReply /\ r.call = call /\ r.status = status
  BY <1>1, <1>2, <1>3, CashReplyType DEF AnyReply
<1> HIDE DEF r
<1>5. (Delivered(call, r) /\ faults' = faults) \/ Missed(call)
  BY <1>3, <1>4, AnswerIs
<1>6. Counting
  BY <1>5 DEF Missed, Counting
<1>7. Working /\ CashLeft(call, r)
  BY <1>1, <1>2, <1>4, <1>5, CashCounts
<1>8. /\ treasure' = treasure
      /\ status \in {200, 409, 503}
      /\ status = 409 <=> t \notin DOMAIN registry
      /\ status # 200 => registry' = registry
      /\ status = 200 => DOMAIN registry' = DOMAIN registry \ {t}
  <2>1. /\ W!IInv'
        /\ UNCHANGED <<treasure, depthMap, counts, active>>
        /\ status \in {200, 409, 503}
        /\ status = 409 <=> t \notin DOMAIN registry
        /\ status # 200 => UNCHANGED <<coins, nextCoin, registry>>
        /\ status = 200 =>
               /\ registry[t] \in Nat
               /\ coins' = coins \cup nextCoin..(nextCoin + registry[t] - 1)
               /\ nextCoin' = nextCoin + registry[t]
               /\ DOMAIN registry' = DOMAIN registry \ {t}
    BY <1>1, <1>3, ServerCash
  <2> HIDE DEF t, status
  <2> QED  BY <2>1
<1>9. /\ t \in TreasureId /\ treasure[t[1]][t[2]] = 0
      /\ t \in DOMAIN registry => Stages[t] = "cashing"
  BY <1>2, CashingNow
<1>10. /\ \A u \in TreasureId \ {t} : After(u) = Now(u)
       /\ \/ After(t) = Now(t)
          \/ After(t) = 0 /\ (client.status = "stopped" \/ faults' = faults + 1 \/ status # 503)
  BY <1>4, <1>7 DEF CashLeft
<1> HIDE DEF t, status
<1>11. CASE status = 200
  <2>1. \A u \in TreasureId \ {t} : Stages'[u] = Stages[u]
    BY <1>1, <1>8, <1>10, <1>11, StageSame
  <2>2. Stages'[t] = "gone"
    <3>1. Stages'[t] = StageFrom(t, treasure', registry', After(t))
      BY <1>1, <1>9, StageAfter
    <3>2. treasure'[t[1]][t[2]] = 0 /\ t \notin DOMAIN registry'
      BY <1>8, <1>9, <1>11
    <3> QED  BY <3>1, <3>2 DEF StageFrom
  <2>3. Passes(t, "cashing", "gone")
    BY <1>8, <1>9, <1>11, <2>1, <2>2 DEF Passes
  <2> QED  BY <1>6, <1>7, <1>9, <2>3, LifePay
<1>12. CASE status = 503
  <2>1. treasure' = treasure /\ registry' = registry
    BY <1>8, <1>12
  <2>2. After(t) = Now(t) \/ (After(t) = 0 /\ (client.status = "stopped" \/ faults' = faults + 1))
    BY <1>10, <1>12
  <2> QED  BY <1>1, <1>6, <1>7, <1>9, <1>10, <2>1, <2>2, CashOver
<1>13. CASE status = 409
  <2>1. treasure' = treasure /\ registry' = registry /\ t \notin DOMAIN registry
    BY <1>8, <1>13
  <2>2. \A u \in TreasureId : Stages'[u] = Stages[u]
    BY <1>1, <1>10, <2>1, StageSame
  <2> QED  BY <1>6, <1>7, <2>2, LifeStill
<1> QED  BY <1>8, <1>11, <1>12, <1>13

(***************************************************************************)
(* The rate limiter refuses a call, or there is no connection.             *)
(***************************************************************************)
LEMMA RejectLife ==
    ASSUME IInv, client.status \in {"running", "stopped"},
           NEW call \in DOMAIN client.calls, Reject(call)
    PROVE  LifeStep
<1>1. PICK status \in {429, Failed} : Arrive(call, [call |-> call, status |-> status])
  BY DEF Reject
<1> DEFINE r == [call |-> call, status |-> status]
<1>2. call \in AnyCall /\ IInv'
  BY RejectInv, ClientType DEF IInv, IsBagOf
<1>3. r \in AnyReply
  BY <1>2, RefusalType
<1>4. Delivered(call, r)
  <2> HIDE DEF r
  <2>1. Arrive(call, r)
    BY <1>1 DEF r
  <2> QED  BY <1>3, <2>1, DeliveredIs DEF Arrive
<1>5. Missed(call)
  BY <1>4 DEF Missed, Refused, Reject
<1> HIDE DEF r
<1>6. faults' = faults + 1 /\ treasure' = treasure /\ registry' = registry
  BY DEF Reject, serverVars
<1>7. Working /\ Counting
  BY <1>4, <1>6 DEF Working, Counting, Delivered
<1>8. CASE call \in CashCalls
  <2> DEFINE t == call.treasure
  <2>1. t \in TreasureId /\ Now(t) = 1
    BY <1>8, CashingNow
  <2>2. \A u : call \in CashCallsFor(u) <=> u = t
    BY <1>8, CashCallType
  <2> HIDE DEF t
  <2>3. \A u \in TreasureId : After(u) = Now(u) \/ (u = t /\ After(u) + 1 = Now(u))
    BY <1>2, <1>5, <2>2, MissedCounts
  <2>4. After(t) \in Nat
    BY <1>2, LiveNumbers
  <2>5. After(t) = Now(t) \/ After(t) = 0
    BY <2>1, <2>3, <2>4
  <2> QED  BY <1>2, <1>6, <1>7, <2>1, <2>3, <2>5, CashOver
<1>9. CASE call \notin CashCalls
  <2>1. \A u : call \notin CashCallsFor(u)
    BY <1>9, Parts
  <2>2. \A u \in TreasureId : After(u) = Now(u)
    BY <1>2, <1>5, <2>1, MissedCounts
  <2>3. Quiet
    BY <1>6, <2>2 DEF Quiet
  <2> QED  BY <1>2, <1>7, <2>3, LifeQuiet
<1> QED  BY <1>8, <1>9

-----------------------------------------------------------------------------
(***************************************************************************)
(* The steps that leave the treasures alone.                               *)
(***************************************************************************)
LEMMA ServeLicenseLife ==
    ASSUME IInv, client.status \in {"running", "stopped"},
           NEW call \in DOMAIN client.calls, ServeLicense(call)
    PROVE  LifeStep
<1>1. W!IInv /\ IsBagOf(client.calls, AnyCall) /\ IInv'
  BY ClientType, ServeLicenseInv DEF IInv
<1>2. call \in LicenseCalls
  <2>1. call \in AnyCall /\ call.type \in LicenseTypes
    BY <1>1 DEF IsBagOf, ServeLicense
  <2> QED  BY <2>1 DEF AnyCall, DigCalls, CashCalls, CashCall, LicenseTypes
<1>3. PICK allowed : /\ Server!IssueLicense(PaidWith(call), allowed)
                     /\ Answer(call, LicenseReply(call, allowed))
  BY DEF ServeLicense, PaidWith, LicenseReply
<1> DEFINE r == LicenseReply(call, allowed)
<1>4. r \in LicenseReplies /\ r \in AnyReply
  BY <1>1, <1>2, <1>3, LicenseReplyType DEF AnyReply
<1> HIDE DEF r
<1>5. (Delivered(call, r) /\ faults' = faults) \/ Missed(call)
  BY <1>3, <1>4, AnswerIs DEF r
<1>6. treasure' = treasure /\ registry' = registry
  BY <1>3 DEF Server!IssueLicense, Server!fieldVars, Server!treasureVars
<1>7. \A u : call \notin CashCallsFor(u) /\ r \notin AgainFor(u) /\ r \notin FoundAt(u)
  BY <1>2, <1>4, CallKinds, ReplyKinds, Parts
<1>8. Working /\ Counting
  <2>1. CASE Missed(call)
    <3>1. client'.status = client.status
      BY <2>1 DEF Missed, Refused, Delivered
    <3> QED  BY <2>1, <3>1 DEF Missed, Working, Counting
  <2> QED  BY <1>5, <2>1 DEF Delivered, Working, Counting
<1>9. ASSUME NEW u \in TreasureId PROVE After(u) = Now(u)
  <2>1. CASE Missed(call)
    BY <1>1, <1>7, <2>1, MissedCounts
  <2>2. CASE Delivered(call, r)
    <3>1. After(u) + 0 = Now(u) + 0
      BY <1>4, <1>7, <2>2, DeliveredCounts
    <3>2. After(u) \in Nat /\ Now(u) \in Nat
      BY <1>1, LiveNumbers
    <3> QED  BY <3>1, <3>2
  <2> QED  BY <1>5, <2>1, <2>2
<1>10. Quiet
  BY <1>6, <1>9 DEF Quiet
<1> QED  BY <1>1, <1>8, <1>10, LifeQuiet

LEMMA HandleLife ==
    ASSUME IInv, NEW reply, Handle(reply)
    PROVE  LifeStep
<1>1. IInv'
  BY HandleInv
<1>2. treasure' = treasure /\ registry' = registry /\ faults' = faults
      /\ client.status = "running"
  BY DEF Handle, serverVars
<1>3. /\ \A t \in TreasureId : t[2] >= MinDepthToCash =>
             Exchanges(client'.calls, replies', t) = Exchanges(client.calls, replies, t)
      /\ client'.status \in {"running", "stopped"}
  BY <1>2, HandleKeeps DEF Carries
<1>4. CASE client'.status = "running"
  <2>1. \A t \in TreasureId : t[2] >= MinDepthToCash => After(t) = Now(t)
    BY <1>2, <1>3, <1>4 DEF After, Now, Live
  <2>2. Quiet /\ Working /\ Counting
    BY <1>2, <1>4, <2>1 DEF Quiet, Working, Counting
  <2> QED  BY <1>1, <2>2, LifeQuiet
<1>5. CASE client'.status = "stopped"
  <2>1. ASSUME NEW t \in TreasureId, t[2] >= MinDepthToCash
        PROVE  After(t) = Now(t) \/ After(t) = 0
    <3>1. Now(t) = Exchanges(client.calls, replies, t) /\ Now(t) \in {0, 1}
      BY <1>2, StageBefore DEF Now, Live
    <3>2. client' \in Clients /\ IsBagOf(replies', AnyReply)
      <4>1. Clients' = Clients /\ AnyReply' = AnyReply
        BY DEF Clients
      <4> QED  BY <1>1, <4>1 DEF IInv
    <3>3. After(t) \in Nat /\ After(t) <= Exchanges(client'.calls, replies', t)
      BY <3>2, LiveIs DEF After
    <3> QED  BY <1>3, <2>1, <3>1, <3>3
  <2>2. ASSUME NEW t \in TreasureId PROVE Stages'[t] = Stages[t] \/ Dropped(t)
    <3>1. CASE t[2] >= MinDepthToCash
      BY <1>1, <1>2, <2>1, <3>1, StageSame, StageDrop
    <3>2. CASE ~(t[2] >= MinDepthToCash)
      BY <1>1, <1>2, <3>2, StageSame
    <3> QED  BY <3>1, <3>2
  <2>3. \E T \in SUBSET Server!TreasureId : Life!LoseAll(T)
    BY <2>2, LifeDropAll
  <2>4. faults > 0
    <3>1. faults \in Nat /\ faults # 0
      <4>1. MaxFaults \in Nat /\ faults \in 0..MaxFaults
        BY GoldRushAssumption DEF IInv
      <4>2. faults' = 0 => client'.status = "running"
        BY <1>1 DEF IInv, Tame
      <4> QED  BY <1>2, <1>5, <4>1, <4>2
    <3> QED  BY <3>1
  <2> QED  BY <1>2, <1>5, <2>3, <2>4 DEF LifeStep, Life!Next, Life!Break
<1> QED  BY <1>3, <1>4, <1>5

LEMMA LocateKeeps ==
    ASSUME NEW s \in Clients, NEW c \in Cell, counts[c] \in 0..MaxDepth, counts[c] > 0
    PROVE  /\ Locate(s, c) \in Clients /\ SameCash(s, Locate(s, c))
           /\ Locate(s, c).status = s.status
<1> DEFINE left == [s.left EXCEPT ![c] = counts[c]]
           t == [s EXCEPT !.left[c] = counts[c]]
           dig == [cell |-> c, depth |-> 1]
<1>1. MaxDepth \in Nat /\ s.left \in [Cell -> 0..MaxDepth]
  BY ClientType, GoldRushAssumption DEF Server!WorldAssumption
<1>2. left \in [Cell -> 0..MaxDepth]
  BY <1>1
<1>3. t = [s EXCEPT !.left = left]
  BY DEF Clients
<1>4. Locate(s, c) = ScheduleDig(t, dig)
  BY DEF Locate, StartDigging
<1>5. dig \in Digs
  BY <1>1 DEF Digs
<1> HIDE DEF left, dig, t
<1>6. t \in Clients /\ t.calls = s.calls /\ t.status = s.status
  <2>1. /\ [s EXCEPT !.left = left] \in Clients
        /\ [s EXCEPT !.left = left].calls = s.calls
        /\ [s EXCEPT !.left = left].status = s.status
    BY <1>2 DEF Clients
  <2> QED  BY <1>3, <2>1
<1>7. SameCash(s, t)
  BY <1>6, AgreeSame DEF SameCash
<1>8. /\ ScheduleDig(t, dig) \in Clients /\ SameCash(t, ScheduleDig(t, dig))
      /\ ScheduleDig(t, dig).status = t.status
  BY <1>5, <1>6, DigKeeps
<1> QED  BY <1>4, <1>6, <1>7, <1>8, SameCashTrans

LEMMA LocatedLife ==
    ASSUME IInv, IInv', UNCHANGED <<serverVars, replies, faults>>, client.status = "running",
           client'.status = "running", SameCash(client, client')
    PROVE  LifeStep
<1>1. treasure' = treasure /\ registry' = registry /\ faults' = faults /\ replies' = replies
  BY DEF serverVars
<1>2. ASSUME NEW t \in TreasureId PROVE After(t) = Now(t)
  <2>1. Count(client'.calls, CashCallsFor(t)) = Count(client.calls, CashCallsFor(t))
    BY Parts DEF SameCash, Agree
  <2> QED  BY <1>1, <2>1 DEF After, Now, Live, Exchanges
<1>3. Quiet /\ Working /\ Counting
  BY <1>1, <1>2 DEF Quiet, Working, Counting
<1> QED  BY <1>3, LifeQuiet

LEMMA DiscoverLife ==
    ASSUME IInv, NEW c \in Cell, Discover(c)
    PROVE  LifeStep
<1>1. IInv' /\ client \in Clients
  BY DiscoverInv DEF IInv
<1>2. counts \in [Cell -> 0..MaxDepth]
  BY ServerConstants DEF IInv, W!IInv, W!FieldInv
<1>3. SameCash(client, client')
  BY <1>1, <1>2, LocateKeeps DEF Discover, Unknown
<1>4. client.status = "running" /\ client'.status = "running"
  BY <1>1, <1>2, LocateKeeps DEF Discover, Unknown
<1> QED  BY <1>1, <1>3, <1>4, LocatedLife DEF Discover

LEMMA DiscoverBothLife ==
    ASSUME IInv, NEW c \in Cell, NEW d \in Cell, DiscoverBoth(c, d)
    PROVE  LifeStep
<1>1. IInv' /\ client \in Clients
  BY DiscoverBothInv DEF IInv
<1>2. counts \in [Cell -> 0..MaxDepth]
  BY ServerConstants DEF IInv, W!IInv, W!FieldInv
<1> DEFINE s == Locate(client, c)
<1>3. s \in Clients /\ SameCash(client, s)
  BY <1>1, <1>2, LocateKeeps DEF DiscoverBoth, Unknown
<1>4. client' = Locate(s, d) /\ counts[d] > 0
  BY DEF DiscoverBoth, Unknown
<1> HIDE DEF s
<1>5. SameCash(s, client')
  BY <1>2, <1>3, <1>4, LocateKeeps
<1>6. SameCash(client, client')
  BY <1>3, <1>5, SameCashTrans
<1>7. client.status = "running" /\ s.status = "running"
  BY <1>1, <1>2, LocateKeeps DEF DiscoverBoth, Unknown, s
<1>8. client'.status = "running"
  BY <1>2, <1>3, <1>4, <1>7, LocateKeeps
<1> QED  BY <1>1, <1>6, <1>7, <1>8, LocatedLife DEF DiscoverBoth

LEMMA ClockLife ==
    ASSUME IInv, IInv', UNCHANGED <<treasure, registry, client, replies, faults>>
    PROVE  LifeStep
<1>1. \A t : After(t) = Now(t)
  BY DEF After, Now
<1>2. \A t \in TreasureId : Stages'[t] = Stages[t]
  BY <1>1, StageSame
<1> QED  BY <1>2, StagesSame DEF LifeStep, lifeVars

(***************************************************************************)
(* The pool is gone, and with it the calls that none of its workers took.  *)
(***************************************************************************)
LEMMA ExitLife ==
    ASSUME IInv, Exit
    PROVE  LifeStep
<1>1. IInv'
  BY ExitInv
<1>2. /\ treasure' = treasure /\ registry' = registry /\ faults' = faults
      /\ client.status = "stopped" /\ client'.status = "ended"
  <2>1. client \in Clients
    BY DEF IInv
  <2> QED  BY <2>1 DEF Exit, serverVars, Clients
<1>3. \A t : After(t) = 0
  BY <1>2 DEF After, Live
<1>4. \A t \in TreasureId : (Stages'[t] = Stages[t] \/ Dropped(t)) /\ Stages'[t] # "cashing"
  BY <1>1, <1>2, <1>3, StageDrop
<1>5. PICK T \in SUBSET Server!TreasureId :
               /\ Life!LoseAll(T)
               /\ T = {t \in Server!TreasureId : Stages[t] = "cashing"}
  BY <1>4, LifeDropAll
<1>6. T = {t \in Server!TreasureId : [u \in Server!TreasureId |-> StageOf(u)][t] = "cashing"}
  BY <1>5 DEF Stages
<1>7. Life!End
  BY <1>2, <1>5, <1>6 DEF Life!End
<1> QED  BY <1>7 DEF LifeStep, Life!Next

LEMMA NextLife ==
    ASSUME IInv, [Next]_vars
    PROVE  LifeStep
<1>1. IInv'
  BY NextInv
<1>2. ASSUME NEW c \in Cell, Discover(c) PROVE LifeStep
  BY <1>2, DiscoverLife
<1>3. ASSUME NEW c \in Cell, NEW d \in Cell, DiscoverBoth(c, d) PROVE LifeStep
  BY <1>3, DiscoverBothLife
<1>4. ASSUME NEW call \in Calls, Serve(call) PROVE LifeStep
  <2>1. call \in DOMAIN client.calls /\ client.status \in {"running", "stopped"}
    BY <1>4 DEF Calls, BagToSet, Serve
  <2> QED  BY <1>4, <2>1, ServeDigLife, ServeCashLife, ServeLicenseLife, RejectLife DEF Serve
<1>5. ASSUME NEW reply, Handle(reply) PROVE LifeStep
  BY <1>5, HandleLife
<1>6. CASE Tick
  <2>1. UNCHANGED <<treasure, registry, client, replies, faults>>
    BY <1>6 DEF Tick, Server!Tick, Server!fieldVars, Server!treasureVars
  <2> QED  BY <1>1, <2>1, ClockLife
<1>7. CASE Exit
  BY <1>7, ExitLife
<1>8. CASE UNCHANGED vars
  <2>1. UNCHANGED <<treasure, registry, client, replies, faults>>
    BY <1>8 DEF vars, serverVars
  <2> QED  BY <1>1, <2>1, ClockLife
<1> QED  BY <1>2, <1>3, <1>4, <1>5, <1>6, <1>7, <1>8 DEF Next

LEMMA InitLife == Init => Life!Init
<1> SUFFICES ASSUME Init PROVE Life!Init
  OBVIOUS
<1>1. IInv
  BY InitInv
<1>2. DOMAIN registry = {} /\ faults = 0 /\ client.status = "running"
  BY DEF Init, Server!Init
<1>3. ASSUME NEW t \in Server!TreasureId PROVE StageOf(t) \in {"buried", "gone"}
  BY <1>2, <1>3 DEF StageOf
<1> QED  BY <1>2, <1>3 DEF Life!Init

(***************************************************************************)
(* The client implements the life of a treasure: it is dug up from the top *)
(* down and exchanged by exactly one call if it is worth it; while the run *)
(* goes on it is not lost but by a fault, one treasure for each, and what  *)
(* is dug and not exchanged when the run is over is lost (app.cpp:54-87,   *)
(* 245-309).                                                               *)
(***************************************************************************)
THEOREM ImplementsLife == Spec => LifeSpec
<1>1. Init => Life!Init
  BY InitLife
<1>2. IInv /\ [Next]_vars => [Life!Next]_lifeVars
  BY NextLife DEF LifeStep
<1>3. [Life!Next]_lifeVars => [Life!Next]_Life!vars
  BY DEF lifeVars, Stages, Life!vars
<1> QED  BY <1>1, <1>2, <1>3, Invariance, PTL DEF Spec, LifeSpec, Life!Spec

-----------------------------------------------------------------------------
(***************************************************************************)
(* What follows from the life of the treasures.                            *)
(***************************************************************************)
LifeTyped == Stages \in [TreasureId -> Life!Stage] /\ faults \in Nat

LostTreasures == {t \in TreasureId : Stages[t] = "lost"}

(***************************************************************************)
(* While the run goes on, a fault of the network costs one treasure at     *)
(* most: an answer that is late or a call that is refused (app.cpp:68-82). *)
(***************************************************************************)
LossBound == client.status = "running" =>
                 IsFiniteSet(LostTreasures) /\ Cardinality(LostTreasures) <= faults

(***************************************************************************)
(* A treasure the client has, had or lost was on top of its cell when it   *)
(* was dug up: nothing is buried above it (app.cpp:275-282).               *)
(***************************************************************************)
OnTop(t) == \A u \in TreasureId : Life!Above(u, t) => Stages[u] # "buried"

TopDown == \A t \in TreasureId :
               Stages[t] \in {"cashing", "left", "lost"} => OnTop(t)

(***************************************************************************)
(* What becomes of a treasure is final: none is dug up, exchanged, left or *)
(* lost a second time (app.cpp:257-282, 293-309).                          *)
(***************************************************************************)
Final == \A t \in TreasureId :
             /\ Stages[t] \in {"left", "lost", "gone"} => Stages'[t] = Stages[t]
             /\ Stages[t] = "cashing" => Stages'[t] \in {"cashing", "lost", "gone"}

(***************************************************************************)
(* A step moves one treasure at most, along one of these ways, or the run  *)
(* is over.                                                                *)
(***************************************************************************)
Way(t, from, to) ==
    /\ Stages[t] = from
    /\ Stages' = [Stages EXCEPT ![t] = to]
    /\ \/ from = "buried" /\ OnTop(t) /\ to \in {"cashing", "left", "lost"}
       \/ from = "cashing" /\ to \in {"gone", "lost"}

OneWay == /\ \/ Stages' = Stages
             \/ \E t \in TreasureId, from, to \in Life!Stage :
                    /\ Way(t, from, to)
                    /\ client.status = "running" /\ to = "lost" => faults' = faults + 1
          /\ faults' \in {faults, faults + 1}
          /\ client'.status = client.status

Over == /\ client'.status # "running" /\ faults' = faults
        /\ \E T \in SUBSET TreasureId :
              /\ \A t \in T : Stages[t] = "cashing"
              /\ Stages' = [t \in TreasureId |-> IF t \in T THEN "lost" ELSE Stages[t]]

LEMMA LifeIs ==
    /\ Life!Init <=> /\ Stages \in [TreasureId -> {"buried", "gone"}] /\ faults = 0
                     /\ client.status = "running"
    /\ \A t \in TreasureId :
           /\ Life!OnTop(t) <=> OnTop(t)
           /\ \A from, to : Life!Move(t, from, to)
                  <=> Stages[t] = from /\ Stages' = [Stages EXCEPT ![t] = to]
    /\ \A T : Life!LoseAll(T) <=>
           /\ \A t \in T : Stages[t] = "cashing"
           /\ Stages' = [t \in TreasureId |-> IF t \in T THEN "lost" ELSE Stages[t]]
<1> DEFINE f == [t \in Server!TreasureId |-> StageOf(t)]
<1>1. Stages = f /\ TreasureId = Server!TreasureId /\ Stages' = f'
  BY DEF Stages, TreasureId
<1>2. Life!Init <=> /\ f \in [Server!TreasureId -> {"buried", "gone"}] /\ faults = 0
                    /\ client.status = "running"
  BY DEF Life!Init
<1>3. ASSUME NEW t \in TreasureId
      PROVE  Life!OnTop(t) <=> \A u \in Server!TreasureId : Life!Above(u, t) => f[u] # "buried"
  BY DEF Life!OnTop
<1>4. ASSUME NEW t \in TreasureId, NEW from, NEW to
      PROVE  Life!Move(t, from, to) <=> f[t] = from /\ f' = [f EXCEPT ![t] = to]
  BY DEF Life!Move
<1>5. ASSUME NEW T
      PROVE  Life!LoseAll(T) <=>
                 /\ \A t \in T : f[t] = "cashing"
                 /\ f' = [t \in Server!TreasureId |-> IF t \in T THEN "lost" ELSE f[t]]
  BY DEF Life!LoseAll
<1> HIDE DEF f
<1> QED  BY <1>1, <1>2, <1>3, <1>4, <1>5 DEF OnTop

LEMMA Steps ==
    ASSUME LifeTyped, [Life!Next]_lifeVars
    PROVE  OneWay \/ Over
<1> USE DEF LifeTyped
<1>1. CASE UNCHANGED lifeVars
  BY <1>1 DEF lifeVars, OneWay
<1>2. ASSUME NEW t \in TreasureId, Life!Dig(t) \/ Life!Pay(t)
      PROVE  \E from, to \in Life!Stage : Way(t, from, to) /\ to # "lost"
  <2>1. CASE Life!Dig(t)
    <3>1. \E to \in {"cashing", "left"} : Way(t, "buried", to)
      BY <2>1, LifeIs DEF Life!Dig, Way
    <3> QED  BY <3>1 DEF Life!Stage
  <2>2. CASE Life!Pay(t)
    <3>1. Way(t, "cashing", "gone")
      BY <2>2, LifeIs DEF Life!Pay, Way
    <3> QED  BY <3>1 DEF Life!Stage
  <2> QED  BY <1>2, <2>1, <2>2
<1>3. ASSUME NEW t \in TreasureId, Life!Lose(t)
      PROVE  \E from, to \in Life!Stage : Way(t, from, to)
  <2>1. Way(t, "buried", "lost") \/ Way(t, "buried", "left") \/ Way(t, "cashing", "lost")
    BY <1>3, LifeIs DEF Life!Lose, Way
  <2> QED  BY <2>1 DEF Life!Stage
<1>4. CASE Life!Progress
  <2>1. client'.status = client.status /\ faults' = faults
    BY <1>4 DEF Life!Progress
  <2>2. PICK t \in TreasureId : Life!Dig(t) \/ Life!Pay(t)
    BY <1>4 DEF Life!Progress, TreasureId
  <2>3. PICK from \in Life!Stage, to \in Life!Stage : Way(t, from, to) /\ to # "lost"
    BY <1>2, <2>2
  <2> QED  BY <2>1, <2>3 DEF OneWay
<1>5. CASE Life!Fault
  <2>1. client'.status = client.status /\ faults' = faults + 1
    BY <1>5 DEF Life!Fault
  <2>2. CASE Stages' = Stages
    BY <2>1, <2>2 DEF OneWay
  <2>3. ASSUME NEW t \in TreasureId, Life!Dig(t) \/ Life!Pay(t) \/ Life!Lose(t) PROVE OneWay
    <3>1. PICK from \in Life!Stage, to \in Life!Stage : Way(t, from, to)
      BY <1>2, <1>3, <2>3
    <3> QED  BY <2>1, <3>1 DEF OneWay
  <2> QED  BY <1>5, <2>2, <2>3 DEF Life!Fault, Stages, TreasureId
<1>6. CASE Life!Complete
  <2>1. /\ client'.status = client.status /\ faults' \in {faults, faults + 1}
        /\ client.status # "running"
    BY <1>6 DEF Life!Complete
  <2>2. CASE Stages' = Stages
    BY <2>1, <2>2 DEF OneWay
  <2>3. ASSUME NEW t \in TreasureId, Life!Pay(t) \/ Life!Lose(t) PROVE OneWay
    <3>1. PICK from \in Life!Stage, to \in Life!Stage : Way(t, from, to)
      BY <1>2, <1>3, <2>3
    <3> QED  BY <2>1, <3>1 DEF OneWay
  <2> QED  BY <1>6, <2>2, <2>3 DEF Life!Complete, Stages, TreasureId
<1>7. CASE Life!Break \/ Life!End
  <2>1. client'.status # "running" /\ faults' = faults
    BY <1>7 DEF Life!Break, Life!End
  <2>2. PICK T \in SUBSET Server!TreasureId : Life!LoseAll(T)
    <3>1. CASE Life!Break
      BY <3>1 DEF Life!Break
    <3>2. CASE Life!End
      BY <3>2, Zenon DEF Life!End
    <3> QED  BY <1>7, <3>1, <3>2
  <2> QED  BY <2>1, <2>2, LifeIs DEF Over, TreasureId
<1> QED  BY <1>1, <1>4, <1>5, <1>6, <1>7 DEF Life!Next

LEMMA LifeStarts == Life!Init => LifeTyped /\ LossBound /\ TopDown
<1> SUFFICES ASSUME Life!Init PROVE LifeTyped /\ LossBound /\ TopDown
  OBVIOUS
<1>1. Stages \in [TreasureId -> {"buried", "gone"}] /\ faults = 0
  BY LifeIs
<1>2. LostTreasures = {}
  BY <1>1 DEF LostTreasures
<1>3. IsFiniteSet({}) /\ Cardinality({}) = 0
  BY FS_EmptySet
<1>4. LossBound
  BY <1>1, <1>2, <1>3 DEF LossBound
<1> QED  BY <1>1, <1>4 DEF LifeTyped, Life!Stage, TopDown

LEMMA LifeTypeKept == LifeTyped /\ [Life!Next]_lifeVars => LifeTyped'
<1> SUFFICES ASSUME LifeTyped, [Life!Next]_lifeVars PROVE LifeTyped'
  OBVIOUS
<1>1. Life!Stage' = Life!Stage /\ TreasureId' = TreasureId
  BY DEF Life!Stage, TreasureId, Server!TreasureId
<1>2. CASE OneWay
  BY <1>1, <1>2 DEF OneWay, LifeTyped, Way
<1>3. CASE Over
  <2>1. "lost" \in Life!Stage
    BY DEF Life!Stage
  <2>2. PICK T : Stages' = [t \in TreasureId |-> IF t \in T THEN "lost" ELSE Stages[t]]
    BY <1>3 DEF Over
  <2>3. Stages' \in [TreasureId -> Life!Stage]
    BY <2>1, <2>2 DEF LifeTyped
  <2> QED  BY <1>1, <1>3, <2>3 DEF Over, LifeTyped
<1> QED  BY <1>2, <1>3, Steps

LEMMA LossBoundKept == LifeTyped /\ LossBound /\ [Life!Next]_lifeVars => LossBound'
<1> SUFFICES ASSUME LifeTyped, LossBound, [Life!Next]_lifeVars, client'.status = "running"
             PROVE  IsFiniteSet(LostTreasures') /\ Cardinality(LostTreasures') <= faults'
  BY DEF LossBound
<1>0. LostTreasures' = {t \in TreasureId : Stages'[t] = "lost"}
  BY DEF LostTreasures
<1>1. OneWay /\ client.status = "running"
  BY Steps DEF OneWay, Over
<1>2. IsFiniteSet(LostTreasures) /\ Cardinality(LostTreasures) <= faults
  BY <1>1 DEF LossBound
<1>3. Cardinality(LostTreasures) \in Nat /\ faults \in Nat
  BY <1>2, FS_CardinalityType DEF LifeTyped
<1>4. faults' \in {faults, faults + 1}
  BY <1>1 DEF OneWay
<1>5. CASE Stages' = Stages
  <2>1. LostTreasures' = LostTreasures
    BY <1>0, <1>5 DEF LostTreasures
  <2> QED  BY <1>2, <1>3, <1>4, <2>1
<1>6. ASSUME NEW t \in TreasureId, NEW from \in Life!Stage, NEW to \in Life!Stage,
             Way(t, from, to), to = "lost" => faults' = faults + 1
      PROVE  IsFiniteSet(LostTreasures') /\ Cardinality(LostTreasures') <= faults'
  <2>2. CASE to = "lost"
    <3>1. t \notin LostTreasures /\ LostTreasures' = LostTreasures \cup {t}
      BY <1>0, <1>6, <2>2 DEF Way, LostTreasures, LifeTyped
    <3>2. /\ IsFiniteSet(LostTreasures')
          /\ Cardinality(LostTreasures') = Cardinality(LostTreasures) + 1
      BY <1>2, <3>1, FS_AddElement
    <3> QED  BY <1>2, <1>3, <1>6, <2>2, <3>2
  <2>3. CASE to # "lost"
    <3>1. LostTreasures' = LostTreasures
      BY <1>0, <1>6, <2>3 DEF Way, LostTreasures, LifeTyped
    <3> QED  BY <1>2, <1>3, <1>4, <3>1
  <2> QED  BY <2>2, <2>3
<1> QED  BY <1>1, <1>5, <1>6 DEF OneWay

LEMMA TopDownKept == LifeTyped /\ TopDown /\ [Life!Next]_lifeVars => TopDown'
<1> SUFFICES ASSUME LifeTyped, TopDown, [Life!Next]_lifeVars PROVE TopDown'
  OBVIOUS
<1>0. TopDown' <=> \A t \in TreasureId : Stages'[t] \in {"cashing", "left", "lost"} =>
                       \A u \in TreasureId : Life!Above(u, t) => Stages'[u] # "buried"
  BY DEF TopDown, OnTop, Life!Above
<1>1. CASE Stages' = Stages
  BY <1>0, <1>1 DEF TopDown, OnTop
<1>2. ASSUME NEW t \in TreasureId, NEW from \in Life!Stage, NEW to \in Life!Stage,
             Way(t, from, to)
      PROVE  TopDown'
  <2>1. \A u \in TreasureId : Stages'[u] = "buried" => Stages[u] = "buried"
    BY <1>2 DEF Way, LifeTyped
  <2>2. OnTop(t) \/ from = "cashing"
    BY <1>2 DEF Way
  <2>3. OnTop(t)
    BY <1>2, <2>2 DEF TopDown, Way
  <2>4. \A u \in TreasureId : u # t => Stages'[u] = Stages[u]
    BY <1>2 DEF Way, LifeTyped
  <2> QED  BY <1>0, <2>1, <2>3, <2>4 DEF TopDown, OnTop
<1>3. CASE Over
  <2>1. \A u \in TreasureId :
            /\ Stages'[u] = "buried" => Stages[u] = "buried"
            /\ Stages'[u] \in {"cashing", "left", "lost"} => Stages[u] \in {"cashing", "left", "lost"}
    BY <1>3 DEF Over
  <2>2. ASSUME NEW t \in TreasureId, Stages'[t] \in {"cashing", "left", "lost"},
               NEW u \in TreasureId, Life!Above(u, t)
        PROVE  Stages'[u] # "buried"
    BY <2>1, <2>2 DEF TopDown, OnTop
  <2> QED  BY <1>0, <2>2
<1> QED  BY <1>1, <1>2, <1>3, Steps DEF OneWay

LEMMA FinalKept == LifeTyped /\ [Life!Next]_lifeVars => Final
<1> SUFFICES ASSUME LifeTyped, [Life!Next]_lifeVars PROVE Final
  OBVIOUS
<1>1. CASE OneWay
  BY <1>1 DEF OneWay, LifeTyped, Way, Final
<1>2. CASE Over
  BY <1>2 DEF Over, LifeTyped, Final
<1> QED  BY <1>1, <1>2, Steps

LEMMA LifeImplies ==
    LifeSpec => []LossBound /\ []TopDown /\ [][Final]_lifeVars
<1>1. LifeSpec => Life!Init /\ [][Life!Next]_lifeVars
  <2>1. [Life!Next]_Life!vars => [Life!Next]_lifeVars
    BY DEF lifeVars, Stages, Life!vars
  <2> QED  BY <2>1, PTL DEF LifeSpec, Life!Spec
<1>2. LifeTyped /\ [Life!Next]_lifeVars => [Final]_lifeVars
  BY FinalKept
<1> QED
  BY <1>1, <1>2, LifeStarts, LifeTypeKept, LossBoundKept, TopDownKept, PTL

(***************************************************************************)
(* However calls, faults and retries interleave: as long as the run goes   *)
(* on, the client has lost no more treasures than the network had faults.  *)
(***************************************************************************)
THEOREM OneLossPerFault == Spec => []LossBound
BY ImplementsLife, LifeImplies, PTL

(***************************************************************************)
(* The client digs every cell from the top down: nothing is buried above a *)
(* treasure it has dug up, is exchanging or has lost.                      *)
(***************************************************************************)
THEOREM DugTopDown == Spec => []TopDown
BY ImplementsLife, LifeImplies, PTL

(***************************************************************************)
(* No treasure is dug up, exchanged, left or lost twice by the client,     *)
(* whether its run goes on, stops or has ended.                            *)
(***************************************************************************)
THEOREM EndsAreFinal == Spec => [][Final]_lifeVars
BY ImplementsLife, LifeImplies, PTL

-----------------------------------------------------------------------------
(***************************************************************************)
(* The slots. As long as the numbers of the licences in use are distinct,  *)
(* the client knows which licence each dig was made under: what a number   *)
(* owes is exactly what is to spare and under way, a used-up slot with the *)
(* number of one in use comes behind it, where getLicenseById does not     *)
(* find it, and each slot is in use or has a licence on its way.           *)
(***************************************************************************)
Settled(lic, B, R, n) ==
    /\ \A i \in 1..Slots : /\ lic[i].confirmed <= lic[i].used
                           /\ lic[i].used <= lic[i].allowed
    /\ \A L \in Nat : Spare(lic, L) + Count(B, DigCallsOf(L))
                          + Count(R, DigRepliesOf(L)) = Owed(lic, L)
    /\ \A i \in Busy(lic) : \A j \in (1..Slots) \ Busy(lic) :
           lic[i].id = lic[j].id => i < j
    /\ Count(B, LicenseCalls) + Count(R, LicenseReplies)
           + Cardinality(Busy(lic)) + n = Slots

Distinct(lic) == \A i, j \in Busy(lic) : lic[i].id = lic[j].id => i = j

LEMMA SettledBudget ==
    ASSUME NEW lic \in Licenses, NEW B, IsBagOf(B, AnyCall), NEW R, IsBagOf(R, AnyReply),
           NEW n, Settled(lic, B, R, n)
    PROVE  Budget(lic, B, R)
<1>1. ASSUME NEW L \in Nat
      PROVE  Spare(lic, L) + Count(B, DigCallsOf(L)) + Count(R, DigRepliesOf(L))
                 <= Owed(lic, L)
  <2>1. Owed(lic, L) \in Int
    BY SlotSums
  <2>2. Spare(lic, L) + Count(B, DigCallsOf(L)) + Count(R, DigRepliesOf(L)) = Owed(lic, L)
    BY DEF Settled
  <2> QED  BY <2>1, <2>2
<1> QED  BY <1>1 DEF Settled, Budget

LEMMA FrameSettled ==
    ASSUME NEW lic, NEW n,
           NEW B, NEW C, Agree(B, C, DigCalls), Agree(B, C, LicenseCalls),
           NEW R, NEW Q, Agree(R, Q, DigReplies), Agree(R, Q, LicenseReplies),
           Settled(lic, B, R, n)
    PROVE  Settled(lic, C, Q, n)
<1>1. \A L : /\ Count(C, DigCallsOf(L)) = Count(B, DigCallsOf(L))
             /\ Count(Q, DigRepliesOf(L)) = Count(R, DigRepliesOf(L))
  BY Parts DEF Agree
<1>2. /\ Count(C, LicenseCalls) = Count(B, LicenseCalls)
      /\ Count(Q, LicenseReplies) = Count(R, LicenseReplies)
  BY DEF Agree
<1> QED  BY <1>1, <1>2 DEF Settled

\* a dig is made under a licence that has one to spare
LEMMA AssignSettled ==
    ASSUME NEW B, IsBagOf(B, AnyCall), NEW C, IsBagOf(C, AnyCall),
           NEW call \in DigCalls, More(C, B, call),
           NEW R, IsBagOf(R, AnyReply), NEW lic \in Licenses,
           NEW i \in 1..Slots, lic[i].allowed # lic[i].used, call.license = lic[i].id,
           NEW new, UsesOne(lic, new, i), NEW n, Settled(lic, B, R, n)
    PROVE  Settled(new, C, R, n)
<1>1. /\ \A L : Spare(new, L) + Count(C, DigCallsOf(L))
                    = Spare(lic, L) + Count(B, DigCallsOf(L))
      /\ \A L : Owed(new, L) = Owed(lic, L)
      /\ Busy(new) = Busy(lic)
      /\ Budget(new, C, R)
  BY SettledBudget, AssignBudget
<1>2. \A j \in 1..Slots : /\ new[j].id = lic[j].id /\ new[j].confirmed = lic[j].confirmed
                          /\ new[j].used = lic[j].used + (IF j = i THEN 1 ELSE 0)
                          /\ lic[j].used \in Nat /\ lic[j].confirmed \in Nat
  BY SlotType DEF UsesOne, Licenses, Slot
<1>3. \A j \in 1..Slots : new[j].confirmed <= new[j].used /\ new[j].used <= new[j].allowed
  BY <1>1, <1>2 DEF Settled, Budget
<1>4. ASSUME NEW L \in Nat
      PROVE  Spare(new, L) + Count(C, DigCallsOf(L)) + Count(R, DigRepliesOf(L))
                 = Owed(new, L)
  BY <1>1 DEF Settled
<1>5. \A j \in Busy(new) : \A k \in (1..Slots) \ Busy(new) : new[j].id = new[k].id => j < k
  <2>1. Busy(lic) \subseteq 1..Slots
    BY DEF Busy
  <2> QED  BY <1>1, <1>2, <2>1 DEF Settled
<1>6. Count(C, LicenseCalls) = Count(B, LicenseCalls)
  <2>1. call \notin LicenseCalls
    BY CallKinds
  <2>2. Agree(B, C, LicenseCalls)
    BY <2>1, AgreeIs
  <2> QED  BY <2>2 DEF Agree
<1> QED  BY <1>1, <1>3, <1>4, <1>5, <1>6 DEF Settled

LEMMA DigSettled ==
    ASSUME NEW s \in Clients, NEW dig \in Digs, NEW R, IsBagOf(R, AnyReply), NEW n,
           Settled(s.licenses, s.calls, R, n)
    PROVE  /\ ScheduleDig(s, dig) \in Clients
           /\ ScheduleDig(s, dig).status = s.status
           /\ Settled(ScheduleDig(s, dig).licenses, ScheduleDig(s, dig).calls, R, n)
<1> DEFINE t == ScheduleDig(s, dig)
<1>1. t \in Clients /\ (Assigned(s, t, dig) \/ Delayed(s, t, dig))
  BY ScheduleDigIs
<1> HIDE DEF t
<1>2. /\ IsBagOf(s.calls, AnyCall) /\ IsBagOf(t.calls, AnyCall)
      /\ s.licenses \in Licenses
  BY <1>1, ClientType
<1>3. CASE Delayed(s, t, dig)
  BY <1>1, <1>3 DEF Delayed, t
<1>4. CASE Assigned(s, t, dig)
  <2>1. PICK i \in 1..Slots :
            /\ s.licenses[i].allowed # s.licenses[i].used
            /\ t.licenses = [s.licenses EXCEPT ![i].used = @ + 1]
            /\ More(t.calls, s.calls, DigCall(s.licenses[i].id, dig))
    BY <1>4 DEF Assigned
  <2> DEFINE call == DigCall(s.licenses[i].id, dig)
  <2>2. s.licenses[i].id \in Nat
    BY <1>2, SlotType
  <2>3. call \in DigCalls /\ call.license = s.licenses[i].id
    BY <2>2 DEF DigCall, DigCalls, Digs
  <2>4. UsesOne(s.licenses, t.licenses, i)
    BY <2>1 DEF UsesOne
  <2> HIDE DEF call
  <2>5. More(t.calls, s.calls, call)
    BY <2>1 DEF call
  <2>6. Settled(t.licenses, t.calls, R, n)
    BY <1>2, <2>1, <2>3, <2>4, <2>5, AssignSettled
  <2> QED  BY <1>1, <1>4, <2>6 DEF Assigned, t
<1> QED  BY <1>1, <1>3, <1>4

LEMMA IssueSettled ==
    ASSUME NEW s \in Clients, NEW R, IsBagOf(R, AnyReply), NEW n \in Nat,
           Settled(s.licenses, s.calls, R, n + 1)
    PROVE  /\ ScheduleIssueLicense(s) \in Clients
           /\ ScheduleIssueLicense(s).status = s.status
           /\ ScheduleIssueLicense(s).left = s.left
           /\ Settled(ScheduleIssueLicense(s).licenses, ScheduleIssueLicense(s).calls, R, n)
<1> DEFINE t == ScheduleIssueLicense(s)
<1>1. t \in Clients /\ Requested(s, t)
  BY ScheduleIssueLicenseIs
<1> HIDE DEF t
<1>2. PICK call \in LicenseCalls : More(t.calls, s.calls, call)
  BY <1>1 DEF Requested
<1>3. IsBagOf(s.calls, AnyCall) /\ IsBagOf(t.calls, AnyCall)
  BY <1>1, ClientType
<1>4. \A L : Count(t.calls, DigCallsOf(L)) = Count(s.calls, DigCallsOf(L))
  <2>1. call \notin DigCalls
    BY CallKinds
  <2>2. Agree(s.calls, t.calls, DigCalls)
    BY <1>2, <1>3, <2>1, AgreeIs
  <2> QED  BY <2>2, Parts DEF Agree
<1>5. Count(t.calls, LicenseCalls) = Count(s.calls, LicenseCalls) + 1
  BY <1>2 DEF More
<1>6. /\ Count(s.calls, LicenseCalls) \in Nat /\ Count(R, LicenseReplies) \in Nat
      /\ Cardinality(Busy(s.licenses)) \in Nat
  BY <1>3, CountType, BusyFinite
<1>7. t.licenses = s.licenses
  BY <1>1 DEF Requested
<1>8. Count(s.calls, LicenseCalls) + Count(R, LicenseReplies)
          + Cardinality(Busy(s.licenses)) + (n + 1) = Slots
  BY DEF Settled
<1>9. Count(t.calls, LicenseCalls) + Count(R, LicenseReplies)
          + Cardinality(Busy(t.licenses)) + n = Slots
  BY <1>5, <1>6, <1>7, <1>8
<1>10. Settled(t.licenses, t.calls, R, n)
  BY <1>4, <1>7, <1>9 DEF Settled
<1> QED  BY <1>1, <1>10 DEF Requested, t

LEMMA QueueSettled ==
    ASSUME NEW s \in Clients, NEW R, IsBagOf(R, AnyReply), NEW n,
           Settled(s.licenses, s.calls, R, n)
    PROVE  Settled(ScheduleQueuedDigs(s).licenses, ScheduleQueuedDigs(s).calls, R, n)
<1> DEFINE q == s.digQueue
           m == Len(q)
           first == [s EXCEPT !.digQueue = <<>>]
<1>1. /\ q \in Seq(Digs) /\ m \in Nat /\ DOMAIN q = 1..m
      /\ \A i \in 1..m : q[i] \in Digs
  BY ClientType, LenProperties, ElementOfSeq
<1>2. PICK run : /\ ScheduleQueuedDigs(s) = run[1..m]
                 /\ run[1..0] = first
                 /\ \A k \in 0..(m - 1) :
                       run[1..(k + 1)] = ScheduleDig(run[1..k], q[k + 1])
  BY <1>1, RunSteps
<1>3. first \in Clients /\ Settled(first.licenses, first.calls, R, n)
  <2>1. <<>> \in Seq(Digs)
    BY EmptySeq
  <2>2. first \in Clients /\ first.calls = s.calls /\ first.licenses = s.licenses
    BY <2>1 DEF Clients
  <2> QED  BY <2>2
<1> HIDE DEF first, m, q
<1> DEFINE Good(k) == /\ run[1..k] \in Clients
                      /\ Settled(run[1..k].licenses, run[1..k].calls, R, n)
           P == {k \in Nat : k <= m => Good(k)}
<1>4. 0 \in P
  BY <1>2, <1>3
<1>5. ASSUME NEW k \in Nat, k \in P PROVE k + 1 \in P
  <2> SUFFICES ASSUME k + 1 <= m PROVE Good(k + 1)
    OBVIOUS
  <2> DEFINE t == run[1..k]
             dig == q[k + 1]
  <2>1. k <= m /\ k \in 0..(m - 1) /\ k + 1 \in 1..m
    BY <1>1
  <2>2. t \in Clients /\ Settled(t.licenses, t.calls, R, n)
    BY <1>5, <2>1
  <2>3. run[1..(k + 1)] = ScheduleDig(t, dig)
    BY <1>2, <2>1
  <2>4. dig \in Digs
    BY <1>1, <2>1
  <2> HIDE DEF t, dig
  <2>5. /\ ScheduleDig(t, dig) \in Clients
        /\ Settled(ScheduleDig(t, dig).licenses, ScheduleDig(t, dig).calls, R, n)
    BY <2>2, <2>4, DigSettled
  <2> QED  BY <2>3, <2>5
<1>6. Nat \subseteq P
  <2> HIDE DEF P
  <2> QED  BY <1>4, <1>5, SetInduction
<1>7. Good(m)
  BY <1>1, <1>6
<1> QED  BY <1>2, <1>7
-----------------------------------------------------------------------------
(***************************************************************************)
(* The answer of a dig: it is confirmed for the licence it was made under, *)
(* and a licence used up is asked for again.                               *)
(***************************************************************************)
LEMMA FirstSlotLeast ==
    ASSUME NEW S \in SUBSET (1..Slots), S # {}
    PROVE  Min(S) \in S /\ \A x \in S : Min(S) <= x
<1>1. S \subseteq Nat
  BY GoldRushAssumption
<1> QED  BY <1>1, HasMin

\* a dig under way has a slot that waits for its confirmation
LEMMA WaitingSlot ==
    ASSUME NEW lic \in Licenses, NEW B, IsBagOf(B, AnyCall), NEW R, IsBagOf(R, AnyReply),
           NEW n, Settled(lic, B, R, n), NEW r \in DigReplies, r \in DOMAIN R
    PROVE  \E j \in 1..Slots : /\ lic[j].id = r.call.license
                               /\ lic[j].confirmed < lic[j].used
<1> DEFINE L == r.call.license
           f == Owing(lic, L)
           g == Sparing(lic, L)
<1> SUFFICES ASSUME \A j \in 1..Slots : lic[j].id = L => ~(lic[j].confirmed < lic[j].used)
             PROVE  FALSE
  OBVIOUS
<1>1. L \in Nat
  BY ReplyType
<1>2. Count(R, DigRepliesOf(L)) \in Nat /\ Count(R, DigRepliesOf(L)) >= 1
  <2>1. r \in DOMAIN R \cap DigRepliesOf(L)
    BY DEF DigRepliesOf
  <2>2. R[r] \in Nat
    BY DEF IsBagOf
  <2>3. /\ Count(R, DigRepliesOf(L)) \in Nat
        /\ 1 <= R[r] /\ R[r] <= Count(R, DigRepliesOf(L))
    BY <2>1, CountType
  <2> QED  BY <2>2, <2>3
<1>3. \A j \in 1..Slots : f[j] = g[j] /\ g[j] \in Int
  <2> SUFFICES ASSUME NEW j \in 1..Slots PROVE f[j] = g[j] /\ g[j] \in Int
    OBVIOUS
  <2>1. /\ lic[j].allowed \in Nat /\ lic[j].used \in Nat /\ lic[j].confirmed \in Nat
        /\ lic[j].confirmed <= lic[j].used
    BY SlotType DEF Settled
  <2>2. lic[j].id = L => lic[j].confirmed = lic[j].used
    BY <2>1
  <2> QED  BY <2>1, <2>2 DEF Owing, Sparing
<1>4. IsFiniteSet(1..Slots)
  BY FS_Interval, GoldRushAssumption
<1> HIDE DEF f, g
<1>5. Sum(f, 1..Slots) = Sum(g, 1..Slots)
  BY <1>3, <1>4, SumEqual
<1>6. Owed(lic, L) = Spare(lic, L)
  BY <1>5 DEF Owed, Spare, f, g
<1>7. Spare(lic, L) \in Int /\ Count(B, DigCallsOf(L)) \in Nat
  BY SlotSums, CountType
<1>8. Spare(lic, L) + Count(B, DigCallsOf(L)) + Count(R, DigRepliesOf(L)) = Owed(lic, L)
  BY <1>1 DEF Settled
<1> QED  BY <1>2, <1>6, <1>7, <1>8

\* getLicenseById finds it
LEMMA RightSlot ==
    ASSUME NEW lic \in Licenses, Distinct(lic),
           NEW B, IsBagOf(B, AnyCall), NEW R, IsBagOf(R, AnyReply),
           NEW n, Settled(lic, B, R, n), NEW r \in DigReplies, r \in DOMAIN R,
           NEW S, S = {j \in 1..Slots : lic[j].id = r.call.license}
    PROVE  /\ S # {} /\ Min(S) \in 1..Slots /\ lic[Min(S)].id = r.call.license
           /\ lic[Min(S)].confirmed < lic[Min(S)].used
           /\ Min(S) \in Busy(lic)
<1>1. PICK j \in 1..Slots : /\ lic[j].id = r.call.license
                            /\ lic[j].confirmed < lic[j].used
  BY WaitingSlot
<1>2. j \in S /\ S \in SUBSET (1..Slots)
  BY <1>1
<1>3. Min(S) \in S /\ Min(S) <= j
  BY <1>2, FirstSlotLeast
<1> DEFINE i == Min(S)
<1>4. i \in 1..Slots /\ lic[i].id = r.call.license /\ i \in Nat /\ j \in Nat
  BY <1>3, GoldRushAssumption
<1> HIDE DEF i
<1>5. j \in Busy(lic)
  <2>1. /\ lic[j].allowed \in Nat /\ lic[j].used \in Nat /\ lic[j].confirmed \in Nat
        /\ lic[j].used <= lic[j].allowed
    BY SlotType DEF Settled
  <2> QED  BY <1>1, <2>1 DEF Busy
<1>6. i \in Busy(lic)
  <2> SUFFICES ASSUME i \notin Busy(lic) PROVE FALSE
    OBVIOUS
  <2>1. j < i
    BY <1>1, <1>4, <1>5 DEF Settled
  <2> QED  BY <1>3, <1>4, <2>1 DEF i
<1>7. i = j
  BY <1>1, <1>4, <1>5, <1>6 DEF Distinct
<1> QED  BY <1>1, <1>2, <1>4, <1>6, <1>7 DEF i

LEMMA TakeSettled ==
    ASSUME NEW B, IsBagOf(B, AnyCall), NEW R, IsBagOf(R, AnyReply),
           NEW Q, IsBagOf(Q, AnyReply), NEW r \in DigReplies, More(R, Q, r),
           NEW lic \in Licenses, Distinct(lic), Settled(lic, B, R, 0),
           NEW i \in 1..Slots, lic[i].id = r.call.license, i \in Busy(lic),
           lic[i].confirmed < lic[i].used,
           NEW new, ConfirmsOne(lic, new, i)
    PROVE  Settled(new, B, Q, IF Done(new[i]) THEN 1 ELSE 0)
<1> DEFINE n == IF Done(new[i]) THEN 1 ELSE 0
<1>1. /\ new \in Licenses
      /\ \A j \in 1..Slots : /\ new[j].id = lic[j].id /\ new[j].allowed = lic[j].allowed
                             /\ new[j].used = lic[j].used
                             /\ new[j].confirmed =
                                    lic[j].confirmed + (IF j = i THEN 1 ELSE 0)
      /\ \A L : /\ Spare(new, L) = Spare(lic, L)
                /\ Owed(new, L) = Owed(lic, L) - (IF lic[i].id = L THEN 1 ELSE 0)
  BY TakeSlot
<1>2. \A j \in 1..Slots : new[j].confirmed <= new[j].used /\ new[j].used <= new[j].allowed
  <2> SUFFICES ASSUME NEW j \in 1..Slots
               PROVE  new[j].confirmed <= new[j].used /\ new[j].used <= new[j].allowed
    OBVIOUS
  <2>1. /\ lic[j].allowed \in Nat /\ lic[j].used \in Nat /\ lic[j].confirmed \in Nat
        /\ lic[j].used <= lic[j].allowed /\ lic[j].confirmed <= lic[j].used
    BY SlotType DEF Settled
  <2> QED  BY <1>1, <2>1
<1>3. ASSUME NEW L \in Nat
      PROVE  Spare(new, L) + Count(B, DigCallsOf(L)) + Count(Q, DigRepliesOf(L))
                 = Owed(new, L)
  <2>1. Count(R, DigRepliesOf(L)) = Count(Q, DigRepliesOf(L))
                                        + (IF lic[i].id = L THEN 1 ELSE 0)
    BY DEF More, DigRepliesOf
  <2>2. /\ Count(B, DigCallsOf(L)) \in Nat /\ Count(Q, DigRepliesOf(L)) \in Nat
        /\ Spare(lic, L) \in Int /\ Owed(lic, L) \in Int
    BY CountType, SlotSums
  <2>3. Spare(lic, L) + Count(B, DigCallsOf(L)) + Count(R, DigRepliesOf(L)) = Owed(lic, L)
    BY DEF Settled
  <2> QED  BY <1>1, <2>1, <2>2, <2>3
<1>4. Busy(new) = IF Done(new[i]) THEN Busy(lic) \ {i} ELSE Busy(lic)
  <2>1. ASSUME NEW j \in 1..Slots, j # i PROVE j \in Busy(new) <=> j \in Busy(lic)
    BY <1>1, <2>1, SlotType DEF Busy
  <2>2. i \in Busy(new) <=> ~Done(new[i])
    <3>1. /\ new[i].allowed \in Nat /\ new[i].used \in Nat /\ new[i].confirmed \in Nat
          /\ new[i].used <= new[i].allowed /\ new[i].confirmed <= new[i].used
      BY <1>1, <1>2, SlotType
    <3> QED  BY <3>1 DEF Busy, Done
  <2>3. Busy(new) \subseteq 1..Slots /\ Busy(lic) \subseteq 1..Slots
    BY DEF Busy
  <2> QED  BY <2>1, <2>2, <2>3
<1>5. Cardinality(Busy(new)) + n = Cardinality(Busy(lic))
  <2>1. IsFiniteSet(Busy(lic)) /\ Cardinality(Busy(lic)) \in Nat
    BY BusyFinite
  <2>2. CASE Done(new[i])
    <3>1. Cardinality(Busy(lic) \ {i}) = Cardinality(Busy(lic)) - 1
      BY <2>1, FS_RemoveElement
    <3> QED  BY <1>4, <2>1, <2>2, <3>1
  <2>3. CASE ~Done(new[i])
    BY <1>4, <2>1, <2>3
  <2> QED  BY <2>2, <2>3
<1>6. ASSUME NEW j \in Busy(new), NEW k \in (1..Slots) \ Busy(new), new[j].id = new[k].id
      PROVE  j < k
  <2>1. j \in Busy(lic) /\ j \in 1..Slots /\ lic[j].id = lic[k].id
    BY <1>1, <1>4, <1>6 DEF Busy
  <2>2. CASE k \in Busy(lic)
    BY <1>4, <2>1, <2>2 DEF Distinct
  <2>3. CASE k \notin Busy(lic)
    BY <2>1, <2>3 DEF Settled
  <2> QED  BY <2>2, <2>3
<1>7. Count(Q, LicenseReplies) = Count(R, LicenseReplies)
  <2>1. Agree(R, Q, LicenseReplies)
    BY AgreeIs, ReplyKinds
  <2> QED  BY <2>1 DEF Agree
<1>8. Count(B, LicenseCalls) + Count(Q, LicenseReplies) + Cardinality(Busy(new)) + n = Slots
  <2>1. /\ Count(B, LicenseCalls) \in Nat /\ Count(R, LicenseReplies) \in Nat
        /\ Cardinality(Busy(lic)) \in Nat /\ Cardinality(Busy(new)) \in Nat
    BY CountType, BusyFinite
  <2>2. Count(B, LicenseCalls) + Count(R, LicenseReplies) + Cardinality(Busy(lic)) + 0 = Slots
    BY DEF Settled
  <2>3. n \in Nat
    OBVIOUS
  <2> HIDE DEF n
  <2> QED  BY <1>5, <1>7, <2>1, <2>2, <2>3
<1> QED  BY <1>2, <1>3, <1>6, <1>8 DEF Settled

LEMMA ConfirmSettled ==
    ASSUME NEW s \in Clients,
           NEW R, IsBagOf(R, AnyReply), NEW Q, IsBagOf(Q, AnyReply),
           NEW r \in DigReplies, More(R, Q, r),
           Distinct(s.licenses), Settled(s.licenses, s.calls, R, 0),
           NEW i \in 1..Slots, s.licenses[i].id = r.call.license, i \in Busy(s.licenses),
           s.licenses[i].confirmed < s.licenses[i].used
    PROVE  /\ Confirm(s, i) \in Clients
           /\ Confirm(s, i).status = s.status
           /\ Confirm(s, i).left = s.left
           /\ Settled(Confirm(s, i).licenses, Confirm(s, i).calls, Q, 0)
<1> DEFINE new == [s.licenses EXCEPT ![i].confirmed = @ + 1]
           t == [s EXCEPT !.licenses[i].confirmed = @ + 1]
<1>1. s.licenses \in Licenses /\ IsBagOf(s.calls, AnyCall)
  BY ClientType
<1>2. ConfirmsOne(s.licenses, new, i)
  BY DEF ConfirmsOne
<1>3. t = [s EXCEPT !.licenses = new]
  BY DEF Clients
<1> HIDE DEF new
<1>4. new \in Licenses
  BY <1>1, <1>2, TakeSlot
<1>5. /\ t \in Clients /\ t.licenses = new /\ t.calls = s.calls
      /\ t.left = s.left /\ t.status = s.status
  <2> HIDE DEF t
  <2>1. /\ [s EXCEPT !.licenses = new] \in Clients
        /\ [s EXCEPT !.licenses = new].licenses = new
        /\ [s EXCEPT !.licenses = new].calls = s.calls
        /\ [s EXCEPT !.licenses = new].left = s.left
        /\ [s EXCEPT !.licenses = new].status = s.status
    BY <1>4 DEF Clients, Licenses
  <2> QED  BY <1>3, <2>1
<1>6. Confirm(s, i) = IF Done(t.licenses[i]) THEN ScheduleIssueLicense(t) ELSE t
  BY DEF Confirm
<1> HIDE DEF t
<1>7. Settled(new, s.calls, Q, IF Done(new[i]) THEN 1 ELSE 0)
  BY <1>1, <1>2, TakeSettled
<1>8. CASE Done(t.licenses[i])
  <2>1. Settled(t.licenses, t.calls, Q, 0 + 1)
    BY <1>5, <1>7, <1>8
  <2>2. /\ ScheduleIssueLicense(t) \in Clients
        /\ ScheduleIssueLicense(t).status = t.status
        /\ ScheduleIssueLicense(t).left = t.left
        /\ Settled(ScheduleIssueLicense(t).licenses, ScheduleIssueLicense(t).calls, Q, 0)
    BY <1>5, <2>1, IssueSettled
  <2> QED  BY <1>5, <1>6, <1>8, <2>2
<1>9. CASE ~Done(t.licenses[i])
  <2>1. Settled(t.licenses, t.calls, Q, 0)
    BY <1>5, <1>7, <1>9
  <2> QED  BY <1>5, <1>6, <1>9, <2>1
<1> QED  BY <1>8, <1>9

\* a treasure was found: its exchange takes no licence
LEMMA FoundSettled ==
    ASSUME NEW s \in Clients, NEW call \in DigCalls, call.depth \in 1..MaxDepth,
           s.left[call.cell] > 0, NEW R, IsBagOf(R, AnyReply), NEW n,
           Settled(s.licenses, s.calls, R, n)
    PROVE  Settled(TreasureFound(s, call).licenses, TreasureFound(s, call).calls, R, n)
<1> DEFINE c == call.cell
           tr == <<c, call.depth>>
           cash == CashCall(tr, call.depth)
           u == IF call.depth >= MinDepthToCash THEN Send(s, cash) ELSE s
           left == [s.left EXCEPT ![c] = @ - 1]
           t == [u EXCEPT !.left[c] = @ - 1]
           next == [cell |-> c, depth |-> call.depth + 1]
<1>1. next \in Digs /\ c \in Cell /\ tr \in TreasureId /\ tr[1] = c /\ tr[2] = call.depth
  BY NextDig
<1>2. s.left \in [Cell -> 0..MaxDepth]
  BY ClientType
<1>3. left \in [Cell -> 0..MaxDepth] /\ left[c] \in Nat
  <2>1. MaxDepth \in Nat
    BY GoldRushAssumption DEF Server!WorldAssumption
  <2>2. s.left[c] \in 0..MaxDepth /\ s.left[c] - 1 \in 0..MaxDepth
    BY <1>1, <1>2, <2>1
  <2> QED  BY <1>1, <1>2, <2>1, <2>2
<1>4. TreasureFound(s, call) =
          IF t.left[c] < 0 THEN Stop(t)
          ELSE IF t.left[c] = 0 THEN t ELSE ScheduleDig(t, next)
  BY DEF TreasureFound
<1>5. /\ u \in Clients /\ u.left = s.left
      /\ Settled(u.licenses, u.calls, R, n)
  <2>1. CASE call.depth >= MinDepthToCash
    <3>1. cash \in CashCalls
      BY <1>1, <2>1 DEF CashCalls
    <3>2. cash \in AnyCall /\ cash \notin DigCalls /\ cash \notin LicenseCalls
      BY <3>1, CallKinds DEF AnyCall
    <3> HIDE DEF cash
    <3>3. /\ Send(s, cash) \in Clients
          /\ More(Send(s, cash).calls, s.calls, cash)
          /\ Send(s, cash) = [s EXCEPT !.calls = Send(s, cash).calls]
      BY <3>2, SendIs
    <3>4. Send(s, cash).left = s.left /\ Send(s, cash).licenses = s.licenses
      BY <3>3 DEF Clients
    <3>5. IsBagOf(s.calls, AnyCall) /\ IsBagOf(Send(s, cash).calls, AnyCall)
      BY <3>3, ClientType
    <3>6. /\ Agree(s.calls, Send(s, cash).calls, DigCalls)
          /\ Agree(s.calls, Send(s, cash).calls, LicenseCalls)
      BY <3>2, <3>3, <3>5, AgreeIs
    <3>7. Settled(s.licenses, Send(s, cash).calls, R, n)
      BY <3>6, AgreeSame, FrameSettled
    <3>8. u = Send(s, cash)
      BY <2>1
    <3> HIDE DEF u
    <3> QED  BY <3>3, <3>4, <3>7, <3>8
  <2>2. CASE ~(call.depth >= MinDepthToCash)
    BY <2>2
  <2> QED  BY <2>1, <2>2
<1> HIDE DEF u, cash, next
<1>6. t = [u EXCEPT !.left = left]
  BY <1>5 DEF Clients
<1> HIDE DEF left
<1>7. /\ t \in Clients /\ t.calls = u.calls /\ t.left = left
      /\ t.licenses = u.licenses
  <2> HIDE DEF t
  <2>1. /\ [u EXCEPT !.left = left] \in Clients
        /\ [u EXCEPT !.left = left].calls = u.calls
        /\ [u EXCEPT !.left = left].left = left
        /\ [u EXCEPT !.left = left].licenses = u.licenses
    BY <1>3, <1>5 DEF Clients
  <2> QED  BY <1>5, <1>6, <2>1
<1> HIDE DEF t
<1>8. CASE left[c] = 0
  <2>1. TreasureFound(s, call) = t
    BY <1>4, <1>7, <1>8
  <2> QED  BY <1>5, <1>7, <2>1
<1>9. CASE left[c] # 0
  <2>1. TreasureFound(s, call) = ScheduleDig(t, next)
    BY <1>3, <1>4, <1>7, <1>9
  <2>2. Settled(t.licenses, t.calls, R, n)
    BY <1>5, <1>7
  <2>3. Settled(ScheduleDig(t, next).licenses, ScheduleDig(t, next).calls, R, n)
    BY <1>1, <1>7, <2>2, DigSettled
  <2> QED  BY <2>1, <2>3
<1> QED  BY <1>8, <1>9

LEMMA ProcessDigSettled ==
    ASSUME NEW s \in Clients, s.status = "running",
           NEW R, IsBagOf(R, AnyReply), NEW Q, IsBagOf(Q, AnyReply),
           NEW r \in DigReplies, More(R, Q, r), s.left[r.call.cell] > 0,
           Distinct(s.licenses), Settled(s.licenses, s.calls, R, 0),
           ProcessDig(s, r).status = "running"
    PROVE  Settled(ProcessDig(s, r).licenses, ProcessDig(s, r).calls, Q, 0)
<1> DEFINE call == r.call
           c == call.cell
           S == {j \in 1..Slots : s.licenses[j].id = call.license}
           i == Min(S)
           t == Confirm(s, i)
           next == [cell |-> c, depth |-> call.depth + 1]
<1>1. /\ call \in DigCalls /\ call.license \in Nat /\ c \in Cell /\ call.depth \in Nat
      /\ r.status \in {200, 404} => call.depth \in 1..MaxDepth
  BY ReplyType
<1>2. s.licenses \in Licenses /\ IsBagOf(s.calls, AnyCall)
  BY ClientType
<1>3. r \in DOMAIN R
  BY BagSmaller
<1>4. ProcessDig(s, r) =
          IF r.status \notin {200, 404} THEN Stop(s)
          ELSE IF S = {} THEN Terminate(s)
          ELSE IF r.status = 200 THEN TreasureFound(t, call) ELSE ScheduleDig(t, next)
  BY DEF ProcessDig, SlotsWhere, FirstSlot
<1>5. r.status \in {200, 404}
  <2>1. Stop(s).status = "stopped"
    BY DEF Stop, Clients
  <2> HIDE DEF S, t, next
  <2> QED  BY <1>4, <2>1
<1>6. /\ S # {} /\ i \in 1..Slots /\ s.licenses[i].id = call.license
      /\ s.licenses[i].confirmed < s.licenses[i].used
      /\ i \in Busy(s.licenses)
  BY <1>2, <1>3, RightSlot
<1> HIDE DEF S, i
<1>7. /\ t \in Clients /\ t.left = s.left
      /\ Settled(t.licenses, t.calls, Q, 0)
  BY <1>6, ConfirmSettled
<1> HIDE DEF t
<1>8. CASE r.status = 200
  <2>1. ProcessDig(s, r) = TreasureFound(t, call)
    BY <1>4, <1>6, <1>8
  <2>2. call.depth \in 1..MaxDepth /\ t.left[call.cell] > 0
    BY <1>1, <1>7, <1>8
  <2> HIDE DEF call
  <2>3. Settled(TreasureFound(t, call).licenses, TreasureFound(t, call).calls, Q, 0)
    BY <1>1, <1>7, <2>2, FoundSettled
  <2> QED  BY <2>1, <2>3
<1>9. CASE r.status = 404
  <2>1. ProcessDig(s, r) = ScheduleDig(t, next)
    BY <1>4, <1>6, <1>9
  <2>2. next \in Digs
    BY <1>1, <1>9, NextDig
  <2> HIDE DEF next
  <2>3. Settled(ScheduleDig(t, next).licenses, ScheduleDig(t, next).calls, Q, 0)
    BY <1>7, <2>2, DigSettled
  <2> QED  BY <2>1, <2>3
<1> QED  BY <1>5, <1>8, <1>9
-----------------------------------------------------------------------------
(***************************************************************************)
(* A licence arrives: there is a slot for it, the first of those not in    *)
(* use.                                                                    *)
(***************************************************************************)
LEMMA FreeSlot ==
    ASSUME NEW lic \in Licenses, NEW B, IsBagOf(B, AnyCall), NEW R, IsBagOf(R, AnyReply),
           NEW n \in Nat, Settled(lic, B, R, n), NEW r \in LicenseReplies, r \in DOMAIN R,
           NEW S, S = {j \in 1..Slots : Done(lic[j])}
    PROVE  /\ S # {} /\ Min(S) \in 1..Slots /\ Done(lic[Min(S)])
           /\ \A k \in (1..Slots) \ Busy(lic) : Min(S) <= k
<1>1. Count(R, LicenseReplies) \in Nat /\ Count(R, LicenseReplies) >= 1
  <2>1. r \in DOMAIN R \cap LicenseReplies
    OBVIOUS
  <2>2. R[r] \in Nat
    BY DEF IsBagOf
  <2>3. /\ Count(R, LicenseReplies) \in Nat
        /\ 1 <= R[r] /\ R[r] <= Count(R, LicenseReplies)
    BY <2>1, CountType
  <2> QED  BY <2>2, <2>3
<1>2. \A j \in 1..Slots : Done(lic[j]) <=> j \notin Busy(lic)
  <2> SUFFICES ASSUME NEW j \in 1..Slots PROVE Done(lic[j]) <=> j \notin Busy(lic)
    OBVIOUS
  <2>1. /\ lic[j].allowed \in Nat /\ lic[j].used \in Nat /\ lic[j].confirmed \in Nat
        /\ lic[j].used <= lic[j].allowed /\ lic[j].confirmed <= lic[j].used
    BY SlotType DEF Settled
  <2> QED  BY <2>1 DEF Done, Busy
<1>3. S = (1..Slots) \ Busy(lic)
  BY <1>2
<1>4. S # {}
  <2> SUFFICES ASSUME S = {} PROVE FALSE
    OBVIOUS
  <2>1. Busy(lic) = 1..Slots
    BY <1>3 DEF Busy
  <2>2. Slots \in Nat
    BY GoldRushAssumption
  <2>3. Cardinality(1..Slots) = Slots
    <3>1. Cardinality(1..Slots) = IF 1 > Slots THEN 0 ELSE Slots - 1 + 1
      BY <2>2, FS_Interval
    <3> QED  BY <2>2, <3>1
  <2>4. Count(B, LicenseCalls) \in Nat
    BY CountType
  <2>5. Count(B, LicenseCalls) + Count(R, LicenseReplies) + Cardinality(Busy(lic)) + n = Slots
    BY DEF Settled
  <2>6. Cardinality(Busy(lic)) = Slots
    BY <2>1, <2>3
  <2> QED  BY <1>1, <2>2, <2>4, <2>5, <2>6
<1>5. S \in SUBSET (1..Slots)
  BY <1>3
<1>6. Min(S) \in S /\ \A x \in S : Min(S) <= x
  BY <1>4, <1>5, FirstSlotLeast
<1> QED  BY <1>3, <1>4, <1>6

LEMMA PlaceSettled ==
    ASSUME NEW R, IsBagOf(R, AnyReply), NEW Q, IsBagOf(Q, AnyReply),
           NEW r \in Grants, More(R, Q, r), NEW B, IsBagOf(B, AnyCall),
           NEW lic \in Licenses, NEW i \in 1..Slots, Done(lic[i]),
           \A k \in (1..Slots) \ Busy(lic) : i <= k,
           NEW new, Replaced(lic, new, i, Granted(r)), Settled(lic, B, R, 0)
    PROVE  new \in Licenses /\ Settled(new, B, Q, 0)
<1> DEFINE l == Granted(r)
           a == r.license.allowed
           L0 == r.license.id
<1>1. /\ l \in Slot /\ l.id = L0 /\ l.allowed = a /\ l.used = 0 /\ l.confirmed = 0
      /\ a \in Nat /\ a > 0 /\ r \in LicenseReplies
  BY GrantType
<1>2. /\ lic[i].allowed \in Nat /\ lic[i].used = lic[i].allowed
      /\ lic[i].confirmed = lic[i].allowed
  <2>1. /\ lic[i].allowed \in Nat /\ lic[i].used \in Nat /\ lic[i].confirmed \in Nat
        /\ lic[i].used <= lic[i].allowed /\ lic[i].confirmed <= lic[i].used
    BY SlotType DEF Settled
  <2> QED  BY <2>1 DEF Done
<1>3. new[i] = l /\ \A j \in 1..Slots \ {i} : new[j] = lic[j]
  BY DEF Licenses, Replaced
<1>4. Agree(R, Q, DigReplies)
  BY <1>1, AgreeIs, ReplyKinds
<1>5. Budget(lic, B, R)
  BY SettledBudget
<1>6. /\ new \in Licenses
      /\ Busy(new) = Busy(lic) \cup {i} /\ i \notin Busy(lic)
  BY <1>4, <1>5, PlaceBudget
<1> HIDE DEF l, a, L0
<1>7. \A L : /\ Spare(new, L) =
                       Spare(lic, L)
                       - (IF lic[i].id = L THEN lic[i].allowed - lic[i].used ELSE 0)
                       + (IF l.id = L THEN l.allowed - l.used ELSE 0)
             /\ Owed(new, L) =
                       Owed(lic, L)
                       - (IF lic[i].id = L THEN lic[i].allowed - lic[i].confirmed ELSE 0)
                       + (IF l.id = L THEN l.allowed - l.confirmed ELSE 0)
  <2>1. Replaced(lic, new, i, l)
    BY DEF l
  <2> QED  BY <1>1, <2>1, SlotChange
<1>8. ASSUME NEW L \in Nat
      PROVE  Spare(new, L) + Count(B, DigCallsOf(L)) + Count(Q, DigRepliesOf(L))
                 = Owed(new, L)
  <2> DEFINE more == IF L0 = L THEN a ELSE 0
             gone == IF lic[i].id = L THEN lic[i].allowed - lic[i].used ELSE 0
             zero == IF lic[i].id = L THEN lic[i].allowed - lic[i].confirmed ELSE 0
             here == IF l.id = L THEN l.allowed - l.used ELSE 0
             here2 == IF l.id = L THEN l.allowed - l.confirmed ELSE 0
  <2>1. gone = 0 /\ zero = 0 /\ here = more /\ here2 = more /\ more \in Nat
    BY <1>1, <1>2
  <2>2. /\ Spare(new, L) = Spare(lic, L) - gone + here
        /\ Owed(new, L) = Owed(lic, L) - zero + here2
    BY <1>7
  <2>3. /\ Spare(lic, L) + Count(B, DigCallsOf(L)) + Count(R, DigRepliesOf(L))
               = Owed(lic, L)
        /\ Count(Q, DigRepliesOf(L)) = Count(R, DigRepliesOf(L))
    BY <1>4, Parts DEF Settled, Agree
  <2>4. /\ Spare(lic, L) \in Int /\ Owed(lic, L) \in Int
        /\ Count(B, DigCallsOf(L)) \in Nat /\ Count(R, DigRepliesOf(L)) \in Nat
    BY SlotSums, CountType
  <2> HIDE DEF gone, zero, here, here2, more
  <2> QED  BY <2>1, <2>2, <2>3, <2>4
<1>9. \A j \in 1..Slots : new[j].confirmed <= new[j].used /\ new[j].used <= new[j].allowed
  BY <1>1, <1>3 DEF Settled
<1>10. ASSUME NEW j \in Busy(new), NEW k \in (1..Slots) \ Busy(new), new[j].id = new[k].id
       PROVE  j < k
  <2>1. k \notin Busy(lic) /\ k # i /\ new[k] = lic[k] /\ k \in Nat
    BY <1>3, <1>6, GoldRushAssumption
  <2>2. CASE j = i
    <3>1. i <= k /\ i \in Nat
      BY <2>1, GoldRushAssumption
    <3> QED  BY <2>1, <2>2, <3>1
  <2>3. CASE j # i
    <3>1. j \in Busy(lic) /\ j \in 1..Slots
      BY <1>6, <2>3 DEF Busy
    <3>2. new[j] = lic[j]
      BY <1>3, <2>3, <3>1
    <3>3. lic[j].id = lic[k].id
      BY <1>10, <2>1, <3>2
    <3> QED  BY <2>1, <3>1, <3>3 DEF Settled
  <2> QED  BY <2>2, <2>3
<1>11. Count(B, LicenseCalls) + Count(Q, LicenseReplies) + Cardinality(Busy(new)) + 0 = Slots
  <2>1. Count(R, LicenseReplies) = Count(Q, LicenseReplies) + 1
    BY <1>1 DEF More
  <2>2. /\ Count(B, LicenseCalls) \in Nat /\ Count(Q, LicenseReplies) \in Nat
        /\ IsFiniteSet(Busy(lic)) /\ Cardinality(Busy(lic)) \in Nat
    BY CountType, BusyFinite
  <2>3. Cardinality(Busy(lic) \cup {i}) = Cardinality(Busy(lic)) + 1
    BY <1>6, <2>2, FS_AddElement
  <2>4. Cardinality(Busy(new)) = Cardinality(Busy(lic)) + 1
    BY <1>6, <2>3
  <2>5. Count(B, LicenseCalls) + Count(R, LicenseReplies) + Cardinality(Busy(lic)) + 0 = Slots
    BY DEF Settled
  <2> QED  BY <2>1, <2>2, <2>4, <2>5
<1> QED  BY <1>6, <1>8, <1>9, <1>10, <1>11 DEF Settled

LEMMA GrantSettled ==
    ASSUME NEW s \in Clients,
           NEW R, IsBagOf(R, AnyReply), NEW Q, IsBagOf(Q, AnyReply),
           NEW r \in Grants, More(R, Q, r), Settled(s.licenses, s.calls, R, 0)
    PROVE  LET t == ScheduleQueuedDigs(AddLicense(s, r.license))
           IN  Settled(t.licenses, t.calls, Q, 0)
<1> DEFINE S == {j \in 1..Slots : Done(s.licenses[j])}
           i == Min(S)
           u == AddLicense(s, r.license)
           lic == [s.licenses EXCEPT ![i] = Granted(r)]
<1>1. /\ s.licenses \in Licenses /\ IsBagOf(s.calls, AnyCall)
      /\ r \in DOMAIN R /\ r \in LicenseReplies
  BY ClientType, BagSmaller, GrantType
<1>2. /\ S # {} /\ i \in 1..Slots /\ Done(s.licenses[i])
      /\ \A k \in (1..Slots) \ Busy(s.licenses) : i <= k
  <2>1. 0 \in Nat
    OBVIOUS
  <2> QED  BY <1>1, <2>1, FreeSlot
<1>3. u = IF S = {} THEN s ELSE [s EXCEPT !.licenses[i] = Granted(r)]
  BY DEF AddLicense, SlotsWhere, FirstSlot, Granted
<1> HIDE DEF S, i, u
<1>4. u = [s EXCEPT !.licenses = lic]
  BY <1>2, <1>3 DEF Clients
<1>5. Replaced(s.licenses, lic, i, Granted(r))
  BY DEF Replaced
<1> HIDE DEF lic
<1>6. lic \in Licenses /\ Settled(lic, s.calls, Q, 0)
  BY <1>1, <1>2, <1>5, PlaceSettled
<1>7. /\ [s EXCEPT !.licenses = lic] \in Clients
      /\ [s EXCEPT !.licenses = lic].licenses = lic
      /\ [s EXCEPT !.licenses = lic].calls = s.calls
  BY <1>6 DEF Clients, Licenses
<1>8. u \in Clients /\ Settled(u.licenses, u.calls, Q, 0)
  BY <1>4, <1>6, <1>7
<1>9. Settled(ScheduleQueuedDigs(u).licenses, ScheduleQueuedDigs(u).calls, Q, 0)
  BY <1>8, QueueSettled
<1> QED  BY <1>9 DEF u

LEMMA ProcessLicenseSettled ==
    ASSUME NEW s \in Clients, s.status = "running",
           NEW R, IsBagOf(R, AnyReply), NEW Q, IsBagOf(Q, AnyReply),
           NEW r \in LicenseReplies, r.status # Failed, More(R, Q, r),
           Settled(s.licenses, s.calls, R, 0),
           ProcessLicense(s, r).status = "running"
    PROVE  Settled(ProcessLicense(s, r).licenses, ProcessLicense(s, r).calls, Q, 0)
<1>1. ProcessLicense(s, r) =
          IF r.status \in 400..499 THEN Stop(s)
          ELSE IF r.status # 200 THEN ScheduleIssueLicense(s)
          ELSE ScheduleQueuedDigs(AddLicense(s, r.license))
  BY DEF ProcessLicense
<1>2. r.status \notin 400..499
  <2>1. Stop(s).status = "stopped"
    BY DEF Stop, Clients
  <2> QED  BY <1>1, <2>1
<1>3. CASE r.status = 200
  <2>1. r \in Grants
    BY <1>3 DEF LicenseReplies, Refusals, Failed
  <2>2. ProcessLicense(s, r) = ScheduleQueuedDigs(AddLicense(s, r.license))
    BY <1>1, <1>2, <1>3
  <2> QED  BY <2>1, <2>2, GrantSettled
<1>4. CASE r.status # 200
  <2>1. ProcessLicense(s, r) = ScheduleIssueLicense(s)
    BY <1>1, <1>2, <1>4
  <2>2. IsBagOf(s.calls, AnyCall)
    BY ClientType
  <2>3. Agree(R, Q, DigReplies)
    BY AgreeIs, ReplyKinds
  <2>4. \A L : Count(Q, DigRepliesOf(L)) = Count(R, DigRepliesOf(L))
    BY <2>3, Parts DEF Agree
  <2>5. Count(R, LicenseReplies) = Count(Q, LicenseReplies) + 1
    BY DEF More
  <2>6. /\ Count(s.calls, LicenseCalls) \in Nat /\ Count(Q, LicenseReplies) \in Nat
        /\ Cardinality(Busy(s.licenses)) \in Nat
    BY <2>2, CountType, BusyFinite
  <2>7. Count(s.calls, LicenseCalls) + Count(R, LicenseReplies)
            + Cardinality(Busy(s.licenses)) + 0 = Slots
    BY DEF Settled
  <2>8. Count(s.calls, LicenseCalls) + Count(Q, LicenseReplies)
            + Cardinality(Busy(s.licenses)) + (0 + 1) = Slots
    BY <2>5, <2>6, <2>7
  <2>9. Settled(s.licenses, s.calls, Q, 0 + 1)
    BY <2>4, <2>8 DEF Settled
  <2>10. 0 \in Nat
    OBVIOUS
  <2>11. Settled(ScheduleIssueLicense(s).licenses, ScheduleIssueLicense(s).calls, Q, 0)
    BY <2>9, <2>10, IssueSettled
  <2> QED  BY <2>1, <2>11
<1> QED  BY <1>3, <1>4

LEMMA ProcessCashSettled ==
    ASSUME NEW s \in Clients, s.status = "running",
           NEW R, IsBagOf(R, AnyReply), NEW Q, IsBagOf(Q, AnyReply),
           NEW r \in CashReplies, More(R, Q, r),
           Settled(s.licenses, s.calls, R, 0),
           ProcessCash(s, r).status = "running"
    PROVE  Settled(ProcessCash(s, r).licenses, ProcessCash(s, r).calls, Q, 0)
<1>1. Agree(R, Q, DigReplies) /\ Agree(R, Q, LicenseReplies)
  BY AgreeIs, ReplyKinds
<1>2. ProcessCash(s, r) =
          IF r.status >= 500 THEN Send(s, r.call)
          ELSE IF r.status >= 400 THEN Stop(s)
          ELSE [s EXCEPT !.coins = @ \o r.wallet]
  BY DEF ProcessCash
<1>3. Settled(s.licenses, s.calls, Q, 0)
  BY <1>1, AgreeSame, FrameSettled
<1>4. CASE r.status >= 500
  <2>1. r.call \in CashCalls
    BY DEF CashReplies, Payments, CashRefusals
  <2>2. r.call \in AnyCall /\ r.call \notin DigCalls /\ r.call \notin LicenseCalls
    BY <2>1, CallKinds DEF AnyCall
  <2> DEFINE t == Send(s, r.call)
  <2>3. /\ t \in Clients /\ More(t.calls, s.calls, r.call)
        /\ t = [s EXCEPT !.calls = t.calls]
    BY <2>2, SendIs
  <2> HIDE DEF t
  <2>4. t.licenses = s.licenses
    BY <2>3 DEF Clients
  <2>5. IsBagOf(s.calls, AnyCall) /\ IsBagOf(t.calls, AnyCall)
    BY <2>3, ClientType
  <2>6. Agree(s.calls, t.calls, DigCalls) /\ Agree(s.calls, t.calls, LicenseCalls)
    BY <2>2, <2>3, <2>5, AgreeIs
  <2>7. Settled(s.licenses, t.calls, Q, 0)
    BY <1>3, <2>6, AgreeSame, FrameSettled
  <2>8. ProcessCash(s, r) = t
    BY <1>2, <1>4 DEF t
  <2> QED  BY <2>4, <2>7, <2>8
<1>5. CASE ~(r.status >= 500)
  <2> DEFINE t == [s EXCEPT !.coins = @ \o r.wallet]
  <2>1. Stop(s).status = "stopped"
    BY DEF Stop, Clients
  <2>2. ProcessCash(s, r) = t
    BY <1>2, <1>5, <2>1
  <2>3. t.licenses = s.licenses /\ t.calls = s.calls
    BY DEF Clients
  <2> HIDE DEF t
  <2> QED  BY <1>3, <2>2, <2>3
<1> QED  BY <1>4, <1>5

LEMMA ProcessSettled ==
    ASSUME NEW s \in Clients, s.status = "running",
           NEW R, IsBagOf(R, AnyReply), NEW Q, IsBagOf(Q, AnyReply),
           NEW r \in AnyReply, More(R, Q, r),
           NEW D, Tame(s, R, {}, {}, 0, D),
           Distinct(s.licenses), Settled(s.licenses, s.calls, R, 0),
           Process(s, r).status = "running"
    PROVE  Settled(Process(s, r).licenses, Process(s, r).calls, Q, 0)
<1>0. r.status # Failed
  <2>1. Stop(s).status = "stopped"
    BY DEF Stop, Clients
  <2> QED  BY <2>1 DEF Process
<1>1. CASE r \in LicenseReplies
  <2>1. r.call.type \in LicenseTypes
    BY <1>1 DEF LicenseReplies, Grants, Refusals, LicenseCalls, LicenseTypes
  <2>2. r.call.type # "Dig" /\ r.call.type # "Cash"
    BY <2>1 DEF LicenseTypes
  <2>3. Process(s, r) = ProcessLicense(s, r)
    BY <1>0, <2>1, <2>2 DEF Process
  <2> QED  BY <1>0, <1>1, <2>3, ProcessLicenseSettled
<1>2. CASE r \in DigReplies
  <2>1. r.call.type = "Dig"
    BY <1>2 DEF DigReplies, DigCalls
  <2>2. r.call.type \notin LicenseTypes /\ r.call.type # "Cash"
    BY <2>1 DEF LicenseTypes
  <2>3. Process(s, r) = ProcessDig(s, r)
    BY <1>0, <2>1, <2>2 DEF Process
  <2>4. IsBagOf(s.calls, AnyCall) /\ Places(s.digQueue, s.calls, s.left, R, {})
    BY ClientType DEF Tame
  <2>5. s.left[r.call.cell] > 0
    BY <1>2, <2>4, TakePlaces
  <2> QED  BY <1>2, <2>3, <2>5, ProcessDigSettled
<1>3. CASE r \in CashReplies
  <2>1. r.call.type = "Cash"
    BY <1>3 DEF CashReplies, Payments, CashRefusals, CashCalls, CashCall
  <2>2. r.call.type \notin LicenseTypes /\ r.call.type # "Dig"
    BY <2>1 DEF LicenseTypes
  <2>3. Process(s, r) = ProcessCash(s, r)
    BY <1>0, <2>1, <2>2 DEF Process
  <2> QED  BY <1>3, <2>3, ProcessCashSettled
<1> QED  BY <1>1, <1>2, <1>3 DEF AnyReply

-----------------------------------------------------------------------------
(***************************************************************************)
(* The steps.                                                              *)
(***************************************************************************)
SlotsSettled == client.status = "running" =>
                    Settled(client.licenses, client.calls, replies, 0)

LEMMA LocateSettled ==
    ASSUME NEW s \in Clients, W!IInv, NEW c \in Cell, NEW R, IsBagOf(R, AnyReply),
           Settled(s.licenses, s.calls, R, 0)
    PROVE  /\ Locate(s, c) \in Clients
           /\ Settled(Locate(s, c).licenses, Locate(s, c).calls, R, 0)
<1> DEFINE left == [s.left EXCEPT ![c] = counts[c]]
           t == [s EXCEPT !.left[c] = counts[c]]
           dig == [cell |-> c, depth |-> 1]
<1>1. counts[c] \in 0..MaxDepth /\ MaxDepth \in Nat /\ s.left \in [Cell -> 0..MaxDepth]
  <2>1. W!TypeOK
    BY W!TypeFromInv, ServerConstants
  <2>2. counts \in [Cell -> 0..MaxDepth]
    BY <2>1, ServerConstants DEF W!TypeOK
  <2> QED  BY <2>2, ClientType, GoldRushAssumption DEF Server!WorldAssumption
<1>2. left \in [Cell -> 0..MaxDepth]
  BY <1>1
<1>3. t = [s EXCEPT !.left = left]
  BY DEF Clients
<1>4. Locate(s, c) = ScheduleDig(t, dig)
  BY DEF Locate, StartDigging
<1>5. dig \in Digs
  BY <1>1 DEF Digs
<1> HIDE DEF left, dig
<1>6. t \in Clients /\ t.licenses = s.licenses /\ t.calls = s.calls
  <2> HIDE DEF t
  <2>1. /\ [s EXCEPT !.left = left] \in Clients
        /\ [s EXCEPT !.left = left].licenses = s.licenses
        /\ [s EXCEPT !.left = left].calls = s.calls
    BY <1>2 DEF Clients
  <2> QED  BY <1>3, <2>1
<1> HIDE DEF t
<1>7. Settled(t.licenses, t.calls, R, 0)
  BY <1>6
<1>8. /\ ScheduleDig(t, dig) \in Clients
      /\ Settled(ScheduleDig(t, dig).licenses, ScheduleDig(t, dig).calls, R, 0)
  BY <1>5, <1>6, <1>7, DigSettled
<1> QED  BY <1>4, <1>8

LEMMA HandleSettled ==
    ASSUME IInv, SlotsSettled, Distinct(client.licenses), NEW reply, Handle(reply)
    PROVE  SlotsSettled'
<1>1. reply \in DOMAIN replies
  BY DEF Handle, BagIn, BagToSet
<1> DEFINE Q == replies (-) SetToBag({reply})
<1>2. IsBagOf(replies, AnyReply) /\ reply \in AnyReply
  BY <1>1 DEF IInv, IsBagOf
<1>3. IsBagOf(Q, AnyReply) /\ More(replies, Q, reply)
  BY <1>1, <1>2, RemoveIsLess
<1> HIDE DEF Q
<1>4. replies' = Q /\ client' = Process(client, reply) /\ client.status = "running"
  BY DEF Handle, Q
<1>5. client \in Clients /\ Tame(client, replies, {}, {}, 0, discovered)
  BY DEF IInv
<1>6. Settled(client.licenses, client.calls, replies, 0)
  BY <1>4 DEF SlotsSettled
<1>7. Process(client, reply).status = "running" =>
          Settled(Process(client, reply).licenses, Process(client, reply).calls, Q, 0)
  BY <1>2, <1>3, <1>4, <1>5, <1>6, ProcessSettled
<1> QED  BY <1>4, <1>7 DEF SlotsSettled

LEMMA DigAnswerSettled ==
    ASSUME NEW call \in DigCalls, NEW reply \in DigReplies, reply.call = call, IInv,
           SlotsSettled, Delivered(call, reply)
    PROVE  SlotsSettled'
<1> SUFFICES ASSUME client.status = "running"
             PROVE  Settled(client.licenses, client'.calls, replies', 0)
  BY DEF Delivered, SlotsSettled
<1> DEFINE B == client.calls
           C == client'.calls
           R == replies
           Q == replies'
           lic == client.licenses
<1>1. /\ IsBagOf(B, AnyCall) /\ IsBagOf(C, AnyCall)
      /\ IsBagOf(R, AnyReply) /\ IsBagOf(Q, AnyReply)
      /\ More(B, C, reply.call) /\ More(Q, R, reply)
      /\ lic \in Licenses
  BY ClientType DEF IInv, Delivered
<1>2. Settled(lic, B, R, 0)
  BY DEF SlotsSettled
<1> HIDE DEF B, C, R, Q, lic
<1>3. \A L : Count(C, DigCallsOf(L)) + Count(Q, DigRepliesOf(L))
                 = Count(B, DigCallsOf(L)) + Count(R, DigRepliesOf(L))
  BY <1>1, AnswerMoves
<1>4. Agree(B, C, LicenseCalls) /\ Agree(R, Q, LicenseReplies)
  BY <1>1, AgreeIs, CallKinds, ReplyKinds
<1>5. ASSUME NEW L \in Nat
      PROVE  Spare(lic, L) + Count(C, DigCallsOf(L)) + Count(Q, DigRepliesOf(L))
                 = Owed(lic, L)
  <2>1. Spare(lic, L) + Count(B, DigCallsOf(L)) + Count(R, DigRepliesOf(L)) = Owed(lic, L)
    BY <1>2 DEF Settled
  <2>2. /\ Count(B, DigCallsOf(L)) \in Nat /\ Count(R, DigRepliesOf(L)) \in Nat
        /\ Count(C, DigCallsOf(L)) \in Nat /\ Count(Q, DigRepliesOf(L)) \in Nat
        /\ Spare(lic, L) \in Int /\ Owed(lic, L) \in Int
    BY <1>1, CountType, SlotSums
  <2>3. Count(C, DigCallsOf(L)) + Count(Q, DigRepliesOf(L))
            = Count(B, DigCallsOf(L)) + Count(R, DigRepliesOf(L))
    BY <1>3
  <2> QED  BY <2>1, <2>2, <2>3
<1>6. /\ Count(C, LicenseCalls) = Count(B, LicenseCalls)
      /\ Count(Q, LicenseReplies) = Count(R, LicenseReplies)
  BY <1>4 DEF Agree
<1>7. Settled(lic, C, Q, 0)
  BY <1>2, <1>5, <1>6 DEF Settled
<1> QED  BY <1>7 DEF C, Q, lic

LEMMA LicenseAnswerSettled ==
    ASSUME NEW call \in LicenseCalls, NEW reply \in LicenseReplies, IInv,
           SlotsSettled, Delivered(call, reply)
    PROVE  SlotsSettled'
<1> SUFFICES ASSUME client.status = "running"
             PROVE  Settled(client.licenses, client'.calls, replies', 0)
  BY DEF Delivered, SlotsSettled
<1> DEFINE B == client.calls
           C == client'.calls
           R == replies
           Q == replies'
           lic == client.licenses
<1>1. /\ IsBagOf(B, AnyCall) /\ IsBagOf(C, AnyCall)
      /\ IsBagOf(R, AnyReply) /\ IsBagOf(Q, AnyReply)
      /\ More(B, C, call) /\ More(Q, R, reply)
  BY ClientType DEF IInv, Delivered
<1>2. Settled(lic, B, R, 0)
  BY DEF SlotsSettled
<1> HIDE DEF B, C, R, Q, lic
<1>3. Agree(B, C, DigCalls) /\ Agree(R, Q, DigReplies)
  BY <1>1, AgreeIs, CallKinds, ReplyKinds
<1>4. \A L : /\ Count(C, DigCallsOf(L)) = Count(B, DigCallsOf(L))
             /\ Count(Q, DigRepliesOf(L)) = Count(R, DigRepliesOf(L))
  BY <1>3, Parts DEF Agree
<1>5. /\ Count(B, LicenseCalls) = Count(C, LicenseCalls) + 1
      /\ Count(Q, LicenseReplies) = Count(R, LicenseReplies) + 1
  BY <1>1 DEF More
<1>6. /\ Count(C, LicenseCalls) \in Nat /\ Count(R, LicenseReplies) \in Nat
      /\ Cardinality(Busy(lic)) \in Nat
  BY <1>1, CountType, BusyFinite
<1>7. Count(B, LicenseCalls) + Count(R, LicenseReplies) + Cardinality(Busy(lic)) + 0 = Slots
  BY <1>2 DEF Settled
<1>8. Count(C, LicenseCalls) + Count(Q, LicenseReplies) + Cardinality(Busy(lic)) + 0 = Slots
  BY <1>5, <1>6, <1>7
<1>9. Settled(lic, C, Q, 0)
  BY <1>2, <1>4, <1>8 DEF Settled
<1> QED  BY <1>9 DEF C, Q, lic

LEMMA CashAnswerSettled ==
    ASSUME NEW call \in CashCalls, NEW reply \in CashReplies, IInv,
           SlotsSettled, Delivered(call, reply)
    PROVE  SlotsSettled'
<1> SUFFICES ASSUME client.status = "running"
             PROVE  Settled(client.licenses, client'.calls, replies', 0)
  BY DEF Delivered, SlotsSettled
<1>1. /\ IsBagOf(client.calls, AnyCall) /\ IsBagOf(client'.calls, AnyCall)
      /\ IsBagOf(replies, AnyReply) /\ IsBagOf(replies', AnyReply)
      /\ More(client.calls, client'.calls, call) /\ More(replies', replies, reply)
  BY ClientType DEF IInv, Delivered
<1>2. Settled(client.licenses, client.calls, replies, 0)
  BY DEF SlotsSettled
<1>3. /\ Agree(client.calls, client'.calls, DigCalls)
      /\ Agree(client.calls, client'.calls, LicenseCalls)
      /\ Agree(replies, replies', DigReplies)
      /\ Agree(replies, replies', LicenseReplies)
  BY <1>1, AgreeIs, CallKinds, ReplyKinds
<1> QED  BY <1>2, <1>3, FrameSettled

LEMMA MissedSettled ==
    ASSUME NEW call \in DOMAIN client.calls, IInv, SlotsSettled, Missed(call)
    PROVE  SlotsSettled'
<1>1. CASE client' = client /\ replies' = replies
  BY <1>1 DEF SlotsSettled
<1>2. CASE Refused(call)
  <2>1. call \in AnyCall
    BY ClientType DEF IInv, IsBagOf
  <2>2. PICK status \in {429, Failed} : Delivered(call, [call |-> call, status |-> status])
    BY <1>2 DEF Refused
  <2> DEFINE r == [call |-> call, status |-> status]
  <2>3. /\ call \in LicenseCalls => r \in Refusals
        /\ call \in DigCalls => r \in DigReplies
        /\ call \in CashCalls => r \in CashRefusals
        /\ r.call = call
    BY <2>1, RefusalType
  <2> HIDE DEF r
  <2>4. Delivered(call, r)
    BY <2>2 DEF r
  <2>5. CASE call \in LicenseCalls
    <3>1. r \in LicenseReplies
      BY <2>3, <2>5 DEF LicenseReplies
    <3> QED  BY <2>4, <2>5, <3>1, LicenseAnswerSettled
  <2>6. CASE call \in DigCalls
    BY <2>3, <2>4, <2>6, DigAnswerSettled
  <2>7. CASE call \in CashCalls
    <3>1. r \in CashReplies
      BY <2>3, <2>7 DEF CashReplies
    <3> QED  BY <2>4, <2>7, <3>1, CashAnswerSettled
  <2> QED  BY <2>1, <2>5, <2>6, <2>7 DEF AnyCall
<1> QED  BY <1>1, <1>2 DEF Missed

LEMMA ServeSettled ==
    ASSUME NEW call \in Calls, IInv, SlotsSettled, Serve(call)
    PROVE  SlotsSettled'
<1>1. call \in DOMAIN client.calls
  BY DEF Calls, BagToSet
<1>2. call \in AnyCall /\ W!IInv
  BY <1>1, ClientType DEF IInv, IsBagOf
<1>3. CASE ServeDig(call)
  <2>1. call \in DigCalls
    BY <1>2, <1>3 DEF ServeDig, AnyCall, LicenseCalls, CashCalls, CashCall
  <2>2. Server!Dig(call) /\ Answer(call, DigReply(call))
    BY <1>3 DEF ServeDig, DigReply
  <2>3. /\ DigReply(call) \in DigReplies /\ DigReply(call).call = call
    BY <1>2, <2>1, <2>2, FieldDug
  <2>4. DigReply(call) \in AnyReply
    BY <2>3 DEF AnyReply
  <2>5. Delivered(call, DigReply(call)) \/ Missed(call)
    BY <1>1, <2>2, <2>4, AnswerIs
  <2> QED  BY <1>1, <2>1, <2>3, <2>5, DigAnswerSettled, MissedSettled
<1>4. CASE ServeCash(call)
  <2>1. call \in CashCalls
    BY <1>2, <1>4 DEF ServeCash, AnyCall, LicenseCalls, DigCalls
  <2>2. Server!Cash(call.treasure) /\ Answer(call, CashReply(call))
    BY <1>4 DEF ServeCash, CashReply
  <2>3. CashReply(call) \in CashReplies
    BY <1>2, <2>1, <2>2, CashReplyType
  <2>4. CashReply(call) \in AnyReply
    BY <2>3 DEF AnyReply
  <2>5. Delivered(call, CashReply(call)) \/ Missed(call)
    BY <1>1, <2>2, <2>4, AnswerIs
  <2> QED  BY <1>1, <2>1, <2>3, <2>5, CashAnswerSettled, MissedSettled
<1>5. CASE ServeLicense(call)
  <2>1. call \in LicenseCalls
    BY <1>2, <1>5 DEF ServeLicense, AnyCall, DigCalls, CashCalls, CashCall, LicenseTypes
  <2>2. PICK allowed : /\ Server!IssueLicense(PaidWith(call), allowed)
                       /\ Answer(call, LicenseReply(call, allowed))
    BY <1>5 DEF ServeLicense, PaidWith, LicenseReply
  <2>3. LicenseReply(call, allowed) \in LicenseReplies
    BY <1>2, <2>1, <2>2, LicenseReplyType
  <2>4. LicenseReply(call, allowed) \in AnyReply
    BY <2>3 DEF AnyReply
  <2>5. Delivered(call, LicenseReply(call, allowed)) \/ Missed(call)
    BY <1>1, <2>2, <2>4, AnswerIs
  <2> QED  BY <1>1, <2>1, <2>3, <2>5, LicenseAnswerSettled, MissedSettled
<1>6. CASE Reject(call)
  <2>1. PICK status \in {429, Failed} : Arrive(call, [call |-> call, status |-> status])
    BY <1>6 DEF Reject
  <2> DEFINE r == [call |-> call, status |-> status]
  <2>2. r \in AnyReply
    BY <1>2, RefusalType
  <2>3. Delivered(call, r)
    <3> HIDE DEF r
    <3>1. Arrive(call, r)
      BY <2>1 DEF r
    <3> QED  BY <1>1, <2>2, <3>1, DeliveredIs DEF Arrive
  <2>4. Missed(call)
    BY <1>6, <2>3 DEF Missed, Refused, Reject
  <2> QED  BY <1>1, <2>4, MissedSettled
<1> QED  BY <1>3, <1>4, <1>5, <1>6 DEF Serve

LEMMA StepSettled ==
    ASSUME IInv, SlotsSettled, Distinct(client.licenses), [Next]_vars
    PROVE  SlotsSettled'
<1>1. /\ W!IInv /\ client \in Clients /\ IsBagOf(replies, AnyReply)
  BY DEF IInv
<1>2. ASSUME NEW c \in Cell, Discover(c) PROVE SlotsSettled'
  <2>1. /\ client.status = "running" /\ client' = Locate(client, c)
        /\ replies' = replies
    BY <1>2 DEF Discover
  <2>2. Settled(client.licenses, client.calls, replies, 0)
    BY <2>1 DEF SlotsSettled
  <2>3. Settled(Locate(client, c).licenses, Locate(client, c).calls, replies, 0)
    BY <1>1, <2>2, LocateSettled
  <2> QED  BY <2>1, <2>3 DEF SlotsSettled
<1>3. ASSUME NEW c \in Cell, NEW d \in Cell, DiscoverBoth(c, d) PROVE SlotsSettled'
  <2> DEFINE s == Locate(client, c)
  <2>1. /\ client.status = "running" /\ client' = Locate(s, d)
        /\ replies' = replies
    BY <1>3 DEF DiscoverBoth
  <2>2. Settled(client.licenses, client.calls, replies, 0)
    BY <2>1 DEF SlotsSettled
  <2>3. s \in Clients /\ Settled(s.licenses, s.calls, replies, 0)
    BY <1>1, <2>2, LocateSettled
  <2> HIDE DEF s
  <2>4. Settled(Locate(s, d).licenses, Locate(s, d).calls, replies, 0)
    BY <1>1, <2>3, LocateSettled
  <2> QED  BY <2>1, <2>4 DEF SlotsSettled
<1>4. ASSUME NEW call \in Calls, Serve(call) PROVE SlotsSettled'
  BY <1>4, ServeSettled
<1>5. ASSUME NEW reply \in BagToSet(replies), Handle(reply) PROVE SlotsSettled'
  BY <1>5, HandleSettled
<1>6. CASE Tick
  BY <1>6 DEF Tick, SlotsSettled
<1>7. CASE Exit
  <2>1. client' = [client EXCEPT !.status = "ended"]
    BY <1>7 DEF Exit
  <2>2. client'.status = "ended"
    BY <1>1, <2>1 DEF Clients
  <2> QED  BY <2>2 DEF SlotsSettled
<1>8. CASE UNCHANGED vars
  BY <1>8 DEF vars, SlotsSettled
<1> QED  BY <1>2, <1>3, <1>4, <1>5, <1>6, <1>7, <1>8 DEF Next

LEMMA FirstSettled == Init => SlotsSettled
<1> SUFFICES ASSUME Init PROVE SlotsSettled
  OBVIOUS
<1> DEFINE lic == [i \in 1..Slots |-> NoLicense]
           B == FirstCalls
           R == EmptyBag
<1>1. client.licenses = lic /\ client.calls = B /\ replies = R
  BY DEF Init, FirstCalls
<1>2. /\ Count(B, LicenseCalls) = Slots
      /\ \A T : FreeLicense \notin T => Count(B, T) = 0
  BY FirstCallsAre
<1>3. \A T : Count(R, T) = 0
  BY EmptyBagIs
<1>4. Slots \in Nat
  BY GoldRushAssumption
<1>5. \A L : Count(B, DigCallsOf(L)) = 0
  <2>1. FreeLicense \notin DigCalls
    BY CallKinds DEF FreeLicense, LicenseCalls
  <2> QED  BY <1>2, <2>1, Parts
<1> HIDE DEF R, B
<1>6. \A i \in 1..Slots : /\ lic[i].id = 0 /\ lic[i].allowed = 0
                          /\ lic[i].used = 0 /\ lic[i].confirmed = 0
  BY DEF NoLicense
<1> HIDE DEF lic
<1>7. \A L : Owed(lic, L) = 0 /\ Spare(lic, L) = 0
  BY <1>6, EmptySlots
<1>8. Busy(lic) = {} /\ Cardinality({}) = 0
  BY <1>6, FS_EmptySet DEF Busy
<1>9. Settled(lic, B, R, 0)
  BY <1>2, <1>3, <1>4, <1>5, <1>6, <1>7, <1>8 DEF Settled
<1> QED  BY <1>1, <1>9 DEF SlotsSettled

\* in a settled state the licences in use are those not confirmed to the end
LEMMA BusyInUse ==
    ASSUME IInv, SlotsSettled, client.status = "running"
    PROVE  SlotsWhere(client, InUse) = Busy(client.licenses)
<1>1. client.licenses \in Licenses
  BY ClientType DEF IInv
<1>2. \A i \in 1..Slots : InUse(client.licenses[i]) <=>
          client.licenses[i].confirmed < client.licenses[i].allowed
  <2> TAKE i \in 1..Slots
  <2>1. /\ client.licenses[i].allowed \in Nat /\ client.licenses[i].used \in Nat
        /\ client.licenses[i].confirmed \in Nat
    BY <1>1, SlotType
  <2>2. /\ client.licenses[i].confirmed <= client.licenses[i].used
        /\ client.licenses[i].used <= client.licenses[i].allowed
    BY DEF SlotsSettled, Settled
  <2> QED  BY <2>1, <2>2 DEF InUse, Done
<1> QED  BY <1>2 DEF SlotsWhere, Busy

(***************************************************************************)
(* For every number of slots and every sequence of faults: as long as no   *)
(* two licences in use have one number, every slot has a licence in use or *)
(* one on its way (app.cpp:204-230, 260-266; state.h:89-96, 142-150).      *)
(***************************************************************************)
THEOREM SlotsStayCovered == Spec => SlotsKept
<1>1. Init => SlotsSettled
  BY FirstSettled
<1>2. IInv /\ SlotsSettled /\ DistinctNumbers /\ [Next]_vars => SlotsSettled'
  <2> SUFFICES ASSUME IInv, SlotsSettled, DistinctNumbers, [Next]_vars
               PROVE  SlotsSettled'
    OBVIOUS
  <2>1. CASE client.status = "running"
    <3>1. SlotsWhere(client, InUse) = Busy(client.licenses)
      BY <2>1, BusyInUse
    <3>2. Distinct(client.licenses)
      BY <3>1 DEF DistinctNumbers, Distinct
    <3> QED  BY <3>2, StepSettled
  <2>2. CASE client.status # "running"
    <3>1. client \in Clients
      BY DEF IInv
    <3>2. client'.status # "running"
      BY <2>2, <3>1 DEF Next, Discover, DiscoverBoth, Handle, Tick, Exit, Serve, ServeDig,
            ServeCash, ServeLicense, Reject, Answer, Arrive, vars, Clients
    <3> QED  BY <3>2 DEF SlotsSettled
  <2> QED  BY <2>1, <2>2
<1>3. IInv /\ SlotsSettled => SlotsCovered
  <2> SUFFICES ASSUME IInv, SlotsSettled, client.status = "running"
               PROVE  Cardinality(SlotsWhere(client, InUse))
                      + InBag(client.calls, LAMBDA call : call.type \in LicenseTypes)
                      + InBag(replies, LAMBDA reply : reply.call.type \in LicenseTypes)
                          = Slots
    BY DEF SlotsCovered
  <2>1. SlotsWhere(client, InUse) = Busy(client.licenses)
    BY BusyInUse
  <2>2. /\ Count(client.calls, LicenseCalls) \in Nat /\ Count(replies, LicenseReplies) \in Nat
        /\ Cardinality(Busy(client.licenses)) \in Nat
    BY ClientType, CountType, BusyFinite DEF IInv
  <2>3. Count(client.calls, LicenseCalls) + Count(replies, LicenseReplies)
            + Cardinality(Busy(client.licenses)) + 0 = Slots
    BY DEF SlotsSettled, Settled
  <2>4. Cardinality(Busy(client.licenses)) + Count(client.calls, LicenseCalls)
            + Count(replies, LicenseReplies) = Slots
    BY <2>2, <2>3
  <2> QED  BY <2>1, <2>4, LicencesInBags
<1> QED  BY <1>1, <1>2, <1>3, Invariance, PTL DEF Spec, SlotsKept
=============================================================================
