---------------------------- MODULE WorldProofs ----------------------------
(***************************************************************************)
(* What holds of the server for every size of the field, every map of      *)
(* treasures, every limit on licences and every client.                    *)
(***************************************************************************)
EXTENDS World, DataTheorems

-----------------------------------------------------------------------------
(***************************************************************************)
(* The active licences have finitely many numbers, so that there is a      *)
(* greatest one.                                                           *)
(***************************************************************************)
IdsBounded == \E n \in Nat : \A id \in DOMAIN active : id <= n

ActiveType == /\ DOMAIN active \subseteq Nat \ {0}
              /\ active \in [DOMAIN active -> License]

(***************************************************************************)
(* The number of a new licence (world.py:314) is not an active one.        *)
(***************************************************************************)
LEMMA NewIdIsNew ==
    ASSUME ActiveType, IdsBounded
    PROVE  /\ IsFiniteSet(DOMAIN active)
           /\ NewId \in Nat \ {0}
           /\ \A id \in DOMAIN active : id < NewId
<1> DEFINE S == {0} \cup DOMAIN active
<1>1. PICK n \in Nat : \A id \in DOMAIN active : id <= n
  BY DEF IdsBounded
<1>2. S \in SUBSET Nat /\ S # {} /\ \A x \in S : x <= n
  BY <1>1 DEF ActiveType
<1>3. IsFiniteSet(DOMAIN active)
  <2>1. DOMAIN active \in SUBSET Nat
    BY DEF ActiveType
  <2> QED  BY <1>1, <2>1, FS_BoundedSetOfNaturals
<1>4. Max(S) \in S /\ \A x \in S : x <= Max(S)
  <2> HIDE DEF S
  <2> QED  BY <1>2, BoundedHasMax
<1>5. NewId = 1 + Max(S)
  BY DEF NewId
<1>6. Max(S) \in Nat
  BY <1>2, <1>4
<1>7. \A id \in DOMAIN active : id \in S
  OBVIOUS
<1> HIDE DEF S
<1>8. \A id \in DOMAIN active : id < NewId
  <2>1. \A id \in DOMAIN active : id \in Nat /\ id <= Max(S)
    BY <1>2, <1>4, <1>7
  <2> QED  BY <2>1, <1>5, <1>6
<1> QED  BY <1>3, <1>5, <1>6, <1>8

-----------------------------------------------------------------------------
(***************************************************************************)
(* The inductive invariant, in three groups that the actions disturb       *)
(* separately: the field and the treasures dug up, the licences, and the   *)
(* coins.                                                                  *)
(***************************************************************************)
FieldInv ==
    /\ treasure \in [Cell -> [Depths -> Nat]]
    /\ depthMap \in [Cell -> 0..MaxDepth]
    /\ counts \in [Cell -> 0..MaxDepth]
    /\ DOMAIN registry \subseteq TreasureId
    /\ registry \in [DOMAIN registry -> Nat \ {0}]
    /\ CountsAgree
    /\ NothingLeftAbove
    /\ RegistryConsistent

LicenseInv == ActiveType /\ IdsBounded /\ LicenseBudget

CoinInv == coins \in SUBSET Nat /\ nextCoin \in Nat /\ CoinsIssued

IInv == FieldInv /\ LicenseInv /\ CoinInv /\ throttled \in BOOLEAN

-----------------------------------------------------------------------------
(***************************************************************************)
(* The depths with treasures are a finite set of at most MaxDepth.         *)
(***************************************************************************)
LEMMA BelowFinite ==
    ASSUME NEW map, NEW c
    PROVE  /\ IsFiniteSet(TreasuresBelow(map, c))
           /\ Cardinality(TreasuresBelow(map, c)) \in 0..MaxDepth
<1>1. MaxDepth \in Nat
  BY WorldAssumption
<1>2. IsFiniteSet(1..MaxDepth) /\ Cardinality(1..MaxDepth) = MaxDepth
  BY <1>1, FS_Interval
<1>3. TreasuresBelow(map, c) \in SUBSET (1..MaxDepth)
  BY DEF TreasuresBelow, Depths
<1>4. /\ IsFiniteSet(TreasuresBelow(map, c))
      /\ Cardinality(TreasuresBelow(map, c)) <= MaxDepth
  BY <1>2, <1>3, FS_Subset
<1>5. Cardinality(TreasuresBelow(map, c)) \in Nat
  BY <1>4, FS_CardinalityType
<1> QED  BY <1>1, <1>4, <1>5

LEMMA InitInv == Init => IInv
<1> SUFFICES ASSUME Init PROVE IInv
  OBVIOUS
<1> USE DEF Init
<1>1. FieldInv
  <2>1. treasure \in [Cell -> [Depths -> Nat]]
    BY WorldAssumption
  <2>2. MaxDepth \in Nat
    BY WorldAssumption
  <2>3. \A c \in Cell : Cardinality(TreasuresBelow(treasure, c)) \in 0..MaxDepth
    BY BelowFinite
  <2>4. counts \in [Cell -> 0..MaxDepth] /\ CountsAgree
    BY <2>3 DEF CountsAgree
  <2>5. depthMap \in [Cell -> 0..MaxDepth] /\ NothingLeftAbove
    BY <2>2 DEF NothingLeftAbove, Depths
  <2>6. /\ DOMAIN registry \subseteq TreasureId
        /\ registry \in [DOMAIN registry -> Nat \ {0}]
        /\ RegistryConsistent
    BY DEF RegistryConsistent
  <2> QED  BY <2>1, <2>4, <2>5, <2>6 DEF FieldInv
<1>2. LicenseInv
  <2>1. DOMAIN active = {}
    OBVIOUS
  <2>2. ActiveType /\ IdsBounded
    BY <2>1 DEF ActiveType, IdsBounded
  <2>3. LicenseBudget
    BY <2>1, FS_EmptySet, WorldAssumption DEF LicenseBudget
  <2> QED  BY <2>2, <2>3 DEF LicenseInv
<1>3. CoinInv
  BY DEF CoinInv, CoinsIssued
<1> QED  BY <1>1, <1>2, <1>3 DEF IInv

-----------------------------------------------------------------------------
(***************************************************************************)
(* dig                                                                     *)
(***************************************************************************)
LEMMA DigChecks ==
    ASSUME NEW req, DigStatus(req) \in {200, 404}
    PROVE  /\ req.license \in DOMAIN active
           /\ req.cell \in Cell
           /\ req.depth \in Depths
           /\ req.depth = depthMap[req.cell] + 1
           /\ (DigStatus(req) = 200) <=> (treasure[req.cell][req.depth] # 0)
BY DEF DigStatus

(***************************************************************************)
(* A dig of a licence leaves the licences in order: they may become fewer, *)
(* never more.                                                             *)
(***************************************************************************)
LEMMA UseLicenseInv ==
    ASSUME LicenseInv, NEW id \in DOMAIN active, UseLicense(id)
    PROVE  LicenseInv'
<1> DEFINE used == active[id].used + 1
<1>1. /\ active[id] \in License
      /\ active[id].used \in Nat /\ active[id].allowed \in Nat
      /\ active[id].used < active[id].allowed
      /\ IsFiniteSet(DOMAIN active)
  BY NewIdIsNew DEF LicenseInv, ActiveType, License, LicenseBudget
<1>2. CASE used >= active[id].allowed
  <2>1. active' = [x \in DOMAIN active \ {id} |-> active[x]]
    BY <1>2 DEF UseLicense, Restrict
  <2>2. DOMAIN active' = DOMAIN active \ {id}
    BY <2>1
  <2>3. /\ Cardinality(DOMAIN active') <= Cardinality(DOMAIN active)
        /\ Cardinality(DOMAIN active') \in Nat
    BY <1>1, <2>2, FS_RemoveElement, FS_CardinalityType, FS_Subset
  <2>4. ActiveType' /\ IdsBounded'
    BY <2>1, <2>2 DEF LicenseInv, ActiveType, IdsBounded
  <2>5. LicenseBudget'
    <3>1. Cardinality(DOMAIN active') <= MaxLicenses
      BY <1>1, <2>3, FS_CardinalityType, WorldAssumption DEF LicenseInv, LicenseBudget
    <3> QED  BY <2>1, <2>2, <3>1 DEF LicenseInv, LicenseBudget
  <2> QED  BY <2>4, <2>5 DEF LicenseInv
<1>3. CASE ~(used >= active[id].allowed)
  <2>1. active' = [active EXCEPT ![id].used = used]
    BY <1>3 DEF UseLicense
  <2>2. DOMAIN active' = DOMAIN active
    BY <2>1
  <2>3. /\ active'[id] = [active[id] EXCEPT !.used = used]
        /\ \A x \in DOMAIN active \ {id} : active'[x] = active[x]
    BY <2>1
  <2>4. /\ active'[id] \in License
        /\ active'[id].used < active'[id].allowed
    BY <1>1, <1>3, <2>3 DEF License
  <2>5. \A x \in DOMAIN active : /\ active'[x] \in License
                                 /\ active'[x].used < active'[x].allowed
    BY <2>3, <2>4 DEF LicenseInv, ActiveType, LicenseBudget
  <2>6. active' \in [DOMAIN active -> License]
    BY <2>1, <2>5 DEF LicenseInv, ActiveType
  <2> QED
    BY <2>2, <2>5, <2>6 DEF LicenseInv, ActiveType, IdsBounded, LicenseBudget
<1> QED  BY <1>2, <1>3

(***************************************************************************)
(* A dig without a treasure: the cell is one deeper, and there was nothing *)
(* at the depth that is now dug.                                           *)
(***************************************************************************)
LEMMA MissInv ==
    ASSUME FieldInv, NEW c \in Cell, NEW d \in Depths, d = depthMap[c] + 1,
           treasure[c][d] = 0,
           depthMap' = [depthMap EXCEPT ![c] = @ + 1],
           UNCHANGED <<treasure, counts, registry, unavailable>>
    PROVE  FieldInv'
<1>1. /\ MaxDepth \in Nat /\ d \in 1..MaxDepth
      /\ depthMap \in [Cell -> 0..MaxDepth]
  BY WorldAssumption DEF FieldInv, Depths
<1>2. /\ depthMap' \in [Cell -> 0..MaxDepth]
      /\ depthMap'[c] = d
      /\ \A x \in Cell \ {c} : depthMap'[x] = depthMap[x]
      /\ \A x \in Cell : depthMap[x] <= depthMap'[x] /\ depthMap'[x] \in Nat
  BY <1>1
<1>3. CountsAgree'
  BY DEF FieldInv, CountsAgree
<1>4. NothingLeftAbove'
  <2>1. SUFFICES ASSUME NEW x \in Cell, NEW e \in Depths, treasure[x][e] > 0
                 PROVE  e > depthMap'[x]
    BY DEF NothingLeftAbove
  <2>2. e > depthMap[x] /\ e \in Nat
    BY <1>1, <2>1 DEF FieldInv, NothingLeftAbove, Depths
  <2>3. CASE x = c
    <3>1. e # d
      BY <2>1, <2>3
    <3> QED  BY <1>1, <1>2, <2>2, <2>3, <3>1
  <2>4. CASE x # c
    BY <1>2, <2>2, <2>4
  <2> QED  BY <2>3, <2>4
<1>5. RegistryConsistent'
  <2>1. SUFFICES ASSUME NEW t \in DOMAIN registry
                 PROVE  t[2] <= depthMap'[t[1]]
    BY DEF FieldInv, RegistryConsistent
  <2>2. t[1] \in Cell /\ t[2] \in Nat /\ t[2] <= depthMap[t[1]]
    BY <1>1 DEF FieldInv, RegistryConsistent, TreasureId, Depths
  <2> QED  BY <1>1, <1>2, <2>2
<1> QED  BY <1>2, <1>3, <1>4, <1>5 DEF FieldInv

(***************************************************************************)
(* A dig with a treasure: what leaves the ground enters the registry, and  *)
(* the cached count goes down with the treasures left (world.py:268-274).  *)
(***************************************************************************)
LEMMA UnearthInv ==
    ASSUME FieldInv, NEW c \in Cell, NEW d \in Depths, d = depthMap[c] + 1,
           treasure[c][d] # 0,
           depthMap' = [depthMap EXCEPT ![c] = @ + 1],
           Unearth(c, d)
    PROVE  FieldInv'
<1>1. /\ MaxDepth \in Nat /\ d \in 1..MaxDepth
      /\ depthMap \in [Cell -> 0..MaxDepth]
      /\ treasure \in [Cell -> [Depths -> Nat]]
      /\ counts \in [Cell -> 0..MaxDepth]
  BY WorldAssumption DEF FieldInv, Depths
<1>2. /\ depthMap' \in [Cell -> 0..MaxDepth]
      /\ depthMap'[c] = d
      /\ \A x \in Cell \ {c} : depthMap'[x] = depthMap[x]
      /\ \A x \in Cell : depthMap[x] <= depthMap'[x] /\ depthMap'[x] \in Nat
  BY <1>1
<1>3. /\ treasure' \in [Cell -> [Depths -> Nat]]
      /\ treasure'[c][d] = 0
      /\ \A x \in Cell, e \in Depths :
            <<x, e>> # <<c, d>> => treasure'[x][e] = treasure[x][e]
  <2>1. treasure' = [treasure EXCEPT ![c] = [treasure[c] EXCEPT ![d] = 0]]
    BY DEF Unearth
  <2>2. [treasure[c] EXCEPT ![d] = 0] \in [Depths -> Nat]
    BY <1>1
  <2>3. treasure' \in [Cell -> [Depths -> Nat]]
    BY <1>1, <2>1, <2>2
  <2>4. treasure'[c] = [treasure[c] EXCEPT ![d] = 0]
    BY <1>1, <2>1
  <2>5. \A x \in Cell \ {c} : treasure'[x] = treasure[x]
    BY <1>1, <2>1
  <2>6. \A e \in Depths : treasure'[c][e] = IF e = d THEN 0 ELSE treasure[c][e]
    BY <1>1, <2>4
  <2> QED  BY <2>3, <2>5, <2>6
<1>4. /\ DOMAIN registry' = DOMAIN registry \cup {<<c, d>>}
      /\ registry' \in [DOMAIN registry' -> Nat \ {0}]
      /\ DOMAIN registry' \subseteq TreasureId
      /\ unavailable' \subseteq DOMAIN registry'
  <2>1. registry' = [t \in DOMAIN registry \cup {<<c, d>>} |->
                         IF t = <<c, d>> THEN treasure[c][d] ELSE registry[t]]
    BY DEF Unearth
  <2>2. treasure[c][d] \in Nat \ {0}
    BY <1>1
  <2>3. registry' \in [DOMAIN registry \cup {<<c, d>>} -> Nat \ {0}]
    BY <2>1, <2>2 DEF FieldInv
  <2>4. <<c, d>> \in TreasureId
    BY DEF TreasureId
  <2> QED  BY <2>1, <2>3, <2>4 DEF FieldInv, RegistryConsistent, Unearth
<1>5. \A x \in Cell : TreasuresBelow(treasure', x)
                        = IF x = c THEN TreasuresBelow(treasure, c) \ {d}
                                   ELSE TreasuresBelow(treasure, x)
  <2>1. SUFFICES ASSUME NEW x \in Cell
                 PROVE  TreasuresBelow(treasure', x)
                            = IF x = c THEN TreasuresBelow(treasure, c) \ {d}
                                       ELSE TreasuresBelow(treasure, x)
    OBVIOUS
  <2>2. ASSUME NEW e \in Depths, <<x, e>> # <<c, d>>
        PROVE  treasure'[x][e] = treasure[x][e]
    BY <1>3, <2>2
  <2>3. CASE x = c
    <3>1. \A e \in Depths : treasure'[c][e] > 0 <=> treasure[c][e] > 0 /\ e # d
      BY <1>1, <1>3, <2>2, <2>3
    <3> QED  BY <2>3, <3>1 DEF TreasuresBelow
  <2>4. CASE x # c
    <3>1. \A e \in Depths : treasure'[x][e] = treasure[x][e]
      BY <2>2, <2>4
    <3> QED  BY <2>4, <3>1 DEF TreasuresBelow
  <2> QED  BY <2>3, <2>4
<1>6. counts' \in [Cell -> 0..MaxDepth] /\ CountsAgree'
  <2>1. counts' = [counts EXCEPT ![c] = counts[c] - 1]
    BY DEF Unearth
  <2>2. \A x \in Cell : counts[x] = Cardinality(TreasuresBelow(treasure, x))
    BY DEF FieldInv, CountsAgree
  <2>3. d \in TreasuresBelow(treasure, c)
    BY <1>1 DEF TreasuresBelow
  <2>4. /\ IsFiniteSet(TreasuresBelow(treasure, c))
        /\ Cardinality(TreasuresBelow(treasure, c) \ {d})
              = Cardinality(TreasuresBelow(treasure, c)) - 1
        /\ Cardinality(TreasuresBelow(treasure, c) \ {d}) \in Nat
    BY <2>3, BelowFinite, FS_RemoveElement, FS_CardinalityType
  <2>5. \A x \in Cell : counts'[x] = Cardinality(TreasuresBelow(treasure', x))
    <3>1. counts'[c] = counts[c] - 1 /\ \A x \in Cell \ {c} : counts'[x] = counts[x]
      BY <1>1, <2>1
    <3>2. counts'[c] = Cardinality(TreasuresBelow(treasure', c))
      BY <1>5, <2>2, <2>4, <3>1
    <3>3. \A x \in Cell \ {c} : counts'[x] = Cardinality(TreasuresBelow(treasure', x))
      BY <1>5, <2>2, <3>1
    <3> QED  BY <3>2, <3>3
  <2>6. counts[c] - 1 \in 0..MaxDepth
    BY <1>1, <2>2, <2>4
  <2>7. counts' \in [Cell -> 0..MaxDepth]
    BY <1>1, <2>1, <2>6
  <2> QED  BY <2>5, <2>7 DEF CountsAgree
<1>7. NothingLeftAbove'
  <2>1. SUFFICES ASSUME NEW x \in Cell, NEW e \in Depths, treasure'[x][e] > 0
                 PROVE  e > depthMap'[x]
    BY DEF NothingLeftAbove
  <2>2. <<x, e>> # <<c, d>> /\ treasure[x][e] > 0
    BY <1>3, <2>1
  <2>3. e > depthMap[x] /\ e \in Nat
    BY <1>1, <2>2 DEF FieldInv, NothingLeftAbove, Depths
  <2>4. CASE x = c
    BY <1>1, <1>2, <2>2, <2>3, <2>4
  <2>5. CASE x # c
    BY <1>2, <2>3, <2>5
  <2> QED  BY <2>4, <2>5
<1>8. RegistryConsistent'
  <2>1. SUFFICES ASSUME NEW t \in DOMAIN registry'
                 PROVE  t[2] <= depthMap'[t[1]]
    BY <1>4 DEF RegistryConsistent
  <2>2. CASE t = <<c, d>>
    BY <1>1, <1>2, <2>2
  <2>3. CASE t \in DOMAIN registry
    <3>1. t[1] \in Cell /\ t[2] \in Nat /\ t[2] <= depthMap[t[1]]
      BY <1>1, <2>3 DEF FieldInv, RegistryConsistent, TreasureId, Depths
    <3> QED  BY <1>1, <1>2, <3>1
  <2> QED  BY <1>4, <2>1, <2>2, <2>3
<1> QED  BY <1>2, <1>3, <1>4, <1>6, <1>7, <1>8 DEF FieldInv

LEMMA DigInv == ASSUME IInv, NEW req, Dig(req) PROVE IInv'
<1>1. CoinInv' /\ throttled' \in BOOLEAN
  BY DEF IInv, Dig, moneyVars, CoinInv, CoinsIssued
<1>2. CASE DigStatus(req) \in {200, 404}
  <2>1. PICK c \in Cell, d \in Depths : c = req.cell /\ d = req.depth
    BY <1>2, DigChecks
  <2>2. /\ req.license \in DOMAIN active
        /\ d = depthMap[c] + 1
        /\ (DigStatus(req) = 200) <=> (treasure[c][d] # 0)
    BY <1>2, <2>1, DigChecks
  <2>3. /\ depthMap' = [depthMap EXCEPT ![c] = @ + 1]
        /\ UseLicense(req.license)
    BY <1>2, <2>1 DEF Dig
  <2>4. LicenseInv'
    BY <2>2, <2>3, UseLicenseInv DEF IInv
  <2>5. FieldInv /\ d = depthMap[c] + 1 /\ depthMap' = [depthMap EXCEPT ![c] = @ + 1]
    BY <2>2, <2>3 DEF IInv
  <2>6. CASE DigStatus(req) = 200
    <3>1. Unearth(c, d)
      BY <2>1, <2>6 DEF Dig, Unearth
    <3>2. treasure[c][d] # 0
      BY <2>2, <2>6
    <3>3. FieldInv'
      BY <2>5, <3>1, <3>2, UnearthInv, Zenon
    <3> QED  BY <1>1, <2>4, <3>3 DEF IInv
  <2>7. CASE DigStatus(req) # 200
    <3>1. UNCHANGED <<treasure, counts, registry, unavailable>>
      BY <2>7 DEF Dig
    <3>2. treasure[c][d] = 0
      BY <2>2, <2>7
    <3>3. FieldInv'
      BY <2>2, <2>3, <2>5, <3>1, <3>2, MissInv
    <3> QED  BY <1>1, <2>4, <3>3 DEF IInv
  <2> QED  BY <2>6, <2>7
<1>3. CASE DigStatus(req) \notin {200, 404}
  <2>1. UNCHANGED <<treasure, depthMap, counts, registry, unavailable, active>>
    BY <1>3 DEF Dig
  <2>2. FieldInv'
    BY <2>1 DEF IInv, FieldInv, CountsAgree, NothingLeftAbove, RegistryConsistent
  <2>3. LicenseInv'
    BY <2>1 DEF IInv, LicenseInv, ActiveType, IdsBounded, LicenseBudget
  <2> QED  BY <1>1, <2>2, <2>3 DEF IInv
<1> QED  BY <1>2, <1>3

-----------------------------------------------------------------------------
(***************************************************************************)
(* cash                                                                    *)
(***************************************************************************)
(***************************************************************************)
(* The exchange of a treasure takes it out of both registers, or, refused  *)
(* with 503, out of the second only.                                       *)
(***************************************************************************)
LEMMA CashInv == ASSUME IInv, NEW t, Cash(t) PROVE IInv'
<1>1. LicenseInv' /\ throttled' \in BOOLEAN
  BY DEF IInv, Cash, LicenseInv, ActiveType, IdsBounded, LicenseBudget
<1>2. UNCHANGED <<treasure, depthMap, counts>> /\ unavailable' = unavailable \ {t}
  BY DEF Cash, fieldVars
<1>3. CASE CashStatus(t) = 200
  <2>1. t \in DOMAIN registry /\ registry[t] \in Nat \ {0}
    BY <1>3 DEF CashStatus, IInv, FieldInv
  <2>2. registry' = [x \in DOMAIN registry \ {t} |-> registry[x]]
    BY <1>3 DEF Cash, Restrict
  <2>3. FieldInv'
    <3>1. /\ DOMAIN registry' = DOMAIN registry \ {t}
          /\ registry' \in [DOMAIN registry' -> Nat \ {0}]
      BY <2>2 DEF IInv, FieldInv
    <3>2. RegistryConsistent'
      BY <1>2, <3>1 DEF IInv, FieldInv, RegistryConsistent
    <3> QED
      BY <1>2, <3>1, <3>2 DEF IInv, FieldInv, CountsAgree, NothingLeftAbove
  <2>4. CoinInv'
    <3>1. PICK v \in Nat \ {0} : v = registry[t]
      BY <2>1
    <3>2. /\ coins' = coins \cup (nextCoin..(nextCoin + v - 1))
          /\ nextCoin' = nextCoin + v
      BY <1>3, <3>1 DEF Cash, Wallet
    <3>3. nextCoin \in Nat /\ coins \subseteq 0..(nextCoin - 1)
      BY DEF IInv, CoinInv, CoinsIssued
    <3>4. nextCoin + v \in Nat
      BY <3>3
    <3>5. ASSUME NEW x \in coins' PROVE x \in 0..(nextCoin + v - 1)
      <4>1. CASE x \in coins
        BY <3>3, <4>1
      <4>2. CASE x \in nextCoin..(nextCoin + v - 1)
        BY <3>3, <4>2
      <4> QED  BY <3>2, <4>1, <4>2
    <3>6. coins' \in SUBSET Nat
      BY <3>4, <3>5
    <3>7. nextCoin' \in Nat
      BY <3>2, <3>4
    <3>8. coins' \subseteq 0..(nextCoin' - 1)
      <4>1. nextCoin' - 1 = nextCoin + v - 1
        BY <3>2, <3>3
      <4> QED  BY <3>5, <4>1
    <3> QED  BY <3>6, <3>7, <3>8 DEF CoinInv, CoinsIssued
  <2> QED  BY <1>1, <2>3, <2>4 DEF IInv
<1>4. CASE CashStatus(t) # 200
  <2>1. UNCHANGED <<coins, nextCoin, registry>>
    BY <1>4 DEF Cash
  <2>2. FieldInv'
    BY <1>2, <2>1
       DEF IInv, FieldInv, CountsAgree, NothingLeftAbove, RegistryConsistent
  <2> QED  BY <1>1, <2>1, <2>2 DEF IInv, CoinInv, CoinsIssued
<1> QED  BY <1>3, <1>4

-----------------------------------------------------------------------------
(***************************************************************************)
(* issue_license                                                           *)
(***************************************************************************)
LEMMA DigsAllowedPositive ==
    ASSUME NEW payment, NEW allowed \in DigsAllowed(payment)
    PROVE  allowed \in Nat \ {0}
BY WorldAssumption DEF DigsAllowed

LEMMA IssueLicenseInv ==
    ASSUME IInv, NEW payment, NEW allowed, IssueLicense(payment, allowed)
    PROVE  IInv'
<1>1. FieldInv'
  BY DEF IInv, IssueLicense, fieldVars, treasureVars, FieldInv, CountsAgree,
         NothingLeftAbove, RegistryConsistent
<1>2. nextCoin' = nextCoin /\ allowed \in Nat \ {0}
  BY DigsAllowedPositive DEF IssueLicense
<1>3. CASE LicenseStatus(payment) = 200
  <2>1. /\ active' = [id \in DOMAIN active \cup {NewId} |->
                          IF id = NewId THEN [used |-> 0, allowed |-> allowed]
                                        ELSE active[id]]
        /\ coins' = coins \ payment
        /\ throttled' = (throttled \/ payment = {})
    BY <1>3 DEF IssueLicense
  <2>2. /\ IsFiniteSet(DOMAIN active)
        /\ NewId \in Nat \ {0}
        /\ \A id \in DOMAIN active : id < NewId
    BY NewIdIsNew DEF IInv, LicenseInv
  <2>3. DOMAIN active' = DOMAIN active \cup {NewId}
    BY <2>1
  <2>4. [used |-> 0, allowed |-> allowed] \in License
    BY <1>2 DEF License
  <2>5. ActiveType'
    BY <2>1, <2>2, <2>3, <2>4 DEF IInv, LicenseInv, ActiveType
  <2>6. IdsBounded'
    BY <2>2, <2>3 DEF IInv, LicenseInv, ActiveType, IdsBounded
  <2>7. LicenseBudget'
    <3>1. ~(Cardinality(DOMAIN active) >= MaxLicenses)
      BY <1>3 DEF LicenseStatus
    <3>2. Cardinality(DOMAIN active \cup {NewId})
              = IF NewId \in DOMAIN active THEN Cardinality(DOMAIN active)
                                           ELSE Cardinality(DOMAIN active) + 1
      BY <2>2, FS_AddElement
    <3>3. Cardinality(DOMAIN active') <= MaxLicenses
      <4>1. Cardinality(DOMAIN active) \in Nat
        BY <2>2, FS_CardinalityType
      <4> QED  BY <2>3, <3>1, <3>2, <4>1, WorldAssumption
    <3>4. \A id \in DOMAIN active' : active'[id].used < active'[id].allowed
      BY <1>2, <2>1, <2>3 DEF IInv, LicenseInv, LicenseBudget
    <3> QED  BY <3>3, <3>4 DEF LicenseBudget
  <2>8. CoinInv'
    BY <1>2, <2>1 DEF IInv, CoinInv, CoinsIssued
  <2>9. throttled' \in BOOLEAN
    BY <2>1, Zenon DEF IInv
  <2> QED  BY <1>1, <2>5, <2>6, <2>7, <2>8, <2>9 DEF IInv, LicenseInv
<1>4. CASE LicenseStatus(payment) # 200
  <2>1. UNCHANGED <<active, coins, throttled>>
    BY <1>4 DEF IssueLicense
  <2> QED
    BY <1>1, <1>2, <2>1 DEF IInv, LicenseInv, ActiveType, IdsBounded,
                            LicenseBudget, CoinInv, CoinsIssued
<1> QED  BY <1>3, <1>4

-----------------------------------------------------------------------------
LEMMA StutterInv == ASSUME IInv, UNCHANGED vars PROVE IInv'
BY DEF vars, fieldVars, treasureVars, moneyVars, IInv, FieldInv, CountsAgree,
       NothingLeftAbove, RegistryConsistent, LicenseInv, ActiveType, IdsBounded,
       LicenseBudget, CoinInv, CoinsIssued

LEMMA TickInv == ASSUME IInv, Tick PROVE IInv'
<1>1. throttled' \in BOOLEAN
  BY DEF Tick
<1>2. FieldInv' /\ LicenseInv' /\ CoinInv'
  BY DEF Tick, fieldVars, treasureVars, moneyVars, IInv, FieldInv, CountsAgree,
         NothingLeftAbove, RegistryConsistent, LicenseInv, ActiveType,
         IdsBounded, LicenseBudget, CoinInv, CoinsIssued
<1> QED  BY <1>1, <1>2 DEF IInv

LEMMA NextInv == IInv /\ [Next]_vars => IInv'
<1> SUFFICES ASSUME IInv, [Next]_vars PROVE IInv'
  OBVIOUS
<1>1. ASSUME NEW req \in DigCall, Dig(req) PROVE IInv'
  BY <1>1, DigInv
<1>2. ASSUME NEW t \in TreasureId, Cash(t) PROVE IInv'
  BY <1>2, CashInv
<1>3. ASSUME NEW payment \in Payment, NEW allowed \in DigsAllowed(payment),
             IssueLicense(payment, allowed)
      PROVE  IInv'
  BY <1>3, IssueLicenseInv
<1>4. CASE Tick
  BY <1>4, TickInv
<1>5. CASE UNCHANGED vars
  BY <1>5, StutterInv
<1> QED  BY <1>1, <1>2, <1>3, <1>4, <1>5 DEF Next

-----------------------------------------------------------------------------
(***************************************************************************)
(* The theorems.                                                           *)
(***************************************************************************)
LEMMA Invariance == Spec => []IInv
<1>1. Init => IInv
  BY InitInv
<1>2. IInv /\ [Next]_vars => IInv'
  BY NextInv
<1> QED  BY <1>1, <1>2, PTL DEF Spec

LEMMA TypeFromInv == IInv => TypeOK
<1> SUFFICES ASSUME IInv PROVE TypeOK
  OBVIOUS
<1>1. unavailable \in SUBSET TreasureId
  BY DEF IInv, FieldInv, RegistryConsistent
<1> QED  BY <1>1 DEF IInv, FieldInv, LicenseInv, ActiveType, CoinInv, TypeOK

(***************************************************************************)
(* Every variable keeps its type: the depth of a cell never passes DEPTH,  *)
(* and the cached counts never become negative.                            *)
(***************************************************************************)
THEOREM TypeCorrect == Spec => []TypeOK
<1>1. IInv => TypeOK
  BY TypeFromInv
<1> QED  BY <1>1, Invariance, PTL

(***************************************************************************)
(* The counts that explore answers from are the counts of the map          *)
(* (world.py:90, 225, 274).                                                *)
(***************************************************************************)
THEOREM CacheCorrect == Spec => []CountsAgree
<1>1. IInv => CountsAgree
  BY DEF IInv, FieldInv
<1> QED  BY <1>1, Invariance, PTL

(***************************************************************************)
(* Nothing lies above the depth already dug: depths are dug in order, each *)
(* once (world.py:248-254).                                                *)
(***************************************************************************)
THEOREM DugInOrder == Spec => []NothingLeftAbove
<1>1. IInv => NothingLeftAbove
  BY DEF IInv, FieldInv
<1> QED  BY <1>1, Invariance, PTL

(***************************************************************************)
(* The registers of treasures agree with each other and with the field     *)
(* (world.py:268-274, 281-299).                                            *)
(***************************************************************************)
THEOREM RegistersAgree == Spec => []RegistryConsistent
<1>1. IInv => RegistryConsistent
  BY DEF IInv, FieldInv
<1> QED  BY <1>1, Invariance, PTL

(***************************************************************************)
(* The limit on active licences holds and none is kept without digs left   *)
(* (world.py:259, 321).                                                    *)
(***************************************************************************)
THEOREM LimitHolds == Spec => []LicenseBudget
<1>1. IInv => LicenseBudget
  BY DEF IInv, LicenseInv
<1> QED  BY <1>1, Invariance, PTL

(***************************************************************************)
(* Only coins below _next_coin are in the wallet, so that the coins of the *)
(* next exchange are new ones (world.py:290-293).                          *)
(***************************************************************************)
THEOREM WalletIssued == Spec => []CoinsIssued
<1>1. IInv => CoinsIssued
  BY DEF IInv, CoinInv
<1> QED  BY <1>1, Invariance, PTL

(***************************************************************************)
(* An active licence is never overwritten by a new one, loses its digs one *)
(* by one and goes with the last one, whatever the order in which licences *)
(* are used up (world.py:256-260, 314).                                    *)
(***************************************************************************)
THEOREM Honoured == Spec => LicensesHonoured
<1> DEFINE Kept(id) ==
        IF id \in DOMAIN active'
        THEN /\ active'[id].allowed = active[id].allowed
             /\ active'[id].used \in {active[id].used, active[id].used + 1}
        ELSE active[id].used + 1 = active[id].allowed
<1>1. ASSUME IInv, [Next]_vars, NEW id \in DOMAIN active PROVE Kept(id)
  <2>1. /\ active \in [DOMAIN active -> License]
        /\ active[id].used \in Nat /\ active[id].allowed \in Nat
        /\ active[id].used < active[id].allowed
    BY <1>1 DEF IInv, LicenseInv, ActiveType, LicenseBudget, License
  <2>2. CASE UNCHANGED active
    BY <2>1, <2>2
  <2>3. ASSUME NEW x \in DOMAIN active, UseLicense(x) PROVE Kept(id)
    <3> DEFINE used == active[x].used + 1
    <3>1. CASE used >= active[x].allowed
      <4>1. active' = [y \in DOMAIN active \ {x} |-> active[y]]
        BY <2>3, <3>1 DEF UseLicense, Restrict
      <4>2. CASE id = x
        BY <2>1, <3>1, <4>1, <4>2
      <4>3. CASE id # x
        BY <2>1, <4>1, <4>3
      <4> QED  BY <4>2, <4>3
    <3>2. CASE ~(used >= active[x].allowed)
      <4>1. active' = [active EXCEPT ![x].used = used]
        BY <2>3, <3>2 DEF UseLicense
      <4>2. CASE id = x
        <5>1. active'[id] = [active[id] EXCEPT !.used = active[id].used + 1]
          BY <4>1, <4>2
        <5>2. active[id] \in License
          BY <2>1
        <5> QED  BY <4>1, <5>1, <5>2 DEF License
      <4>3. CASE id # x
        BY <2>1, <4>1, <4>3
      <4> QED  BY <4>2, <4>3
    <3> QED  BY <3>1, <3>2
  <2>4. ASSUME NEW req, Dig(req) PROVE Kept(id)
    <3>1. CASE DigStatus(req) \in {200, 404}
      <4>1. req.license \in DOMAIN active /\ UseLicense(req.license)
        BY <2>4, <3>1, DigChecks DEF Dig
      <4> HIDE DEF Kept
      <4> QED  BY <2>3, <4>1
    <3>2. CASE DigStatus(req) \notin {200, 404}
      <4>1. UNCHANGED active
        BY <2>4, <3>2 DEF Dig
      <4> QED  BY <2>2, <4>1
    <3> QED  BY <3>1, <3>2
  <2>5. ASSUME NEW payment, NEW allowed, IssueLicense(payment, allowed)
        PROVE  Kept(id)
    <3>1. CASE LicenseStatus(payment) = 200
      <4>1. active' = [y \in DOMAIN active \cup {NewId} |->
                          IF y = NewId THEN [used |-> 0, allowed |-> allowed]
                                       ELSE active[y]]
        BY <2>5, <3>1 DEF IssueLicense
      <4>2. id < NewId /\ id \in Nat /\ NewId \in Nat
        BY <1>1, NewIdIsNew DEF IInv, LicenseInv, ActiveType
      <4>3. active'[id] = active[id] /\ id \in DOMAIN active'
        BY <4>1, <4>2
      <4> QED  BY <2>1, <4>3
    <3>2. CASE LicenseStatus(payment) # 200
      <4>1. UNCHANGED active
        BY <2>5, <3>2 DEF IssueLicense
      <4> QED  BY <2>2, <4>1
    <3> QED  BY <3>1, <3>2
  <2>6. ASSUME NEW t, Cash(t) PROVE Kept(id)
    BY <2>2, <2>6 DEF Cash
  <2>7. CASE Tick \/ UNCHANGED vars
    BY <2>2, <2>7 DEF Tick, vars
  <2> HIDE DEF Kept
  <2> QED  BY <1>1, <2>4, <2>5, <2>6, <2>7 DEF Next
<1>2. IInv /\ [Next]_vars => [\A id \in DOMAIN active : Kept(id)]_vars
  BY <1>1
<1> QED  BY <1>2, Invariance, PTL DEF Spec, LicensesHonoured

(***************************************************************************)
(* The number of a spent coin is never issued again (world.py:290-293):    *)
(* the client may use it once.                                             *)
(***************************************************************************)
THEOREM SpentOnce == Spec => CoinsSpentOnce
<1> DEFINE Gone == \A c \in 0..(nextCoin - 1) : c \notin coins => c \notin coins'
<1>1. ASSUME IInv, [Next]_vars PROVE Gone
  <2>1. nextCoin \in Nat
    BY <1>1 DEF IInv, CoinInv
  <2>2. CASE UNCHANGED coins
    BY <2>2
  <2>3. ASSUME NEW t, Cash(t) PROVE Gone
    <3>1. CASE UNCHANGED coins
      BY <3>1
    <3>2. CASE CashStatus(t) = 200
      <4>1. coins' = coins \cup (nextCoin..(nextCoin + registry[t] - 1))
        BY <2>3, <3>2 DEF Cash, Wallet
      <4>2. \A c \in 0..(nextCoin - 1) :
                c \notin nextCoin..(nextCoin + registry[t] - 1)
        BY <2>1
      <4> QED  BY <4>1, <4>2
    <3> QED  BY <2>3, <3>1, <3>2 DEF Cash
  <2>4. ASSUME NEW payment, NEW allowed, IssueLicense(payment, allowed)
        PROVE  Gone
    BY <2>4 DEF IssueLicense
  <2>5. ASSUME NEW req, Dig(req) PROVE Gone
    BY <2>2, <2>5 DEF Dig, moneyVars
  <2>6. CASE Tick \/ UNCHANGED vars
    BY <2>2, <2>6 DEF Tick, vars, moneyVars
  <2> HIDE DEF Gone
  <2> QED  BY <1>1, <2>3, <2>4, <2>5, <2>6 DEF Next
<1>2. IInv /\ [Next]_vars => [Gone]_vars
  BY <1>1
<1> QED  BY <1>2, Invariance, PTL DEF Spec, CoinsSpentOnce

(***************************************************************************)
(* A treasure refused with 503 stays exchangeable: its mark goes only with *)
(* a call that leaves it in the registry (world.py:285-287).               *)
(***************************************************************************)
THEOREM RefusedOnce == Spec => RetryPays
<1> DEFINE Kept == \A t \in unavailable :
                       t \notin unavailable' => CashStatus(t)' = 200
<1>1. ASSUME IInv, [Next]_vars PROVE Kept
  <2>1. unavailable \subseteq DOMAIN registry
    BY <1>1 DEF IInv, FieldInv, RegistryConsistent
  <2>2. CASE unavailable \subseteq unavailable'
    BY <2>2
  <2>3. ASSUME NEW x, Cash(x) PROVE Kept
    <3>1. SUFFICES ASSUME NEW t \in unavailable, t \notin unavailable'
                   PROVE  CashStatus(t)' = 200
      OBVIOUS
    <3>2. t = x
      BY <2>3, <3>1 DEF Cash
    <3>3. CashStatus(x) # 200
      BY <3>1, <3>2 DEF CashStatus
    <3>4. registry' = registry
      BY <2>3, <3>3 DEF Cash
    <3> QED  BY <2>1, <3>1, <3>4 DEF CashStatus
  <2>4. ASSUME NEW req, Dig(req) PROVE unavailable \subseteq unavailable'
    BY <2>4 DEF Dig, Unearth
  <2>5. ASSUME NEW payment, NEW allowed, IssueLicense(payment, allowed)
        PROVE  unavailable \subseteq unavailable'
    BY <2>5 DEF IssueLicense, treasureVars
  <2>6. CASE Tick \/ UNCHANGED vars
    BY <2>2, <2>6 DEF Tick, vars, treasureVars
  <2> HIDE DEF Kept
  <2> QED  BY <1>1, <2>2, <2>3, <2>4, <2>5, <2>6 DEF Next
<1>2. IInv /\ [Next]_vars => [Kept]_vars
  BY <1>1
<1> QED  BY <1>2, Invariance, PTL DEF Spec, RetryPays

-----------------------------------------------------------------------------
(***************************************************************************)
(* What explore answers.                                                   *)
(***************************************************************************)
LEMMA FieldFinite == IsFiniteSet(Cell) /\ IsFiniteSet(TreasureId)
<1>1. /\ IsFiniteSet(0..(Width - 1)) /\ IsFiniteSet(0..(Height - 1))
      /\ IsFiniteSet(1..MaxDepth)
  BY WorldAssumption, FS_Interval
<1>2. IsFiniteSet(Cell)
  BY <1>1, FS_Product DEF Cell
<1> QED  BY <1>1, <1>2, FS_Product DEF TreasureId, Depths

TreasuresIn(C) == {t \in C \X Depths : treasure[t[1]][t[2]] > 0}

LEMMA ColumnCount ==
    ASSUME NEW c \in Cell
    PROVE  /\ IsFiniteSet(TreasuresIn({c}))
           /\ Cardinality(TreasuresIn({c})) = Cardinality(TreasuresBelow(treasure, c))
<1> DEFINE B == TreasuresBelow(treasure, c)
           f == [d \in B |-> <<c, d>>]
<1>1. f \in Bijection(B, TreasuresIn({c}))
  BY DEF Bijection, Injection, Surjection, IsInjective, TreasuresBelow, TreasuresIn
<1>2. IsFiniteSet(B)
  BY BelowFinite
<1>3. ExistsBijection(B, TreasuresIn({c}))
  <2> HIDE DEF f, B
  <2> QED  BY <1>1 DEF ExistsBijection
<1> QED  BY <1>2, <1>3, FS_Bijection

(***************************************************************************)
(* The sum of the cached counts of some cells is the number of treasures   *)
(* left below them.                                                        *)
(***************************************************************************)
LEMMA SumOfCounts ==
    ASSUME FieldInv, NEW S \in SUBSET Cell
    PROVE  Sum(counts, S) = Cardinality(TreasuresIn(S))
<1> DEFINE F == {T \in SUBSET S : /\ IsFiniteSet(TreasuresIn(T))
                                  /\ Sum(counts, T) = Cardinality(TreasuresIn(T))}
<1>1. IsFiniteSet(S)
  BY FieldFinite, FS_Subset
<1>2. {} \in F
  <2>1. TreasuresIn({}) = {}
    BY DEF TreasuresIn
  <2> QED  BY <2>1, SumEmpty, FS_EmptySet
<1>3. \A c \in S : counts[c] \in Int
  BY DEF FieldInv
<1>4. ASSUME NEW T \in SUBSET S, NEW c \in S \ T, T \in F PROVE T \cup {c} \in F
  <2>1. c \in Cell /\ counts[c] = Cardinality(TreasuresIn({c}))
    BY ColumnCount DEF FieldInv, CountsAgree
  <2>2. Sum(counts, T \cup {c}) = counts[c] + Sum(counts, T)
    BY <1>1, <1>3, SumGrow
  <2>3. /\ TreasuresIn(T \cup {c}) = TreasuresIn(T) \cup TreasuresIn({c})
        /\ TreasuresIn(T) \cap TreasuresIn({c}) = {}
    BY DEF TreasuresIn
  <2>4. IsFiniteSet(TreasuresIn(T)) /\ IsFiniteSet(TreasuresIn({c}))
    BY <1>4, <2>1, ColumnCount
  <2>5. /\ Cardinality(TreasuresIn(T)) \in Nat
        /\ Cardinality(TreasuresIn({c})) \in Nat
    BY <2>4, FS_CardinalityType
  <2>6. /\ IsFiniteSet(TreasuresIn(T \cup {c}))
        /\ Cardinality(TreasuresIn(T \cup {c}))
              = Cardinality(TreasuresIn(T)) + Cardinality(TreasuresIn({c}))
    <3> DEFINE A == TreasuresIn(T)
               B == TreasuresIn({c})
    <3>1. /\ IsFiniteSet(A) /\ IsFiniteSet(B) /\ A \cap B = {}
          /\ Cardinality(A) \in Nat /\ Cardinality(B) \in Nat
      BY <2>3, <2>4, <2>5
    <3> HIDE DEF A, B
    <3>2. /\ IsFiniteSet(A \cup B)
          /\ Cardinality(A \cup B)
                = Cardinality(A) + Cardinality(B) - Cardinality(A \cap B)
      BY <3>1, FS_Union
    <3>3. Cardinality(A \cap B) = 0
      BY <3>1, FS_EmptySet
    <3>4. Cardinality(A \cup B) = Cardinality(A) + Cardinality(B)
      BY <3>1, <3>2, <3>3
    <3> QED  BY <2>3, <3>2, <3>4 DEF A, B
  <2>7. Sum(counts, T) = Cardinality(TreasuresIn(T))
    BY <1>4
  <2>8. Sum(counts, T \cup {c}) = Cardinality(TreasuresIn(T \cup {c}))
    BY <2>1, <2>2, <2>5, <2>6, <2>7
  <2> QED  BY <2>6, <2>8
<1>5. S \in F
  <2> HIDE DEF F
  <2> QED  BY <1>1, <1>2, <1>4, FiniteInduction
<1> QED  BY <1>5

(***************************************************************************)
(* explore answers exactly the areas inside the field, and with the number *)
(* of treasures that are left there (world.py:208-232).                    *)
(***************************************************************************)
THEOREM ExploreAnswers == Spec => []ExploreTruthful
<1>1. ASSUME IInv PROVE ExploreTruthful
  <2> DEFINE CellsOf(area) == ((area.x)..(area.x + area.sizeX - 1))
                                  \X ((area.y)..(area.y + area.sizeY - 1))
             Answered(area, C) ==
                 IF C \subseteq Cell
                 THEN /\ ExploreStatus(area) = 200
                      /\ ExploreAmount(area) = Cardinality(TreasuresIn(C))
                 ELSE ExploreStatus(area) = 422
  <2> HIDE DEF Answered
  <2>0. SUFFICES \A area \in Area : Answered(area, CellsOf(area))
    BY Zenon DEF ExploreTruthful, TreasuresIn, Answered
  <2>1. SUFFICES ASSUME NEW area \in Area, NEW cells, cells = CellsOf(area)
                 PROVE  Answered(area, cells)
    OBVIOUS
  <2>2. PICK x \in Nat, y \in Nat, w \in Nat \ {0}, h \in Nat \ {0} :
            area.x = x /\ area.y = y /\ area.sizeX = w /\ area.sizeY = h
    BY <2>1, WorldAssumption DEF Area
  <2>3. cells = (x..(x + w - 1)) \X (y..(y + h - 1))
    BY <2>1, <2>2
  <2>4. cells \subseteq Cell <=> x + w <= Width /\ y + h <= Height
    <3>1. ASSUME cells \subseteq Cell PROVE x + w <= Width /\ y + h <= Height
      <4>1. <<x + w - 1, y + h - 1>> \in cells
        BY <2>3
      <4>2. x + w - 1 \in 0..(Width - 1) /\ y + h - 1 \in 0..(Height - 1)
        BY <3>1, <4>1 DEF Cell
      <4> QED  BY <4>2, WorldAssumption
    <3>2. ASSUME x + w <= Width, y + h <= Height PROVE cells \subseteq Cell
      <4>1. /\ x..(x + w - 1) \subseteq 0..(Width - 1)
            /\ y..(y + h - 1) \subseteq 0..(Height - 1)
        BY <3>2, WorldAssumption
      <4> QED  BY <2>3, <4>1 DEF Cell
    <3> QED  BY <3>1, <3>2
  <2>5. ExploreStatus(area) = IF x + w <= Width /\ y + h <= Height THEN 200 ELSE 422
    BY <2>2, WorldAssumption DEF ExploreStatus
  <2>6. ASSUME cells \subseteq Cell
        PROVE  Sum(counts, AreaCells(area)) = Cardinality(TreasuresIn(cells))
    <3>1. AreaCells(area) = {c \in Cell : c[1] \in x..(x + w - 1) /\ c[2] \in y..(y + h - 1)}
      BY <2>2 DEF AreaCells
    <3>2. AreaCells(area) = cells
      BY <2>3, <2>6, <3>1 DEF Cell
    <3> QED  BY <1>1, <2>6, <3>2, SumOfCounts DEF IInv
  <2> QED  BY <2>4, <2>5, <2>6 DEF Answered, ExploreAmount, Sum
<1> QED  BY <1>1, Invariance, PTL

-----------------------------------------------------------------------------
(***************************************************************************)
(* The value in the field.                                                 *)
(***************************************************************************)
\* the treasures in the ground by their names
Buried == [t \in TreasureId |-> treasure[t[1]][t[2]]]

LEMMA TotalIsSum ==
    FieldInv =>
           /\ TotalValue = Sum(Buried, TreasureId) + Sum(registry, DOMAIN registry)
                              + nextCoin
           /\ IsFiniteSet(TreasureId) /\ IsFiniteSet(DOMAIN registry)
           /\ \A t \in TreasureId : Buried[t] \in Int
           /\ \A t \in DOMAIN registry : registry[t] \in Int
           /\ Sum(Buried, TreasureId) \in Int
           /\ Sum(registry, DOMAIN registry) \in Int
<1> HAVE FieldInv
<1>1. IsFiniteSet(TreasureId) /\ IsFiniteSet(DOMAIN registry)
  BY FieldFinite, FS_Subset DEF FieldInv
<1>2. /\ \A t \in TreasureId : Buried[t] \in Int
      /\ \A t \in DOMAIN registry : registry[t] \in Int
  BY DEF FieldInv, Buried, TreasureId
<1>3. DOMAIN Buried = TreasureId
  BY DEF Buried
<1>4. TotalValue = Sum(Buried, TreasureId) + Sum(registry, DOMAIN registry) + nextCoin
  BY <1>3 DEF TotalValue, SumFunction, Sum, Buried
<1>5. Sum(Buried, TreasureId) \in Int /\ Sum(registry, DOMAIN registry) \in Int
  BY <1>1, <1>2, SumInt
<1> QED  BY <1>1, <1>2, <1>4, <1>5

LEMMA TotalIsSumNext ==
    FieldInv' => TotalValue' = Sum(Buried', TreasureId)
                                 + Sum(registry', DOMAIN registry') + nextCoin'
<1> DEFINE Split == TotalValue = Sum(Buried, TreasureId)
                                   + Sum(registry, DOMAIN registry) + nextCoin
<1>1. FieldInv => Split
  BY TotalIsSum
<1> HIDE DEF Split
<1>2. FieldInv' => Split'
  BY <1>1, PTL
<1> QED  BY <1>2 DEF Split

(***************************************************************************)
(* Digging up a treasure moves its value from the field to the registry,   *)
(* and an exchange from the registry to the coins.                         *)
(***************************************************************************)
LEMMA UnearthConserves ==
    ASSUME FieldInv, FieldInv', NEW c \in Cell, NEW d \in Depths,
           d = depthMap[c] + 1, Unearth(c, d), nextCoin' = nextCoin
    PROVE  TotalValue' = TotalValue
<1> DEFINE t == <<c, d>>
           R == DOMAIN registry
<1>1. t \in TreasureId /\ Buried[t] = treasure[c][d] /\ Buried[t] \in Int
  BY TotalIsSum DEF TreasureId, Buried
<1>2. t \notin R
  <2>1. depthMap[c] \in Int
    BY WorldAssumption DEF FieldInv
  <2>2. t \in R => d <= depthMap[c]
    BY DEF FieldInv, RegistryConsistent
  <2> QED  BY <2>1, <2>2
<1>3. /\ DOMAIN registry' = R \cup {t}
      /\ registry'[t] = Buried[t]
      /\ \A u \in R : registry'[u] = registry[u]
  BY <1>1, <1>2 DEF Unearth
<1>4. /\ Buried'[t] = 0
      /\ \A u \in TreasureId \ {t} : Buried'[u] = Buried[u]
  BY DEF FieldInv, Unearth, Buried, TreasureId
<1>5. /\ Sum(Buried', TreasureId) = Sum(Buried, TreasureId) - Buried[t] + 0
      /\ Sum(Buried, TreasureId) \in Int
  <2>1. IsFiniteSet(TreasureId) /\ \A u \in TreasureId : Buried[u] \in Int
    BY TotalIsSum
  <2> HIDE DEF t
  <2> QED  BY <1>1, <1>4, <2>1, SumChange
<1>6. /\ Sum(registry', DOMAIN registry') = Buried[t] + Sum(registry, R)
      /\ Sum(registry, R) \in Int
  <2>1. IsFiniteSet(R) /\ \A u \in R : registry[u] \in Int
    BY TotalIsSum
  <2>2. \A u \in R \cup {t} : registry'[u] \in Int
    BY <1>1, <1>3, <2>1
  <2> HIDE DEF t, R
  <2>3. Sum(registry', R \cup {t}) = registry'[t] + Sum(registry', R)
    BY <1>2, <2>1, <2>2, SumAdd
  <2>4. Sum(registry', R) = Sum(registry, R) /\ Sum(registry, R) \in Int
    BY <1>3, <2>1, SumEqual, SumInt
  <2> QED  BY <1>3, <2>3, <2>4
<1>7. TotalValue = Sum(Buried, TreasureId) + Sum(registry, R) + nextCoin
  BY TotalIsSum
<1>8. TotalValue' = Sum(Buried', TreasureId) + Sum(registry', DOMAIN registry') + nextCoin'
  BY TotalIsSumNext
<1> HIDE DEF t, R
<1> QED  BY <1>1, <1>5, <1>6, <1>7, <1>8

LEMMA CashConserves ==
    ASSUME IInv, IInv', NEW t, Cash(t), CashStatus(t) = 200
    PROVE  TotalValue' = TotalValue
<1> DEFINE R == DOMAIN registry
<1>1. t \in R
  BY DEF CashStatus
<1>2. /\ IsFiniteSet(R) /\ \A u \in R : registry[u] \in Int
      /\ TotalValue = Sum(Buried, TreasureId) + Sum(registry, R) + nextCoin
      /\ Sum(Buried, TreasureId) \in Int
  BY TotalIsSum DEF IInv
<1>3. /\ DOMAIN registry' = R \ {t}
      /\ \A u \in R \ {t} : registry'[u] = registry[u]
      /\ nextCoin' = nextCoin + registry[t]
      /\ nextCoin \in Int
      /\ Buried' = Buried
  BY DEF Cash, Restrict, IInv, CoinInv, fieldVars, Buried
<1>4. Sum(registry, R) = registry[t] + Sum(registry, R \ {t})
  BY <1>1, <1>2, SumRemove
<1>5. Sum(registry', R \ {t}) = Sum(registry, R \ {t}) /\ Sum(registry, R \ {t}) \in Int
  <2> DEFINE Q == R \ {t}
  <2>1. IsFiniteSet(Q) /\ \A u \in Q : registry[u] \in Int
    BY <1>2, FS_RemoveElement
  <2> HIDE DEF Q, R
  <2>2. Sum(registry', Q) = Sum(registry, Q) /\ Sum(registry, Q) \in Int
    <3>1. \A u \in Q : registry'[u] = registry[u]
      BY <1>3 DEF Q
    <3> QED  BY <2>1, <3>1, SumEqual, SumInt
  <2> QED  BY <2>2 DEF Q
<1>6. TotalValue' = Sum(Buried', TreasureId) + Sum(registry', DOMAIN registry') + nextCoin'
  BY TotalIsSumNext DEF IInv
<1>7. registry[t] \in Int
  BY <1>1, <1>2
<1> HIDE DEF R
<1> QED  BY <1>2, <1>3, <1>4, <1>5, <1>6, <1>7

(***************************************************************************)
(* Value is neither made nor lost: field, registry and coins paid out add  *)
(* up to the same at every step (world.py:268-274, 288-297).               *)
(***************************************************************************)
THEOREM Conserved == Spec => ValueConserved
<1>1. ASSUME IInv, IInv', [Next]_vars PROVE TotalValue' = TotalValue
  <2>1. CASE UNCHANGED <<treasure, registry, nextCoin>>
    BY <2>1 DEF TotalValue
  <2>2. ASSUME NEW req, Dig(req) PROVE TotalValue' = TotalValue
    <3>1. CASE DigStatus(req) = 200
      <4>1. /\ req.cell \in Cell /\ req.depth \in Depths
            /\ req.depth = depthMap[req.cell] + 1
        BY <3>1, DigChecks
      <4>2. Unearth(req.cell, req.depth) /\ nextCoin' = nextCoin
        BY <2>2, <3>1 DEF Dig, moneyVars
      <4> QED  BY <1>1, <4>1, <4>2, UnearthConserves DEF IInv
    <3>2. CASE DigStatus(req) # 200
      BY <2>1, <2>2, <3>2 DEF Dig, moneyVars
    <3> QED  BY <3>1, <3>2
  <2>3. ASSUME NEW t, Cash(t) PROVE TotalValue' = TotalValue
    <3>1. CASE CashStatus(t) = 200
      BY <1>1, <2>3, <3>1, CashConserves
    <3>2. CASE CashStatus(t) # 200
      BY <2>1, <2>3, <3>2 DEF Cash, fieldVars
    <3> QED  BY <3>1, <3>2
  <2>4. ASSUME NEW payment, NEW allowed, IssueLicense(payment, allowed)
        PROVE  TotalValue' = TotalValue
    BY <2>1, <2>4 DEF IssueLicense, fieldVars, treasureVars
  <2>5. CASE Tick \/ UNCHANGED vars
    BY <2>1, <2>5 DEF Tick, vars, fieldVars, treasureVars, moneyVars
  <2> QED  BY <1>1, <2>2, <2>3, <2>4, <2>5 DEF Next
<1>2. IInv /\ IInv' /\ [Next]_vars => [TotalValue' = TotalValue]_vars
  BY <1>1
<1> QED  BY <1>2, Invariance, PTL DEF Spec, ValueConserved
=============================================================================
