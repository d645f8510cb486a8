---------------------------- MODULE DataTheorems ----------------------------
(***************************************************************************)
(* What the proofs need to know of the data the models are built from:     *)
(* induction over numbers and finite sets, in the form the provers can use *)
(* (the property is a set, not an operator), and with it greatest and      *)
(* least elements and the laws of SumFunctionOnSet; insertion into a       *)
(* sequence; and bags, with the number of elements of a kind.              *)
(***************************************************************************)
EXTENDS Integers, FiniteSets, FiniteSetsExt, Functions, Sequences, SequencesExt,
        Bags, FiniteSetTheorems, SequenceTheorems, WellFoundedInduction, TLAPS

(***************************************************************************)
(* A set that contains 0 and the successor of each of its numbers contains *)
(* them all: the least number missing would have a predecessor.            *)
(***************************************************************************)
LEMMA SetInduction ==
    ASSUME NEW P, 0 \in P, \A n \in Nat : n \in P => n + 1 \in P
    PROVE  Nat \subseteq P
<1> DEFINE Missing == Nat \ P
<1>1. SUFFICES ASSUME Missing # {} PROVE FALSE
  OBVIOUS
<1>2. PICK m \in Missing : \A y \in Missing : ~ (<<y, m>> \in OpToRel(<, Nat))
  <2>1. Missing \subseteq Nat /\ Missing # {}
    BY <1>1
  <2> HIDE DEF Missing
  <2> QED  BY <2>1, NatLessThanWellFounded, WFMin
<1>3. \A y \in Missing : ~ (y < m)
  BY <1>2 DEF OpToRel
<1>4. m \in Nat /\ m # 0 /\ m \notin P
  OBVIOUS
<1>5. m - 1 \in Nat /\ m - 1 < m /\ (m - 1) + 1 = m
  BY <1>4
<1>6. m - 1 \in P
  BY <1>3, <1>5
<1>7. (m - 1) + 1 \in P
  BY <1>5, <1>6
<1> QED  BY <1>4, <1>5, <1>7

LEMMA OneLess ==
    ASSUME NEW n \in Nat, NEW T, IsFiniteSet(T), Cardinality(T) = n + 1
    PROVE  /\ T # {}
           /\ \A x \in T : Cardinality(T \ {x}) = n
<1>1. Cardinality({}) = 0
  BY FS_EmptySet
<1>2. \A x \in T : Cardinality(T \ {x}) = Cardinality(T) - 1
  BY FS_RemoveElement
<1> QED  BY <1>1, <1>2

(***************************************************************************)
(* A family of sets that contains the empty set, and that a new element    *)
(* never leads out of, contains every finite set.                          *)
(***************************************************************************)
LEMMA FiniteInduction ==
    ASSUME NEW S, IsFiniteSet(S), NEW F, {} \in F,
           \A T \in SUBSET S : \A x \in S \ T : T \in F => T \cup {x} \in F
    PROVE  S \in F
<1> DEFINE P == {n \in Nat : \A T \in SUBSET S : Cardinality(T) = n => T \in F}
<1>1. \A T \in SUBSET S : IsFiniteSet(T) /\ Cardinality(T) \in Nat
  BY FS_Subset, FS_CardinalityType
<1>2. 0 \in P
  BY <1>1, FS_EmptySet
<1>3. ASSUME NEW n \in Nat, n \in P PROVE n + 1 \in P
  <2> SUFFICES ASSUME NEW T \in SUBSET S, Cardinality(T) = n + 1 PROVE T \in F
    OBVIOUS
  <2>1. PICK x \in T : TRUE
    BY <1>1, OneLess
  <2>3. Cardinality(T \ {x}) = n
    BY <1>1, <2>1, OneLess
  <2>4. T \ {x} \in F
    BY <1>3, <2>3
  <2>5. T \ {x} \in SUBSET S /\ x \in S \ (T \ {x}) /\ (T \ {x}) \cup {x} = T
    BY <2>1
  <2> QED  BY <2>4, <2>5
<1>4. Nat \subseteq P
  <2> HIDE DEF P
  <2> QED  BY <1>2, <1>3, SetInduction
<1>5. S \in SUBSET S
  OBVIOUS
<1> QED  BY <1>1, <1>4, <1>5

(***************************************************************************)
(* A set of naturals with an upper bound has a maximum: the least bound    *)
(* is in the set.                                                          *)
(***************************************************************************)
LEMMA BoundedHasMax ==
    ASSUME NEW S \in SUBSET Nat, S # {}, NEW n \in Nat, \A x \in S : x <= n
    PROVE  /\ Max(S) \in S
           /\ \A x \in S : x <= Max(S)
<1> DEFINE Bounds == {b \in Nat : \A x \in S : x <= b}
<1>1. PICK b \in Bounds : \A y \in Bounds : ~ (<<y, b>> \in OpToRel(<, Nat))
  <2>1. Bounds \subseteq Nat /\ Bounds # {}
    OBVIOUS
  <2> HIDE DEF Bounds
  <2> QED  BY <2>1, NatLessThanWellFounded, WFMin
<1>2. \A y \in Bounds : ~ (y < b)
  BY <1>1 DEF OpToRel
<1>3. b \in Nat /\ \A x \in S : x <= b
  OBVIOUS
<1>4. b \in S
  <2>1. SUFFICES ASSUME b \notin S PROVE FALSE
    OBVIOUS
  <2>2. \A y \in S : y <= b - 1
    BY <1>3, <2>1
  <2>3. PICK x \in S : x \in Nat
    OBVIOUS
  <2>4. b - 1 \in Nat
    BY <1>3, <2>2, <2>3
  <2>5. b - 1 \in Bounds /\ b - 1 < b
    BY <1>3, <2>2, <2>4
  <2> QED  BY <1>2, <2>5
<1>5. \E x \in S : \A y \in S : x >= y
  BY <1>3, <1>4
<1>6. Max(S) \in S /\ \A y \in S : Max(S) >= y
  BY <1>5, Zenon DEF Max
<1> QED  BY <1>6

LEMMA HasMin ==
    ASSUME NEW S \in SUBSET Nat, S # {}
    PROVE  /\ Min(S) \in S
           /\ \A x \in S : Min(S) <= x
<1>1. PICK b \in S : \A y \in S : ~ (<<y, b>> \in OpToRel(<, Nat))
  BY NatLessThanWellFounded, WFMin
<1>2. \A y \in S : ~ (y < b)
  BY <1>1 DEF OpToRel
<1>3. \E x \in S : \A y \in S : x =< y
  BY <1>2
<1>4. Min(S) \in S /\ \A y \in S : Min(S) =< y
  BY <1>3, Zenon DEF Min
<1> QED  BY <1>4

-----------------------------------------------------------------------------
(***************************************************************************)
(* SumFunctionOnSet is a fold: a function on the subsets of a set that     *)
(* takes one element off at a time. There is exactly one such function.    *)
(***************************************************************************)
One(T) == CHOOSE x \in T : TRUE

IsSum(g, f, S) ==
    g = [T \in SUBSET S |-> IF T = {} THEN 0 ELSE f[One(T)] + g[T \ {One(T)}]]

LEMMA SumIsChosen ==
    ASSUME NEW f, NEW S
    PROVE  SumFunctionOnSet(f, S) = (CHOOSE g : IsSum(g, f, S))[S]
BY Zenon DEF SumFunctionOnSet, FoldFunctionOnSet, MapThenFoldSet, IsSum, One

LEMMA SumExists ==
    ASSUME NEW f, NEW S, IsFiniteSet(S)
    PROVE  \E g : IsSum(g, f, S)
<1> DEFINE Small(n) == {T \in SUBSET S : Cardinality(T) <= n}
           Def(g, T) == IF T = {} THEN 0 ELSE f[One(T)] + g[T \ {One(T)}]
           P == {n \in Nat : \E g : g = [T \in Small(n) |-> Def(g, T)]}
<1>1. \A T \in SUBSET S : /\ IsFiniteSet(T)
                          /\ Cardinality(T) \in Nat
                          /\ Cardinality(T) <= Cardinality(S)
  BY FS_Subset, FS_CardinalityType
<1>2. \A T \in SUBSET S : T # {} => /\ One(T) \in T
                                    /\ T \ {One(T)} \in SUBSET S
                                    /\ Cardinality(T) # 0
                                    /\ Cardinality(T \ {One(T)}) = Cardinality(T) - 1
  BY <1>1, FS_EmptySet, FS_RemoveElement DEF One
<1>3. 0 \in P
  <2> DEFINE g == [T \in Small(0) |-> 0]
  <2>1. \A T \in Small(0) : T = {}
    BY <1>1, FS_EmptySet
  <2>2. g = [T \in Small(0) |-> Def(g, T)]
    BY <2>1
  <2> QED  BY <2>2
<1>4. ASSUME NEW n \in Nat, n \in P PROVE n + 1 \in P
  <2>1. PICK g : g = [T \in Small(n) |-> Def(g, T)]
    BY <1>4
  <2> DEFINE h == [T \in Small(n + 1) |-> IF T \in Small(n) THEN g[T] ELSE Def(g, T)]
  <2>2. ASSUME NEW T \in Small(n + 1) PROVE h[T] = Def(h, T)
    <3>1. CASE T = {}
      <4>1. T \in Small(n)
        BY <3>1, FS_EmptySet
      <4> QED  BY <2>1, <3>1, <4>1
    <3>2. CASE T # {}
      <4> DEFINE U == T \ {One(T)}
      <4>1. U \in Small(n) /\ U \in Small(n + 1)
        BY <1>1, <1>2, <3>2
      <4>2. h[U] = g[U]
        BY <4>1
      <4>3. T \in Small(n) => g[T] = Def(g, T)
        BY <2>1
      <4>4. h[T] = Def(g, T)
        BY <4>3
      <4> QED  BY <3>2, <4>2, <4>4
    <3> QED  BY <3>1, <3>2
  <2>3. h = [T \in Small(n + 1) |-> Def(h, T)]
    BY <2>2
  <2>4. \E k : k = [T \in Small(n + 1) |-> Def(k, T)]
    <3> HIDE DEF h, Def
    <3> QED  BY <2>3
  <2> HIDE DEF h, Def, Small
  <2> QED  BY <2>4
<1>5. Nat \subseteq P
  <2> HIDE DEF P
  <2> QED  BY <1>3, <1>4, SetInduction
<1>6. Cardinality(S) \in Nat
  BY FS_CardinalityType
<1>7. PICK g : g = [T \in Small(Cardinality(S)) |-> Def(g, T)]
  BY <1>5, <1>6
<1>8. Small(Cardinality(S)) = SUBSET S
  BY <1>1
<1>9. IsSum(g, f, S)
  BY <1>7, <1>8 DEF IsSum
<1> QED  BY <1>9

LEMMA SumUnique ==
    ASSUME NEW f, NEW S, IsFiniteSet(S), NEW R, S \in SUBSET R,
           NEW g, IsSum(g, f, S), NEW h, IsSum(h, f, R)
    PROVE  g[S] = h[S]
<1> DEFINE P == {n \in Nat : \A T \in SUBSET S : Cardinality(T) = n => g[T] = h[T]}
<1>1. \A T \in SUBSET S : IsFiniteSet(T) /\ Cardinality(T) \in Nat
  BY FS_Subset, FS_CardinalityType
<1>2. 0 \in P
  <2>1. g[{}] = 0 /\ h[{}] = 0
    BY DEF IsSum
  <2> QED  BY <1>1, <2>1, FS_EmptySet
<1>3. ASSUME NEW n \in Nat, n \in P PROVE n + 1 \in P
  <2> SUFFICES ASSUME NEW T \in SUBSET S, Cardinality(T) = n + 1 PROVE g[T] = h[T]
    OBVIOUS
  <2> DEFINE U == T \ {One(T)}
  <2>1. T # {} /\ One(T) \in T
    BY <1>1, OneLess DEF One
  <2>2. U \in SUBSET S /\ Cardinality(U) = n
    BY <1>1, <2>1, OneLess
  <2>3. g[U] = h[U]
    BY <1>3, <2>2
  <2>4. g[T] = f[One(T)] + g[U] /\ h[T] = f[One(T)] + h[U]
    <3>1. T \in SUBSET S /\ T \in SUBSET R
      OBVIOUS
    <3> QED  BY <2>1, <3>1 DEF IsSum
  <2> QED  BY <2>3, <2>4
<1>4. Nat \subseteq P
  <2> HIDE DEF P
  <2> QED  BY <1>2, <1>3, SetInduction
<1>5. S \in SUBSET S
  OBVIOUS
<1> QED  BY <1>1, <1>4, <1>5

(***************************************************************************)
(* The defining equation of the sum.                                       *)
(***************************************************************************)
Sum(f, S) == SumFunctionOnSet(f, S)

LEMMA SumEquation ==
    ASSUME NEW f, NEW S, IsFiniteSet(S)
    PROVE  /\ Sum(f, {}) = 0
           /\ S # {} => Sum(f, S) = f[One(S)] + Sum(f, S \ {One(S)})
<1> DEFINE G(T) == CHOOSE g : IsSum(g, f, T)
<1>1. \A T \in SUBSET S : IsFiniteSet(T)
  BY FS_Subset
<1>2. \A T \in SUBSET S : IsSum(G(T), f, T) /\ Sum(f, T) = G(T)[T]
  <2> TAKE T \in SUBSET S
  <2>1. \E g : IsSum(g, f, T)
    BY <1>1, SumExists
  <2>2. IsSum(G(T), f, T)
    BY <2>1
  <2> QED  BY <2>2, SumIsChosen DEF Sum
<1> HIDE DEF G
<1>3. Sum(f, {}) = 0
  <2>1. {} \in SUBSET S
    OBVIOUS
  <2> QED  BY <1>2, <2>1 DEF IsSum
<1>4. ASSUME S # {} PROVE Sum(f, S) = f[One(S)] + Sum(f, S \ {One(S)})
  <2> DEFINE U == S \ {One(S)}
  <2>1. S \in SUBSET S /\ U \in SUBSET S
    OBVIOUS
  <2>2. Sum(f, S) = f[One(S)] + G(S)[U]
    BY <1>2, <1>4, <2>1 DEF IsSum
  <2>3. G(U)[U] = G(S)[U]
    <3>1. IsSum(G(U), f, U) /\ IsSum(G(S), f, S)
      BY <1>2, <2>1
    <3> HIDE DEF U
    <3> QED  BY <1>1, <2>1, <3>1, SumUnique
  <2> QED  BY <1>2, <2>1, <2>2, <2>3
<1> QED  BY <1>3, <1>4

(***************************************************************************)
(* A sum of integers is an integer, whatever element is taken off first.   *)
(***************************************************************************)
LEMMA SumInt ==
    ASSUME NEW S, IsFiniteSet(S), NEW f, \A x \in S : f[x] \in Int
    PROVE  Sum(f, S) \in Int
<1> DEFINE P == {n \in Nat : \A T \in SUBSET S : Cardinality(T) = n => Sum(f, T) \in Int}
<1>1. \A T \in SUBSET S : IsFiniteSet(T) /\ Cardinality(T) \in Nat
  BY FS_Subset, FS_CardinalityType
<1>2. 0 \in P
  <2>1. Sum(f, {}) = 0
    BY SumEquation
  <2> QED  BY <1>1, <2>1, FS_EmptySet
<1>3. ASSUME NEW n \in Nat, n \in P PROVE n + 1 \in P
  <2> SUFFICES ASSUME NEW T \in SUBSET S, Cardinality(T) = n + 1
               PROVE  Sum(f, T) \in Int
    OBVIOUS
  <2>1. T # {} /\ One(T) \in T
    BY <1>1, OneLess DEF One
  <2>2. T \ {One(T)} \in SUBSET S /\ Cardinality(T \ {One(T)}) = n
    BY <1>1, <2>1, OneLess
  <2>3. Sum(f, T \ {One(T)}) \in Int
    BY <1>3, <2>2
  <2>4. Sum(f, T) = f[One(T)] + Sum(f, T \ {One(T)})
    BY <1>1, <2>1, SumEquation
  <2> QED  BY <2>1, <2>3, <2>4
<1>4. Nat \subseteq P
  <2> HIDE DEF P
  <2> QED  BY <1>2, <1>3, SetInduction
<1>5. S \in SUBSET S
  OBVIOUS
<1> QED  BY <1>1, <1>4, <1>5

LEMMA SumRemove ==
    ASSUME NEW S, IsFiniteSet(S), NEW f, \A x \in S : f[x] \in Int, NEW x \in S
    PROVE  Sum(f, S) = f[x] + Sum(f, S \ {x})
<1> DEFINE Holds(T) == \A y \in T : Sum(f, T) = f[y] + Sum(f, T \ {y})
           P == {n \in Nat : \A T \in SUBSET S : Cardinality(T) = n => Holds(T)}
<1>1. \A T \in SUBSET S : IsFiniteSet(T) /\ Cardinality(T) \in Nat
  BY FS_Subset, FS_CardinalityType
<1>2. 0 \in P
  BY <1>1, FS_EmptySet
<1>3. ASSUME NEW n \in Nat, n \in P PROVE n + 1 \in P
  <2> SUFFICES ASSUME NEW T \in SUBSET S, Cardinality(T) = n + 1, NEW y \in T
               PROVE  Sum(f, T) = f[y] + Sum(f, T \ {y})
    OBVIOUS
  <2> DEFINE o == One(T)
             V == (T \ {o}) \ {y}
  <2>1. o \in T /\ T # {}
    BY DEF One
  <2>2. Sum(f, T) = f[o] + Sum(f, T \ {o})
    BY <1>1, <2>1, SumEquation
  <2>3. CASE y = o
    BY <2>2, <2>3
  <2>4. CASE y # o
    <3>1. /\ T \ {o} \in SUBSET S /\ Cardinality(T \ {o}) = n
          /\ T \ {y} \in SUBSET S /\ Cardinality(T \ {y}) = n
      BY <1>1, <2>1, OneLess
    <3>2. y \in T \ {o} /\ o \in T \ {y} /\ V = (T \ {y}) \ {o}
      BY <2>1, <2>4
    <3>3. Sum(f, T \ {o}) = f[y] + Sum(f, V)
      BY <1>3, <3>1, <3>2
    <3>4. Sum(f, T \ {y}) = f[o] + Sum(f, V)
      BY <1>3, <3>1, <3>2
    <3>5. f[o] \in Int /\ f[y] \in Int /\ Sum(f, V) \in Int
      <4>1. V \in SUBSET S /\ IsFiniteSet(V)
        BY <1>1
      <4>2. \A z \in V : f[z] \in Int
        BY <4>1
      <4>3. Sum(f, V) \in Int
        BY <4>1, <4>2, SumInt
      <4> QED  BY <2>1, <4>3
    <3> HIDE DEF V, o
    <3> QED  BY <2>2, <3>3, <3>4, <3>5
  <2> QED  BY <2>3, <2>4
<1>4. Nat \subseteq P
  <2> HIDE DEF P
  <2> QED  BY <1>2, <1>3, SetInduction
<1>5. S \in SUBSET S
  OBVIOUS
<1> QED  BY <1>1, <1>4, <1>5

-----------------------------------------------------------------------------
(***************************************************************************)
(* The laws of sums.                                                       *)
(***************************************************************************)
LEMMA SumEmpty ==
    ASSUME NEW f PROVE Sum(f, {}) = 0
BY SumEquation, FS_EmptySet

LEMMA SumAdd ==
    ASSUME NEW S, IsFiniteSet(S), NEW x, x \notin S,
           NEW f, \A y \in S \cup {x} : f[y] \in Int
    PROVE  Sum(f, S \cup {x}) = f[x] + Sum(f, S)
<1> DEFINE T == S \cup {x}
<1>1. IsFiniteSet(T)
  BY FS_AddElement
<1>2. x \in T /\ T \ {x} = S /\ \A y \in T : f[y] \in Int
  OBVIOUS
<1> HIDE DEF T
<1>3. Sum(f, T) = f[x] + Sum(f, T \ {x})
  BY <1>1, <1>2, SumRemove
<1> QED  BY <1>2, <1>3 DEF T

\* an element is added to a subset of S, in the proofs by induction below
LEMMA SumGrow ==
    ASSUME NEW S, IsFiniteSet(S), NEW f, \A y \in S : f[y] \in Int,
           NEW T \in SUBSET S, NEW x \in S \ T
    PROVE  /\ Sum(f, T) \in Int /\ f[x] \in Int
           /\ Sum(f, T \cup {x}) = f[x] + Sum(f, T)
<1>1. IsFiniteSet(T)
  BY FS_Subset
<1>2. Sum(f, T) \in Int
  BY <1>1, SumInt
<1>3. Sum(f, T \cup {x}) = f[x] + Sum(f, T)
  BY <1>1, SumAdd
<1> QED  BY <1>2, <1>3

LEMMA SumEqual ==
    ASSUME NEW S, IsFiniteSet(S),
           NEW f, \A x \in S : f[x] \in Int,
           NEW g, \A x \in S : g[x] = f[x]
    PROVE  Sum(g, S) = Sum(f, S)
<1> DEFINE F == {T \in SUBSET S : Sum(g, T) = Sum(f, T)}
<1>1. {} \in F
  BY SumEmpty
<1>2. ASSUME NEW T \in SUBSET S, NEW x \in S \ T, T \in F PROVE T \cup {x} \in F
  <2>1. Sum(f, T \cup {x}) = f[x] + Sum(f, T)
    BY SumGrow
  <2>2. \A y \in S : g[y] \in Int
    OBVIOUS
  <2>3. Sum(g, T \cup {x}) = g[x] + Sum(g, T)
    BY <2>2, SumGrow
  <2> QED  BY <1>2, <2>1, <2>3
<1>3. S \in F
  <2> HIDE DEF F
  <2> QED  BY <1>1, <1>2, FiniteInduction
<1> QED  BY <1>3

LEMMA SumMonotone ==
    ASSUME NEW S, IsFiniteSet(S),
           NEW f, \A x \in S : f[x] \in Int,
           NEW g, \A x \in S : g[x] \in Int /\ f[x] <= g[x]
    PROVE  Sum(f, S) <= Sum(g, S)
<1> DEFINE F == {T \in SUBSET S : Sum(f, T) <= Sum(g, T)}
<1>1. {} \in F
  BY SumEmpty
<1>2. ASSUME NEW T \in SUBSET S, NEW x \in S \ T, T \in F PROVE T \cup {x} \in F
  <2>1. /\ Sum(f, T) \in Int /\ f[x] \in Int
        /\ Sum(f, T \cup {x}) = f[x] + Sum(f, T)
    BY SumGrow
  <2>2. \A y \in S : g[y] \in Int
    OBVIOUS
  <2>3. /\ Sum(g, T) \in Int /\ g[x] \in Int
        /\ Sum(g, T \cup {x}) = g[x] + Sum(g, T)
    BY <2>2, SumGrow
  <2>4. f[x] <= g[x] /\ Sum(f, T) <= Sum(g, T)
    BY <1>2
  <2>5. Sum(f, T \cup {x}) <= Sum(g, T \cup {x})
    BY <2>1, <2>3, <2>4
  <2> QED  BY <2>5
<1>3. S \in F
  <2> HIDE DEF F
  <2> QED  BY <1>1, <1>2, FiniteInduction
<1> QED  BY <1>3

LEMMA SumUnion ==
    ASSUME NEW S, IsFiniteSet(S), NEW R, IsFiniteSet(R), S \cap R = {},
           NEW f, \A x \in S \cup R : f[x] \in Int
    PROVE  Sum(f, S \cup R) = Sum(f, S) + Sum(f, R)
<1> DEFINE F == {T \in SUBSET R : Sum(f, S \cup T) = Sum(f, S) + Sum(f, T)}
<1>1. Sum(f, S) \in Int
  BY SumInt
<1>2. \A T \in SUBSET R : \A x \in R \ T :
         /\ Sum(f, T) \in Int /\ f[x] \in Int
         /\ Sum(f, T \cup {x}) = f[x] + Sum(f, T)
  <2>1. \A y \in R : f[y] \in Int
    OBVIOUS
  <2> QED  BY <2>1, SumGrow, Zenon
<1>3. {} \in F
  BY <1>1, SumEmpty
<1>4. ASSUME NEW T \in SUBSET R, NEW x \in R \ T, T \in F PROVE T \cup {x} \in F
  <2>1. /\ Sum(f, T) \in Int /\ f[x] \in Int
        /\ Sum(f, T \cup {x}) = f[x] + Sum(f, T)
    BY <1>2
  <2>2. IsFiniteSet(S \cup R)
    BY FS_Union
  <2>3. S \cup T \in SUBSET (S \cup R) /\ x \in (S \cup R) \ (S \cup T)
    OBVIOUS
  <2>4. Sum(f, (S \cup T) \cup {x}) = f[x] + Sum(f, S \cup T)
    <3> DEFINE W == S \cup R
               V == S \cup T
    <3>1. IsFiniteSet(W) /\ V \in SUBSET W /\ x \in W \ V /\ \A y \in W : f[y] \in Int
      BY <2>2, <2>3
    <3> HIDE DEF W, V
    <3>2. Sum(f, V \cup {x}) = f[x] + Sum(f, V)
      BY <3>1, SumGrow
    <3> QED  BY <3>2 DEF V
  <2>5. (S \cup T) \cup {x} = S \cup (T \cup {x})
    OBVIOUS
  <2>6. Sum(f, S \cup (T \cup {x})) = Sum(f, S) + Sum(f, T \cup {x})
    <3>1. Sum(f, S \cup T) = Sum(f, S) + Sum(f, T)
      BY <1>4
    <3>2. Sum(f, S \cup (T \cup {x})) = f[x] + Sum(f, S \cup T)
      BY <2>4, <2>5
    <3> HIDE DEF F
    <3> QED  BY <1>1, <2>1, <3>1, <3>2
  <2> QED  BY <2>6
<1>5. R \in F
  <2> HIDE DEF F
  <2> QED  BY <1>3, <1>4, FiniteInduction
<1> QED  BY <1>5

\* a part of the set, and the rest of it
LEMMA SumSplit ==
    ASSUME NEW S, IsFiniteSet(S), NEW T \in SUBSET S,
           NEW f, \A x \in S : f[x] \in Int
    PROVE  /\ Sum(f, S) = Sum(f, T) + Sum(f, S \ T)
           /\ Sum(f, T) \in Int /\ Sum(f, S \ T) \in Int
<1>1. IsFiniteSet(T) /\ IsFiniteSet(S \ T)
  BY FS_Subset
<1>2. T \cap (S \ T) = {} /\ T \cup (S \ T) = S
  OBVIOUS
<1>3. Sum(f, T \cup (S \ T)) = Sum(f, T) + Sum(f, S \ T)
  <2> DEFINE R == S \ T
  <2>1. IsFiniteSet(R) /\ T \cap R = {} /\ \A x \in T \cup R : f[x] \in Int
    BY <1>1
  <2> HIDE DEF R
  <2>2. Sum(f, T \cup R) = Sum(f, T) + Sum(f, R)
    BY <1>1, <2>1, SumUnion
  <2> QED  BY <2>2 DEF R
<1>4. Sum(f, T) \in Int /\ Sum(f, S \ T) \in Int
  BY <1>1, SumInt
<1> QED  BY <1>2, <1>3, <1>4

LEMMA SumNat ==
    ASSUME NEW S, IsFiniteSet(S), NEW f, \A x \in S : f[x] \in Nat
    PROVE  /\ Sum(f, S) \in Nat
           /\ \A T \in SUBSET S : Sum(f, T) \in Nat /\ Sum(f, T) <= Sum(f, S)
           /\ \A x \in S : f[x] <= Sum(f, S)
<1> DEFINE F == {T \in SUBSET S : Sum(f, T) \in Nat}
<1>1. {} \in F
  BY SumEmpty
<1>2. ASSUME NEW T \in SUBSET S, NEW x \in S \ T, T \in F PROVE T \cup {x} \in F
  <2>1. Sum(f, T \cup {x}) = f[x] + Sum(f, T)
    BY SumGrow
  <2> QED  BY <1>2, <2>1
<1>3. ASSUME NEW R \in SUBSET S PROVE Sum(f, R) \in Nat
  <2>1. IsFiniteSet(R) /\ \A T \in SUBSET R : \A x \in R \ T : T \in F => T \cup {x} \in F
    BY <1>2, FS_Subset
  <2> HIDE DEF F
  <2>2. R \in F
    BY <1>1, <2>1, FiniteInduction
  <2> QED  BY <2>2 DEF F
<1>4. ASSUME NEW T \in SUBSET S PROVE Sum(f, T) \in Nat /\ Sum(f, T) <= Sum(f, S)
  <2>1. Sum(f, S) = Sum(f, T) + Sum(f, S \ T)
    BY SumSplit
  <2>2. Sum(f, T) \in Nat /\ Sum(f, S \ T) \in Nat
    BY <1>3
  <2> QED  BY <2>1, <2>2
<1>5. ASSUME NEW x \in S PROVE f[x] <= Sum(f, S)
  <2>1. Sum(f, S) = f[x] + Sum(f, S \ {x})
    BY SumRemove
  <2>2. Sum(f, S \ {x}) \in Nat
    BY <1>3
  <2> QED  BY <2>1, <2>2
<1>6. Sum(f, S) \in Nat
  BY <1>3
<1> QED  BY <1>4, <1>5, <1>6

\* a function that changes at one element
LEMMA SumChange ==
    ASSUME NEW S, IsFiniteSet(S), NEW x \in S,
           NEW f, \A y \in S : f[y] \in Int,
           NEW g, g[x] \in Int, \A y \in S \ {x} : g[y] = f[y]
    PROVE  /\ Sum(g, S) = Sum(f, S) - f[x] + g[x]
           /\ Sum(f, S) \in Int
<1> DEFINE T == S \ {x}
<1>1. IsFiniteSet(T)
  BY FS_RemoveElement
<1>2. Sum(f, S) = f[x] + Sum(f, T)
  BY SumRemove
<1>3. \A y \in S : g[y] \in Int
  OBVIOUS
<1>4. Sum(g, S) = g[x] + Sum(g, T)
  BY <1>3, SumRemove
<1>5. /\ \A y \in T : f[y] \in Int
      /\ \A y \in T : g[y] = f[y]
  OBVIOUS
<1> HIDE DEF T
<1>6. Sum(g, T) = Sum(f, T) /\ Sum(f, T) \in Int
  BY <1>1, <1>5, SumEqual, SumInt
<1> QED  BY <1>2, <1>4, <1>6

LEMMA SumChanges ==
    ASSUME NEW S, IsFiniteSet(S)
    PROVE  \A x \in S : \A f, g :
               /\ \A y \in S : f[y] \in Int
               /\ g[x] \in Int
               /\ \A y \in S \ {x} : g[y] = f[y]
               => Sum(g, S) = Sum(f, S) - f[x] + g[x]
BY SumChange

LEMMA SumPlus ==
    ASSUME NEW S, IsFiniteSet(S),
           NEW f, \A x \in S : f[x] \in Int,
           NEW g, \A x \in S : g[x] \in Int,
           NEW h, \A x \in S : h[x] = f[x] + g[x]
    PROVE  Sum(h, S) = Sum(f, S) + Sum(g, S)
<1> DEFINE F == {T \in SUBSET S : Sum(h, T) = Sum(f, T) + Sum(g, T)}
<1>1. \A T \in SUBSET S : \A x \in S \ T :
         /\ Sum(f, T) \in Int /\ f[x] \in Int
         /\ Sum(f, T \cup {x}) = f[x] + Sum(f, T)
  BY SumGrow, Zenon
<1>2. \A T \in SUBSET S : \A x \in S \ T :
         /\ Sum(g, T) \in Int /\ g[x] \in Int
         /\ Sum(g, T \cup {x}) = g[x] + Sum(g, T)
  BY SumGrow, Zenon
<1>3. {} \in F
  BY SumEmpty
<1>4. ASSUME NEW T \in SUBSET S, NEW x \in S \ T, T \in F PROVE T \cup {x} \in F
  <2>1. /\ Sum(f, T) \in Int /\ f[x] \in Int
        /\ Sum(f, T \cup {x}) = f[x] + Sum(f, T)
    BY <1>1
  <2>2. /\ Sum(g, T) \in Int /\ g[x] \in Int
        /\ Sum(g, T \cup {x}) = g[x] + Sum(g, T)
    BY <1>2
  <2>3. \A y \in S : h[y] \in Int
    OBVIOUS
  <2>4. Sum(h, T \cup {x}) = h[x] + Sum(h, T)
    BY <2>3, SumGrow
  <2>5. Sum(h, T) = Sum(f, T) + Sum(g, T) /\ h[x] = f[x] + g[x]
    BY <1>4
  <2>6. Sum(h, T \cup {x}) = Sum(f, T \cup {x}) + Sum(g, T \cup {x})
    BY <2>1, <2>2, <2>4, <2>5
  <2> QED  BY <2>6
<1>5. S \in F
  <2> HIDE DEF F
  <2> QED  BY <1>3, <1>4, FiniteInduction
<1> QED  BY <1>5

\* a sum of ones counts
LEMMA SumOnes ==
    ASSUME NEW S, IsFiniteSet(S), NEW f, \A x \in S : f[x] = 1
    PROVE  Sum(f, S) = Cardinality(S)
<1> DEFINE F == {T \in SUBSET S : Sum(f, T) = Cardinality(T)}
<1>1. {} \in F
  BY SumEmpty, FS_EmptySet
<1>2. ASSUME NEW T \in SUBSET S, NEW x \in S \ T, T \in F PROVE T \cup {x} \in F
  <2>1. \A y \in S : f[y] \in Int
    OBVIOUS
  <2>2. Sum(f, T \cup {x}) = f[x] + Sum(f, T) /\ Sum(f, T) \in Int
    BY <2>1, SumGrow
  <2>3. IsFiniteSet(T)
    BY FS_Subset
  <2>4. Cardinality(T \cup {x}) = Cardinality(T) + 1
    BY <2>3, FS_AddElement
  <2>5. f[x] = 1
    OBVIOUS
  <2> QED  BY <1>2, <2>2, <2>4, <2>5
<1>3. S \in F
  <2> HIDE DEF F
  <2> QED  BY <1>1, <1>2, FiniteInduction
<1> QED  BY <1>3

\* two runs of numbers that are the same but for their place
LEMMA SumShift ==
    ASSUME NEW N \in Nat, NEW k \in Nat,
           NEW f, NEW g,
           \A i \in 1..N : f[i] \in Int /\ g[k + i] = f[i]
    PROVE  Sum(g, (k + 1)..(k + N)) = Sum(f, 1..N)
<1> DEFINE P == {n \in Nat : n <= N => Sum(g, (k + 1)..(k + n)) = Sum(f, 1..n)}
<1>1. 0 \in P
  <2>1. (k + 1)..(k + 0) = {} /\ 1..0 = {}
    OBVIOUS
  <2> QED  BY <2>1, SumEmpty
<1>2. ASSUME NEW n \in Nat, n \in P PROVE n + 1 \in P
  <2> SUFFICES ASSUME n + 1 <= N
               PROVE  Sum(g, (k + 1)..(k + (n + 1))) = Sum(f, 1..(n + 1))
    OBVIOUS
  <2> DEFINE A == 1..n
             B == (k + 1)..(k + n)
  <2>1. /\ IsFiniteSet(A) /\ n + 1 \notin A /\ 1..(n + 1) = A \cup {n + 1}
        /\ \A y \in A \cup {n + 1} : f[y] \in Int
    BY FS_Interval
  <2>2. /\ IsFiniteSet(B) /\ k + (n + 1) \notin B
        /\ (k + 1)..(k + (n + 1)) = B \cup {k + (n + 1)}
    <3>1. k + 1 \in Int /\ k + n \in Int
      OBVIOUS
    <3>2. IsFiniteSet(B)
      BY <3>1, FS_Interval
    <3>3. /\ k + (n + 1) \notin B
          /\ (k + 1)..(k + (n + 1)) = B \cup {k + (n + 1)}
      OBVIOUS
    <3> QED  BY <3>2, <3>3
  <2>3. \A y \in B \cup {k + (n + 1)} : g[y] \in Int
    <3>1. ASSUME NEW y \in (k + 1)..(k + (n + 1)) PROVE g[y] \in Int
      <4>1. y - k \in 1..N /\ k + (y - k) = y
        OBVIOUS
      <4> QED  BY <4>1
    <3> QED  BY <2>2, <3>1
  <2>4. g[k + (n + 1)] = f[n + 1] /\ Sum(g, B) = Sum(f, A)
    BY <1>2
  <2> HIDE DEF A, B
  <2>5. Sum(f, A \cup {n + 1}) = f[n + 1] + Sum(f, A)
    BY <2>1, SumAdd
  <2>6. Sum(g, B \cup {k + (n + 1)}) = g[k + (n + 1)] + Sum(g, B)
    BY <2>2, <2>3, SumAdd
  <2> QED  BY <2>1, <2>2, <2>4, <2>5, <2>6
<1>3. Nat \subseteq P
  <2> HIDE DEF P
  <2> QED  BY <1>1, <1>2, SetInduction
<1> QED  BY <1>3

-----------------------------------------------------------------------------
(***************************************************************************)
(* What InsertAt does to a sequence, element by element.                   *)
(***************************************************************************)
LEMMA Inserted ==
    ASSUME NEW S, NEW s \in Seq(S), NEW r \in S, NEW p \in 1..(Len(s) + 1)
    PROVE  /\ InsertAt(s, p, r) \in Seq(S)
           /\ Len(InsertAt(s, p, r)) = Len(s) + 1
           /\ \A i \in 1..(p - 1) : InsertAt(s, p, r)[i] = s[i]
           /\ InsertAt(s, p, r)[p] = r
           /\ \A i \in (p + 1)..(Len(s) + 1) :
                 InsertAt(s, p, r)[i] = s[i - 1]
<1>0. Len(s) \in Nat /\ p \in Nat
  BY LenProperties
<1> DEFINE front == SubSeq(s, 1, p - 1)
           back == SubSeq(s, p, Len(s))
<1>1. /\ front \in Seq(S)
      /\ Len(front) = p - 1
      /\ \A i \in 1..(p - 1) : front[i] = s[i]
  BY <1>0, SubSeqProperties, LenProperties
<1>2. /\ back \in Seq(S)
      /\ Len(back) = Len(s) - p + 1
      /\ \A i \in 1..(Len(s) - p + 1) : back[i] = s[p + i - 1]
  BY <1>0, SubSeqProperties, LenProperties
<1> HIDE DEF front, back
<1> DEFINE first == front \o <<r>>
<1>3. /\ first \in Seq(S)
      /\ Len(first) = p
      /\ \A i \in 1..(p - 1) : first[i] = s[i]
      /\ first[p] = r
  <2>1. <<r>> \in Seq(S) /\ Len(<<r>>) = 1 /\ <<r>>[1] = r
    OBVIOUS
  <2> QED  BY <1>0, <1>1, <2>1, ConcatProperties
<1>4. InsertAt(s, p, r) = first \o back
  BY Zenon DEF InsertAt, front, back, first
<1> HIDE DEF first
<1>5. /\ first \o back \in Seq(S)
      /\ Len(first \o back) = Len(s) + 1
      /\ \A i \in 1..(Len(s) + 1) :
            (first \o back)[i] = IF i <= p THEN first[i] ELSE back[i - p]
  <2>1. first \in Seq(S) /\ back \in Seq(S)
    BY <1>2, <1>3
  <2>2. /\ first \o back \in Seq(S)
        /\ Len(first \o back) = Len(first) + Len(back)
        /\ \A i \in 1..(Len(first) + Len(back)) :
              (first \o back)[i] =
                  IF i <= Len(first) THEN first[i] ELSE back[i - Len(first)]
    BY <2>1, ConcatProperties
  <2>3. Len(first) + Len(back) = Len(s) + 1 /\ Len(first) = p
    BY <1>0, <1>2, <1>3
  <2> QED  BY <2>2, <2>3
<1>6. ASSUME NEW i \in (p + 1)..(Len(s) + 1)
      PROVE  (first \o back)[i] = s[i - 1]
  <2>1. /\ i - p \in 1..(Len(s) - p + 1)
        /\ i \in 1..(Len(s) + 1)
        /\ ~(i <= p)
        /\ p + (i - p) - 1 = i - 1
    BY <1>0
  <2>2. (first \o back)[i] = back[i - p]
    BY <1>5, <2>1
  <2> QED  BY <1>2, <2>1, <2>2
<1>7. ASSUME NEW i \in 1..p PROVE (first \o back)[i] = first[i]
  <2>1. i \in 1..(Len(s) + 1) /\ i <= p
    BY <1>0
  <2> QED  BY <1>5, <2>1
<1>8. p \in 1..p /\ \A i \in 1..(p - 1) : i \in 1..p
  BY <1>0
<1> QED  BY <1>3, <1>4, <1>5, <1>6, <1>7, <1>8

-----------------------------------------------------------------------------
(***************************************************************************)
(* Bags of elements of M, as functions to the number of copies; and how    *)
(* many copies of elements of T there are in a bag.                        *)
(***************************************************************************)
IsBagOf(B, M) == /\ DOMAIN B \subseteq M
                 /\ IsFiniteSet(DOMAIN B)
                 /\ B \in [DOMAIN B -> Nat \ {0}]

Count(B, T) == Sum(B, DOMAIN B \cap T)

\* one bag has one copy of x more than the other
More(big, small, x) ==
    /\ DOMAIN big = DOMAIN small \cup {x}
    /\ \A T : Count(big, T) = Count(small, T) + (IF x \in T THEN 1 ELSE 0)

LEMMA EmptyBagIs ==
    ASSUME NEW M
    PROVE  /\ IsBagOf(EmptyBag, M)
           /\ DOMAIN EmptyBag = {}
           /\ \A T : Count(EmptyBag, T) = 0
<1>1. EmptyBag = [e \in {} |-> 1]
  BY DEF EmptyBag, SetToBag
<1>2. DOMAIN EmptyBag = {}
  BY <1>1
<1>3. EmptyBag \in [DOMAIN EmptyBag -> Nat \ {0}]
  BY <1>1, <1>2
<1>4. ASSUME NEW T PROVE Count(EmptyBag, T) = 0
  <2>1. DOMAIN EmptyBag \cap T = {}
    BY <1>2
  <2> QED  BY <2>1, SumEmpty DEF Count
<1> QED  BY <1>2, <1>3, <1>4, FS_EmptySet DEF IsBagOf

LEMMA CountType ==
    ASSUME NEW M, NEW B, IsBagOf(B, M)
    PROVE  \A T : /\ Count(B, T) \in Nat
                  /\ \A x \in DOMAIN B \cap T : 1 <= B[x] /\ B[x] <= Count(B, T)
                  /\ Count(B, T) # 0 => \E x \in DOMAIN B : x \in T
<1> TAKE T
<1> DEFINE S == DOMAIN B \cap T
<1>1. IsFiniteSet(S)
  BY FS_Subset DEF IsBagOf
<1>2. \A x \in S : B[x] \in Nat /\ 1 <= B[x]
  BY DEF IsBagOf
<1>3. S = {} => Sum(B, S) = 0
  BY SumEmpty
<1> HIDE DEF S
<1>4. Sum(B, S) \in Nat /\ \A x \in S : B[x] <= Sum(B, S)
  BY <1>1, <1>2, SumNat
<1> QED  BY <1>2, <1>3, <1>4 DEF S, Count

(***************************************************************************)
(* The counts of a larger set are larger, those of disjoint sets add up.   *)
(***************************************************************************)
LEMMA CountMonotone ==
    ASSUME NEW M, NEW B, IsBagOf(B, M), NEW T, NEW U, T \cap M \subseteq U
    PROVE  Count(B, T) <= Count(B, U)
<1> DEFINE S == DOMAIN B \cap U
           R == DOMAIN B \cap T
<1>1. IsFiniteSet(S) /\ \A x \in S : B[x] \in Nat
  BY FS_Subset DEF IsBagOf
<1>2. R \in SUBSET S
  BY DEF IsBagOf
<1> HIDE DEF S, R
<1>3. \A Q \in SUBSET S : Sum(B, Q) <= Sum(B, S)
  BY <1>1, SumNat, Zenon
<1> QED  BY <1>2, <1>3 DEF S, R, Count

LEMMA CountUnion ==
    ASSUME NEW M, NEW B, IsBagOf(B, M), NEW T, NEW U, T \cap U = {}
    PROVE  Count(B, T \cup U) = Count(B, T) + Count(B, U)
<1> DEFINE S == DOMAIN B \cap T
           R == DOMAIN B \cap U
<1>1. IsFiniteSet(S) /\ IsFiniteSet(R) /\ S \cap R = {}
  BY FS_Subset DEF IsBagOf
<1>2. \A x \in S \cup R : B[x] \in Int
  BY DEF IsBagOf
<1>3. DOMAIN B \cap (T \cup U) = S \cup R
  OBVIOUS
<1> HIDE DEF S, R
<1>4. Sum(B, S \cup R) = Sum(B, S) + Sum(B, R)
  BY <1>1, <1>2, SumUnion
<1> QED  BY <1>3, <1>4 DEF S, R, Count

(***************************************************************************)
(* Where at most one copy of the elements of a set is in a bag, there is   *)
(* at most one such element, once.                                         *)
(***************************************************************************)
LEMMA CountOne ==
    ASSUME NEW M, NEW B, IsBagOf(B, M), NEW T, Count(B, T) <= 1,
           NEW x \in DOMAIN B, x \in T
    PROVE  /\ B[x] = 1
           /\ Count(B, T) = 1
           /\ \A y \in DOMAIN B : y \in T => y = x
<1>1. /\ Count(B, T) \in Nat
      /\ \A y \in DOMAIN B \cap T : 1 <= B[y] /\ B[y] <= Count(B, T)
  BY CountType
<1>2. B[x] = 1 /\ Count(B, T) = 1
  BY <1>1 DEF IsBagOf
<1>3. ASSUME NEW y \in DOMAIN B, y \in T, y # x PROVE FALSE
  <2>1. (T \ {x}) \cup {x} = T /\ (T \ {x}) \cap {x} = {}
    OBVIOUS
  <2>2. Count(B, T) = Count(B, T \ {x}) + Count(B, {x})
    BY <2>1, CountUnion
  <2>3. /\ Count(B, T \ {x}) \in Nat /\ 1 <= Count(B, T \ {x})
    <3>1. /\ Count(B, T \ {x}) \in Nat
          /\ \A z \in DOMAIN B \cap (T \ {x}) :
                1 <= B[z] /\ B[z] <= Count(B, T \ {x})
      BY CountType
    <3>2. y \in DOMAIN B \cap (T \ {x}) /\ B[y] \in Nat
      BY <1>3 DEF IsBagOf
    <3> QED  BY <3>1, <3>2
  <2>4. /\ Count(B, {x}) \in Nat /\ 1 <= Count(B, {x})
    <3>1. /\ Count(B, {x}) \in Nat
          /\ \A z \in DOMAIN B \cap {x} : 1 <= B[z] /\ B[z] <= Count(B, {x})
      BY CountType
    <3>2. x \in DOMAIN B \cap {x} /\ B[x] \in Nat
      BY DEF IsBagOf
    <3> QED  BY <3>1, <3>2
  <2> QED  BY <1>2, <2>2, <2>3, <2>4
<1> QED  BY <1>2, <1>3

(***************************************************************************)
(* What it means to add an element to a bag, and to take one from it.      *)
(***************************************************************************)
LEMMA ChangeCount ==
    ASSUME NEW M, NEW B, IsBagOf(B, M), NEW C, IsBagOf(C, M), NEW x,
           DOMAIN C = DOMAIN B \cup {x},
           C[x] = (IF x \in DOMAIN B THEN B[x] + 1 ELSE 1),
           \A y \in DOMAIN B \ {x} : C[y] = B[y]
    PROVE  More(C, B, x)
<1> SUFFICES ASSUME NEW T
             PROVE  Count(C, T) = Count(B, T) + (IF x \in T THEN 1 ELSE 0)
  BY DEF More
<1> DEFINE S == DOMAIN B \cap T
           R == S \ {x}
<1>1. /\ IsFiniteSet(S) /\ IsFiniteSet(R) /\ x \notin R
      /\ \A y \in S : B[y] \in Int
      /\ \A y \in R : B[y] \in Int /\ C[y] = B[y]
  BY FS_Subset DEF IsBagOf
<1> HIDE DEF R
<1>2. Sum(C, R) = Sum(B, R) /\ Sum(B, R) \in Int
  BY <1>1, SumEqual, SumInt
<1>3. C[x] \in Int
  BY DEF IsBagOf
<1>4. CASE x \notin T
  <2>1. DOMAIN C \cap T = R /\ S = R
    BY <1>4 DEF R
  <2> QED  BY <1>2, <1>4, <2>1 DEF Count
<1>5. CASE x \in T /\ x \notin DOMAIN B
  <2>1. DOMAIN C \cap T = R \cup {x} /\ S = R
    BY <1>5 DEF R
  <2>2. \A y \in R \cup {x} : C[y] \in Int
    BY <1>1, <1>3
  <2>3. Sum(C, R \cup {x}) = C[x] + Sum(C, R)
    BY <1>1, <2>2, SumAdd
  <2> QED  BY <1>2, <1>3, <1>5, <2>1, <2>3 DEF Count
<1>6. CASE x \in T /\ x \in DOMAIN B
  <2>1. DOMAIN C \cap T = R \cup {x} /\ S = R \cup {x} /\ x \in S
    BY <1>6 DEF R
  <2>2. \A y \in R \cup {x} : C[y] \in Int /\ B[y] \in Int
    BY <1>1, <1>3, <2>1
  <2>3. Sum(C, R \cup {x}) = C[x] + Sum(C, R)
    BY <1>1, <2>2, SumAdd
  <2>4. Sum(B, R \cup {x}) = B[x] + Sum(B, R)
    BY <1>1, <2>2, SumAdd
  <2>5. B[x] \in Int /\ C[x] = B[x] + 1
    BY <1>6, <2>2
  <2>6. Count(C, T) = Sum(C, R \cup {x}) /\ Count(B, T) = Sum(B, R \cup {x})
    BY <2>1 DEF Count
  <2> QED  BY <1>2, <1>6, <2>3, <2>4, <2>5, <2>6
<1> QED  BY <1>4, <1>5, <1>6

LEMMA AddIsMore ==
    ASSUME NEW M, NEW B, IsBagOf(B, M), NEW x \in M
    PROVE  IsBagOf(B (+) SetToBag({x}), M) /\ More(B (+) SetToBag({x}), B, x)
<1> DEFINE U == SetToBag({x})
           C == B (+) U
<1>0. DOMAIN U = {x} /\ U[x] = 1
  BY DEF SetToBag
<1> HIDE DEF U
<1>1. /\ DOMAIN C = DOMAIN B \cup {x}
      /\ C[x] = (IF x \in DOMAIN B THEN B[x] + 1 ELSE 1)
      /\ \A y \in DOMAIN B \ {x} : C[y] = B[y]
      /\ C = [y \in DOMAIN C |-> C[y]]
  BY <1>0 DEF (+), IsBagOf
<1> HIDE DEF C
<1>2. IsBagOf(C, M)
  <2>1. IsFiniteSet(DOMAIN C)
    BY <1>1, FS_AddElement DEF IsBagOf
  <2>2. \A y \in DOMAIN C : C[y] \in Nat \ {0}
    BY <1>1 DEF IsBagOf
  <2> QED  BY <1>1, <2>1, <2>2 DEF IsBagOf
<1> QED  BY <1>1, <1>2, ChangeCount DEF C, U

LEMMA RemoveIsLess ==
    ASSUME NEW M, NEW B, IsBagOf(B, M), NEW x \in DOMAIN B
    PROVE  IsBagOf(B (-) SetToBag({x}), M) /\ More(B, B (-) SetToBag({x}), x)
<1> DEFINE U == SetToBag({x})
           D == {y \in DOMAIN B : y # x \/ B[x] # 1}
           C == [y \in D |-> IF y = x THEN B[x] - 1 ELSE B[y]]
<1>0. B (-) U = C
  <2>1. DOMAIN U = {x} /\ U[x] = 1
    BY DEF SetToBag
  <2> HIDE DEF U
  <2> DEFINE F == [y \in DOMAIN B |-> IF y \in DOMAIN U THEN B[y] - U[y] ELSE B[y]]
  <2>2. \A y \in DOMAIN B : F[y] = IF y = x THEN B[x] - 1 ELSE B[y]
    BY <2>1
  <2>3. DOMAIN F = DOMAIN B /\ {y \in DOMAIN F : F[y] > 0} = D
    BY <2>2 DEF IsBagOf
  <2>4. B (-) U = [y \in {z \in DOMAIN F : F[z] > 0} |-> F[y]]
    BY Zenon DEF (-)
  <2> HIDE DEF F, D
  <2>5. B (-) U = [y \in D |-> F[y]] /\ D \subseteq DOMAIN B
    BY <2>3, <2>4 DEF D
  <2> QED  BY <2>2, <2>5
<1>1. /\ DOMAIN B = DOMAIN C \cup {x}
      /\ B[x] = (IF x \in DOMAIN C THEN C[x] + 1 ELSE 1)
      /\ \A y \in DOMAIN C \ {x} : B[y] = C[y]
      /\ C = [y \in DOMAIN C |-> C[y]]
      /\ x \in DOMAIN C => C[x] \in Nat \ {0}
  <2>1. B[x] \in Nat \ {0}
    BY DEF IsBagOf
  <2>2. /\ DOMAIN C = D
        /\ \A y \in D : C[y] = IF y = x THEN B[x] - 1 ELSE B[y]
        /\ C = [y \in DOMAIN C |-> C[y]]
    OBVIOUS
  <2> HIDE DEF C
  <2>3. CASE B[x] = 1
    BY <2>2, <2>3
  <2>4. CASE B[x] # 1
    <3>1. D = DOMAIN B
      BY <2>4
    <3> HIDE DEF D
    <3> QED  BY <2>1, <2>2, <2>4, <3>1
  <2> QED  BY <2>3, <2>4
<1> HIDE DEF C
<1>2. IsBagOf(C, M)
  <2>1. IsFiniteSet(DOMAIN C) /\ DOMAIN C \subseteq M
    BY <1>1, FS_Subset DEF IsBagOf
  <2>2. \A y \in DOMAIN C : C[y] \in Nat \ {0}
    BY <1>1 DEF IsBagOf
  <2> QED  BY <1>1, <2>1, <2>2 DEF IsBagOf
<1> QED  BY <1>0, <1>1, <1>2, ChangeCount DEF C, U
=============================================================================
