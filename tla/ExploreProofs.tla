--------------------------- MODULE ExploreProofs ---------------------------
(***************************************************************************)
(* The invariants of the exploration, for every field, every distribution  *)
(* of the treasures, every table of areas that ends with single cells, and *)
(* every number of calls under way. They rest on the cut of an area being  *)
(* a partition, which is proved first.                                     *)
(***************************************************************************)
EXTENDS ExploreTree, MCSubAreas, DataTheorems

Lengths == Nat \ {0}
Areas == [x : Nat, y : Nat, sizeX : Lengths, sizeY : Lengths]

-----------------------------------------------------------------------------
(***************************************************************************)
(* Multiplication is monotonic.                                            *)
(***************************************************************************)
LEMMA TimesMonotonic ==
    ASSUME NEW a \in Nat, NEW b \in Nat, a <= b, NEW n \in Nat
    PROVE  a * n \in Nat /\ a * n <= b * n
OBVIOUS

(***************************************************************************)
(* Division with remainder.                                                *)
(***************************************************************************)
LEMMA Division ==
    ASSUME NEW a \in Nat, NEW n \in Lengths
    PROVE  /\ a \div n \in Nat
           /\ a % n \in 0..(n - 1)
           /\ a = (a \div n) * n + (a % n)
BY DEF Lengths

(***************************************************************************)
(* Enough strips and not one too many.                                     *)
(***************************************************************************)
LEMMA StripsBound ==
    ASSUME NEW length \in Lengths, NEW n \in Lengths
    PROVE  /\ Strips(length, n) \in Lengths
           /\ (Strips(length, n) - 1) * n < length
           /\ length <= Strips(length, n) * n
<1> DEFINE a == length + n - 1
           s == a \div n
<1>1. a \in Nat /\ a >= n
  BY DEF Lengths
<1>2. s \in Nat /\ a % n \in 0..(n - 1) /\ a = s * n + (a % n)
  BY <1>1, Division
<1> DEFINE p == s * n
           r == a % n
<1>3. p \in Nat /\ r \in 0..(n - 1) /\ length + n - 1 = p + r
  <2>1. n \in Nat /\ s * n \in Nat
    <3> HIDE DEF s
    <3> QED  BY <1>2 DEF Lengths
  <2> QED  BY <1>2, <2>1
<1> HIDE DEF r
<1>4. length <= p /\ p - n < length /\ p > 0
  <2> HIDE DEF p
  <2> QED  BY <1>3 DEF Lengths
<1>5. s # 0
  BY <1>1, <1>4 DEF Lengths
<1>6. (s - 1) * n = p - n
  BY <1>2 DEF Lengths
<1> QED  BY <1>2, <1>4, <1>5, <1>6 DEF Strips, Lengths

(***************************************************************************)
(* Each strip is not empty and ends within the length; where it is not the *)
(* last one it ends where the next one starts (app.cpp:331-340).           *)
(***************************************************************************)
LEMMA StripFits ==
    ASSUME NEW length \in Lengths, NEW n \in Lengths,
           NEW k \in 0..(Strips(length, n) - 1)
    PROVE  /\ StripStart(k, n) \in Nat
           /\ StripLength(k, length, n) \in Lengths
           /\ StripLength(k, length, n) <= n
           /\ StripStart(k, n) + StripLength(k, length, n) <= length
           /\ StripStart(k, n) + StripLength(k, length, n) <= StripStart(k + 1, n)
           /\ \/ StripStart(k, n) + StripLength(k, length, n) = length
              \/ StripStart(k, n) + StripLength(k, length, n) = StripStart(k + 1, n)
<1> DEFINE s == Strips(length, n)
<1>1. s \in Lengths /\ (s - 1) * n < length
  BY StripsBound
<1>2. k \in Nat /\ s - 1 \in Nat /\ k <= s - 1 /\ n \in Nat
  BY <1>1 DEF Lengths
<1>3. k * n \in Nat /\ k * n <= (s - 1) * n
  BY <1>2, TimesMonotonic
<1>4. (s - 1) * n \in Int
  <2> HIDE DEF s
  <2> QED  BY <1>2
<1>5. k * n < length
  BY <1>1, <1>3, <1>4 DEF Lengths
<1>6. (k + 1) * n = k * n + n
  BY <1>2
<1> DEFINE p == k * n
<1>7. p \in Nat /\ p < length /\ (k + 1) * n = p + n
  BY <1>3, <1>5, <1>6
<1>8. StripStart(k, n) = p /\ StripStart(k + 1, n) = p + n
      /\ StripLength(k, length, n) = IF p + n > length THEN length - p ELSE n
  BY <1>7 DEF StripStart, StripLength
<1> QED
  <2> HIDE DEF p
  <2> QED  BY <1>7, <1>8 DEF Lengths

(***************************************************************************)
(* Strips do not overlap.                                                  *)
(***************************************************************************)
LEMMA StripsDisjoint ==
    ASSUME NEW length \in Lengths, NEW n \in Lengths,
           NEW k \in 0..(Strips(length, n) - 1),
           NEW l \in 0..(Strips(length, n) - 1), k < l
    PROVE  StripStart(k, n) + StripLength(k, length, n) <= StripStart(l, n)
<1>1. Strips(length, n) \in Nat
  BY StripsBound DEF Lengths
<1>2. k + 1 \in Nat /\ l \in Nat /\ k + 1 <= l /\ n \in Nat
  BY <1>1 DEF Lengths
<1>3. StripStart(k + 1, n) <= StripStart(l, n)
      /\ StripStart(k + 1, n) \in Nat /\ StripStart(l, n) \in Nat
  BY <1>2, TimesMonotonic DEF StripStart
<1>4. /\ StripStart(k, n) \in Nat
      /\ StripLength(k, length, n) \in Nat
      /\ StripStart(k, n) + StripLength(k, length, n) <= StripStart(k + 1, n)
  BY StripFits DEF Lengths
<1> QED  BY <1>3, <1>4

(***************************************************************************)
(* Every position below the length lies in a strip.                        *)
(***************************************************************************)
LEMMA StripsCover ==
    ASSUME NEW length \in Lengths, NEW n \in Lengths, NEW p \in 0..(length - 1)
    PROVE  \E k \in 0..(Strips(length, n) - 1) :
               /\ StripStart(k, n) <= p
               /\ p < StripStart(k, n) + StripLength(k, length, n)
<1> DEFINE s == Strips(length, n)
           k == p \div n
<1>1. p \in Nat /\ n \in Nat /\ length \in Nat
  BY DEF Lengths
<1>2. k \in Nat /\ p % n \in 0..(n - 1) /\ p = k * n + (p % n)
  BY <1>1, Division
<1>3. s \in Nat /\ length <= s * n
  BY StripsBound DEF Lengths
<1>4. k * n \in Nat /\ s * n \in Nat /\ (k + 1) * n = k * n + n
  <2> HIDE DEF s, k
  <2> QED  BY <1>1, <1>2, <1>3
<1>5. k * n <= p /\ p < k * n + n
  <2> HIDE DEF k
  <2> DEFINE q == k * n
             r == p % n
  <2>1. q \in Nat /\ r \in 0..(n - 1) /\ p = q + r
    BY <1>2, <1>4
  <2> HIDE DEF q, r
  <2>2. q <= p /\ p < q + n
    BY <2>1, <1>1
  <2> QED  BY <2>2 DEF q
<1>6. k < s
  <2>1. SUFFICES ASSUME s <= k PROVE FALSE
    BY <1>2, <1>3
  <2>2. s * n <= k * n
    BY <1>1, <1>2, <1>3, <2>1, TimesMonotonic
  <2> QED  BY <1>1, <1>3, <1>4, <1>5, <2>2
<1>7. k \in 0..(s - 1)
  <2> HIDE DEF k, s
  <2> QED  BY <1>2, <1>3, <1>6
<1>8. /\ StripStart(k, n) = k * n /\ StripStart(k + 1, n) = k * n + n
      /\ StripLength(k, length, n) \in Nat
      /\ \/ StripStart(k, n) + StripLength(k, length, n) = length
         \/ StripStart(k, n) + StripLength(k, length, n) = StripStart(k + 1, n)
  <2> HIDE DEF k
  <2> QED  BY <1>4, <1>7, StripFits DEF StripStart, Lengths
<1>9. StripStart(k, n) <= p /\ p < StripStart(k, n) + StripLength(k, length, n)
  <2> HIDE DEF k
  <2> QED  BY <1>1, <1>4, <1>5, <1>8
<1> QED  BY <1>7, <1>9
-----------------------------------------------------------------------------
Row == [height : Lengths, width : Lengths]

(***************************************************************************)
(* The part with number k is the cross of the strips (k - 1) \div columns  *)
(* and (k - 1) % columns (app.cpp:331-348).                                *)
(***************************************************************************)
Columns(a, d) == Strips(a.sizeY, ExploreAreas[d + 1].width)
Rows(a, d) == Strips(a.sizeX, ExploreAreas[d + 1].height)

Part(a, d, i, j) ==
    LET h == ExploreAreas[d + 1].height
        w == ExploreAreas[d + 1].width
    IN  [x |-> a.x + StripStart(i, h),
         y |-> a.y + StripStart(j, w),
         sizeX |-> StripLength(i, a.sizeX, h),
         sizeY |-> StripLength(j, a.sizeY, w)]

LEMMA RowType ==
    ASSUME NEW d \in Nat, d + 1 \in DOMAIN ExploreAreas
    PROVE  /\ ExploreAreas[d + 1].height \in Lengths
           /\ ExploreAreas[d + 1].width \in Lengths
<1>1. ExploreAreas \in Seq(Row)
  BY SubAreasAssumption DEF Row, Lengths
<1>2. ExploreAreas[d + 1] \in Row
  BY <1>1
<1> QED  BY <1>2 DEF Row

LEMMA PartNumber ==
    ASSUME NEW a \in Areas, NEW d \in Nat, d + 1 \in DOMAIN ExploreAreas
    PROVE  /\ \A k \in DOMAIN SubAreas(a, d) :
                  /\ (k - 1) \div Columns(a, d) \in 0..(Rows(a, d) - 1)
                  /\ (k - 1) % Columns(a, d) \in 0..(Columns(a, d) - 1)
                  /\ k - 1 = ((k - 1) \div Columns(a, d)) * Columns(a, d)
                             + ((k - 1) % Columns(a, d))
                  /\ SubAreas(a, d)[k] =
                         Part(a, d, (k - 1) \div Columns(a, d),
                              (k - 1) % Columns(a, d))
           /\ \A i \in 0..(Rows(a, d) - 1), j \in 0..(Columns(a, d) - 1) :
                  \E k \in DOMAIN SubAreas(a, d) :
                      SubAreas(a, d)[k] = Part(a, d, i, j)
<1> DEFINE c == Columns(a, d)
           r == Rows(a, d)
<1>1. c \in Lengths /\ r \in Lengths
  BY RowType, StripsBound DEF Columns, Rows, Areas
<1> HIDE DEF c, r
<1>2. c \in Nat /\ r \in Nat /\ c > 0 /\ r > 0 /\ r * c \in Nat
  BY <1>1 DEF Lengths
<1>3. /\ DOMAIN SubAreas(a, d) = 1..(r * c)
      /\ \A k \in 1..(r * c) :
             SubAreas(a, d)[k] = Part(a, d, (k - 1) \div c, (k - 1) % c)
  BY DEF SubAreas, Part, c, r, Columns, Rows
<1>4. ASSUME NEW k \in 1..(r * c)
      PROVE  /\ (k - 1) \div c \in 0..(r - 1)
             /\ (k - 1) % c \in 0..(c - 1)
             /\ k - 1 = ((k - 1) \div c) * c + ((k - 1) % c)
  <2> DEFINE q == (k - 1) \div c
             m == (k - 1) % c
  <2>1. k - 1 \in Nat
    BY <1>2
  <2>2. q \in Nat /\ m \in 0..(c - 1) /\ k - 1 = q * c + m
    BY <1>1, <2>1, Division
  <2> HIDE DEF q, m
  <2>3. q < r
    <3>1. SUFFICES ASSUME r <= q PROVE FALSE
      BY <1>2, <2>2
    <3>2. r * c <= q * c /\ q * c \in Nat
      BY <1>2, <2>2, <3>1, TimesMonotonic
    <3> QED  BY <1>2, <2>2, <3>2
  <2> QED  BY <1>2, <2>2, <2>3 DEF q, m
<1>5. ASSUME NEW i \in 0..(r - 1), NEW j \in 0..(c - 1)
      PROVE  \E k \in 1..(r * c) : (k - 1) \div c = i /\ (k - 1) % c = j
  <2>1. i * c \in Nat /\ i \in Nat /\ j \in Nat
    BY <1>2
  <2>2. (i + 1) * c <= r * c /\ (i + 1) * c = i * c + c
    BY <1>2, <2>1, TimesMonotonic
  <2> DEFINE k == i * c + j + 1
  <2>3. k \in 1..(r * c)
    BY <1>2, <2>1, <2>2
  <2>4. k - 1 = i * c + j
    BY <2>1
  <2>5. (i * c + j) \div c = i /\ (i * c + j) % c = j
    BY <1>2, <2>1
  <2> QED  BY <2>3, <2>4, <2>5
<1>6. ASSUME NEW i \in 0..(r - 1), NEW j \in 0..(c - 1)
      PROVE  \E k \in 1..(r * c) : SubAreas(a, d)[k] = Part(a, d, i, j)
  BY <1>3, <1>5
<1> QED  BY <1>3, <1>4, <1>6 DEF c, r

(***************************************************************************)
(* A part is an area inside the area that is cut, and not larger than the  *)
(* table says.                                                             *)
(***************************************************************************)
LEMMA PartInside ==
    ASSUME NEW a \in Areas, NEW d \in Nat, d + 1 \in DOMAIN ExploreAreas,
           NEW k \in DOMAIN SubAreas(a, d)
    PROVE  /\ SubAreas(a, d)[k] \in Areas
           /\ Inside(SubAreas(a, d)[k], a)
           /\ SubAreas(a, d)[k].sizeX <= ExploreAreas[d + 1].height
           /\ SubAreas(a, d)[k].sizeY <= ExploreAreas[d + 1].width
<1> DEFINE h == ExploreAreas[d + 1].height
           w == ExploreAreas[d + 1].width
           i == (k - 1) \div Columns(a, d)
           j == (k - 1) % Columns(a, d)
<1>1. h \in Lengths /\ w \in Lengths
  BY RowType
<1>2. /\ i \in 0..(Strips(a.sizeX, h) - 1)
      /\ j \in 0..(Strips(a.sizeY, w) - 1)
      /\ SubAreas(a, d)[k] = Part(a, d, i, j)
  BY PartNumber DEF Rows, Columns
<1>3. /\ a.x \in Nat /\ a.y \in Nat
      /\ a.sizeX \in Lengths /\ a.sizeY \in Lengths
  BY DEF Areas
<1> HIDE DEF h, w, i, j
<1>4. /\ StripStart(i, h) \in Nat /\ StripLength(i, a.sizeX, h) \in Lengths
      /\ StripStart(i, h) + StripLength(i, a.sizeX, h) <= a.sizeX
      /\ StripLength(i, a.sizeX, h) <= h
  BY <1>1, <1>2, <1>3, StripFits
<1>5. /\ StripStart(j, w) \in Nat /\ StripLength(j, a.sizeY, w) \in Lengths
      /\ StripStart(j, w) + StripLength(j, a.sizeY, w) <= a.sizeY
      /\ StripLength(j, a.sizeY, w) <= w
  BY <1>1, <1>2, <1>3, StripFits
<1>6. Part(a, d, i, j) = [x |-> a.x + StripStart(i, h), y |-> a.y + StripStart(j, w),
                          sizeX |-> StripLength(i, a.sizeX, h),
                          sizeY |-> StripLength(j, a.sizeY, w)]
  BY DEF Part, h, w
<1> QED  BY <1>2, <1>3, <1>4, <1>5, <1>6 DEF Areas, Inside, Lengths, h, w

(***************************************************************************)
(* Two parts are disjoint: they differ in a row or in a column.            *)
(***************************************************************************)
LEMMA PartsDisjoint ==
    ASSUME NEW a \in Areas, NEW d \in Nat, d + 1 \in DOMAIN ExploreAreas,
           NEW k \in DOMAIN SubAreas(a, d), NEW l \in DOMAIN SubAreas(a, d), k # l
    PROVE  Disjoint(SubAreas(a, d)[k], SubAreas(a, d)[l])
<1> DEFINE h == ExploreAreas[d + 1].height
           w == ExploreAreas[d + 1].width
           c == Columns(a, d)
           i == (k - 1) \div c
           j == (k - 1) % c
           p == (l - 1) \div c
           q == (l - 1) % c
<1>1. h \in Lengths /\ w \in Lengths
  BY RowType
<1>2. /\ i \in 0..(Strips(a.sizeX, h) - 1) /\ p \in 0..(Strips(a.sizeX, h) - 1)
      /\ j \in 0..(Strips(a.sizeY, w) - 1) /\ q \in 0..(Strips(a.sizeY, w) - 1)
      /\ k - 1 = i * c + j /\ l - 1 = p * c + q
      /\ SubAreas(a, d)[k] = Part(a, d, i, j)
      /\ SubAreas(a, d)[l] = Part(a, d, p, q)
  BY PartNumber DEF Rows, Columns
<1>3. k \in Int /\ l \in Int
  BY DEF SubAreas
<1>4. /\ a.x \in Nat /\ a.y \in Nat
      /\ a.sizeX \in Lengths /\ a.sizeY \in Lengths
  BY DEF Areas
<1>5. Strips(a.sizeX, h) \in Nat /\ Strips(a.sizeY, w) \in Nat
  BY <1>1, <1>4, StripsBound DEF Lengths
<1> HIDE DEF h, w, c, i, j, p, q
<1>6. i # p \/ j # q
  BY <1>2, <1>3
<1>7. \A n \in Nat, m \in Nat :
          Part(a, d, n, m) = [x |-> a.x + StripStart(n, h), y |-> a.y + StripStart(m, w),
                              sizeX |-> StripLength(n, a.sizeX, h),
                              sizeY |-> StripLength(m, a.sizeY, w)]
  BY DEF Part, h, w
<1>8. i \in Nat /\ j \in Nat /\ p \in Nat /\ q \in Nat
  BY <1>2, <1>5
<1>9. /\ StripStart(i, h) \in Nat /\ StripLength(i, a.sizeX, h) \in Nat
      /\ StripStart(p, h) \in Nat /\ StripLength(p, a.sizeX, h) \in Nat
      /\ StripStart(j, w) \in Nat /\ StripLength(j, a.sizeY, w) \in Nat
      /\ StripStart(q, w) \in Nat /\ StripLength(q, a.sizeY, w) \in Nat
  BY <1>1, <1>2, <1>4, StripFits DEF Lengths
<1>10. SUFFICES Disjoint(Part(a, d, i, j), Part(a, d, p, q))
  BY <1>2
<1>11. /\ Part(a, d, i, j).x = a.x + StripStart(i, h)
       /\ Part(a, d, i, j).sizeX = StripLength(i, a.sizeX, h)
       /\ Part(a, d, i, j).y = a.y + StripStart(j, w)
       /\ Part(a, d, i, j).sizeY = StripLength(j, a.sizeY, w)
       /\ Part(a, d, p, q).x = a.x + StripStart(p, h)
       /\ Part(a, d, p, q).sizeX = StripLength(p, a.sizeX, h)
       /\ Part(a, d, p, q).y = a.y + StripStart(q, w)
       /\ Part(a, d, p, q).sizeY = StripLength(q, a.sizeY, w)
  BY <1>7, <1>8
<1>12. CASE i # p
  <2>1. \/ StripStart(i, h) + StripLength(i, a.sizeX, h) <= StripStart(p, h)
        \/ StripStart(p, h) + StripLength(p, a.sizeX, h) <= StripStart(i, h)
    <3>1. i < p \/ p < i
      BY <1>8, <1>12
    <3> QED  BY <1>1, <1>2, <1>4, <3>1, StripsDisjoint
  <2> QED  BY <1>4, <1>9, <1>11, <2>1 DEF Disjoint
<1>13. CASE j # q
  <2>1. \/ StripStart(j, w) + StripLength(j, a.sizeY, w) <= StripStart(q, w)
        \/ StripStart(q, w) + StripLength(q, a.sizeY, w) <= StripStart(j, w)
    <3>1. j < q \/ q < j
      BY <1>8, <1>13
    <3> QED  BY <1>1, <1>2, <1>4, <3>1, StripsDisjoint
  <2> QED  BY <1>4, <1>9, <1>11, <2>1 DEF Disjoint
<1> QED  BY <1>6, <1>12, <1>13

(***************************************************************************)
(* Every cell of the area lies in a part.                                  *)
(***************************************************************************)
LEMMA PartsCover ==
    ASSUME NEW a \in Areas, NEW d \in Nat, d + 1 \in DOMAIN ExploreAreas,
           NEW x \in a.x..(a.x + a.sizeX - 1), NEW y \in a.y..(a.y + a.sizeY - 1)
    PROVE  \E k \in DOMAIN SubAreas(a, d) : In(x, y, SubAreas(a, d)[k])
<1> DEFINE h == ExploreAreas[d + 1].height
           w == ExploreAreas[d + 1].width
<1>1. h \in Lengths /\ w \in Lengths
  BY RowType
<1>2. /\ a.x \in Nat /\ a.y \in Nat
      /\ a.sizeX \in Lengths /\ a.sizeY \in Lengths
  BY DEF Areas
<1>3. x - a.x \in 0..(a.sizeX - 1) /\ y - a.y \in 0..(a.sizeY - 1)
  BY <1>2 DEF Lengths
<1> HIDE DEF h, w
<1>4. PICK i \in 0..(Strips(a.sizeX, h) - 1) :
          /\ StripStart(i, h) <= x - a.x
          /\ x - a.x < StripStart(i, h) + StripLength(i, a.sizeX, h)
  BY <1>1, <1>2, <1>3, StripsCover
<1>5. PICK j \in 0..(Strips(a.sizeY, w) - 1) :
          /\ StripStart(j, w) <= y - a.y
          /\ y - a.y < StripStart(j, w) + StripLength(j, a.sizeY, w)
  BY <1>1, <1>2, <1>3, StripsCover
<1>6. PICK k \in DOMAIN SubAreas(a, d) : SubAreas(a, d)[k] = Part(a, d, i, j)
  BY <1>4, <1>5, PartNumber DEF Rows, Columns, h, w
<1>7. /\ StripStart(i, h) \in Nat /\ StripLength(i, a.sizeX, h) \in Nat
      /\ StripStart(j, w) \in Nat /\ StripLength(j, a.sizeY, w) \in Nat
  BY <1>1, <1>2, <1>4, <1>5, StripFits DEF Lengths
<1>8. Part(a, d, i, j) = [x |-> a.x + StripStart(i, h), y |-> a.y + StripStart(j, w),
                          sizeX |-> StripLength(i, a.sizeX, h),
                          sizeY |-> StripLength(j, a.sizeY, w)]
  BY DEF Part, h, w
<1>9. x \in Int /\ y \in Int
  BY <1>2
<1>10. In(x, y, Part(a, d, i, j))
  BY <1>2, <1>4, <1>5, <1>7, <1>8, <1>9 DEF In
<1> QED  BY <1>6, <1>10

(***************************************************************************)
(* The parts are a sequence of areas, of one part at least.                *)
(***************************************************************************)
LEMMA PartsType ==
    ASSUME NEW a \in Areas, NEW d \in Nat, d + 1 \in DOMAIN ExploreAreas
    PROVE  /\ SubAreas(a, d) \in Seq(Areas)
           /\ Len(SubAreas(a, d)) \in Nat \ {0}
           /\ DOMAIN SubAreas(a, d) = 1..Len(SubAreas(a, d))
<1> DEFINE N == Rows(a, d) * Columns(a, d)
<1>1. N \in Nat \ {0}
  <2> DEFINE r == Rows(a, d)
             c == Columns(a, d)
  <2>1. r \in Lengths /\ c \in Lengths
    BY RowType, StripsBound DEF Columns, Rows, Areas
  <2> HIDE DEF r, c
  <2>2. r * c \in Nat /\ r * c >= 1
    BY <2>1 DEF Lengths
  <2> QED  BY <2>2 DEF r, c
<1>2. DOMAIN SubAreas(a, d) = 1..N
  BY DEF SubAreas, Rows, Columns
<1>3. \A k \in 1..N : SubAreas(a, d)[k] \in Areas
  BY <1>2, PartInside
<1>4. SubAreas(a, d) = [k \in 1..N |-> SubAreas(a, d)[k]]
  BY <1>2 DEF SubAreas
<1> HIDE DEF N
<1>5. SubAreas(a, d) \in [1..N -> Areas]
  <2> DEFINE f == SubAreas(a, d)
  <2>1. f = [k \in 1..N |-> f[k]] /\ \A k \in 1..N : f[k] \in Areas
    BY <1>3, <1>4
  <2> HIDE DEF f
  <2> QED  BY <2>1 DEF f
<1>6. SubAreas(a, d) \in Seq(Areas)
  BY <1>1, <1>5, SeqDef
<1>7. Len(SubAreas(a, d)) = N
  BY <1>1, <1>2, <1>6, LenProperties
<1> QED  BY <1>1, <1>2, <1>6, <1>7

-----------------------------------------------------------------------------
(***************************************************************************)
(* The treasures of an area.                                               *)
(***************************************************************************)
Amount(a) == TreasuresIn(Treasures, a)

LEMMA CellsFinite == IsFiniteSet(Cells)
<1>1. FieldX - 1 \in Int /\ FieldY - 1 \in Int
  BY SubAreasAssumption
<1>2. IsFiniteSet(0..(FieldX - 1)) /\ IsFiniteSet(0..(FieldY - 1))
  BY <1>1, FS_Interval
<1> QED  BY <1>2, FS_Product DEF Cells

LEMMA CellsOfFinite ==
    ASSUME NEW a PROVE CellsOf(a) \subseteq Cells /\ IsFiniteSet(CellsOf(a))
<1>1. CellsOf(a) \subseteq Cells
  BY DEF CellsOf
<1> QED  BY <1>1, CellsFinite, FS_Subset

LEMMA AmountIsSum ==
    ASSUME NEW a
    PROVE  Amount(a) = Sum(Treasures, CellsOf(a)) /\ Amount(a) \in Nat
<1>1. Amount(a) = Sum(Treasures, CellsOf(a))
  BY DEF Amount, TreasuresIn, Sum
<1>2. \A c \in CellsOf(a) : Treasures[c] \in Nat
  BY CellsOfFinite, ExploreTreeAssumption
<1>3. Sum(Treasures, CellsOf(a)) \in Nat
  BY <1>2, CellsOfFinite, SumNat
<1> QED  BY <1>1, <1>3

(***************************************************************************)
(* An area of size 1 is the cell it starts at.                             *)
(***************************************************************************)
LEMMA OneCell ==
    ASSUME NEW a \in Areas, Inside(a, Field), Size(a) = 1
    PROVE  /\ <<a.x, a.y>> \in Cells
           /\ CellsOf(a) = {<<a.x, a.y>>}
           /\ Amount(a) = Treasures[<<a.x, a.y>>]
<1>1. /\ a.x \in Nat /\ a.y \in Nat /\ a.sizeX \in Nat \ {0}
      /\ a.sizeY \in Nat \ {0}
  BY DEF Areas, Lengths
<1>2. a.sizeX = 1 /\ a.sizeY = 1
  <2>1. a.sizeX * a.sizeY = 1
    BY DEF Size
  <2>2. \A n, m \in Nat \ {0} : n * m = 1 => n = 1 /\ m = 1
    <3> SUFFICES ASSUME NEW n \in Nat \ {0}, NEW m \in Nat \ {0}, n * m = 1
                 PROVE  n = 1 /\ m = 1
      OBVIOUS
    <3>1. n * 1 <= n * m /\ 1 * m <= n * m
      BY TimesMonotonic
    <3> QED  BY <3>1
  <2> QED  BY <1>1, <2>1, <2>2
<1>3. FieldX \in Nat /\ FieldY \in Nat
  BY SubAreasAssumption
<1>4. a.x + 1 <= FieldX /\ a.y + 1 <= FieldY
  BY <1>1, <1>2, <1>3 DEF Inside, Field
<1>5. a.x \in 0..(FieldX - 1) /\ a.y \in 0..(FieldY - 1)
  BY <1>1, <1>3, <1>4
<1>6. <<a.x, a.y>> \in Cells
  BY <1>5 DEF Cells
<1>7. CellsOf(a) = {<<a.x, a.y>>}
  <2>1. ASSUME NEW c \in CellsOf(a) PROVE c = <<a.x, a.y>>
    <3>1. PICK x \in 0..(FieldX - 1), y \in 0..(FieldY - 1) : c = <<x, y>>
      BY DEF CellsOf, Cells
    <3>2. /\ c[1] \in a.x..(a.x + a.sizeX - 1)
          /\ c[2] \in a.y..(a.y + a.sizeY - 1)
      BY DEF CellsOf
    <3>3. x = a.x /\ y = a.y
      BY <1>1, <1>2, <3>1, <3>2
    <3> QED  BY <3>1, <3>3
  <2>2. <<a.x, a.y>> \in CellsOf(a)
    BY <1>1, <1>2, <1>6 DEF CellsOf
  <2> QED  BY <2>1, <2>2
<1>8. Amount(a) = Treasures[<<a.x, a.y>>]
  <2> DEFINE c == <<a.x, a.y>>
  <2>1. Treasures[c] \in Int
    BY <1>6, ExploreTreeAssumption
  <2> HIDE DEF c
  <2>2. IsFiniteSet({}) /\ c \notin {}
    BY FS_EmptySet
  <2>3. Sum(Treasures, {} \cup {c}) = Treasures[c] + Sum(Treasures, {})
    BY <2>1, <2>2, SumAdd
  <2>4. {} \cup {c} = {c}
    OBVIOUS
  <2>5. Sum(Treasures, {c}) = Treasures[c]
    BY <2>1, <2>3, <2>4, SumEmpty
  <2> QED  BY <1>7, <2>5, AmountIsSum DEF c
<1> QED  BY <1>6, <1>7, <1>8

(***************************************************************************)
(* The sum over disjoint sets is the sum of their sums.                    *)
(***************************************************************************)
LEMMA SumPartition ==
    ASSUME NEW I, IsFiniteSet(I), NEW C, NEW f, NEW g,
           \A i \in I : /\ IsFiniteSet(C[i])
                        /\ \A x \in C[i] : f[x] \in Int
                        /\ g[i] = Sum(f, C[i]),
           \A i, j \in I : i # j => C[i] \cap C[j] = {}
    PROVE  Sum(g, I) = Sum(f, UNION {C[i] : i \in I})
<1> DEFINE U(T) == UNION {C[i] : i \in T}
           F == {T \in SUBSET I : IsFiniteSet(U(T)) /\ Sum(g, T) = Sum(f, U(T))}
<1>1. \A i \in I : g[i] \in Int
  BY SumInt
<1>2. {} \in F
  <2>1. U({}) = {}
    OBVIOUS
  <2> QED  BY <2>1, SumEmpty, FS_EmptySet
<1>3. ASSUME NEW T \in SUBSET I, NEW i \in I \ T, T \in F
      PROVE  T \cup {i} \in F
  <2>1. /\ IsFiniteSet(U(T)) /\ Sum(g, T) = Sum(f, U(T))
        /\ IsFiniteSet(T)
    BY <1>3, FS_Subset
  <2>2. U(T \cup {i}) = U(T) \cup C[i]
    OBVIOUS
  <2>3. U(T) \cap C[i] = {}
    OBVIOUS
  <2>4. \A x \in U(T) \cup C[i] : f[x] \in Int
    OBVIOUS
  <2> HIDE DEF U
  <2>5. IsFiniteSet(U(T) \cup C[i])
    BY <2>1, FS_Union
  <2>6. Sum(f, U(T) \cup C[i]) = Sum(f, U(T)) + Sum(f, C[i])
    BY <2>1, <2>3, <2>4, SumUnion
  <2>7. Sum(g, T) \in Int /\ g[i] \in Int /\ g[i] = Sum(f, C[i])
    BY <1>1, <2>1, SumInt
  <2>8. Sum(g, T \cup {i}) = Sum(g, T) + g[i]
    <3>1. Sum(g, T \cup {i}) = g[i] + Sum(g, T)
      BY <1>1, <2>1, SumAdd
    <3> QED  BY <2>7, <3>1
  <2>9. Sum(g, T \cup {i}) = Sum(f, U(T \cup {i}))
    BY <2>1, <2>2, <2>6, <2>7, <2>8, Zenon
  <2> QED  BY <2>2, <2>5, <2>9
<1> HIDE DEF F
<1>4. I \in F
  BY <1>2, <1>3, FiniteInduction
<1> QED  BY <1>4 DEF F

(***************************************************************************)
(* What the parts of an area hold is what the area holds: the parts are a  *)
(* partition of its cells.                                                 *)
(***************************************************************************)
LEMMA InsideCells ==
    ASSUME NEW a \in Areas, NEW b \in Areas, Inside(a, b)
    PROVE  CellsOf(a) \subseteq CellsOf(b)
<1> SUFFICES ASSUME NEW c \in CellsOf(a) PROVE c \in CellsOf(b)
  OBVIOUS
<1>1. /\ a.x \in Nat /\ a.y \in Nat /\ a.sizeX \in Nat /\ a.sizeY \in Nat
      /\ b.x \in Nat /\ b.y \in Nat /\ b.sizeX \in Nat /\ b.sizeY \in Nat
  BY DEF Areas, Lengths
<1>2. /\ c \in Cells /\ c[1] \in a.x..(a.x + a.sizeX - 1)
      /\ c[2] \in a.y..(a.y + a.sizeY - 1)
  BY DEF CellsOf
<1>3. /\ c[1] \in b.x..(b.x + b.sizeX - 1)
      /\ c[2] \in b.y..(b.y + b.sizeY - 1)
  BY <1>1, <1>2 DEF Inside
<1> QED  BY <1>2, <1>3 DEF CellsOf

LEMMA DisjointCells ==
    ASSUME NEW a \in Areas, NEW b \in Areas, Disjoint(a, b)
    PROVE  CellsOf(a) \cap CellsOf(b) = {}
<1> SUFFICES ASSUME NEW c \in CellsOf(a), c \in CellsOf(b) PROVE FALSE
  OBVIOUS
<1>1. /\ a.x \in Nat /\ a.y \in Nat /\ a.sizeX \in Nat /\ a.sizeY \in Nat
      /\ b.x \in Nat /\ b.y \in Nat /\ b.sizeX \in Nat /\ b.sizeY \in Nat
  BY DEF Areas, Lengths
<1>2. /\ c[1] \in a.x..(a.x + a.sizeX - 1)
      /\ c[2] \in a.y..(a.y + a.sizeY - 1)
      /\ c[1] \in b.x..(b.x + b.sizeX - 1)
      /\ c[2] \in b.y..(b.y + b.sizeY - 1)
  BY DEF CellsOf
<1> QED  BY <1>1, <1>2 DEF Disjoint

LEMMA PartsAreCells ==
    ASSUME NEW a \in Areas, NEW d \in Nat, d + 1 \in DOMAIN ExploreAreas,
           NEW parts, parts = SubAreas(a, d)
    PROVE  /\ \A i, j \in DOMAIN parts :
                  i # j => CellsOf(parts[i]) \cap CellsOf(parts[j]) = {}
           /\ \A i \in DOMAIN parts : CellsOf(parts[i]) \subseteq CellsOf(a)
           /\ UNION {CellsOf(parts[i]) : i \in DOMAIN parts} = CellsOf(a)
<1>1. \A i \in DOMAIN parts : parts[i] \in Areas /\ Inside(parts[i], a)
  BY PartInside
<1>2. \A i, j \in DOMAIN parts : i # j => Disjoint(parts[i], parts[j])
  BY PartsDisjoint
<1>3. \A i \in DOMAIN parts : CellsOf(parts[i]) \subseteq CellsOf(a)
  BY <1>1, InsideCells
<1>4. \A i, j \in DOMAIN parts :
          i # j => CellsOf(parts[i]) \cap CellsOf(parts[j]) = {}
  BY <1>1, <1>2, DisjointCells
<1>5. ASSUME NEW c \in CellsOf(a)
      PROVE  \E i \in DOMAIN parts : c \in CellsOf(parts[i])
  <2>1. /\ c \in Cells /\ c[1] \in a.x..(a.x + a.sizeX - 1)
        /\ c[2] \in a.y..(a.y + a.sizeY - 1)
    BY DEF CellsOf
  <2>2. PICK i \in DOMAIN parts : In(c[1], c[2], parts[i])
    BY <2>1, PartsCover
  <2>3. /\ parts[i].x \in Nat /\ parts[i].y \in Nat
        /\ parts[i].sizeX \in Nat /\ parts[i].sizeY \in Nat
    BY <1>1 DEF Areas, Lengths
  <2>4. c[1] \in Int /\ c[2] \in Int
    BY <2>1
  <2>5. /\ c[1] \in parts[i].x..(parts[i].x + parts[i].sizeX - 1)
        /\ c[2] \in parts[i].y..(parts[i].y + parts[i].sizeY - 1)
    BY <2>2, <2>3, <2>4 DEF In
  <2> QED  BY <2>1, <2>5 DEF CellsOf
<1> QED  BY <1>3, <1>4, <1>5

LEMMA PartsAmount ==
    ASSUME NEW a \in Areas, NEW d \in Nat, d + 1 \in DOMAIN ExploreAreas,
           NEW parts, parts = SubAreas(a, d),
           NEW g, \A i \in DOMAIN parts : g[i] = Amount(parts[i])
    PROVE  Sum(g, DOMAIN parts) = Amount(a)
<1> DEFINE C == [i \in DOMAIN parts |-> CellsOf(parts[i])]
           I == DOMAIN parts
<1>1. IsFiniteSet(I)
  <2>1. I = 1..Len(parts) /\ Len(parts) \in Nat
    BY PartsType
  <2> QED  BY <2>1, FS_Interval
<1>2. \A i, j \in I : i # j => C[i] \cap C[j] = {}
  BY PartsAreCells
<1>3. ASSUME NEW i \in I
      PROVE  /\ IsFiniteSet(C[i])
             /\ \A x \in C[i] : Treasures[x] \in Int
             /\ g[i] = Sum(Treasures, C[i])
  <2>1. C[i] = CellsOf(parts[i])
    OBVIOUS
  <2>2. C[i] \subseteq Cells /\ IsFiniteSet(C[i])
    BY <2>1, CellsOfFinite
  <2>3. \A x \in C[i] : Treasures[x] \in Int
    BY <2>2, ExploreTreeAssumption
  <2> QED  BY <2>1, <2>2, <2>3, AmountIsSum
<1>4. UNION {C[i] : i \in I} = CellsOf(a)
  <2>1. {C[i] : i \in I} = {CellsOf(parts[i]) : i \in DOMAIN parts}
    OBVIOUS
  <2> QED  BY <2>1, PartsAreCells
<1> HIDE DEF C, I
<1>5. Sum(g, I) = Sum(Treasures, UNION {C[i] : i \in I})
  BY <1>1, <1>2, <1>3, SumPartition
<1> QED  BY <1>4, <1>5, AmountIsSum DEF I

-----------------------------------------------------------------------------
(***************************************************************************)
(* The order of the queue. Fractions are compared by multiplying crosswise.*)
(***************************************************************************)
LEMMA Products ==
    ASSUME NEW a \in Int, NEW b \in Int, NEW c \in Int
    PROVE  /\ a * b \in Int /\ a * b = b * a
           /\ (a * b) * c = a * (b * c)
           /\ (a * b) * c = (a * c) * b
OBVIOUS

LEMMA TimesStrict ==
    ASSUME NEW a \in Int, NEW b \in Int, NEW n \in Nat \ {0}
    PROVE  /\ a < b <=> a * n < b * n
           /\ a <= b <=> a * n <= b * n
<1>1. ASSUME NEW d \in Nat \ {0} PROVE d * n \in Nat \ {0}
  <2>1. 1 * n <= d * n /\ 1 * n = n
    BY TimesMonotonic
  <2> QED  BY <2>1
<1>2. \A x, y \in Int : x < y => x * n < y * n
  <2> SUFFICES ASSUME NEW x \in Int, NEW y \in Int, x < y PROVE x * n < y * n
    OBVIOUS
  <2>1. (y - x) * n \in Nat \ {0}
    BY <1>1
  <2>2. (y - x) * n = y * n - x * n
    OBVIOUS
  <2>3. x * n \in Int /\ y * n \in Int
    OBVIOUS
  <2> QED  BY <2>1, <2>2, <2>3
<1>3. a < b => a * n < b * n
  BY <1>2
<1>4. b < a => b * n < a * n
  BY <1>2
<1>5. a = b => a * n = b * n
  OBVIOUS
<1>6. a * n \in Int /\ b * n \in Int
  OBVIOUS
<1> QED  BY <1>3, <1>4, <1>5, <1>6

LEMMA FractionOrder ==
    ASSUME NEW a \in Int, NEW b \in Int, NEW c \in Int,
           NEW r \in Nat \ {0}, NEW s \in Nat \ {0}, NEW t \in Nat \ {0},
           a * s >= b * r, b * t >= c * s
    PROVE  /\ a * t >= c * r
           /\ a * s > b * r \/ b * t > c * s => a * t > c * r
<1>1. /\ a * s \in Int /\ b * r \in Int /\ b * t \in Int /\ c * s \in Int
      /\ a * t \in Int /\ c * r \in Int
  BY Products
<1>2. /\ (a * s) * t = (a * t) * s
      /\ (b * r) * t = (b * t) * r
      /\ (c * s) * r = (c * r) * s
  BY Products
<1>3. /\ b * r <= a * s <=> (b * r) * t <= (a * s) * t
      /\ b * r < a * s <=> (b * r) * t < (a * s) * t
  BY <1>1, TimesStrict
<1>4. /\ c * s <= b * t <=> (c * s) * r <= (b * t) * r
      /\ c * s < b * t <=> (c * s) * r < (b * t) * r
  BY <1>1, TimesStrict
<1>5. /\ c * r <= a * t <=> (c * r) * s <= (a * t) * s
      /\ c * r < a * t <=> (c * r) * s < (a * t) * s
  BY <1>1, TimesStrict
<1> DEFINE u == (a * t) * s
           v == (b * t) * r
           w == (c * r) * s
<1>6. u \in Int /\ v \in Int /\ w \in Int
  BY <1>1, Products
<1>7. v <= u /\ (b * r < a * s <=> v < u)
  BY <1>1, <1>2, <1>3
<1>8. w <= v /\ (c * s < b * t <=> w < v)
  BY <1>1, <1>2, <1>4
<1>9. (c * r <= a * t <=> w <= u) /\ (c * r < a * t <=> w < u)
  BY <1>5
<1> HIDE DEF u, v, w
<1>10. w <= u /\ (w < v \/ v < u => w < u)
  BY <1>6, <1>7, <1>8
<1> QED  BY <1>1, <1>7, <1>8, <1>9, <1>10

\* an area that has a place in the queue
Ranked(s, n) == /\ n \in Nat
                /\ Left(s, n) \in Int
                /\ s.tree[n].nonExploredSize \in Nat \ {0}

LEMMA UnsignedType == ASSUME NEW x \in Int PROVE Unsigned(x) \in Int
BY ExploreTreeAssumption DEF Unsigned

LEMMA BeforeIsOrder ==
    ASSUME NEW s, NEW a, NEW b, Ranked(s, a), Ranked(s, b)
    PROVE  /\ ~ (Before(s, a, b) /\ Before(s, b, a))
           /\ ~ Before(s, a, a)
           /\ a # b => Before(s, a, b) \/ Before(s, b, a)
<1> DEFINE x == Unsigned(Left(s, a)) * s.tree[b].nonExploredSize
           y == Unsigned(Left(s, b)) * s.tree[a].nonExploredSize
<1>1. /\ Unsigned(Left(s, a)) \in Int /\ Unsigned(Left(s, b)) \in Int
      /\ s.tree[a].nonExploredSize \in Int /\ s.tree[b].nonExploredSize \in Int
      /\ a \in Nat /\ b \in Nat
  BY UnsignedType DEF Ranked
<1>2. x \in Int /\ y \in Int
  BY <1>1, Products
<1>3. /\ Before(s, a, b) <=> x > y \/ (x = y /\ a < b)
      /\ Before(s, b, a) <=> y > x \/ (y = x /\ b < a)
  BY DEF Before
<1>4. ~ Before(s, a, a)
  <2> DEFINE z == Unsigned(Left(s, a)) * s.tree[a].nonExploredSize
  <2>1. z \in Int
    BY <1>1, Products
  <2>2. Before(s, a, a) <=> z > z \/ (z = z /\ a < a)
    BY DEF Before
  <2> HIDE DEF z
  <2> QED  BY <1>1, <2>1, <2>2
<1> HIDE DEF x, y
<1> QED  BY <1>1, <1>2, <1>3, <1>4

LEMMA BeforeTransitive ==
    ASSUME NEW s, NEW a, NEW b, NEW c,
           Ranked(s, a), Ranked(s, b), Ranked(s, c),
           Before(s, a, b), Before(s, b, c)
    PROVE  Before(s, a, c)
<1> DEFINE la == Unsigned(Left(s, a))
           lb == Unsigned(Left(s, b))
           lc == Unsigned(Left(s, c))
           sa == s.tree[a].nonExploredSize
           sb == s.tree[b].nonExploredSize
           sc == s.tree[c].nonExploredSize
<1>1. /\ la \in Int /\ lb \in Int /\ lc \in Int
      /\ sa \in Nat \ {0} /\ sb \in Nat \ {0} /\ sc \in Nat \ {0}
      /\ a \in Nat /\ b \in Nat /\ c \in Nat
  BY UnsignedType DEF Ranked
<1>2. /\ la * sb > lb * sa \/ (la * sb = lb * sa /\ a < b)
      /\ lb * sc > lc * sb \/ (lb * sc = lc * sb /\ b < c)
  BY DEF Before
<1>3. Before(s, a, c) <=> la * sc > lc * sa \/ (la * sc = lc * sa /\ a < c)
  BY DEF Before
<1> HIDE DEF la, lb, lc, sa, sb, sc
<1>4. /\ la * sb \in Int /\ lb * sa \in Int /\ lb * sc \in Int
      /\ lc * sb \in Int /\ la * sc \in Int /\ lc * sa \in Int
  BY <1>1, Products
<1>5. la * sb >= lb * sa /\ lb * sc >= lc * sb
  BY <1>2, <1>4
<1>6. /\ la * sc >= lc * sa
      /\ la * sb > lb * sa \/ lb * sc > lc * sb => la * sc > lc * sa
  BY <1>1, <1>5, FractionOrder
<1>7. CASE la * sb > lb * sa \/ lb * sc > lc * sb
  BY <1>3, <1>6, <1>7
<1>8. CASE a < b /\ b < c
  BY <1>1, <1>3, <1>4, <1>6, <1>8
<1> QED  BY <1>2, <1>7, <1>8

-----------------------------------------------------------------------------
(***************************************************************************)
(* The queue as a sequence in order.                                       *)
(***************************************************************************)
LEMMA Prefix ==
    ASSUME NEW n \in Nat, NEW B \in SUBSET (1..n),
           \A i \in B : \A j \in 1..i : j \in B
    PROVE  B = 1..Cardinality(B) /\ Cardinality(B) \in 0..n
<1>1. CASE B = {}
  BY <1>1, FS_EmptySet
<1>2. CASE B # {}
  <2>1. B \in SUBSET Nat /\ \A x \in B : x <= n
    OBVIOUS
  <2> DEFINE m == Max(B)
  <2>2. m \in B /\ \A x \in B : x <= m
    BY <1>2, <2>1, BoundedHasMax
  <2> HIDE DEF m
  <2>3. m \in 1..n
    BY <2>2
  <2>4. B = 1..m
    <3>1. \A x \in B : x \in 1..m
      BY <2>2, <2>3
    <3>2. \A x \in 1..m : x \in B
      BY <2>2
    <3> QED  BY <3>1, <3>2
  <2>5. Cardinality(1..m) = m
    BY <2>3, FS_Interval
  <2> QED  BY <2>3, <2>4, <2>5
<1> QED  BY <1>1, <1>2

LEMMA Removed ==
    ASSUME NEW S, NEW s \in Seq(S), NEW p \in 1..Len(s)
    PROVE  /\ RemoveAt(s, p) \in Seq(S)
           /\ Len(RemoveAt(s, p)) = Len(s) - 1
           /\ \A i \in 1..(p - 1) : RemoveAt(s, p)[i] = s[i]
           /\ \A i \in p..(Len(s) - 1) : RemoveAt(s, p)[i] = s[i + 1]
<1> DEFINE n == Len(s)
           front == SubSeq(s, 1, p - 1)
           back == SubSeq(s, p + 1, n)
<1>1. n \in Nat /\ p \in Int /\ 1 <= p /\ p <= n /\ \A i \in 1..n : s[i] \in S
  BY LenProperties, ElementOfSeq
<1> HIDE DEF n
<1>2. /\ front \in Seq(S) /\ Len(front) = p - 1
      /\ \A i \in 1..(p - 1) : front[i] = s[i]
  <2>1. \A i \in 1..(p - 1) : s[i] \in S
    BY <1>1
  <2>2. /\ front \in Seq(S)
        /\ Len(front) = IF 1 <= p - 1 THEN p - 1 - 1 + 1 ELSE 0
        /\ \A i \in 1..(p - 1 - 1 + 1) : front[i] = s[1 + i - 1]
    BY <1>1, <2>1, SubSeqProperties
  <2> HIDE DEF front
  <2>3. Len(front) = p - 1
    BY <1>1, <2>2
  <2>4. \A i \in 1..(p - 1) : i \in 1..(p - 1 - 1 + 1) /\ 1 + i - 1 = i
    BY <1>1
  <2> QED  BY <2>2, <2>3, <2>4
<1>3. /\ back \in Seq(S) /\ Len(back) = n - p
      /\ \A i \in 1..(n - p) : back[i] = s[p + i]
  <2>1. \A i \in (p + 1)..n : s[i] \in S
    BY <1>1
  <2>2. /\ back \in Seq(S)
        /\ Len(back) = IF p + 1 <= n THEN n - (p + 1) + 1 ELSE 0
        /\ \A i \in 1..(n - (p + 1) + 1) : back[i] = s[p + 1 + i - 1]
    BY <1>1, <2>1, SubSeqProperties
  <2> HIDE DEF back
  <2>3. Len(back) = n - p
    BY <1>1, <2>2
  <2>4. \A i \in 1..(n - p) : i \in 1..(n - (p + 1) + 1) /\ p + 1 + i - 1 = p + i
    BY <1>1
  <2> QED  BY <2>2, <2>3, <2>4
<1>4. RemoveAt(s, p) = front \o back
  BY DEF RemoveAt, n
<1> HIDE DEF front, back
<1>5. /\ front \o back \in Seq(S)
      /\ Len(front \o back) = n - 1
      /\ \A i \in 1..(n - 1) : (front \o back)[i] =
             IF i <= p - 1 THEN front[i] ELSE back[i - (p - 1)]
  <2>1. /\ front \o back \in Seq(S)
        /\ Len(front \o back) = Len(front) + Len(back)
        /\ \A i \in 1..(Len(front) + Len(back)) : (front \o back)[i] =
               IF i <= Len(front) THEN front[i] ELSE back[i - Len(front)]
    BY <1>2, <1>3, ConcatProperties
  <2>2. Len(front) + Len(back) = n - 1
    BY <1>1, <1>2, <1>3
  <2> QED  BY <1>2, <2>1, <2>2
<1>6. \A i \in 1..(p - 1) : (front \o back)[i] = s[i]
  <2> SUFFICES ASSUME NEW i \in 1..(p - 1) PROVE (front \o back)[i] = s[i]
    OBVIOUS
  <2>1. i \in 1..(n - 1) /\ i <= p - 1
    BY <1>1
  <2> QED  BY <1>2, <1>5, <2>1
<1>7. \A i \in p..(n - 1) : (front \o back)[i] = s[i + 1]
  <2> SUFFICES ASSUME NEW i \in p..(n - 1) PROVE (front \o back)[i] = s[i + 1]
    OBVIOUS
  <2>1. /\ i \in 1..(n - 1) /\ ~ (i <= p - 1) /\ i - (p - 1) \in 1..(n - p)
        /\ p + (i - (p - 1)) = i + 1
    BY <1>1
  <2>2. (front \o back)[i] = back[i - (p - 1)]
    BY <1>5, <2>1
  <2>3. back[i - (p - 1)] = s[p + (i - (p - 1))]
    BY <1>3, <2>1
  <2> QED  BY <2>1, <2>2, <2>3
<1> QED  BY <1>4, <1>5, <1>6, <1>7 DEF n

SortedBy(s, q) == \A i, j \in DOMAIN q : i < j => Before(s, q[i], q[j])

InsertedAt(q, p, n, r) ==
    /\ r \in Seq(Nat) /\ Len(r) = Len(q) + 1
    /\ \A i \in 1..(p - 1) : r[i] = q[i]
    /\ r[p] = n
    /\ \A i \in (p + 1)..(Len(q) + 1) : r[i] = q[i - 1]

LEMMA InsertedNumber ==
    ASSUME NEW q \in Seq(Nat), NEW n \in Nat, NEW p \in 1..(Len(q) + 1)
    PROVE  InsertedAt(q, p, n, InsertAt(q, p, n))
<1> DEFINE S == Nat
<1>0. q \in Seq(S) /\ n \in S
  OBVIOUS
<1> HIDE DEF S
<1>1. /\ InsertAt(q, p, n) \in Seq(S)
      /\ Len(InsertAt(q, p, n)) = Len(q) + 1
      /\ \A i \in 1..(p - 1) : InsertAt(q, p, n)[i] = q[i]
      /\ InsertAt(q, p, n)[p] = n
      /\ \A i \in (p + 1)..(Len(q) + 1) : InsertAt(q, p, n)[i] = q[i - 1]
  BY <1>0, Inserted
<1> QED  BY <1>1 DEF S, InsertedAt

LEMMA AddedInOrder ==
    ASSUME NEW s, NEW q \in Seq(Nat), \A i \in DOMAIN q : Ranked(s, q[i]),
           SortedBy(s, q), NEW n \in Nat, Ranked(s, n), n \notin ToSet(q),
           NEW r, r = InsertAt(q, 1 + Cardinality({i \in DOMAIN q : Before(s, q[i], n)}), n)
    PROVE  /\ r \in Seq(Nat)
           /\ ToSet(r) = ToSet(q) \cup {n}
           /\ SortedBy(s, r)
<1> DEFINE N == Len(q)
           B == {i \in DOMAIN q : Before(s, q[i], n)}
           p == 1 + Cardinality(B)
<1>1. N \in Nat /\ DOMAIN q = 1..N
  BY LenProperties
<1> HIDE DEF N
<1>2. B = 1..Cardinality(B) /\ Cardinality(B) \in 0..N
  <2>1. B \in SUBSET (1..N)
    BY <1>1
  <2>2. ASSUME NEW i \in B, NEW j \in 1..i PROVE j \in B
    <3>1. i \in DOMAIN q /\ j \in DOMAIN q /\ Before(s, q[i], n) /\ j <= i
      BY <1>1
    <3>2. CASE j = i
      BY <3>1, <3>2
    <3>3. CASE j < i
      <4>1. Before(s, q[j], q[i])
        BY <3>1, <3>3 DEF SortedBy
      <4>2. Before(s, q[j], n)
        BY <3>1, <4>1, BeforeTransitive
      <4> QED  BY <3>1, <4>2
    <3> QED  BY <1>1, <3>1, <3>2, <3>3
  <2> HIDE DEF B
  <2> QED  BY <1>1, <2>1, <2>2, Prefix
<1>3. p \in 1..(N + 1) /\ B = 1..(p - 1)
  <2> HIDE DEF B
  <2> QED  BY <1>1, <1>2
<1>4. \A i \in 1..(p - 1) : i \in 1..N /\ Before(s, q[i], n)
  BY <1>1, <1>3
<1>5. \A i \in p..N : Before(s, n, q[i])
  <2> SUFFICES ASSUME NEW i \in p..N PROVE Before(s, n, q[i])
    OBVIOUS
  <2>1. i \in 1..N /\ i \notin 1..(p - 1)
    BY <1>1, <1>3
  <2>2. i \in DOMAIN q /\ ~ Before(s, q[i], n)
    <3> HIDE DEF p
    <3> QED  BY <1>1, <1>3, <2>1
  <2>3. q[i] # n
    BY <2>2 DEF ToSet
  <2> QED  BY <2>2, <2>3, BeforeIsOrder
<1>6. r = InsertAt(q, p, n)
  OBVIOUS
<1> HIDE DEF p, B
<1>7. /\ r \in Seq(Nat) /\ Len(r) = N + 1
      /\ \A i \in 1..(p - 1) : r[i] = q[i]
      /\ r[p] = n
      /\ \A i \in (p + 1)..(N + 1) : r[i] = q[i - 1]
  <2>1. p \in 1..(Len(q) + 1)
    BY <1>3 DEF N
  <2>2. InsertedAt(q, p, n, InsertAt(q, p, n))
    BY <2>1, InsertedNumber
  <2>3. InsertedAt(q, p, n, r)
    BY <1>6, <2>2
  <2> QED  BY <2>3 DEF InsertedAt, N
<1>8. DOMAIN r = 1..(N + 1)
  BY <1>7, LenProperties
<1>9. ToSet(r) = ToSet(q) \cup {n}
  <2>1. ASSUME NEW i \in 1..(N + 1) PROVE r[i] \in ToSet(q) \cup {n}
    <3>1. i \in 1..(p - 1) \/ i = p \/ (i \in (p + 1)..(N + 1) /\ i - 1 \in 1..N)
      BY <1>1, <1>3
    <3>2. CASE i \in 1..(p - 1)
      BY <1>1, <1>4, <1>7, <3>2 DEF ToSet
    <3>3. CASE i = p
      BY <1>7, <3>3
    <3>4. CASE i \in (p + 1)..(N + 1) /\ i - 1 \in 1..N
      BY <1>1, <1>7, <3>4 DEF ToSet
    <3> QED  BY <3>1, <3>2, <3>3, <3>4
  <2>2. ASSUME NEW i \in 1..N PROVE q[i] \in ToSet(r)
    <3>1. CASE i < p
      <4>1. i \in 1..(p - 1) /\ i \in 1..(N + 1)
        BY <1>1, <1>3, <3>1
      <4> QED  BY <1>7, <1>8, <4>1 DEF ToSet
    <3>2. CASE ~(i < p)
      <4>1. i + 1 \in (p + 1)..(N + 1) /\ i + 1 \in 1..(N + 1) /\ (i + 1) - 1 = i
        BY <1>1, <1>3, <3>2
      <4>2. r[i + 1] = q[i]
        BY <1>7, <4>1
      <4> QED  BY <1>8, <4>1, <4>2 DEF ToSet
    <3> QED  BY <3>1, <3>2
  <2>3. n \in ToSet(r)
    BY <1>1, <1>3, <1>7, <1>8 DEF ToSet
  <2> QED  BY <1>1, <1>8, <2>1, <2>2, <2>3 DEF ToSet
<1>10. SortedBy(s, r)
  <2> SUFFICES ASSUME NEW i \in 1..(N + 1), NEW j \in 1..(N + 1), i < j
               PROVE  Before(s, r[i], r[j])
    BY <1>8 DEF SortedBy
  <2>1. CASE j <= p - 1
    <3>1. i \in 1..(p - 1) /\ j \in 1..(p - 1) /\ i \in DOMAIN q /\ j \in DOMAIN q
      BY <1>1, <1>3, <2>1
    <3> QED  BY <1>7, <3>1 DEF SortedBy
  <2>2. CASE j = p
    <3>1. i \in 1..(p - 1)
      BY <1>1, <1>3, <2>2
    <3> QED  BY <1>4, <1>7, <2>2, <3>1
  <2>3. CASE j > p
    <3>1. j \in (p + 1)..(N + 1) /\ j - 1 \in p..N /\ j - 1 \in DOMAIN q
      BY <1>1, <1>3, <2>3
    <3>2. r[j] = q[j - 1]
      BY <1>7, <3>1
    <3>3. CASE i < p
      <4>1. i \in 1..(p - 1) /\ i \in DOMAIN q /\ i < j - 1
        BY <1>1, <1>3, <2>3, <3>3
      <4> QED  BY <1>7, <3>1, <3>2, <4>1 DEF SortedBy
    <3>4. CASE i = p
      BY <1>5, <1>7, <3>1, <3>2, <3>4
    <3>5. CASE i > p
      <4>1. i \in (p + 1)..(N + 1) /\ i - 1 \in DOMAIN q /\ i - 1 < j - 1
        BY <1>1, <1>3, <3>5
      <4> QED  BY <1>7, <3>1, <3>2, <4>1 DEF SortedBy
    <3> QED  BY <1>3, <3>3, <3>4, <3>5
  <2> QED  BY <1>3, <2>1, <2>2, <2>3
<1> QED  BY <1>7, <1>9, <1>10

LEMMA RemovedInOrder ==
    ASSUME NEW s, NEW q \in Seq(Nat), \A i \in DOMAIN q : Ranked(s, q[i]),
           SortedBy(s, q), NEW p \in DOMAIN q, NEW r, r = RemoveAt(q, p)
    PROVE  /\ r \in Seq(Nat)
           /\ ToSet(r) = ToSet(q) \ {q[p]}
           /\ SortedBy(s, r)
<1> DEFINE N == Len(q)
<1>1. N \in Nat /\ DOMAIN q = 1..N /\ p \in 1..N
  BY LenProperties
<1>2. /\ r \in Seq(Nat) /\ Len(r) = N - 1
      /\ \A i \in 1..(p - 1) : r[i] = q[i]
      /\ \A i \in p..(N - 1) : r[i] = q[i + 1]
  BY <1>1, Removed
<1> HIDE DEF N
<1>3. DOMAIN r = 1..(N - 1)
  BY <1>2, LenProperties
<1>4. ASSUME NEW i \in DOMAIN q, NEW j \in DOMAIN q, i # j PROVE q[i] # q[j]
  <2>1. i < j \/ j < i
    BY <1>1, <1>4
  <2>2. Before(s, q[i], q[j]) \/ Before(s, q[j], q[i])
    BY <2>1 DEF SortedBy
  <2> QED  BY <2>2, BeforeIsOrder
<1>5. ToSet(r) = ToSet(q) \ {q[p]}
  <2>1. ASSUME NEW i \in 1..(N - 1) PROVE r[i] \in ToSet(q) \ {q[p]}
    <3>1. CASE i < p
      <4>1. i \in 1..(p - 1) /\ i \in DOMAIN q /\ i # p
        BY <1>1, <3>1
      <4> QED  BY <1>2, <1>4, <4>1 DEF ToSet
    <3>2. CASE ~(i < p)
      <4>1. i \in p..(N - 1) /\ i + 1 \in DOMAIN q /\ i + 1 # p
        BY <1>1, <3>2
      <4> QED  BY <1>2, <1>4, <4>1 DEF ToSet
    <3> QED  BY <3>1, <3>2
  <2>2. ASSUME NEW i \in DOMAIN q, q[i] # q[p] PROVE q[i] \in ToSet(r)
    <3>1. CASE i < p
      <4>1. i \in 1..(p - 1) /\ i \in 1..(N - 1)
        BY <1>1, <3>1
      <4> QED  BY <1>2, <1>3, <4>1 DEF ToSet
    <3>2. CASE ~(i < p)
      <4>1. i - 1 \in p..(N - 1) /\ i - 1 \in 1..(N - 1) /\ (i - 1) + 1 = i
        BY <1>1, <2>2, <3>2
      <4>2. r[i - 1] = q[i]
        BY <1>2, <4>1
      <4> QED  BY <1>3, <4>1, <4>2 DEF ToSet
    <3> QED  BY <3>1, <3>2
  <2> QED  BY <1>3, <2>1, <2>2 DEF ToSet
<1>6. SortedBy(s, r)
  <2> SUFFICES ASSUME NEW i \in 1..(N - 1), NEW j \in 1..(N - 1), i < j
               PROVE  Before(s, r[i], r[j])
    BY <1>3 DEF SortedBy
  <2>1. CASE j < p
    <3>1. i \in 1..(p - 1) /\ j \in 1..(p - 1) /\ i \in DOMAIN q /\ j \in DOMAIN q
      BY <1>1, <2>1
    <3> QED  BY <1>2, <3>1 DEF SortedBy
  <2>2. CASE ~(j < p) /\ i < p
    <3>1. /\ i \in 1..(p - 1) /\ j \in p..(N - 1) /\ i \in DOMAIN q
          /\ j + 1 \in DOMAIN q /\ i < j + 1
      BY <1>1, <2>2
    <3> QED  BY <1>2, <3>1 DEF SortedBy
  <2>3. CASE ~(i < p)
    <3>1. /\ i \in p..(N - 1) /\ j \in p..(N - 1) /\ i + 1 \in DOMAIN q
          /\ j + 1 \in DOMAIN q /\ i + 1 < j + 1
      BY <1>1, <2>3
    <3> QED  BY <1>2, <3>1 DEF SortedBy
  <2> QED  BY <2>1, <2>2, <2>3
<1> QED  BY <1>2, <1>5, <1>6

-----------------------------------------------------------------------------
(***************************************************************************)
(* The client's state, and what a handler does to it.                      *)
(***************************************************************************)
Nodes == [parent : Nat, area : Areas, exploreDepth : Nat, actual : Int,
          explored : BOOLEAN, requestInFlight : BOOLEAN,
          children : Seq(Nat), childSwaps : Nat,
          exploredTreasures : Int, nonExploredSize : Int, nonExploredCnt : Int]

Located == [cell : Cells, amount : Int]

Clients == [tree : Seq(Nodes), queue : Seq(Nat), calls : SUBSET Nat,
            found : Seq(Located), status : {"running", "crashed"}]

LEMMA ClientType ==
    ASSUME NEW s \in Clients
    PROVE  /\ s.tree \in Seq(Nodes) /\ s.queue \in Seq(Nat)
           /\ s.calls \in SUBSET Nat /\ s.found \in Seq(Located)
           /\ s.status \in {"running", "crashed"}
           /\ Len(s.tree) \in Nat /\ DOMAIN s.tree = 1..Len(s.tree)
           /\ \A n \in DOMAIN s.tree : s.tree[n] \in Nodes
<1>1. s.tree \in Seq(Nodes)
  BY DEF Clients
<1>2. /\ Len(s.tree) \in Nat /\ DOMAIN s.tree = 1..Len(s.tree)
      /\ \A n \in DOMAIN s.tree : s.tree[n] \in Nodes
  BY <1>1, LenProperties, ElementOfSeq
<1> QED  BY <1>1, <1>2 DEF Clients

\* one node of a tree is replaced, the tree, or the queue
With(tr, n, node) == [tr EXCEPT ![n] = node]
WithTree(s, tr) == [s EXCEPT !.tree = tr]
WithQueue(s, q) == [s EXCEPT !.queue = q]

LEMMA NodeReplaced ==
    ASSUME NEW tr \in Seq(Nodes), NEW n \in DOMAIN tr, NEW node \in Nodes
    PROVE  /\ With(tr, n, node) \in Seq(Nodes)
           /\ Len(With(tr, n, node)) = Len(tr)
           /\ DOMAIN With(tr, n, node) = DOMAIN tr
           /\ With(tr, n, node)[n] = node
           /\ \A k \in DOMAIN tr \ {n} : With(tr, n, node)[k] = tr[k]
<1> DEFINE new == [tr EXCEPT ![n] = node]
<1>1. DOMAIN tr = 1..Len(tr)
  BY LenProperties
<1>2. /\ new \in Seq(Nodes) /\ Len(new) = Len(tr)
      /\ \A k \in 1..Len(tr) : new[k] = IF k = n THEN node ELSE tr[k]
  BY <1>1, ExceptSeq
<1>3. DOMAIN new = DOMAIN tr
  OBVIOUS
<1>4. With(tr, n, node) = new
  BY DEF With
<1> HIDE DEF new
<1> QED  BY <1>1, <1>2, <1>3, <1>4

LEMMA TreeReplaced ==
    ASSUME NEW s \in Clients, NEW tr \in Seq(Nodes)
    PROVE  /\ WithTree(s, tr) \in Clients
           /\ WithTree(s, tr).tree = tr
           /\ WithTree(s, tr).queue = s.queue
           /\ WithTree(s, tr).calls = s.calls
           /\ WithTree(s, tr).found = s.found
           /\ WithTree(s, tr).status = s.status
BY DEF Clients, WithTree

LEMMA QueueReplaced ==
    ASSUME NEW s \in Clients, NEW q \in Seq(Nat)
    PROVE  /\ WithQueue(s, q) \in Clients
           /\ WithQueue(s, q).tree = s.tree
           /\ WithQueue(s, q).queue = q
           /\ WithQueue(s, q).calls = s.calls
           /\ WithQueue(s, q).found = s.found
           /\ WithQueue(s, q).status = s.status
BY DEF Clients, WithQueue

MarkExplored(s, n, amount) == [s EXCEPT !.tree[n].actual = amount,
                                        !.tree[n].explored = TRUE]

AsExplored(node, amount) == [node EXCEPT !.actual = amount, !.explored = TRUE]
NotAsked(node) == [node EXCEPT !.requestInFlight = FALSE]
Place(c, n) == CHOOSE k \in DOMAIN c : c[k] = n

LEMMA Marked ==
    ASSUME NEW s \in Clients, NEW n \in DOMAIN s.tree, NEW amount \in Int
    PROVE  MarkExplored(s, n, amount) =
               WithTree(s, With(s.tree, n, AsExplored(s.tree[n], amount)))
<1>1. s.tree \in Seq(Nodes) /\ s.tree[n] \in Nodes
  BY ClientType
<1> QED  BY <1>1 DEF Clients, Nodes, MarkExplored, WithTree, With, AsExplored

LEMMA Updated ==
    ASSUME NEW s \in Clients, NEW n \in DOMAIN s.tree,
           NEW child \in DOMAIN s.tree \ {n}
    PROVE  UpdateChildExplored(s, n, child) =
               WithTree(s, With(With(s.tree, child, NotAsked(s.tree[child])), n,
                                CountExplored(s.tree[n],
                                              Place(s.tree[n].children, child),
                                              s.tree[child])))
<1>1. s.tree \in Seq(Nodes) /\ s.tree[n] \in Nodes /\ s.tree[child] \in Nodes
  BY ClientType
<1> DEFINE x == CountExplored(s.tree[n], Place(s.tree[n].children, child),
                              s.tree[child])
<1>2. UpdateChildExplored(s, n, child) =
          [s EXCEPT !.tree[child].requestInFlight = FALSE, !.tree[n] = x]
  BY DEF UpdateChildExplored, Place
<1> HIDE DEF x
<1>3. [s EXCEPT !.tree[child].requestInFlight = FALSE, !.tree[n] = x]
      = WithTree(s, With(With(s.tree, child, NotAsked(s.tree[child])), n, x))
  BY <1>1 DEF Clients, Nodes, WithTree, With, NotAsked
<1> QED  BY <1>2, <1>3 DEF x

LEMMA Swapped ==
    ASSUME NEW c \in Seq(Nat), NEW i \in DOMAIN c, NEW swaps \in Nat,
           Len(c) - swaps \in DOMAIN c
    PROVE  /\ SwapToEnd(c, i, swaps) \in Seq(Nat)
           /\ Len(SwapToEnd(c, i, swaps)) = Len(c)
           /\ DOMAIN SwapToEnd(c, i, swaps) = DOMAIN c
           /\ SwapToEnd(c, i, swaps)[i] = c[Len(c) - swaps]
           /\ SwapToEnd(c, i, swaps)[Len(c) - swaps] = c[i]
           /\ \A k \in DOMAIN c \ {i, Len(c) - swaps} :
                  SwapToEnd(c, i, swaps)[k] = c[k]
<1> DEFINE j == Len(c) - swaps
<1>1. Len(c) \in Nat /\ DOMAIN c = 1..Len(c) /\ \A k \in DOMAIN c : c[k] \in Nat
  BY LenProperties, ElementOfSeq
<1> DEFINE r == SwapToEnd(c, i, swaps)
<1>2. r = [[c EXCEPT ![i] = c[j]] EXCEPT ![j] = c[i]]
  BY DEF SwapToEnd
<1>3. j \in 1..Len(c)
  BY <1>1
<1> HIDE DEF j, r
<1> DEFINE b == [c EXCEPT ![i] = c[j]]
<1>4. /\ b \in Seq(Nat) /\ Len(b) = Len(c)
      /\ \A k \in 1..Len(c) : b[k] = IF k = i THEN c[j] ELSE c[k]
  BY <1>1, <1>3, ExceptSeq
<1> HIDE DEF b
<1> DEFINE d == [b EXCEPT ![j] = c[i]]
<1>5. /\ d \in Seq(Nat) /\ Len(d) = Len(c)
      /\ \A k \in 1..Len(c) : d[k] = IF k = j THEN c[i] ELSE b[k]
  BY <1>1, <1>3, <1>4, ExceptSeq
<1>6. DOMAIN d = 1..Len(c)
  BY <1>5, LenProperties
<1>7. r = d
  BY <1>2 DEF b
<1> HIDE DEF d
<1>8. /\ r \in Seq(Nat) /\ Len(r) = Len(c) /\ DOMAIN r = DOMAIN c
      /\ r[i] = c[j] /\ r[j] = c[i]
      /\ \A k \in DOMAIN c \ {i, j} : r[k] = c[k]
  BY <1>1, <1>3, <1>4, <1>5, <1>6, <1>7
<1> QED  BY <1>8 DEF j, r

LEMMA SwappedSame ==
    ASSUME NEW c, NEW r, NEW i \in DOMAIN c, NEW j \in DOMAIN c,
           DOMAIN r = DOMAIN c, r[i] = c[j], r[j] = c[i],
           \A k \in DOMAIN c \ {i, j} : r[k] = c[k],
           \A k, l \in DOMAIN c : c[k] = c[l] => k = l
    PROVE  /\ ToSet(r) = ToSet(c)
           /\ \A k, l \in DOMAIN r : r[k] = r[l] => k = l
<1>1. ASSUME NEW k \in DOMAIN r PROVE r[k] \in ToSet(c)
  <2>1. k = i \/ k = j \/ k \in DOMAIN c \ {i, j}
    OBVIOUS
  <2> QED  BY <2>1 DEF ToSet
<1>2. ASSUME NEW k \in DOMAIN c PROVE c[k] \in ToSet(r)
  <2>1. k = i \/ k = j \/ k \in DOMAIN c \ {i, j}
    OBVIOUS
  <2> QED  BY <2>1 DEF ToSet
<1>3. ToSet(r) = ToSet(c)
  <2>1. \A x \in ToSet(r) : x \in ToSet(c)
    BY <1>1 DEF ToSet
  <2>2. \A x \in ToSet(c) : x \in ToSet(r)
    BY <1>2 DEF ToSet
  <2> QED  BY <2>1, <2>2
<1>4. ASSUME NEW k \in DOMAIN r, NEW l \in DOMAIN r, r[k] = r[l] PROVE k = l
  <2>1. /\ k = i \/ k = j \/ k \in DOMAIN c \ {i, j}
        /\ l = i \/ l = j \/ l \in DOMAIN c \ {i, j}
    OBVIOUS
  <2>2. CASE k = i
    BY <1>4, <2>1, <2>2
  <2>3. CASE k = j
    BY <1>4, <2>1, <2>3
  <2>4. CASE k \in DOMAIN c \ {i, j}
    BY <1>4, <2>1, <2>4
  <2> QED  BY <2>1, <2>2, <2>3, <2>4
<1> QED  BY <1>3, <1>4

LEMMA SizeType ==
    ASSUME NEW a \in Areas PROVE Size(a) \in Nat \ {0}
<1>1. a.sizeX \in Nat \ {0} /\ a.sizeY \in Nat \ {0}
  BY DEF Areas, Lengths
<1> DEFINE n == a.sizeX
           m == a.sizeY
<1> HIDE DEF n, m
<1>2. n \in Nat \ {0} /\ m \in Nat \ {0}
  BY <1>1 DEF n, m
<1>3. 1 * m <= n * m /\ n * m \in Nat
  BY <1>2, TimesMonotonic
<1>4. n * m \in Nat \ {0}
  BY <1>2, <1>3
<1> QED  BY <1>4 DEF n, m, Size

LEMMA Elements ==
    ASSUME NEW S, NEW s \in Seq(S)
    PROVE  /\ ToSet(s) \subseteq S
           /\ IsFiniteSet(ToSet(s))
           /\ s = <<>> <=> ToSet(s) = {}
<1>1. Len(s) \in Nat /\ DOMAIN s = 1..Len(s) /\ \A i \in 1..Len(s) : s[i] \in S
  BY LenProperties, ElementOfSeq
<1>2. ToSet(s) \subseteq S
  BY <1>1 DEF ToSet
<1>3. IsFiniteSet(ToSet(s))
  <2>1. s \in [1..Len(s) -> ToSet(s)]
    BY <1>1, LenProperties DEF ToSet
  <2>2. s \in Surjection(1..Len(s), ToSet(s))
    BY <1>1, <2>1 DEF Surjection, ToSet
  <2>3. IsFiniteSet(1..Len(s))
    BY <1>1, FS_Interval
  <2> QED  BY <2>2, <2>3, FS_Surjection
<1>4. s = <<>> <=> ToSet(s) = {}
  <2>1. s = <<>> <=> Len(s) = 0
    BY EmptySeq
  <2>2. Len(s) = 0 => ToSet(s) = {}
    BY <1>1 DEF ToSet
  <2>3. Len(s) # 0 => s[1] \in ToSet(s)
    BY <1>1 DEF ToSet
  <2> QED  BY <2>1, <2>2, <2>3
<1> QED  BY <1>2, <1>3, <1>4

LEMMA Counted ==
    ASSUME NEW node \in Nodes, NEW child \in Nodes, NEW i \in DOMAIN node.children,
           Len(node.children) - node.childSwaps \in DOMAIN node.children
    PROVE  LET x == CountExplored(node, i, child)
           IN  /\ x \in Nodes
               /\ x.parent = node.parent /\ x.area = node.area
               /\ x.exploreDepth = node.exploreDepth /\ x.actual = node.actual
               /\ x.explored = node.explored
               /\ x.requestInFlight = node.requestInFlight
               /\ x.children = SwapToEnd(node.children, i, node.childSwaps)
               /\ x.childSwaps = node.childSwaps + 1
               /\ x.exploredTreasures = node.exploredTreasures + child.actual
               /\ x.nonExploredSize = node.nonExploredSize - Size(child.area)
               /\ x.nonExploredCnt = node.nonExploredCnt - 1
<1> DEFINE x == CountExplored(node, i, child)
<1>0. /\ node.childSwaps \in Nat /\ node.exploredTreasures \in Int
      /\ node.nonExploredSize \in Int /\ node.nonExploredCnt \in Int
  BY DEF Nodes
<1>1. node.children \in Seq(Nat) /\ node.childSwaps \in Nat
  BY DEF Nodes
<1> DEFINE c == SwapToEnd(node.children, i, node.childSwaps)
           size == Size(child.area)
<1>2. c \in Seq(Nat)
  BY <1>1, Swapped
<1>3. size \in Int /\ child.actual \in Int
  BY SizeType DEF Nodes
<1>4. x = [node EXCEPT !.exploredTreasures = @ + child.actual,
                       !.nonExploredSize = @ - size,
                       !.nonExploredCnt = @ - 1,
                       !.children = c, !.childSwaps = @ + 1]
  BY DEF CountExplored
<1> HIDE DEF c, size, x
<1>5. x.children = c /\ x.nonExploredSize = node.nonExploredSize - size
  BY <1>4 DEF Nodes
<1>6. /\ x.parent = node.parent /\ x.area = node.area
      /\ x.exploreDepth = node.exploreDepth /\ x.actual = node.actual
  BY <1>4 DEF Nodes
<1>7. /\ x.explored = node.explored
      /\ x.requestInFlight = node.requestInFlight
      /\ x.childSwaps = node.childSwaps + 1
  BY <1>4 DEF Nodes
<1>8. /\ x.exploredTreasures = node.exploredTreasures + child.actual
      /\ x.nonExploredCnt = node.nonExploredCnt - 1
  BY <1>4 DEF Nodes
<1>9. x \in Nodes
  <2> DEFINE d == node.childSwaps + 1
             e == node.exploredTreasures + child.actual
             f == node.nonExploredSize - size
             g == node.nonExploredCnt - 1
  <2>1. d \in Nat /\ e \in Int /\ f \in Int /\ g \in Int
    BY <1>0, <1>3
  <2>2. x = [node EXCEPT !.exploredTreasures = e, !.nonExploredSize = f,
                         !.nonExploredCnt = g, !.children = c, !.childSwaps = d]
    BY <1>4
  <2> HIDE DEF d, e, f, g
  <2> QED  BY <1>2, <2>1, <2>2 DEF Nodes
<1> QED  BY <1>5, <1>6, <1>7, <1>8, <1>9 DEF c, size, x

-----------------------------------------------------------------------------
(***************************************************************************)
(* The tree of areas. What is said of one node of it:                      *)
(* its children are its own and no one else's (Kin), its area lies in the  *)
(* field and is no larger than the row of the table it was cut with        *)
(* (Placed), its counters agree with its children (Balanced), and they     *)
(* have its error between them (Inherits).                                 *)
(***************************************************************************)
Kids(tr, n) == ToSet(tr[n].children)
Explored(tr, n) == {c \in Kids(tr, n) : tr[c].explored}
Waiting(tr, n) == {c \in Kids(tr, n) : ~tr[c].explored}
Leaf(tr, n) == tr[n].children = <<>>

\* all parts of the area are explored
Complete(tr, n) == ~Leaf(tr, n) /\ Waiting(tr, n) = {}

\* by how much the client is wrong about an area that it knows
Known(tr, n) == n = Root \/ tr[n].explored
Off(tr, n) == tr[n].actual - Amount(tr[n].area)

Amounts(tr) == [c \in DOMAIN tr |-> Amount(tr[c].area)]
Sizes(tr) == [c \in DOMAIN tr |-> Size(tr[c].area)]

Kin(tr, n) ==
    /\ \A c \in Kids(tr, n) : /\ c \in DOMAIN tr
                              /\ tr[c].parent = n
                              /\ tr[c].exploreDepth = tr[n].exploreDepth + 1
    /\ \A i, j \in DOMAIN tr[n].children :
           tr[n].children[i] = tr[n].children[j] => i = j
    /\ n # Root => tr[n].parent \in DOMAIN tr /\ n \in Kids(tr, tr[n].parent)
    /\ ~Leaf(tr, n) => n = Root \/ (tr[n].explored /\ Size(tr[n].area) > 1)

Placed(tr, n) ==
    /\ Inside(tr[n].area, Field)
    /\ n # Root => LET row == ExploreAreas[tr[n].exploreDepth]
                   IN  /\ tr[n].exploreDepth \in DOMAIN ExploreAreas
                       /\ tr[n].area.sizeX <= row.height
                       /\ tr[n].area.sizeY <= row.width

Balanced(tr, n) ==
    /\ tr[n].exploredTreasures = IF Complete(tr, n) THEN tr[n].actual
                                 ELSE Sum(Amounts(tr), Explored(tr, n))
    /\ tr[n].nonExploredSize = Sum(Sizes(tr), Waiting(tr, n))
    /\ tr[n].nonExploredCnt = Cardinality(Waiting(tr, n))
    /\ ~Leaf(tr, n) => Amount(tr[n].area) = Sum(Amounts(tr), Kids(tr, n))
    /\ \A i \in DOMAIN tr[n].children :
           tr[tr[n].children[i]].explored
               <=> i > Len(tr[n].children) - tr[n].childSwaps
    /\ Leaf(tr, n) => tr[n].childSwaps = 0

Inherits(tr, n) ==
    /\ ~Complete(tr, n) => \A c \in Explored(tr, n) : Off(tr, c) = 0
    /\ Complete(tr, n) =>
           \E d \in Kids(tr, n) : \A c \in Kids(tr, n) :
               Off(tr, c) = IF c = d THEN Off(tr, n) ELSE 0

\* an area whose error no part of it has yet: there is at most one such area,
\* and none if the nominal number of treasures is that of the field
Astray(tr, n) == Known(tr, n) /\ Off(tr, n) # 0 /\ ~Complete(tr, n)

Told(tr) == \A m, n \in DOMAIN tr :
                Astray(tr, m) /\ Astray(tr, n) => m = n /\ Nominal # Amount(Field)

RootIs(tr) == /\ Root \in DOMAIN tr
              /\ tr[Root].parent = 0 /\ tr[Root].area = Field
              /\ tr[Root].exploreDepth = 0 /\ ~tr[Root].explored

LeavesApart(tr) ==
    \A m, n \in DOMAIN tr :
        m # n /\ Leaf(tr, m) /\ Leaf(tr, n)
            => CellsOf(tr[m].area) \cap CellsOf(tr[n].area) = {}

Tree(tr) == /\ tr \in Seq(Nodes)
            /\ RootIs(tr)
            /\ \A n \in DOMAIN tr : /\ Kin(tr, n) /\ Placed(tr, n)
                                   /\ Balanced(tr, n) /\ Inherits(tr, n)
            /\ LeavesApart(tr)
            /\ Told(tr)

LEMMA NodeType ==
    ASSUME NEW tr \in Seq(Nodes)
    PROVE  /\ Len(tr) \in Nat /\ DOMAIN tr = 1..Len(tr)
           /\ \A n \in DOMAIN tr :
                  /\ tr[n] \in Nodes /\ tr[n].area \in Areas
                  /\ tr[n].children \in Seq(Nat)
                  /\ Len(tr[n].children) \in Nat
                  /\ DOMAIN tr[n].children = 1..Len(tr[n].children)
                  /\ tr[n].childSwaps \in Nat /\ tr[n].actual \in Int
                  /\ tr[n].exploreDepth \in Nat /\ tr[n].parent \in Nat
                  /\ tr[n].explored \in BOOLEAN
                  /\ tr[n].requestInFlight \in BOOLEAN
                  /\ tr[n].exploredTreasures \in Int
                  /\ tr[n].nonExploredSize \in Int
                  /\ tr[n].nonExploredCnt \in Int
                  /\ Kids(tr, n) \subseteq Nat /\ IsFiniteSet(Kids(tr, n))
                  /\ Leaf(tr, n) <=> Kids(tr, n) = {}
<1>1. Len(tr) \in Nat /\ DOMAIN tr = 1..Len(tr)
      /\ \A n \in DOMAIN tr : tr[n] \in Nodes
  BY LenProperties, ElementOfSeq
<1>2. ASSUME NEW n \in DOMAIN tr
      PROVE  /\ Len(tr[n].children) \in Nat
             /\ DOMAIN tr[n].children = 1..Len(tr[n].children)
             /\ Kids(tr, n) \subseteq Nat /\ IsFiniteSet(Kids(tr, n))
             /\ Leaf(tr, n) <=> Kids(tr, n) = {}
  <2> DEFINE c == tr[n].children
  <2>1. c \in Seq(Nat)
    BY <1>1 DEF Nodes
  <2> HIDE DEF c
  <2>2. Len(c) \in Nat /\ DOMAIN c = 1..Len(c)
    BY <2>1, LenProperties
  <2>3. /\ ToSet(c) \subseteq Nat /\ IsFiniteSet(ToSet(c))
        /\ c = <<>> <=> ToSet(c) = {}
    BY <2>1, Elements
  <2> QED  BY <2>2, <2>3 DEF c, Kids, Leaf
<1> QED  BY <1>1, <1>2 DEF Nodes

LEMMA Families ==
    ASSUME NEW tr, Tree(tr), NEW n \in DOMAIN tr
    PROVE  /\ \A k \in DOMAIN tr : n \in Kids(tr, k) => k = tr[n].parent
           /\ n \notin Kids(tr, n) /\ Root \notin Kids(tr, n)
           /\ n # Root => /\ tr[n].parent \in DOMAIN tr \ {n}
                          /\ n \in Kids(tr, tr[n].parent)
           /\ n # Root /\ ~tr[n].explored => Leaf(tr, n)
           /\ \A c \in Kids(tr, n) : c \in DOMAIN tr \ {Root}
<1>1. /\ tr \in Seq(Nodes) /\ RootIs(tr)
      /\ \A k \in DOMAIN tr : Kin(tr, k)
  BY DEF Tree
<1>2. DOMAIN tr = 1..Len(tr) /\ \A k \in DOMAIN tr : tr[k].exploreDepth \in Nat
  BY <1>1, NodeType
<1>3. \A k \in DOMAIN tr : \A c \in Kids(tr, k) :
          c \in DOMAIN tr /\ tr[c].parent = k
          /\ tr[c].exploreDepth = tr[k].exploreDepth + 1
  BY <1>1 DEF Kin
<1>4. n \notin Kids(tr, n)
  BY <1>2, <1>3
<1>5. \A k \in DOMAIN tr : Root \notin Kids(tr, k)
  BY <1>1, <1>2, <1>3 DEF RootIs
<1>6. n # Root => tr[n].parent \in DOMAIN tr /\ n \in Kids(tr, tr[n].parent)
  BY <1>1 DEF Kin
<1>7. n # Root /\ ~tr[n].explored => Leaf(tr, n)
  BY <1>1 DEF Kin
<1> QED  BY <1>3, <1>4, <1>5, <1>6, <1>7

\* what is left of an area that was cut is what its unexplored parts hold,
\* and the error of the area
LEMMA LeftIsSum ==
    ASSUME NEW tr, Tree(tr), NEW n \in DOMAIN tr
    PROVE  /\ IsFiniteSet(Explored(tr, n)) /\ IsFiniteSet(Waiting(tr, n))
           /\ tr[n].exploredTreasures \in Int
           /\ tr[n].nonExploredSize \in Nat
           /\ tr[n].nonExploredCnt \in Nat
           /\ \A T \in SUBSET Kids(tr, n) : Sum(Amounts(tr), T) \in Nat
           /\ ~Leaf(tr, n) /\ Waiting(tr, n) # {} =>
                  tr[n].actual - tr[n].exploredTreasures
                      = Sum(Amounts(tr), Waiting(tr, n)) + Off(tr, n)
           /\ Complete(tr, n) => tr[n].actual - tr[n].exploredTreasures = 0
           /\ Waiting(tr, n) # {} => tr[n].nonExploredSize # 0
           /\ Off(tr, n) \in Int
<1> DEFINE K == Kids(tr, n)
           E == Explored(tr, n)
           W == Waiting(tr, n)
           f == Amounts(tr)
           g == Sizes(tr)
<1>1. /\ tr \in Seq(Nodes) /\ IsFiniteSet(K) /\ \A k \in DOMAIN tr : tr[k].area \in Areas
  BY NodeType DEF Tree
<1>2. K \subseteq DOMAIN tr
  BY Families
<1>3. E \subseteq K /\ W = K \ E /\ W \subseteq K
  BY DEF Explored, Waiting
<1>4. \A c \in K : f[c] \in Nat /\ g[c] \in Nat \ {0}
  <2> SUFFICES ASSUME NEW c \in K PROVE f[c] \in Nat /\ g[c] \in Nat \ {0}
    OBVIOUS
  <2>1. c \in DOMAIN tr /\ tr[c].area \in Areas
    BY <1>1, <1>2
  <2>2. f[c] = Amount(tr[c].area) /\ g[c] = Size(tr[c].area)
    BY <2>1 DEF Amounts, Sizes
  <2> QED  BY <2>1, <2>2, AmountIsSum, SizeType
<1>5. Balanced(tr, n)
  BY DEF Tree
<1>6. /\ ~Complete(tr, n) => tr[n].exploredTreasures = Sum(f, E)
      /\ Complete(tr, n) => tr[n].exploredTreasures = tr[n].actual
      /\ tr[n].nonExploredSize = Sum(g, W)
      /\ tr[n].nonExploredCnt = Cardinality(W)
      /\ ~Leaf(tr, n) => Amount(tr[n].area) = Sum(f, K)
  BY <1>5 DEF Balanced
<1>15. /\ tr[n].actual \in Int /\ Amount(tr[n].area) \in Int
       /\ Off(tr, n) = tr[n].actual - Amount(tr[n].area)
  BY <1>1, NodeType, AmountIsSum DEF Off
<1>16. W # {} => ~Complete(tr, n)
  BY DEF Complete
<1> HIDE DEF K, E, W, f, g
<1>7. IsFiniteSet(E) /\ IsFiniteSet(W)
  BY <1>1, <1>3, FS_Subset
<1>8. \A T \in SUBSET K : Sum(f, T) \in Nat
  BY <1>1, <1>4, SumNat
<1>9. Sum(g, W) \in Nat /\ \A c \in W : g[c] <= Sum(g, W)
  <2>1. \A c \in W : g[c] \in Nat
    BY <1>3, <1>4
  <2> QED  BY <1>7, <2>1, SumNat
<1>10. Cardinality(W) \in Nat
  BY <1>7, FS_CardinalityType
<1>11. Sum(f, K) = Sum(f, E) + Sum(f, W)
  <2>1. \A c \in K : f[c] \in Int
    BY <1>4
  <2> QED  BY <1>1, <1>3, <2>1, SumSplit
<1>12. ASSUME W # {} PROVE Sum(g, W) # 0
  <2>1. PICK c \in W : TRUE
    BY <1>12
  <2> QED  BY <1>3, <1>4, <1>9, <2>1
<1>13. /\ ~Leaf(tr, n) /\ W # {} =>
              tr[n].actual - tr[n].exploredTreasures = Sum(f, W) + Off(tr, n)
       /\ Complete(tr, n) => tr[n].actual - tr[n].exploredTreasures = 0
  <2>1. Sum(f, E) \in Nat /\ Sum(f, W) \in Nat
    BY <1>3, <1>8
  <2> QED  BY <1>6, <1>11, <1>15, <1>16, <2>1
<1>14. tr[n].exploredTreasures \in Int /\ Off(tr, n) \in Int
  BY <1>3, <1>6, <1>8, <1>15
<1> QED  BY <1>6, <1>7, <1>8, <1>9, <1>10, <1>12, <1>13, <1>14 DEF K, E, W, f, g

(***************************************************************************)
(* Area n is explored: it holds so much, and its parent p counts it in.    *)
(***************************************************************************)
Recorded(tr, n, p, amount, new) ==
    /\ new \in Seq(Nodes) /\ DOMAIN new = DOMAIN tr
    /\ \A k \in DOMAIN tr :
           /\ new[k].parent = tr[k].parent /\ new[k].area = tr[k].area
           /\ new[k].exploreDepth = tr[k].exploreDepth
    /\ \A k \in DOMAIN tr \ {n} :
           /\ new[k].explored = tr[k].explored /\ new[k].actual = tr[k].actual
           /\ new[k].requestInFlight = tr[k].requestInFlight
    /\ new[n].explored /\ new[n].actual = amount /\ ~new[n].requestInFlight
    /\ \A k \in DOMAIN tr \ {p} :
           /\ new[k].children = tr[k].children
           /\ new[k].childSwaps = tr[k].childSwaps
           /\ new[k].exploredTreasures = tr[k].exploredTreasures
           /\ new[k].nonExploredSize = tr[k].nonExploredSize
           /\ new[k].nonExploredCnt = tr[k].nonExploredCnt
    /\ Kids(new, p) = Kids(tr, p)
    /\ new[p].exploredTreasures = tr[p].exploredTreasures + amount
    /\ new[p].nonExploredSize = tr[p].nonExploredSize - Size(tr[n].area)
    /\ new[p].nonExploredCnt = tr[p].nonExploredCnt - 1
    /\ \A i, j \in DOMAIN new[p].children :
           new[p].children[i] = new[p].children[j] => i = j
    /\ \A i \in DOMAIN new[p].children :
           new[p].children[i] = n \/ tr[new[p].children[i]].explored
               <=> i > Len(new[p].children) - new[p].childSwaps

\* what that makes of the families
RecordedKids(tr, n, p, new) ==
    /\ \A k \in DOMAIN tr : /\ Kids(new, k) = Kids(tr, k)
                            /\ Leaf(new, k) <=> Leaf(tr, k)
    /\ \A k \in DOMAIN tr \ {p} : /\ Explored(new, k) = Explored(tr, k)
                                  /\ Waiting(new, k) = Waiting(tr, k)
    /\ Explored(new, p) = Explored(tr, p) \cup {n}
    /\ Waiting(new, p) = Waiting(tr, p) \ {n}
    /\ n \in Waiting(tr, p) /\ n \notin Explored(tr, p)
    /\ Amounts(new) = Amounts(tr) /\ Sizes(new) = Sizes(tr)

LEMMA ChildOf ==
    ASSUME NEW tr, Tree(tr), NEW p \in DOMAIN tr, NEW n \in Kids(tr, p)
    PROVE  /\ n \in DOMAIN tr \ {Root} /\ n # p /\ n \in Nat \ {0}
           /\ tr[n].parent = p
<1>1. n \in DOMAIN tr \ {Root} /\ n # p
  BY Families
<1>2. tr[n].parent = p
  BY DEF Tree, Kin
<1>3. n \in Nat \ {0}
  BY <1>1, NodeType DEF Tree
<1> QED  BY <1>1, <1>2, <1>3

LEMMA KidsRecorded ==
    ASSUME NEW tr, Tree(tr), NEW p \in DOMAIN tr, NEW n \in Kids(tr, p),
           ~tr[n].explored, NEW amount \in Int, NEW new,
           Recorded(tr, n, p, amount, new)
    PROVE  RecordedKids(tr, n, p, new)
<1>0. n \in DOMAIN tr \ {Root} /\ tr[n].parent = p
  BY ChildOf
<1>1. tr \in Seq(Nodes) /\ new \in Seq(Nodes) /\ DOMAIN new = DOMAIN tr
  BY DEF Tree, Recorded
<1>2. ASSUME NEW k \in DOMAIN tr
      PROVE  Kids(new, k) = Kids(tr, k) /\ (Leaf(new, k) <=> Leaf(tr, k))
  <2>1. Kids(new, k) = Kids(tr, k)
    <3>1. CASE k = p
      BY <3>1 DEF Recorded
    <3>2. CASE k # p
      BY <3>2 DEF Recorded, Kids
    <3> QED  BY <3>1, <3>2
  <2>2. /\ Leaf(new, k) <=> Kids(new, k) = {}
        /\ Leaf(tr, k) <=> Kids(tr, k) = {}
    BY <1>1, NodeType
  <2> QED  BY <2>1, <2>2
<1>3. /\ p \in DOMAIN tr /\ n \in Kids(tr, p)
      /\ \A k \in DOMAIN tr : n \in Kids(tr, k) => k = p
      /\ \A k \in DOMAIN tr : Kids(tr, k) \subseteq DOMAIN tr
  BY <1>0, Families
<1>4. /\ \A k \in DOMAIN tr \ {n} : new[k].explored = tr[k].explored
      /\ new[n].explored
      /\ \A k \in DOMAIN tr : tr[k].explored \in BOOLEAN /\ new[k].explored \in BOOLEAN
  BY <1>1, NodeType DEF Recorded
<1>5. ASSUME NEW k \in DOMAIN tr \ {p}
      PROVE  /\ Explored(new, k) = Explored(tr, k)
             /\ Waiting(new, k) = Waiting(tr, k)
  <2>1. \A c \in Kids(tr, k) : c \in DOMAIN tr \ {n}
    BY <1>3
  <2> QED  BY <1>2, <1>4, <2>1 DEF Explored, Waiting
<1>6. /\ Explored(new, p) = Explored(tr, p) \cup {n}
      /\ Waiting(new, p) = Waiting(tr, p) \ {n}
  <2>1. \A c \in Kids(tr, p) : c \in DOMAIN tr
    BY <1>3
  <2>2. \A c \in Kids(tr, p) : new[c].explored <=> tr[c].explored \/ c = n
    BY <1>4, <2>1
  <2>3. \A c : c \in Explored(new, p) <=> c \in Explored(tr, p) \cup {n}
    BY <1>2, <1>3, <2>2 DEF Explored
  <2>4. \A c : c \in Waiting(new, p) <=> c \in Waiting(tr, p) \ {n}
    BY <1>2, <1>3, <2>2 DEF Waiting
  <2> QED  BY <2>3, <2>4
<1>7. n \in Waiting(tr, p) /\ n \notin Explored(tr, p)
  BY <1>3 DEF Waiting, Explored
<1>8. Amounts(new) = Amounts(tr) /\ Sizes(new) = Sizes(tr)
  <2>1. \A k \in DOMAIN tr : new[k].area = tr[k].area
    BY DEF Recorded
  <2> QED  BY <1>1, <2>1 DEF Amounts, Sizes
<1> QED  BY <1>2, <1>5, <1>6, <1>7, <1>8 DEF RecordedKids

(***************************************************************************)
(* What area n is believed to hold: what the server answered, or, for the  *)
(* last part of its parent, what that has left. The answer is exact, the   *)
(* last part gets the error of its parent.                                 *)
(***************************************************************************)
Due(tr, p, n) == IF Waiting(tr, p) = {n}
                 THEN tr[p].actual - tr[p].exploredTreasures
                 ELSE Amount(tr[n].area)

LEMMA SumOne ==
    ASSUME NEW f, NEW c, f[c] \in Int
    PROVE  Sum(f, {c}) = f[c]
<1>1. IsFiniteSet({}) /\ c \notin {} /\ {} \cup {c} = {c}
  BY FS_EmptySet
<1>2. Sum(f, {} \cup {c}) = f[c] + Sum(f, {})
  BY <1>1, SumAdd
<1> QED  BY <1>1, <1>2, SumEmpty

LEMMA DueIs ==
    ASSUME NEW tr, Tree(tr), NEW p \in DOMAIN tr, NEW n \in Kids(tr, p),
           ~tr[n].explored
    PROVE  /\ Due(tr, p, n) \in Int
           /\ Due(tr, p, n) - Amount(tr[n].area) =
                  IF Waiting(tr, p) = {n} THEN Off(tr, p) ELSE 0
<1> DEFINE f == Amounts(tr)
<1>1. n \in DOMAIN tr \ {Root} /\ tr[n].parent = p
  BY ChildOf
<1>2. /\ tr \in Seq(Nodes) /\ tr[n].area \in Areas
      /\ (Leaf(tr, p) <=> Kids(tr, p) = {})
  BY <1>1, NodeType DEF Tree
<1>3. f[n] = Amount(tr[n].area) /\ f[n] \in Int
  BY <1>1, <1>2, AmountIsSum DEF Amounts
<1>4. CASE Waiting(tr, p) = {n}
  <2>1. ~Leaf(tr, p) /\ Waiting(tr, p) # {}
    BY <1>2, <1>4
  <2>2. /\ IsFiniteSet(Explored(tr, p)) /\ IsFiniteSet(Waiting(tr, p))
        /\ tr[p].exploredTreasures \in Int
        /\ tr[p].nonExploredSize \in Nat
        /\ tr[p].nonExploredCnt \in Nat
        /\ \A T \in SUBSET Kids(tr, p) : Sum(Amounts(tr), T) \in Nat
        /\ ~Leaf(tr, p) /\ Waiting(tr, p) # {} =>
               tr[p].actual - tr[p].exploredTreasures
                   = Sum(Amounts(tr), Waiting(tr, p)) + Off(tr, p)
        /\ Complete(tr, p) => tr[p].actual - tr[p].exploredTreasures = 0
        /\ Waiting(tr, p) # {} => tr[p].nonExploredSize # 0
        /\ Off(tr, p) \in Int
    BY LeftIsSum
  <2>3. Sum(f, {n}) = f[n]
    BY <1>3, SumOne
  <2>4. Due(tr, p, n) = f[n] + Off(tr, p) /\ Off(tr, p) \in Int
    BY <1>4, <2>1, <2>2, <2>3 DEF Due
  <2> HIDE DEF f
  <2> QED  BY <1>3, <1>4, <2>4
<1>5. CASE Waiting(tr, p) # {n}
  <2>1. Due(tr, p, n) = f[n]
    BY <1>3, <1>5 DEF Due
  <2> HIDE DEF f
  <2> QED  BY <1>3, <1>5, <2>1
<1> QED  BY <1>4, <1>5

LEMMA OffRecorded ==
    ASSUME NEW tr, Tree(tr), NEW p \in DOMAIN tr, NEW n \in Kids(tr, p),
           ~tr[n].explored,
           NEW new, Recorded(tr, n, p, Due(tr, p, n), new)
    PROVE  /\ \A k \in DOMAIN tr \ {n} : /\ Off(new, k) = Off(tr, k)
                                         /\ Known(new, k) <=> Known(tr, k)
           /\ Off(new, n) = IF Waiting(tr, p) = {n} THEN Off(tr, p) ELSE 0
<1>1. ASSUME NEW k \in DOMAIN tr \ {n}
      PROVE  Off(new, k) = Off(tr, k) /\ (Known(new, k) <=> Known(tr, k))
  <2>1. /\ new[k].actual = tr[k].actual /\ new[k].area = tr[k].area
        /\ new[k].explored = tr[k].explored
    BY DEF Recorded
  <2> QED  BY <2>1 DEF Off, Known
<1>2. Off(new, n) = Due(tr, p, n) - Amount(tr[n].area)
  <2>1. n \in DOMAIN tr
    BY ChildOf
  <2>2. new[n].actual = Due(tr, p, n) /\ new[n].area = tr[n].area
    BY <2>1 DEF Recorded
  <2> QED  BY <2>2 DEF Off
<1>3. Due(tr, p, n) - Amount(tr[n].area) =
          IF Waiting(tr, p) = {n} THEN Off(tr, p) ELSE 0
  BY DueIs
<1> QED  BY <1>1, <1>2, <1>3

LEMMA ParentBalanced ==
    ASSUME NEW tr, Tree(tr), NEW p \in DOMAIN tr, NEW n \in Kids(tr, p),
           ~tr[n].explored,
           NEW new, Recorded(tr, n, p, Due(tr, p, n), new)
    PROVE  Balanced(new, p)
<1> DEFINE f == Amounts(tr)
           g == Sizes(tr)
           E == Explored(tr, p)
           W == Waiting(tr, p)
<1> DEFINE amount == Due(tr, p, n)
<1>20. n \in DOMAIN tr \ {Root} /\ tr[n].parent = p
  BY ChildOf
<1>0. amount \in Int /\ amount = Due(tr, p, n)
      /\ Recorded(tr, n, p, amount, new)
  BY DueIs
<1> HIDE DEF amount
<1>21. RecordedKids(tr, n, p, new)
  BY <1>0, KidsRecorded
<1>1. /\ Kids(new, p) = Kids(tr, p) /\ (Leaf(new, p) <=> Leaf(tr, p))
      /\ Explored(new, p) = E \cup {n} /\ Waiting(new, p) = W \ {n}
      /\ n \in W /\ n \notin E
      /\ Amounts(new) = f /\ Sizes(new) = g
  <2>1. p \in DOMAIN tr
    BY <1>20, Families
  <2> QED  BY <1>21, <2>1 DEF RecordedKids
<1>2. /\ p \in DOMAIN tr \ {n} /\ n \in DOMAIN tr /\ n \in Kids(tr, p)
      /\ Kids(tr, p) \subseteq DOMAIN tr
  BY <1>20, Families
<1>3. /\ tr \in Seq(Nodes) /\ new \in Seq(Nodes) /\ DOMAIN new = DOMAIN tr
  BY <1>0 DEF Tree, Recorded
<1>4. IsFiniteSet(E) /\ IsFiniteSet(W)
  BY <1>2, LeftIsSum
<1>5. /\ tr[n].area \in Areas /\ f[n] = Amount(tr[n].area)
      /\ g[n] = Size(tr[n].area)
  BY <1>2, <1>3, NodeType DEF Amounts, Sizes
<1>6. \A c \in DOMAIN tr : f[c] \in Int /\ g[c] \in Int
  <2> SUFFICES ASSUME NEW c \in DOMAIN tr PROVE f[c] \in Int /\ g[c] \in Int
    OBVIOUS
  <2>1. tr[c].area \in Areas /\ f[c] = Amount(tr[c].area) /\ g[c] = Size(tr[c].area)
    BY <1>3, NodeType DEF Amounts, Sizes
  <2> QED  BY <2>1, AmountIsSum, SizeType
<1>7. Balanced(tr, p)
  BY <1>2 DEF Tree
<1>8. E \subseteq DOMAIN tr /\ W \subseteq DOMAIN tr
  BY <1>2 DEF Explored, Waiting
<1>15. /\ ~Complete(tr, p) /\ new[p].actual = tr[p].actual
       /\ new[p].exploredTreasures = tr[p].exploredTreasures + amount
       /\ tr[p].actual \in Int /\ tr[p].exploredTreasures \in Int
       /\ ~Leaf(new, p)
       /\ Complete(new, p) <=> W = {n}
  <2>1. ~Complete(tr, p)
    BY <1>1 DEF Complete
  <2>2. /\ new[p].actual = tr[p].actual
        /\ new[p].exploredTreasures = tr[p].exploredTreasures + amount
    BY <1>0, <1>2 DEF Recorded
  <2>3. tr[p].actual \in Int /\ tr[p].exploredTreasures \in Int
    BY <1>2, <1>3, NodeType
  <2>4. ~Leaf(new, p)
    BY <1>1, <1>2, <1>3, NodeType
  <2>5. Complete(new, p) <=> W = {n}
    BY <1>1, <2>4 DEF Complete
  <2> QED  BY <2>1, <2>2, <2>3, <2>4, <2>5
<1>9. new[p].exploredTreasures = IF Complete(new, p) THEN new[p].actual
                                 ELSE Sum(f, E \cup {n})
  <2>0. CASE W = {n}
    <3>1. amount = tr[p].actual - tr[p].exploredTreasures
      BY <1>0, <2>0 DEF Due
    <3> HIDE DEF W
    <3> QED  BY <1>15, <2>0, <3>1
  <2>4. amount = Amount(tr[n].area) \/ W = {n}
    BY <1>0 DEF Due
  <2>1. Sum(f, E \cup {n}) = f[n] + Sum(f, E)
    <3>1. \A y \in E \cup {n} : f[y] \in Int
      BY <1>2, <1>6, <1>8
    <3> HIDE DEF E, f
    <3> QED  BY <1>1, <1>4, <3>1, SumAdd
  <2>2. Sum(f, E) \in Int
    <3>1. \A y \in E : f[y] \in Int
      BY <1>6, <1>8
    <3> HIDE DEF E, f
    <3> QED  BY <1>4, <3>1, SumInt
  <2>3. tr[p].exploredTreasures = Sum(f, E)
    BY <1>7, <1>15 DEF Balanced
  <2> HIDE DEF E, W, f
  <2>5. CASE W # {n}
    BY <1>0, <1>5, <1>15, <2>1, <2>2, <2>3, <2>4, <2>5
  <2> QED  BY <2>0, <2>5
<1>10. new[p].nonExploredSize = Sum(g, W \ {n})
  <2>0. \A y \in W : g[y] \in Int
    BY <1>6, <1>8
  <2>1. tr[p].nonExploredSize = Sum(g, W)
    BY <1>7 DEF Balanced
  <2>2. new[p].nonExploredSize = tr[p].nonExploredSize - Size(tr[n].area)
    BY <1>0 DEF Recorded
  <2> HIDE DEF W, g
  <2>3. Sum(g, W) = g[n] + Sum(g, W \ {n})
    BY <1>1, <1>4, <2>0, SumRemove
  <2>4. Sum(g, W \ {n}) \in Int
    <3>1. IsFiniteSet(W \ {n}) /\ \A y \in W \ {n} : g[y] \in Int
      BY <1>4, <2>0, FS_RemoveElement
    <3> QED  BY <3>1, SumInt
  <2>5. g[n] \in Int
    BY <1>1, <2>0
  <2> QED  BY <1>5, <2>1, <2>2, <2>3, <2>4, <2>5
<1>11. new[p].nonExploredCnt = Cardinality(W \ {n})
  <2>1. tr[p].nonExploredCnt = Cardinality(W)
    BY <1>7 DEF Balanced
  <2>2. new[p].nonExploredCnt = tr[p].nonExploredCnt - 1
    BY <1>0 DEF Recorded
  <2> HIDE DEF W
  <2>3. Cardinality(W \ {n}) = Cardinality(W) - 1
    BY <1>1, <1>4, FS_RemoveElement
  <2> QED  BY <2>1, <2>2, <2>3
<1>12. ~Leaf(new, p) => Amount(new[p].area) = Sum(f, Kids(tr, p))
  <2>1. ~Leaf(tr, p) => Amount(tr[p].area) = Sum(f, Kids(tr, p))
    BY <1>7 DEF Balanced
  <2>2. new[p].area = tr[p].area
    BY <1>0, <1>2 DEF Recorded
  <2> QED  BY <1>1, <2>1, <2>2
<1>13. \A i \in DOMAIN new[p].children :
           new[new[p].children[i]].explored
               <=> i > Len(new[p].children) - new[p].childSwaps
  <2> SUFFICES ASSUME NEW i \in DOMAIN new[p].children
               PROVE  new[new[p].children[i]].explored
                          <=> i > Len(new[p].children) - new[p].childSwaps
    OBVIOUS
  <2> DEFINE k == new[p].children[i]
  <2>1. k \in Kids(new, p)
    BY DEF Kids, ToSet
  <2>2. k \in DOMAIN tr
    BY <1>1, <1>2, <2>1
  <2>3. k = n \/ tr[k].explored <=> i > Len(new[p].children) - new[p].childSwaps
    BY <1>0 DEF Recorded
  <2>4. /\ k # n => new[k].explored = tr[k].explored
        /\ new[n].explored
    BY <1>0, <2>2 DEF Recorded
  <2> QED  BY <2>3, <2>4
<1>14. ~Leaf(new, p)
  BY <1>15
<1> QED  BY <1>1, <1>9, <1>10, <1>11, <1>12, <1>13, <1>14 DEF Balanced

\* the parent: the error of its last part is its own
LEMMA ParentInherits ==
    ASSUME NEW tr, Tree(tr), NEW p \in DOMAIN tr, NEW n \in Kids(tr, p),
           ~tr[n].explored,
           NEW new, Recorded(tr, n, p, Due(tr, p, n), new)
    PROVE  Inherits(new, p) /\ (Complete(new, p) <=> Waiting(tr, p) = {n})
<1>1. n \in DOMAIN tr /\ n # p /\ Kids(tr, p) \subseteq DOMAIN tr
  BY ChildOf
<1>2. RecordedKids(tr, n, p, new)
  BY DueIs, KidsRecorded
<1>3. /\ Kids(new, p) = Kids(tr, p) /\ (Leaf(new, p) <=> Leaf(tr, p))
      /\ Explored(new, p) = Explored(tr, p) \cup {n}
      /\ Waiting(new, p) = Waiting(tr, p) \ {n} /\ n \in Waiting(tr, p)
  BY <1>2 DEF RecordedKids
<1>4. tr \in Seq(Nodes) /\ (Leaf(tr, p) <=> Kids(tr, p) = {})
  BY NodeType DEF Tree
<1>5. Complete(new, p) <=> Waiting(tr, p) = {n}
  BY <1>3, <1>4 DEF Complete
<1>6. /\ \A k \in DOMAIN tr \ {n} : Off(new, k) = Off(tr, k)
      /\ Off(new, n) = IF Waiting(tr, p) = {n} THEN Off(tr, p) ELSE 0
  BY OffRecorded
<1>7. \A c \in Explored(tr, p) : c \in DOMAIN tr /\ Off(tr, c) = 0
  <2>1. Inherits(tr, p) /\ ~Complete(tr, p)
    BY <1>3 DEF Tree, Complete
  <2> QED  BY <1>1, <2>1 DEF Inherits, Explored
<1>8. ASSUME NEW c \in Explored(tr, p) PROVE c # n /\ Off(new, c) = 0
  <2>1. c # n
    BY <1>3 DEF Explored
  <2> QED  BY <1>6, <1>7, <2>1
<1>9. CASE Waiting(tr, p) = {n}
  <2>1. \A c \in Kids(tr, p) : c = n \/ c \in Explored(tr, p)
    BY <1>9 DEF Explored, Waiting
  <2>2. Off(new, n) = Off(new, p)
    BY <1>1, <1>6, <1>9
  <2>3. \A c \in Kids(new, p) : Off(new, c) = IF c = n THEN Off(new, p) ELSE 0
    BY <1>3, <1>8, <2>1, <2>2
  <2> QED  BY <1>3, <1>5, <1>9, <2>3 DEF Inherits
<1>10. CASE Waiting(tr, p) # {n}
  <2>1. Off(new, n) = 0
    BY <1>6, <1>10
  <2>2. \A c \in Explored(new, p) : Off(new, c) = 0
    BY <1>3, <1>8, <2>1
  <2> QED  BY <1>5, <1>10, <2>2 DEF Inherits
<1> QED  BY <1>5, <1>9, <1>10

\* the last part is told the error in its parent's place
LEMMA ToldRecorded ==
    ASSUME NEW tr, Tree(tr), NEW p \in DOMAIN tr, NEW n \in Kids(tr, p),
           ~tr[n].explored,
           NEW new, Recorded(tr, n, p, Due(tr, p, n), new)
    PROVE  Told(new)
<1>1. n \in DOMAIN tr \ {Root} /\ n # p /\ tr[n].parent = p
  BY ChildOf
<1>2. DOMAIN new = DOMAIN tr
  BY DEF Recorded
<1>3. /\ \A k \in DOMAIN tr \ {n} : /\ Off(new, k) = Off(tr, k)
                                    /\ Known(new, k) <=> Known(tr, k)
      /\ Off(new, n) = IF Waiting(tr, p) = {n} THEN Off(tr, p) ELSE 0
  BY OffRecorded
<1>4. RecordedKids(tr, n, p, new)
  BY DueIs, KidsRecorded
<1>5. \A k \in DOMAIN tr \ {p} : Complete(new, k) <=> Complete(tr, k)
  BY <1>4 DEF RecordedKids, Complete
<1>6. /\ Complete(new, p) <=> Waiting(tr, p) = {n}
      /\ ~Complete(tr, p) /\ Known(tr, p)
  <2>1. Complete(new, p) <=> Waiting(tr, p) = {n}
    BY ParentInherits
  <2>2. n \in Waiting(tr, p)
    BY <1>4 DEF RecordedKids
  <2>3. ~Leaf(tr, p)
    BY NodeType DEF Tree
  <2>4. Known(tr, p)
    BY <2>3 DEF Tree, Kin, Known
  <2> QED  BY <2>1, <2>2, <2>4 DEF Complete
<1> DEFINE From(k) == IF k = n THEN p ELSE k
<1>7. ASSUME NEW k \in DOMAIN tr, Astray(new, k)
      PROVE  Astray(tr, From(k)) /\ (k = p => ~Astray(new, n))
  <2>1. CASE k = n
    <3>1. Waiting(tr, p) = {n} /\ Off(tr, p) # 0
      BY <1>3, <1>7, <2>1 DEF Astray
    <3> QED  BY <1>1, <1>6, <2>1, <3>1 DEF Astray
  <2>2. CASE k = p
    <3>1. Waiting(tr, p) # {n}
      BY <1>6, <1>7, <2>2 DEF Astray
    <3>2. Off(new, n) = 0
      BY <1>3, <3>1
    <3>3. Astray(tr, p)
      BY <1>1, <1>3, <1>6, <1>7, <2>2 DEF Astray
    <3> QED  BY <1>1, <2>2, <3>2, <3>3 DEF Astray
  <2>3. CASE k # n /\ k # p
    BY <1>3, <1>5, <1>7, <2>3 DEF Astray
  <2> QED  BY <2>1, <2>2, <2>3
<1>8. SUFFICES ASSUME NEW k \in DOMAIN tr, NEW l \in DOMAIN tr,
                      Astray(new, k), Astray(new, l)
               PROVE  k = l /\ Nominal # Amount(Field)
  BY <1>2 DEF Told
<1>9. Astray(tr, From(k)) /\ Astray(tr, From(l))
  BY <1>7, <1>8
<1>10. From(k) \in DOMAIN tr /\ From(l) \in DOMAIN tr
  OBVIOUS
<1>11. From(k) = From(l) /\ Nominal # Amount(Field)
  <2> HIDE DEF From
  <2> QED  BY <1>9, <1>10 DEF Tree, Told
<1>12. k = l
  BY <1>7, <1>8, <1>11
<1> QED  BY <1>11, <1>12

LEMMA OthersBalanced ==
    ASSUME NEW tr, Tree(tr), NEW p \in DOMAIN tr, NEW n \in Kids(tr, p),
           ~tr[n].explored,
           NEW new, Recorded(tr, n, p, Due(tr, p, n), new), NEW k \in DOMAIN tr \ {p}
    PROVE  Balanced(new, k) /\ Inherits(new, k)
<1> DEFINE amount == Due(tr, p, n)
<1>20. n \in DOMAIN tr \ {Root} /\ tr[n].parent = p
  BY ChildOf
<1>0. amount \in Int /\ amount = Due(tr, p, n)
      /\ Recorded(tr, n, p, amount, new)
  BY DueIs
<1> HIDE DEF amount
<1>21. RecordedKids(tr, n, p, new)
  BY <1>0, KidsRecorded
<1>1. /\ Kids(new, k) = Kids(tr, k) /\ (Leaf(new, k) <=> Leaf(tr, k))
      /\ Explored(new, k) = Explored(tr, k) /\ Waiting(new, k) = Waiting(tr, k)
      /\ Amounts(new) = Amounts(tr) /\ Sizes(new) = Sizes(tr)
  BY <1>21 DEF RecordedKids
<1>2. Balanced(tr, k)
  BY DEF Tree
<1>3. /\ new[k].children = tr[k].children
      /\ new[k].childSwaps = tr[k].childSwaps
      /\ new[k].exploredTreasures = tr[k].exploredTreasures
      /\ new[k].nonExploredSize = tr[k].nonExploredSize
      /\ new[k].nonExploredCnt = tr[k].nonExploredCnt
      /\ new[k].area = tr[k].area
  BY <1>0 DEF Recorded
<1>4. ~Leaf(new, k) => Amount(new[k].area) = Sum(Amounts(tr), Kids(tr, k))
  BY <1>1, <1>2, <1>3 DEF Balanced
<1>5. \A i \in DOMAIN new[k].children :
          new[new[k].children[i]].explored
              <=> i > Len(new[k].children) - new[k].childSwaps
  <2> SUFFICES ASSUME NEW i \in DOMAIN tr[k].children
               PROVE  new[tr[k].children[i]].explored
                          <=> i > Len(tr[k].children) - tr[k].childSwaps
    BY <1>3
  <2> DEFINE c == tr[k].children[i]
  <2>1. c \in Kids(tr, k)
    BY DEF Kids, ToSet
  <2>2. c \in DOMAIN tr \ {n}
    BY <1>20, <2>1, Families
  <2>3. new[c].explored = tr[c].explored
    BY <1>0, <2>2 DEF Recorded
  <2> QED  BY <1>2, <2>3 DEF Balanced
<1>6. Leaf(new, k) => new[k].childSwaps = 0
  BY <1>1, <1>2, <1>3 DEF Balanced
<1>8. /\ Complete(new, k) <=> Complete(tr, k)
      /\ Complete(tr, k) => k # n /\ new[k].actual = tr[k].actual
  <2>1. Complete(new, k) <=> Complete(tr, k)
    BY <1>1 DEF Complete
  <2>2. Leaf(tr, n)
    BY <1>20, Families
  <2>3. k # n => new[k].actual = tr[k].actual
    BY <1>0 DEF Recorded
  <2> QED  BY <2>1, <2>2, <2>3 DEF Complete
<1>7. /\ new[k].exploredTreasures = IF Complete(new, k) THEN new[k].actual
                                    ELSE Sum(Amounts(new), Explored(new, k))
      /\ new[k].nonExploredSize = Sum(Sizes(new), Waiting(new, k))
      /\ new[k].nonExploredCnt = Cardinality(Waiting(new, k))
  BY <1>1, <1>2, <1>3, <1>8 DEF Balanced
<1>9. Balanced(new, k)
  BY <1>1, <1>4, <1>5, <1>6, <1>7 DEF Balanced
<1>10. Inherits(new, k)
  <2>1. \A c \in Kids(tr, k) : c \in DOMAIN tr \ {n}
    BY <1>20, Families
  <2>2. \A c \in DOMAIN tr \ {n} : Off(new, c) = Off(tr, c)
    BY OffRecorded
  <2>3. Inherits(tr, k)
    BY DEF Tree
  <2>4. \A c \in Kids(tr, k) : Off(new, c) = Off(tr, c)
    BY <2>1, <2>2
  <2>5. CASE ~Complete(tr, k)
    BY <1>1, <1>8, <2>3, <2>4, <2>5 DEF Inherits, Explored
  <2>6. CASE Complete(tr, k)
    <3>1. Off(new, k) = Off(tr, k)
      BY <1>8, <2>2, <2>6
    <3> QED  BY <1>1, <1>8, <2>3, <2>4, <2>6, <3>1 DEF Inherits
  <2> QED  BY <2>5, <2>6
<1> QED  BY <1>9, <1>10

LEMMA TreeExplored ==
    ASSUME NEW tr, Tree(tr), NEW p \in DOMAIN tr, NEW n \in Kids(tr, p),
           ~tr[n].explored,
           NEW new, Recorded(tr, n, p, Due(tr, p, n), new)
    PROVE  Tree(new)
<1> DEFINE amount == Due(tr, p, n)
<1>20. n \in DOMAIN tr \ {Root} /\ tr[n].parent = p
  BY ChildOf
<1>0. amount \in Int /\ amount = Due(tr, p, n)
      /\ Recorded(tr, n, p, amount, new)
  BY DueIs
<1> HIDE DEF amount
<1>21. RecordedKids(tr, n, p, new)
  BY <1>0, KidsRecorded
<1>1. \A k \in DOMAIN tr : /\ Kids(new, k) = Kids(tr, k)
                           /\ Leaf(new, k) <=> Leaf(tr, k)
  <2>1. ASSUME NEW k \in DOMAIN tr \ {p}
        PROVE  /\ Kids(new, k) = Kids(tr, k)
               /\ Leaf(new, k) <=> Leaf(tr, k)
               /\ Explored(new, k) = Explored(tr, k)
               /\ Waiting(new, k) = Waiting(tr, k)
               /\ Amounts(new) = Amounts(tr) /\ Sizes(new) = Sizes(tr)
    BY <1>21 DEF RecordedKids
  <2>2. /\ Kids(new, p) = Kids(tr, p)
        /\ Leaf(new, p) <=> Leaf(tr, p)
        /\ Explored(new, p) = Explored(tr, p) \cup {n}
        /\ Waiting(new, p) = Waiting(tr, p) \ {n}
        /\ n \in Waiting(tr, p) /\ n \notin Explored(tr, p)
        /\ Amounts(new) = Amounts(tr) /\ Sizes(new) = Sizes(tr)
    <3>1. p \in DOMAIN tr
      BY <1>20, Families
    <3> QED  BY <1>21, <3>1 DEF RecordedKids
  <2> QED  BY <2>1, <2>2
<1>2. /\ tr \in Seq(Nodes) /\ new \in Seq(Nodes) /\ DOMAIN new = DOMAIN tr
      /\ \A k \in DOMAIN tr :
             /\ new[k].parent = tr[k].parent /\ new[k].area = tr[k].area
             /\ new[k].exploreDepth = tr[k].exploreDepth
             /\ k # n => new[k].explored = tr[k].explored
  BY <1>0 DEF Tree, Recorded
<1>3. RootIs(tr) /\ LeavesApart(tr)
      /\ \A k \in DOMAIN tr : Kin(tr, k) /\ Placed(tr, k)
  BY DEF Tree
<1>4. RootIs(new)
  BY <1>20, <1>2, <1>3 DEF RootIs
<1>5. LeavesApart(new)
  BY <1>1, <1>2, <1>3 DEF LeavesApart
<1>6. ASSUME NEW k \in DOMAIN tr PROVE Placed(new, k)
  BY <1>2, <1>3 DEF Placed
<1>9. Told(new)
  BY ToldRecorded
<1>7. ASSUME NEW k \in DOMAIN tr PROVE Balanced(new, k) /\ Inherits(new, k)
  <2>1. CASE k = p
    BY <1>0, <2>1, ParentBalanced, ParentInherits DEF amount
  <2>2. CASE k # p
    BY <1>0, <2>2, OthersBalanced DEF amount
  <2> QED  BY <2>1, <2>2
<1>8. ASSUME NEW k \in DOMAIN tr PROVE Kin(new, k)
  <2>1. \A c \in Kids(new, k) : /\ c \in DOMAIN new
                                /\ new[c].parent = k
                                /\ new[c].exploreDepth = new[k].exploreDepth + 1
    BY <1>1, <1>2, <1>3 DEF Kin
  <2>2. \A i, j \in DOMAIN new[k].children :
            new[k].children[i] = new[k].children[j] => i = j
    <3>1. CASE k = p
      BY <1>0, <3>1 DEF Recorded
    <3>2. CASE k # p
      <4>1. new[k].children = tr[k].children
        BY <1>0, <3>2 DEF Recorded
      <4> QED  BY <1>3, <4>1 DEF Kin
    <3> QED  BY <3>1, <3>2
  <2>3. k # Root => new[k].parent \in DOMAIN new /\ k \in Kids(new, new[k].parent)
    BY <1>20, <1>1, <1>2, Families
  <2>4. ~Leaf(new, k) => k = Root \/ (new[k].explored /\ Size(new[k].area) > 1)
    <3>1. CASE k = n
      BY <1>20, <1>1, <3>1, Families
    <3>2. CASE k # n
      BY <1>1, <1>2, <1>3, <3>2 DEF Kin
    <3> QED  BY <3>1, <3>2
  <2> QED  BY <2>1, <2>2, <2>3, <2>4 DEF Kin
<1> QED  BY <1>2, <1>4, <1>5, <1>6, <1>7, <1>8, <1>9 DEF Tree

\* an unexplored child, and where the swap brings it
LEMMA SwapExplored ==
    ASSUME NEW tr, Tree(tr), NEW p \in DOMAIN tr, NEW n \in Kids(tr, p),
           ~tr[n].explored
    PROVE  LET c == tr[p].children
               swaps == tr[p].childSwaps
               i == Place(c, n)
               r == SwapToEnd(c, i, swaps)
           IN  /\ i \in DOMAIN c /\ Len(c) - swaps \in DOMAIN c
               /\ r \in Seq(Nat) /\ Len(r) = Len(c) /\ DOMAIN r = DOMAIN c
               /\ ToSet(r) = ToSet(c)
               /\ \A k, l \in DOMAIN r : r[k] = r[l] => k = l
               /\ \A k \in DOMAIN r :
                      r[k] = n \/ tr[r[k]].explored <=> k > Len(r) - (swaps + 1)
<1> DEFINE c == tr[p].children
           swaps == tr[p].childSwaps
           i == Place(c, n)
           r == SwapToEnd(c, i, swaps)
<1>1. /\ c \in Seq(Nat) /\ Len(c) \in Nat /\ DOMAIN c = 1..Len(c) /\ swaps \in Nat
  BY NodeType DEF Tree
<1>2. i \in DOMAIN c /\ c[i] = n
  BY DEF Kids, ToSet, Place
<1>3. /\ \A k, l \in DOMAIN c : c[k] = c[l] => k = l
      /\ \A k \in DOMAIN c : tr[c[k]].explored <=> k > Len(c) - swaps
  BY DEF Tree, Kin, Balanced
<1> HIDE DEF c, swaps, i, r
<1> DEFINE j == Len(c) - swaps
<1>4. j \in DOMAIN c /\ i <= j
  BY <1>1, <1>2, <1>3
<1>5. /\ r \in Seq(Nat) /\ Len(r) = Len(c) /\ DOMAIN r = DOMAIN c
      /\ r[i] = c[j] /\ r[j] = c[i]
      /\ \A k \in DOMAIN c \ {i, j} : r[k] = c[k]
  BY <1>1, <1>2, <1>4, Swapped DEF r
<1> HIDE DEF j
<1>6. /\ ToSet(r) = ToSet(c)
      /\ \A k, l \in DOMAIN r : r[k] = r[l] => k = l
  BY <1>2, <1>3, <1>4, <1>5, SwappedSame
<1>7. ASSUME NEW k \in DOMAIN r
      PROVE  r[k] = n \/ tr[r[k]].explored <=> k > Len(r) - (swaps + 1)
  <2>1. k > Len(r) - (swaps + 1) <=> k >= j
    BY <1>1, <1>5 DEF j
  <2>2. \A l \in DOMAIN c : c[l] = n <=> l = i
    BY <1>2, <1>3
  <2>3. \A l \in DOMAIN c : tr[c[l]].explored <=> l > j
    BY <1>3 DEF j
  <2>4. k \in Nat /\ i \in Nat /\ j \in Nat
    BY <1>1, <1>2, <1>4, <1>5
  <2>5. CASE k = j
    BY <1>2, <1>5, <2>1, <2>4, <2>5
  <2>6. CASE k = i /\ k # j
    BY <1>2, <1>4, <1>5, <2>1, <2>2, <2>3, <2>4, <2>6
  <2>7. CASE k # i /\ k # j
    BY <1>2, <1>4, <1>5, <2>1, <2>2, <2>3, <2>4, <2>7
  <2> QED  BY <2>5, <2>6, <2>7
<1> QED  BY <1>2, <1>4, <1>5, <1>6, <1>7 DEF j, c, swaps, i, r

LEMMA ExploredNode ==
    ASSUME NEW node \in Nodes, NEW amount \in Int
    PROVE  LET x == AsExplored(node, amount)
               y == NotAsked(x)
           IN  /\ x \in Nodes /\ x.actual = amount /\ x.area = node.area
               /\ y \in Nodes
               /\ y.parent = node.parent /\ y.area = node.area
               /\ y.exploreDepth = node.exploreDepth /\ y.actual = amount
               /\ y.explored /\ ~y.requestInFlight
               /\ y.children = node.children /\ y.childSwaps = node.childSwaps
               /\ y.exploredTreasures = node.exploredTreasures
               /\ y.nonExploredSize = node.nonExploredSize
               /\ y.nonExploredCnt = node.nonExploredCnt
<1> DEFINE x == AsExplored(node, amount)
           y == NotAsked(x)
<1>1. /\ x \in Nodes /\ x.actual = amount /\ x.explored
      /\ x = [node EXCEPT !.actual = amount, !.explored = TRUE]
  BY DEF Nodes, AsExplored
<1>2. y \in Nodes /\ y = [x EXCEPT !.requestInFlight = FALSE]
  BY <1>1 DEF Nodes, NotAsked
<1> HIDE DEF x, y
<1>3. /\ x.parent = node.parent /\ x.area = node.area
      /\ x.exploreDepth = node.exploreDepth
      /\ x.children = node.children /\ x.childSwaps = node.childSwaps
      /\ x.exploredTreasures = node.exploredTreasures
      /\ x.nonExploredSize = node.nonExploredSize
      /\ x.nonExploredCnt = node.nonExploredCnt
  BY <1>1 DEF Nodes
<1>4. /\ y.parent = x.parent /\ y.area = x.area
      /\ y.exploreDepth = x.exploreDepth /\ y.actual = x.actual
      /\ y.explored = x.explored /\ ~y.requestInFlight
      /\ y.children = x.children /\ y.childSwaps = x.childSwaps
      /\ y.exploredTreasures = x.exploredTreasures
      /\ y.nonExploredSize = x.nonExploredSize
      /\ y.nonExploredCnt = x.nonExploredCnt
  BY <1>1, <1>2 DEF Nodes
<1> QED  BY <1>1, <1>2, <1>3, <1>4 DEF x, y

AfterExplored(tr, n, p, amount) ==
    LET tr1 == With(tr, n, AsExplored(tr[n], amount))
    IN  With(With(tr1, n, NotAsked(tr1[n])), p,
             CountExplored(tr1[p], Place(tr1[p].children, n), tr1[n]))

LEMMA RecordedTree ==
    ASSUME NEW tr, Tree(tr), NEW p \in DOMAIN tr, NEW n \in Kids(tr, p),
           ~tr[n].explored, NEW amount \in Int
    PROVE  Recorded(tr, n, p, amount, AfterExplored(tr, n, p, amount))
<1> DEFINE x == AsExplored(tr[n], amount)
           y == NotAsked(x)
           c == tr[p].children
           swaps == tr[p].childSwaps
           i == Place(c, n)
           r == SwapToEnd(c, i, swaps)
           z == CountExplored(tr[p], i, x)
           tr1 == With(tr, n, x)
           tr2 == With(tr1, n, y)
           new == AfterExplored(tr, n, p, amount)
<1>1. tr \in Seq(Nodes) /\ p \in DOMAIN tr \ {n} /\ n \in DOMAIN tr
  BY Families DEF Tree
<1>2. tr[n] \in Nodes /\ tr[p] \in Nodes
  BY <1>1, NodeType
<1>3. /\ x \in Nodes /\ x.actual = amount /\ x.area = tr[n].area
      /\ y \in Nodes
      /\ y.parent = tr[n].parent /\ y.area = tr[n].area
      /\ y.exploreDepth = tr[n].exploreDepth /\ y.actual = amount
      /\ y.explored /\ ~y.requestInFlight
      /\ y.children = tr[n].children /\ y.childSwaps = tr[n].childSwaps
      /\ y.exploredTreasures = tr[n].exploredTreasures
      /\ y.nonExploredSize = tr[n].nonExploredSize
      /\ y.nonExploredCnt = tr[n].nonExploredCnt
  BY <1>2, ExploredNode
<1>4. /\ i \in DOMAIN c /\ Len(c) - swaps \in DOMAIN c
      /\ r \in Seq(Nat) /\ Len(r) = Len(c) /\ DOMAIN r = DOMAIN c
      /\ ToSet(r) = ToSet(c)
      /\ \A k, l \in DOMAIN r : r[k] = r[l] => k = l
      /\ \A k \in DOMAIN r :
             r[k] = n \/ tr[r[k]].explored <=> k > Len(r) - (swaps + 1)
  BY SwapExplored
<1>15. new = With(With(tr1, n, NotAsked(tr1[n])), p,
                  CountExplored(tr1[p], Place(tr1[p].children, n), tr1[n]))
  BY DEF AfterExplored
<1> HIDE DEF x, y, i, new
<1>5. /\ z \in Nodes
      /\ z.parent = tr[p].parent /\ z.area = tr[p].area
      /\ z.exploreDepth = tr[p].exploreDepth /\ z.actual = tr[p].actual
      /\ z.explored = tr[p].explored
      /\ z.requestInFlight = tr[p].requestInFlight
      /\ z.children = r /\ z.childSwaps = swaps + 1
      /\ z.exploredTreasures = tr[p].exploredTreasures + x.actual
      /\ z.nonExploredSize = tr[p].nonExploredSize - Size(x.area)
      /\ z.nonExploredCnt = tr[p].nonExploredCnt - 1
  BY <1>2, <1>3, <1>4, Counted
<1> HIDE DEF c, swaps, r, z, tr1, tr2
<1>6. /\ tr1 \in Seq(Nodes) /\ Len(tr1) = Len(tr) /\ DOMAIN tr1 = DOMAIN tr
      /\ tr1[n] = x
      /\ \A k \in DOMAIN tr \ {n} : tr1[k] = tr[k]
  BY <1>1, <1>3, NodeReplaced DEF tr1
<1>7. /\ tr2 \in Seq(Nodes) /\ Len(tr2) = Len(tr1) /\ DOMAIN tr2 = DOMAIN tr1
      /\ tr2[n] = y
      /\ \A k \in DOMAIN tr1 \ {n} : tr2[k] = tr1[k]
  <2>1. tr1 \in Seq(Nodes) /\ n \in DOMAIN tr1 /\ y \in Nodes
    BY <1>1, <1>3, <1>6
  <2> QED  BY <2>1, NodeReplaced DEF tr2
<1>14. new = With(tr2, p, z)
  BY <1>1, <1>6, <1>15 DEF c, i, y, z, tr2
<1>8. /\ new \in Seq(Nodes) /\ Len(new) = Len(tr2) /\ DOMAIN new = DOMAIN tr2
      /\ new[p] = z
      /\ \A k \in DOMAIN tr2 \ {p} : new[k] = tr2[k]
  <2>1. tr2 \in Seq(Nodes) /\ p \in DOMAIN tr2 /\ z \in Nodes
    BY <1>1, <1>5, <1>6, <1>7
  <2>2. /\ With(tr2, p, z) \in Seq(Nodes) /\ Len(With(tr2, p, z)) = Len(tr2)
        /\ DOMAIN With(tr2, p, z) = DOMAIN tr2
        /\ With(tr2, p, z)[p] = z
        /\ \A k \in DOMAIN tr2 \ {p} : With(tr2, p, z)[k] = tr2[k]
    BY <2>1, NodeReplaced
  <2> QED  BY <1>14, <2>2
<1>9. /\ new \in Seq(Nodes) /\ DOMAIN new = DOMAIN tr
      /\ new[n] = y /\ new[p] = z
      /\ \A k \in DOMAIN tr \ {n, p} : new[k] = tr[k]
  BY <1>1, <1>6, <1>7, <1>8
<1>10. /\ \A k \in DOMAIN tr :
              /\ new[k].parent = tr[k].parent /\ new[k].area = tr[k].area
              /\ new[k].exploreDepth = tr[k].exploreDepth
       /\ \A k \in DOMAIN tr \ {n} :
              /\ new[k].explored = tr[k].explored /\ new[k].actual = tr[k].actual
              /\ new[k].requestInFlight = tr[k].requestInFlight
       /\ \A k \in DOMAIN tr \ {p} :
              /\ new[k].children = tr[k].children
              /\ new[k].childSwaps = tr[k].childSwaps
              /\ new[k].exploredTreasures = tr[k].exploredTreasures
              /\ new[k].nonExploredSize = tr[k].nonExploredSize
              /\ new[k].nonExploredCnt = tr[k].nonExploredCnt
  BY <1>1, <1>3, <1>5, <1>9
<1>11. Kids(new, p) = Kids(tr, p)
  BY <1>4, <1>5, <1>9 DEF Kids, c
<1>12. /\ \A k, l \in DOMAIN new[p].children :
              new[p].children[k] = new[p].children[l] => k = l
       /\ \A k \in DOMAIN new[p].children :
              new[p].children[k] = n \/ tr[new[p].children[k]].explored
                  <=> k > Len(new[p].children) - new[p].childSwaps
  BY <1>4, <1>5, <1>9
<1>13. /\ new[p].exploredTreasures = tr[p].exploredTreasures + amount
       /\ new[p].nonExploredSize = tr[p].nonExploredSize - Size(tr[n].area)
       /\ new[p].nonExploredCnt = tr[p].nonExploredCnt - 1
       /\ new[n].explored /\ new[n].actual = amount /\ ~new[n].requestInFlight
  BY <1>3, <1>5, <1>9
<1> QED  BY <1>9, <1>10, <1>11, <1>12, <1>13 DEF Recorded, new

(***************************************************************************)
(* Area n is cut: the parts are new areas, at the end of the tree.         *)
(***************************************************************************)
PartSizes(parts) == [k \in DOMAIN parts |-> Size(parts[k])]
PartAmounts(parts) == [k \in DOMAIN parts |-> Amount(parts[k])]
NewIds(tr, parts) == (Len(tr) + 1)..(Len(tr) + Len(parts))

\* an area as it is created
Fresh(node, n, part, d) ==
    /\ node \in Nodes
    /\ node.parent = n /\ node.area = part /\ node.exploreDepth = d
    /\ node.actual = 0 /\ node.explored = FALSE
    /\ node.requestInFlight = FALSE
    /\ node.children = <<>> /\ node.childSwaps = 0
    /\ node.exploredTreasures = 0 /\ node.nonExploredSize = 0
    /\ node.nonExploredCnt = 0

LEMMA NodeIs ==
    ASSUME NEW n \in Nat, NEW part \in Areas, NEW d \in Nat
    PROVE  Fresh(Node(n, part, d, 0), n, part, d)
<1>1. <<>> \in Seq(Nat)
  BY EmptySeq
<1> QED  BY <1>1 DEF Node, Nodes, Fresh

CutInto(tr, n, parts, new) ==
    /\ new \in Seq(Nodes) /\ Len(new) = Len(tr) + Len(parts)
    /\ \A k \in DOMAIN tr \ {n} : new[k] = tr[k]
    /\ new[n].parent = tr[n].parent /\ new[n].area = tr[n].area
    /\ new[n].exploreDepth = tr[n].exploreDepth
    /\ new[n].actual = tr[n].actual /\ new[n].explored = tr[n].explored
    /\ new[n].requestInFlight = tr[n].requestInFlight
    /\ new[n].childSwaps = tr[n].childSwaps
    /\ new[n].exploredTreasures = tr[n].exploredTreasures
    /\ new[n].nonExploredSize =
           tr[n].nonExploredSize + Sum(PartSizes(parts), DOMAIN parts)
    /\ new[n].nonExploredCnt = tr[n].nonExploredCnt + Len(parts)
    /\ Kids(new, n) = NewIds(tr, parts)
    /\ Len(new[n].children) = Len(parts)
    /\ \A i, j \in DOMAIN new[n].children :
           new[n].children[i] = new[n].children[j] => i = j
    /\ \A k \in DOMAIN parts :
           Fresh(new[Len(tr) + k], n, parts[k], tr[n].exploreDepth + 1)

\* the areas of a tree stay as they are
Grown(tr, new) ==
    /\ DOMAIN tr \subseteq DOMAIN new
    /\ \A k \in DOMAIN tr : /\ new[k].area = tr[k].area
                            /\ new[k].parent = tr[k].parent
                            /\ new[k].exploreDepth = tr[k].exploreDepth
                            /\ tr[k].explored => new[k].explored

LEMMA CutIs ==
    ASSUME NEW tr \in Seq(Nodes), NEW n \in DOMAIN tr, Leaf(tr, n),
           NEW parts \in Seq(Areas)
    PROVE  CutInto(tr, n, parts, Cut(tr, n, parts, Len(parts)))
<1> DEFINE L == Len(tr)
           M == Len(parts)
           d == tr[n].exploreDepth + 1
           ids == [k \in DOMAIN parts |-> L + k]
           old == tr[n]
           node == [old EXCEPT !.children = @ \o ids,
                               !.nonExploredSize = @ + SumFunction(PartSizes(parts)),
                               !.nonExploredCnt = @ + M]
           tail == [k \in DOMAIN parts |-> Node(n, parts[k], d, 0)]
           new == Cut(tr, n, parts, M)
<1>1. /\ L \in Nat /\ DOMAIN tr = 1..L /\ M \in Nat /\ DOMAIN parts = 1..M
      /\ \A k \in 1..M : parts[k] \in Areas
      /\ n \in Nat /\ d \in Nat
  BY LenProperties, ElementOfSeq, NodeType
<1>2. old \in Nodes /\ old.children = <<>> /\ old.nonExploredSize \in Int
      /\ old.nonExploredCnt \in Int
  BY NodeType DEF Leaf
<1>3. /\ ids \in Seq(Nat) /\ Len(ids) = M /\ DOMAIN ids = 1..M
      /\ <<>> \o ids = ids /\ ToSet(ids) = NewIds(tr, parts)
      /\ \A i \in 1..M : ids[i] = L + i
  <2>1. ids \in [1..M -> Nat] /\ \A i \in 1..M : ids[i] = L + i
    BY <1>1
  <2>2. ids \in Seq(Nat) /\ Len(ids) = M /\ DOMAIN ids = 1..M
    <3> HIDE DEF ids
    <3> QED  BY <1>1, <2>1, SeqDef, LenProperties
  <2>3. <<>> \o ids = ids
    <3> HIDE DEF ids
    <3> QED  BY <2>2
  <2>4. ToSet(ids) = NewIds(tr, parts)
    <3>1. ASSUME NEW k \in 1..M PROVE ids[k] \in NewIds(tr, parts)
      BY <1>1, <2>1 DEF NewIds
    <3>2. ASSUME NEW k \in NewIds(tr, parts) PROVE k - L \in 1..M /\ ids[k - L] = k
      <4>1. k - L \in 1..M /\ L + (k - L) = k
        BY <1>1 DEF NewIds
      <4> QED  BY <2>1, <4>1
    <3> HIDE DEF ids
    <3> QED  BY <2>2, <3>1, <3>2 DEF ToSet
  <2> QED  BY <2>1, <2>2, <2>3, <2>4
<1>4. SumFunction(PartSizes(parts)) = Sum(PartSizes(parts), DOMAIN parts)
      /\ Sum(PartSizes(parts), DOMAIN parts) \in Int
  <2>1. DOMAIN PartSizes(parts) = DOMAIN parts
    BY DEF PartSizes
  <2>2. \A k \in DOMAIN parts : PartSizes(parts)[k] \in Int
    BY <1>1, SizeType DEF PartSizes
  <2>3. IsFiniteSet(DOMAIN parts)
    BY <1>1, FS_Interval
  <2> QED  BY <2>1, <2>2, <2>3, SumInt DEF SumFunction, Sum
<1>5. new = [tr EXCEPT ![n] = node] \o tail
  BY DEF Cut, PartSizes
<1> HIDE DEF ids, new, old, tail
<1> DEFINE size == old.nonExploredSize + Sum(PartSizes(parts), DOMAIN parts)
           count == old.nonExploredCnt + M
<1>6. size \in Int /\ count \in Int
  BY <1>1, <1>2, <1>4
<1>7. node = [old EXCEPT !.children = ids, !.nonExploredSize = size,
                         !.nonExploredCnt = count]
  BY <1>2, <1>3, <1>4
<1> HIDE DEF size, count, node
<1>8. node \in Nodes
  BY <1>2, <1>3, <1>6, <1>7 DEF Nodes
<1>9. /\ node.parent = old.parent /\ node.area = old.area
      /\ node.exploreDepth = old.exploreDepth
      /\ node.actual = old.actual /\ node.explored = old.explored
      /\ node.requestInFlight = old.requestInFlight
      /\ node.childSwaps = old.childSwaps
      /\ node.exploredTreasures = old.exploredTreasures
      /\ node.nonExploredSize = size /\ node.nonExploredCnt = count
      /\ node.children = ids
  BY <1>2, <1>7 DEF Nodes
<1>10. /\ tail \in Seq(Nodes) /\ Len(tail) = M
       /\ \A k \in 1..M : Fresh(tail[k], n, parts[k], d)
  <2>1. \A k \in 1..M : Fresh(Node(n, parts[k], d, 0), n, parts[k], d)
    <3> HIDE DEF d
    <3> QED  BY <1>1, NodeIs
  <2>2. \A k \in 1..M : tail[k] = Node(n, parts[k], d, 0)
    BY <1>1 DEF tail
  <2>3. \A k \in 1..M : Fresh(tail[k], n, parts[k], d)
    BY <2>1, <2>2
  <2>4. \A k \in 1..M : tail[k] \in Nodes
    BY <2>3 DEF Fresh
  <2>5. tail \in [1..M -> Nodes]
    <3>1. tail = [k \in 1..M |-> tail[k]]
      BY <1>1 DEF tail
    <3> QED  BY <2>4, <3>1
  <2> QED  BY <1>1, <2>3, <2>5, SeqDef, LenProperties
<1>11. /\ With(tr, n, node) \in Seq(Nodes)
       /\ Len(With(tr, n, node)) = L
       /\ DOMAIN With(tr, n, node) = DOMAIN tr
       /\ With(tr, n, node)[n] = node
       /\ \A k \in DOMAIN tr \ {n} : With(tr, n, node)[k] = tr[k]
  BY <1>8, NodeReplaced
<1> DEFINE front == With(tr, n, node)
<1>12. new = front \o tail
  BY <1>5 DEF With
<1> HIDE DEF front
<1>13. /\ new \in Seq(Nodes) /\ Len(new) = L + M
       /\ \A k \in 1..L : new[k] = front[k]
       /\ \A k \in 1..M : new[L + k] = tail[k]
  <2>1. /\ front \in Seq(Nodes) /\ Len(front) = L
    BY <1>11 DEF front
  <2> DEFINE S == Nodes
  <2>6. front \in Seq(S) /\ tail \in Seq(S)
    BY <1>10, <2>1
  <2> HIDE DEF S
  <2>2. /\ front \o tail \in Seq(S)
        /\ Len(front \o tail) = Len(front) + Len(tail)
        /\ \A i \in 1..(Len(front) + Len(tail)) : (front \o tail)[i] =
               IF i <= Len(front) THEN front[i] ELSE tail[i - Len(front)]
    BY <2>6, ConcatProperties
  <2> HIDE DEF L, M
  <2>3. \A i \in 1..(L + M) :
            new[i] = IF i <= L THEN front[i] ELSE tail[i - L]
    BY <1>10, <1>12, <2>1, <2>2
  <2>4. ASSUME NEW k \in 1..M PROVE new[L + k] = tail[k]
    <3>1. L + k \in 1..(L + M) /\ ~ (L + k <= L) /\ (L + k) - L = k
      BY <1>1
    <3> QED  BY <2>3, <3>1
  <2>5. ASSUME NEW k \in 1..L PROVE new[k] = front[k]
    <3>1. k \in 1..(L + M) /\ k <= L
      BY <1>1
    <3> QED  BY <2>3, <3>1
  <2> QED  BY <1>10, <1>12, <2>1, <2>2, <2>4, <2>5 DEF S
<1>14. new[n] = node /\ \A k \in DOMAIN tr \ {n} : new[k] = tr[k]
  BY <1>1, <1>11, <1>13 DEF front
<1>15. /\ Kids(new, n) = NewIds(tr, parts) /\ Len(new[n].children) = M
       /\ \A i, j \in DOMAIN new[n].children :
              new[n].children[i] = new[n].children[j] => i = j
  <2>1. \A i, j \in 1..M : ids[i] = ids[j] => i = j
    BY <1>1, <1>3
  <2> QED  BY <1>3, <1>9, <1>14, <2>1 DEF Kids
<1>16. \A k \in DOMAIN parts : Fresh(new[L + k], n, parts[k], d)
  BY <1>1, <1>10, <1>13
<1>17. CutInto(tr, n, parts, new)
  BY <1>9, <1>13, <1>14, <1>15, <1>16 DEF CutInto, old, size, count
<1> QED  BY <1>17 DEF new

\* what that makes of the tree
AfterCut(tr, n, parts, new) ==
    /\ new \in Seq(Nodes)
    /\ DOMAIN new = DOMAIN tr \cup NewIds(tr, parts)
    /\ DOMAIN tr \cap NewIds(tr, parts) = {}
    /\ Grown(tr, new)
    /\ \A c \in NewIds(tr, parts) :
           /\ c - Len(tr) \in DOMAIN parts
           /\ Fresh(new[c], n, parts[c - Len(tr)],
                    tr[n].exploreDepth + 1)
           /\ Leaf(new, c) /\ Kids(new, c) = {}
    /\ Kids(new, n) = NewIds(tr, parts) /\ ~Leaf(new, n)
    /\ Explored(new, n) = {} /\ Waiting(new, n) = NewIds(tr, parts)
    /\ \A k \in DOMAIN tr \ {n} :
           /\ new[k] = tr[k] /\ Kids(new, k) = Kids(tr, k)
           /\ Leaf(new, k) <=> Leaf(tr, k)
           /\ Explored(new, k) = Explored(tr, k)
           /\ Waiting(new, k) = Waiting(tr, k)
    /\ \A k \in DOMAIN tr : new[k].explored = tr[k].explored

LEMMA KidsCut ==
    ASSUME NEW tr, Tree(tr), NEW n \in DOMAIN tr, Leaf(tr, n),
           NEW parts \in Seq(Areas), Len(parts) \in Nat \ {0},
           NEW new, CutInto(tr, n, parts, new)
    PROVE  AfterCut(tr, n, parts, new)
<1> DEFINE L == Len(tr)
           M == Len(parts)
           K == NewIds(tr, parts)
<1>1. /\ tr \in Seq(Nodes) /\ L \in Nat /\ DOMAIN tr = 1..L
      /\ M \in Nat \ {0} /\ DOMAIN parts = 1..M
      /\ n \in Nat /\ tr[n].exploreDepth \in Nat
      /\ \A k \in 1..M : parts[k] \in Areas
  BY NodeType, LenProperties, ElementOfSeq DEF Tree
<1>2. /\ new \in Seq(Nodes) /\ DOMAIN new = 1..(L + M)
  <2>1. new \in Seq(Nodes) /\ Len(new) = L + M
    BY DEF CutInto
  <2> QED  BY <2>1, LenProperties
<1>3. K = (L + 1)..(L + M)
  BY DEF NewIds
<1>4. DOMAIN new = DOMAIN tr \cup K /\ DOMAIN tr \cap K = {} /\ K # {}
  <2>1. \A k : k \in 1..(L + M) <=> k \in 1..L \cup (L + 1)..(L + M)
    BY <1>1
  <2>2. \A k : k \in 1..L => k \notin (L + 1)..(L + M)
    BY <1>1
  <2>3. L + 1 \in K
    BY <1>1, <1>3
  <2> QED  BY <1>1, <1>2, <1>3, <2>1, <2>2, <2>3
<1>5. \A c \in K : /\ c - L \in DOMAIN parts
                   /\ Fresh(new[c], n, parts[c - L], tr[n].exploreDepth + 1)
  <2> SUFFICES ASSUME NEW c \in K
               PROVE  /\ c - L \in DOMAIN parts
                      /\ Fresh(new[c], n, parts[c - L], tr[n].exploreDepth + 1)
    OBVIOUS
  <2>1. c - L \in DOMAIN parts /\ L + (c - L) = c
    BY <1>1, <1>3
  <2>2. \A k \in DOMAIN parts :
            Fresh(new[L + k], n, parts[k], tr[n].exploreDepth + 1)
    BY DEF CutInto
  <2> QED  BY <2>1, <2>2
<1>6. \A c \in K : /\ new[c].children = <<>> /\ new[c].explored = FALSE
                   /\ Leaf(new, c) /\ Kids(new, c) = {}
  <2> SUFFICES ASSUME NEW c \in K
               PROVE  /\ new[c].children = <<>> /\ new[c].explored = FALSE
                      /\ Leaf(new, c) /\ Kids(new, c) = {}
    OBVIOUS
  <2>1. new[c].children = <<>> /\ new[c].explored = FALSE
    BY <1>5 DEF Fresh
  <2>2. c \in DOMAIN new
    BY <1>4
  <2> QED  BY <1>2, <2>1, <2>2, NodeType DEF Leaf
<1>7. \A k \in DOMAIN tr \ {n} : /\ new[k] = tr[k] /\ Kids(new, k) = Kids(tr, k)
                                 /\ Leaf(new, k) <=> Leaf(tr, k)
  BY DEF CutInto, Kids, Leaf
<1>8. /\ new[n].area = tr[n].area /\ new[n].parent = tr[n].parent
      /\ new[n].exploreDepth = tr[n].exploreDepth
      /\ new[n].explored = tr[n].explored /\ Kids(new, n) = K
  BY DEF CutInto
<1>9. \A k \in DOMAIN tr : new[k].explored = tr[k].explored
  BY <1>7, <1>8
<1>10. Grown(tr, new)
  BY <1>4, <1>7, <1>8 DEF Grown
<1>11. ~Leaf(new, n)
  BY <1>2, <1>4, <1>8, NodeType
<1>12. Explored(new, n) = {} /\ Waiting(new, n) = K
  BY <1>6, <1>8 DEF Explored, Waiting
<1>13. ASSUME NEW k \in DOMAIN tr \ {n}
       PROVE  Explored(new, k) = Explored(tr, k) /\ Waiting(new, k) = Waiting(tr, k)
  <2>1. \A c \in Kids(tr, k) : c \in DOMAIN tr
    BY Families
  <2>2. Kids(new, k) = Kids(tr, k)
    BY <1>7
  <2> QED  BY <1>9, <2>1, <2>2 DEF Explored, Waiting
<1> HIDE DEF K
<1>14. /\ \A k \in DOMAIN tr \ {n} :
              /\ new[k] = tr[k] /\ Kids(new, k) = Kids(tr, k)
              /\ Leaf(new, k) <=> Leaf(tr, k)
              /\ Explored(new, k) = Explored(tr, k)
              /\ Waiting(new, k) = Waiting(tr, k)
  BY <1>7, <1>13
<1> QED  BY <1>2, <1>4, <1>5, <1>6, <1>8, <1>9, <1>10, <1>11, <1>12, <1>14
      DEF K, L, AfterCut

\* sums over areas that were there before the cut
LEMMA SumsKept ==
    ASSUME NEW tr \in Seq(Nodes), NEW new \in Seq(Nodes), Grown(tr, new),
           NEW S \in SUBSET DOMAIN tr
    PROVE  /\ Sum(Amounts(new), S) = Sum(Amounts(tr), S)
           /\ Sum(Sizes(new), S) = Sum(Sizes(tr), S)
<1> DEFINE f == Amounts(tr)
           g == Amounts(new)
           h == Sizes(tr)
           l == Sizes(new)
<1>1. IsFiniteSet(S)
  <2>1. IsFiniteSet(DOMAIN tr)
    BY NodeType, FS_Interval
  <2> QED  BY <2>1, FS_Subset
<1>2. ASSUME NEW k \in S
      PROVE  f[k] \in Int /\ g[k] = f[k] /\ h[k] \in Int /\ l[k] = h[k]
  <2>1. k \in DOMAIN tr /\ k \in DOMAIN new /\ new[k].area = tr[k].area
        /\ tr[k].area \in Areas
    BY NodeType DEF Grown
  <2>2. f[k] = Amount(tr[k].area) /\ h[k] = Size(tr[k].area)
    BY <2>1 DEF Amounts, Sizes
  <2>3. g[k] = Amount(new[k].area) /\ l[k] = Size(new[k].area)
    BY <2>1 DEF Amounts, Sizes
  <2> QED  BY <2>1, <2>2, <2>3, AmountIsSum, SizeType
<1> HIDE DEF f, g, h, l
<1>3. Sum(g, S) = Sum(f, S)
  BY <1>1, <1>2, SumEqual
<1>4. Sum(l, S) = Sum(h, S)
  BY <1>1, <1>2, SumEqual
<1> QED  BY <1>3, <1>4 DEF f, g, h, l

\* the sums over the parts
LEMMA SumsOfParts ==
    ASSUME NEW tr, Tree(tr), NEW n \in DOMAIN tr, Leaf(tr, n),
           NEW parts \in Seq(Areas), Len(parts) \in Nat \ {0},
           NEW new, CutInto(tr, n, parts, new)
    PROVE  /\ Sum(Sizes(new), NewIds(tr, parts)) =
                  Sum(PartSizes(parts), DOMAIN parts)
           /\ Sum(Amounts(new), NewIds(tr, parts)) =
                  Sum(PartAmounts(parts), DOMAIN parts)
           /\ Cardinality(NewIds(tr, parts)) = Len(parts)
           /\ Sum(Sizes(new), NewIds(tr, parts)) \in Int
<1> DEFINE L == Len(tr)
           M == Len(parts)
           f == Amounts(new)
           g == Sizes(new)
           b == PartAmounts(parts)
           z == PartSizes(parts)
<1>1. L \in Nat /\ M \in Nat /\ DOMAIN parts = 1..M /\ n \in Nat
      /\ tr[n].exploreDepth \in Nat /\ \A k \in 1..M : parts[k] \in Areas
  BY NodeType, LenProperties, ElementOfSeq DEF Tree
<1>2. /\ DOMAIN new = DOMAIN tr \cup NewIds(tr, parts)
      /\ NewIds(tr, parts) = (L + 1)..(L + M)
  BY KidsCut DEF NewIds, AfterCut
<1>3. ASSUME NEW i \in 1..M
      PROVE  /\ b[i] \in Int /\ f[L + i] = b[i]
             /\ z[i] \in Int /\ g[L + i] = z[i]
  <2>1. L + i \in DOMAIN new
    BY <1>1, <1>2
  <2> DEFINE d == tr[n].exploreDepth + 1
             a == parts[i]
  <2>2. Fresh(new[L + i], n, a, d) /\ a \in Areas
    <3>1. \A k \in DOMAIN parts : Fresh(new[L + k], n, parts[k], d)
      BY DEF CutInto
    <3> QED  BY <1>1, <3>1
  <2>3. b[i] = Amount(a) /\ z[i] = Size(a)
    BY <1>1 DEF PartAmounts, PartSizes
  <2> HIDE DEF a, d
  <2>4. new[L + i].area = a
    BY <2>2 DEF Fresh
  <2>5. f[L + i] = Amount(a) /\ g[L + i] = Size(a)
    BY <2>1, <2>4 DEF Amounts, Sizes
  <2> QED  BY <2>2, <2>3, <2>5, AmountIsSum, SizeType
<1> HIDE DEF L, M, f, g, b, z
<1>4. Sum(f, (L + 1)..(L + M)) = Sum(b, 1..M)
  BY <1>1, <1>3, SumShift
<1>5. Sum(g, (L + 1)..(L + M)) = Sum(z, 1..M)
  BY <1>1, <1>3, SumShift
<1>6. Cardinality((L + 1)..(L + M)) = M
  BY <1>1, FS_Interval
<1>7. Sum(z, 1..M) \in Int
  <2>1. IsFiniteSet(1..M)
    BY <1>1, FS_Interval
  <2>2. \A i \in 1..M : z[i] \in Int
    BY <1>3
  <2> QED  BY <2>1, <2>2, SumInt
<1> QED  BY <1>1, <1>2, <1>4, <1>5, <1>6, <1>7 DEF L, M, f, g, b, z

LEMMA CutBalanced ==
    ASSUME NEW tr, Tree(tr), NEW n \in DOMAIN tr, Leaf(tr, n),
           n = Root \/ tr[n].explored, NEW parts \in Seq(Areas),
           Len(parts) \in Nat \ {0},
           Sum(PartAmounts(parts), DOMAIN parts) = Amount(tr[n].area),
           NEW new, CutInto(tr, n, parts, new)
    PROVE  Balanced(new, n) /\ Inherits(new, n)
<1> DEFINE K == NewIds(tr, parts)
<1>0. AfterCut(tr, n, parts, new)
  BY KidsCut
<1>1. /\ new \in Seq(Nodes) /\ Kids(new, n) = K /\ ~Leaf(new, n)
      /\ Explored(new, n) = {} /\ Waiting(new, n) = K
      /\ \A c \in K : Fresh(new[c], n, parts[c - Len(tr)], tr[n].exploreDepth + 1)
  BY <1>0 DEF AfterCut
<1>2. /\ Sum(Sizes(new), K) = Sum(PartSizes(parts), DOMAIN parts)
      /\ Sum(Amounts(new), K) = Sum(PartAmounts(parts), DOMAIN parts)
      /\ Cardinality(K) = Len(parts)
      /\ Sum(Sizes(new), K) \in Int
  BY SumsOfParts
<1>3. /\ new[n].area = tr[n].area /\ new[n].actual = tr[n].actual
      /\ new[n].childSwaps = tr[n].childSwaps
      /\ new[n].exploredTreasures = tr[n].exploredTreasures
      /\ new[n].nonExploredSize =
             tr[n].nonExploredSize + Sum(PartSizes(parts), DOMAIN parts)
      /\ new[n].nonExploredCnt = tr[n].nonExploredCnt + Len(parts)
      /\ Len(new[n].children) = Len(parts)
  BY DEF CutInto
<1>4. /\ tr[n].exploredTreasures = 0 /\ tr[n].nonExploredSize = 0
      /\ tr[n].nonExploredCnt = 0 /\ tr[n].childSwaps = 0
  <2>1. Balanced(tr, n) /\ tr \in Seq(Nodes)
    BY DEF Tree
  <2>2. Kids(tr, n) = {}
    BY <2>1, NodeType
  <2>3. Explored(tr, n) = {} /\ Waiting(tr, n) = {} /\ ~Complete(tr, n)
    BY <2>2 DEF Explored, Waiting, Complete
  <2> QED  BY <2>1, <2>3, SumEmpty, FS_EmptySet DEF Balanced
<1>11. ~Complete(new, n) /\ Inherits(new, n)
  <2>1. K # {}
    BY <1>0, NodeType DEF AfterCut, Tree
  <2>2. ~Complete(new, n)
    BY <1>1, <2>1 DEF Complete
  <2> QED  BY <1>1, <2>2 DEF Inherits
<1>5. new[n].exploredTreasures = IF Complete(new, n) THEN new[n].actual
                                 ELSE Sum(Amounts(new), Explored(new, n))
  BY <1>1, <1>3, <1>4, <1>11, SumEmpty
<1>6. new[n].nonExploredSize = Sum(Sizes(new), Waiting(new, n))
  <2>1. new[n].nonExploredSize = 0 + Sum(Sizes(new), K)
    BY <1>2, <1>3, <1>4
  <2> HIDE DEF K
  <2>2. 0 + Sum(Sizes(new), K) = Sum(Sizes(new), K)
    BY <1>2
  <2> QED  BY <1>1, <2>1, <2>2
<1>7. new[n].nonExploredCnt = Cardinality(Waiting(new, n))
  BY <1>1, <1>2, <1>3, <1>4
<1>8. Amount(new[n].area) = Sum(Amounts(new), Kids(new, n))
  BY <1>1, <1>2, <1>3
<1>10. ASSUME NEW i \in DOMAIN new[n].children
       PROVE  new[new[n].children[i]].explored
                  <=> i > Len(new[n].children) - new[n].childSwaps
  <2>1. n \in DOMAIN new
    BY <1>0 DEF AfterCut, Grown
  <2>2. i \in 1..Len(new[n].children) /\ Len(new[n].children) \in Nat
    BY <1>1, <2>1, NodeType
  <2>3. new[n].children[i] \in K
    BY <1>1 DEF Kids, ToSet
  <2>4. new[new[n].children[i]].explored = FALSE
    BY <1>1, <2>3 DEF Fresh
  <2>5. new[n].childSwaps = 0
    BY <1>3, <1>4
  <2>6. ~ (i > Len(new[n].children) - new[n].childSwaps)
    BY <2>2, <2>5
  <2> QED  BY <2>4, <2>6
<1> QED  BY <1>1, <1>5, <1>6, <1>7, <1>8, <1>10, <1>11 DEF Balanced

LEMMA OffCut ==
    ASSUME NEW tr, Tree(tr), NEW n \in DOMAIN tr, Leaf(tr, n),
           NEW parts \in Seq(Areas), Len(parts) \in Nat \ {0},
           NEW new, CutInto(tr, n, parts, new)
    PROVE  \A c \in DOMAIN tr : /\ Off(new, c) = Off(tr, c)
                                /\ Known(new, c) <=> Known(tr, c)
<1>0. AfterCut(tr, n, parts, new)
  BY KidsCut
<1> TAKE c \in DOMAIN tr
<1>1. new[c].explored = tr[c].explored /\ new[c].area = tr[c].area
  BY <1>0 DEF AfterCut, Grown
<1>2. new[c].actual = tr[c].actual
  <2>1. CASE c = n
    BY <2>1 DEF CutInto
  <2>2. CASE c # n
    BY <1>0, <2>2 DEF AfterCut
  <2> QED  BY <2>1, <2>2
<1> QED  BY <1>1, <1>2 DEF Off, Known

LEMMA OldBalanced ==
    ASSUME NEW tr, Tree(tr), NEW n \in DOMAIN tr, Leaf(tr, n),
           NEW parts \in Seq(Areas), Len(parts) \in Nat \ {0},
           NEW new, CutInto(tr, n, parts, new), NEW k \in DOMAIN tr \ {n}
    PROVE  Balanced(new, k) /\ Inherits(new, k)
<1>0. AfterCut(tr, n, parts, new)
  BY KidsCut
<1>1. /\ new[k] = tr[k] /\ Kids(new, k) = Kids(tr, k)
      /\ Leaf(new, k) <=> Leaf(tr, k)
      /\ Explored(new, k) = Explored(tr, k)
      /\ Waiting(new, k) = Waiting(tr, k)
  BY <1>0 DEF AfterCut
<1>2. /\ tr \in Seq(Nodes) /\ new \in Seq(Nodes) /\ Grown(tr, new)
      /\ \A c \in DOMAIN tr : new[c].explored = tr[c].explored
  BY <1>0 DEF AfterCut, Tree
<1>3. Kids(tr, k) \subseteq DOMAIN tr
  BY Families
<1>4. Explored(tr, k) \subseteq DOMAIN tr /\ Waiting(tr, k) \subseteq DOMAIN tr
  BY <1>3 DEF Explored, Waiting
<1>5. /\ Sum(Amounts(new), Explored(tr, k)) = Sum(Amounts(tr), Explored(tr, k))
      /\ Sum(Amounts(new), Kids(tr, k)) = Sum(Amounts(tr), Kids(tr, k))
      /\ Sum(Sizes(new), Waiting(tr, k)) = Sum(Sizes(tr), Waiting(tr, k))
  BY <1>2, <1>3, <1>4, SumsKept
<1>6. Balanced(tr, k) /\ Inherits(tr, k)
  BY DEF Tree
<1>9. Complete(new, k) <=> Complete(tr, k)
  BY <1>1 DEF Complete
<1>7. /\ tr[k].exploredTreasures = IF Complete(tr, k) THEN tr[k].actual
                                   ELSE Sum(Amounts(tr), Explored(tr, k))
      /\ tr[k].nonExploredSize = Sum(Sizes(tr), Waiting(tr, k))
      /\ tr[k].nonExploredCnt = Cardinality(Waiting(tr, k))
      /\ ~Leaf(tr, k) => Amount(tr[k].area) = Sum(Amounts(tr), Kids(tr, k))
      /\ Leaf(tr, k) => tr[k].childSwaps = 0
  BY <1>6 DEF Balanced
<1>8. ASSUME NEW i \in DOMAIN new[k].children
      PROVE  new[new[k].children[i]].explored
                 <=> i > Len(new[k].children) - new[k].childSwaps
  <2>1. i \in DOMAIN tr[k].children
    BY <1>1
  <2>2. tr[tr[k].children[i]].explored
            <=> i > Len(tr[k].children) - tr[k].childSwaps
    BY <1>6, <2>1 DEF Balanced
  <2>3. tr[k].children[i] \in DOMAIN tr
    BY <1>3, <2>1 DEF Kids, ToSet
  <2> QED  BY <1>1, <1>2, <2>2, <2>3
<1>10. Inherits(new, k)
  <2>1. \A c \in DOMAIN tr : Off(new, c) = Off(tr, c)
    BY OffCut
  <2>2. \A c \in Kids(tr, k) : Off(new, c) = Off(tr, c)
    BY <1>3, <2>1
  <2>3. Off(new, k) = Off(tr, k)
    BY <2>1
  <2>4. CASE ~Complete(tr, k)
    BY <1>1, <1>6, <1>9, <2>2, <2>4 DEF Inherits, Explored
  <2>5. CASE Complete(tr, k)
    BY <1>1, <1>6, <1>9, <2>2, <2>3, <2>5 DEF Inherits
  <2> QED  BY <2>4, <2>5
<1> QED  BY <1>1, <1>5, <1>7, <1>8, <1>9, <1>10 DEF Balanced

Parts(tr, n) == SubAreas(tr[n].area, tr[n].exploreDepth)

LEMMA PartsOf ==
    ASSUME NEW tr, Tree(tr), NEW n \in DOMAIN tr,
           tr[n].exploreDepth + 1 \in DOMAIN ExploreAreas
    PROVE  /\ Parts(tr, n) \in Seq(Areas) /\ Len(Parts(tr, n)) \in Nat \ {0}
           /\ DOMAIN Parts(tr, n) = 1..Len(Parts(tr, n))
           /\ Sum(PartAmounts(Parts(tr, n)), DOMAIN Parts(tr, n)) =
                  Amount(tr[n].area)
<1>1. tr[n].area \in Areas /\ tr[n].exploreDepth \in Nat
  BY NodeType DEF Tree
<1> DEFINE a == tr[n].area
           d == tr[n].exploreDepth
           parts == SubAreas(a, d)
           g == PartAmounts(parts)
<1>2. /\ parts \in Seq(Areas) /\ Len(parts) \in Nat \ {0}
      /\ DOMAIN parts = 1..Len(parts)
  BY <1>1, PartsType
<1>3. \A i \in DOMAIN parts : g[i] = Amount(parts[i])
  BY DEF PartAmounts
<1>4. Sum(g, DOMAIN parts) = Amount(a)
  <2> HIDE DEF g
  <2> QED  BY <1>1, <1>3, PartsAmount
<1> QED  BY <1>2, <1>4 DEF Parts

LEMMA NewNodes ==
    ASSUME NEW tr, Tree(tr), NEW n \in DOMAIN tr, Leaf(tr, n),
           tr[n].exploreDepth + 1 \in DOMAIN ExploreAreas,
           NEW new, CutInto(tr, n, Parts(tr, n), new),
           NEW c \in NewIds(tr, Parts(tr, n))
    PROVE  Kin(new, c) /\ Placed(new, c) /\ Balanced(new, c) /\ Inherits(new, c)
<1> DEFINE d == tr[n].exploreDepth
           parts == Parts(tr, n)
<1>0. d + 1 \in DOMAIN ExploreAreas /\ parts = SubAreas(tr[n].area, d)
      /\ CutInto(tr, n, parts, new) /\ c \in NewIds(tr, parts)
  BY DEF Parts
<1>1. /\ tr \in Seq(Nodes) /\ RootIs(tr) /\ Placed(tr, n) /\ tr[n].area \in Areas
      /\ d \in Nat
  BY NodeType DEF Tree
<1>2. /\ parts \in Seq(Areas) /\ Len(parts) \in Nat \ {0}
      /\ DOMAIN parts = 1..Len(parts)
  BY PartsOf
<1>3. /\ new \in Seq(Nodes) /\ c \in DOMAIN new
      /\ c - Len(tr) \in DOMAIN parts
      /\ Fresh(new[c], n, parts[c - Len(tr)], d + 1)
      /\ Leaf(new, c) /\ Kids(new, c) = {}
      /\ Grown(tr, new) /\ Kids(new, n) = NewIds(tr, parts)
      /\ c \notin DOMAIN tr
  <2>1. AfterCut(tr, n, parts, new)
    BY <1>0, <1>2, KidsCut
  <2> QED  BY <1>0, <2>1 DEF AfterCut
<1> DEFINE part == parts[c - Len(tr)]
<1>4. /\ part \in Areas /\ Inside(part, tr[n].area)
      /\ part.sizeX <= ExploreAreas[d + 1].height
      /\ part.sizeY <= ExploreAreas[d + 1].width
  BY <1>0, <1>1, <1>3, PartInside
<1> HIDE DEF part
<1>5. Fresh(new[c], n, part, d + 1)
  BY <1>3 DEF part
<1>6. c # Root
  BY <1>1, <1>3 DEF RootIs
<1>7. Kin(new, c)
  <2>1. new[c].parent = n /\ new[c].children = <<>>
    BY <1>5 DEF Fresh
  <2>2. n \in DOMAIN new /\ c \in Kids(new, n)
    BY <1>3 DEF Grown
  <2> QED  BY <1>3, <2>1, <2>2 DEF Kin
<1>8. Placed(new, c)
  <2>1. Inside(part, Field)
    <3>1. Inside(tr[n].area, Field)
      BY <1>1 DEF Placed
    <3> DEFINE a == tr[n].area
               b == Field
    <3>2. b \in Areas
      BY SubAreasAssumption DEF Field, Areas, Lengths
    <3>3. \A x \in Areas : /\ x.x \in Nat /\ x.y \in Nat
                           /\ x.sizeX \in Nat /\ x.sizeY \in Nat
      BY DEF Areas, Lengths
    <3>4. a \in Areas /\ Inside(part, a) /\ Inside(a, b)
      BY <1>1, <1>4, <3>1
    <3> HIDE DEF a, b
    <3>5. Inside(part, b)
      BY <1>4, <3>2, <3>3, <3>4 DEF Inside
    <3> QED  BY <3>5 DEF b
  <2>2. new[c].area = part /\ new[c].exploreDepth = d + 1
    BY <1>5 DEF Fresh
  <2> QED  BY <1>4, <2>1, <2>2 DEF Placed
<1>9. Balanced(new, c) /\ Inherits(new, c)
  <2>1. Explored(new, c) = {} /\ Waiting(new, c) = {} /\ ~Complete(new, c)
    BY <1>3 DEF Explored, Waiting, Complete
  <2>2. /\ new[c].exploredTreasures = 0 /\ new[c].nonExploredSize = 0
        /\ new[c].nonExploredCnt = 0 /\ new[c].childSwaps = 0
        /\ new[c].explored = FALSE /\ new[c].children = <<>>
    BY <1>5 DEF Fresh
  <2>3. DOMAIN new[c].children = {}
    BY <2>2
  <2>4. Inherits(new, c)
    BY <2>1 DEF Inherits
  <2> QED  BY <1>3, <1>6, <2>1, <2>2, <2>3, <2>4, SumEmpty, FS_EmptySet DEF Balanced
<1> QED  BY <1>7, <1>8, <1>9

LEMMA RowLeft ==
    ASSUME NEW tr, Tree(tr), NEW n \in DOMAIN tr,
           n = Root \/ Size(tr[n].area) > 1
    PROVE  tr[n].exploreDepth + 1 \in DOMAIN ExploreAreas
<1> DEFINE E == ExploreAreas
           d == tr[n].exploreDepth
           a == tr[n].area
<1>1. /\ Len(E) \in Nat \ {0} /\ DOMAIN E = 1..Len(E)
      /\ E[Len(E)].height = 1 /\ E[Len(E)].width = 1
  <2>1. E \in Seq([height : Lengths, width : Lengths])
    BY SubAreasAssumption DEF Lengths
  <2>2. Len(E) \in Nat /\ DOMAIN E = 1..Len(E)
    BY <2>1, LenProperties
  <2>3. E # <<>> /\ E[Len(E)] = [height |-> 1, width |-> 1]
    BY ExploreTreeAssumption
  <2>4. Len(E) # 0
    BY <2>1, <2>3, EmptySeq
  <2> QED  BY <2>2, <2>3, <2>4
<1>2. d \in Nat /\ a \in Areas
  BY NodeType DEF Tree
<1>3. CASE n = Root
  <2>1. d = 0
    BY <1>3 DEF Tree, RootIs
  <2> QED  BY <1>1, <2>1
<1>4. CASE n # Root
  <2>1. d \in DOMAIN E /\ a.sizeX <= E[d].height /\ a.sizeY <= E[d].width
    BY <1>4 DEF Tree, Placed
  <2>2. d # Len(E)
    <3> SUFFICES ASSUME d = Len(E) PROVE FALSE
      OBVIOUS
    <3>1. a.sizeX <= 1 /\ a.sizeY <= 1
      BY <1>1, <2>1
    <3>2. a.sizeX = 1 /\ a.sizeY = 1
      BY <1>2, <3>1 DEF Areas, Lengths
    <3>3. Size(a) = 1
      BY <3>2 DEF Size
    <3> QED  BY <1>4, <3>3
  <2> HIDE DEF d, a, E
  <2> QED  BY <1>1, <2>1, <2>2 DEF d, E
<1> QED  BY <1>3, <1>4

LEMMA KinCut ==
    ASSUME NEW tr, Tree(tr), NEW n \in DOMAIN tr, Leaf(tr, n),
           n = Root \/ (tr[n].explored /\ Size(tr[n].area) > 1),
           NEW parts \in Seq(Areas), Len(parts) \in Nat \ {0},
           NEW new, CutInto(tr, n, parts, new), NEW k \in DOMAIN tr
    PROVE  Kin(new, k)
<1>0. AfterCut(tr, n, parts, new)
  BY KidsCut
<1>1. /\ Grown(tr, new) /\ DOMAIN tr \subseteq DOMAIN new
      /\ DOMAIN new = DOMAIN tr \cup NewIds(tr, parts)
      /\ Kids(new, n) = NewIds(tr, parts)
      /\ \A l \in DOMAIN tr \ {n} : /\ new[l] = tr[l] /\ Kids(new, l) = Kids(tr, l)
                                    /\ Leaf(new, l) <=> Leaf(tr, l)
      /\ \A c \in NewIds(tr, parts) :
             Fresh(new[c], n, parts[c - Len(tr)], tr[n].exploreDepth + 1)
  BY <1>0 DEF AfterCut, Grown
<1>2. \A l \in DOMAIN tr : /\ new[l].area = tr[l].area
                           /\ new[l].parent = tr[l].parent
                           /\ new[l].exploreDepth = tr[l].exploreDepth
  BY <1>1 DEF Grown
<1>3. Kin(tr, k)
  BY DEF Tree
<1>4. k # Root => new[k].parent \in DOMAIN new /\ k \in Kids(new, new[k].parent)
  <2> SUFFICES ASSUME k # Root
               PROVE  new[k].parent \in DOMAIN new /\ k \in Kids(new, new[k].parent)
    OBVIOUS
  <2>1. tr[k].parent \in DOMAIN tr /\ k \in Kids(tr, tr[k].parent)
    BY <1>3 DEF Kin
  <2>2. tr[k].parent # n
    BY <2>1, NodeType DEF Tree
  <2> QED  BY <1>1, <1>2, <2>1, <2>2
<1>5. CASE k = n
  <2>1. ASSUME NEW c \in Kids(new, n)
        PROVE  /\ c \in DOMAIN new /\ new[c].parent = n
               /\ new[c].exploreDepth = new[n].exploreDepth + 1
    BY <1>1, <1>2, <2>1 DEF Fresh
  <2>2. \A i, j \in DOMAIN new[n].children :
            new[n].children[i] = new[n].children[j] => i = j
    BY DEF CutInto
  <2>3. n = Root \/ (new[n].explored /\ Size(new[n].area) > 1)
    BY DEF CutInto
  <2> QED  BY <1>4, <1>5, <2>1, <2>2, <2>3 DEF Kin
<1>6. CASE k # n
  <2>1. /\ new[k] = tr[k] /\ Kids(new, k) = Kids(tr, k)
        /\ Leaf(new, k) <=> Leaf(tr, k)
    BY <1>1, <1>6
  <2>2. ASSUME NEW c \in Kids(new, k)
        PROVE  /\ c \in DOMAIN new /\ new[c].parent = k
               /\ new[c].exploreDepth = new[k].exploreDepth + 1
    <3>1. /\ c \in DOMAIN tr /\ tr[c].parent = k
          /\ tr[c].exploreDepth = tr[k].exploreDepth + 1
      BY <1>3, <2>1, <2>2 DEF Kin
    <3> QED  BY <1>1, <1>2, <3>1
  <2>3. /\ \A i, j \in DOMAIN tr[k].children :
               tr[k].children[i] = tr[k].children[j] => i = j
        /\ ~Leaf(tr, k) => k = Root \/ (tr[k].explored /\ Size(tr[k].area) > 1)
    BY <1>3 DEF Kin
  <2> QED  BY <1>4, <2>1, <2>2, <2>3 DEF Kin
<1> QED  BY <1>5, <1>6

LEMMA LeavesCut ==
    ASSUME NEW tr, Tree(tr), NEW n \in DOMAIN tr, Leaf(tr, n),
           tr[n].exploreDepth + 1 \in DOMAIN ExploreAreas,
           NEW new, CutInto(tr, n, Parts(tr, n), new)
    PROVE  LeavesApart(new)
<1> DEFINE parts == Parts(tr, n)
           K == NewIds(tr, parts)
<1>1. /\ parts \in Seq(Areas) /\ Len(parts) \in Nat \ {0}
      /\ DOMAIN parts = 1..Len(parts)
      /\ \A i, j \in DOMAIN parts :
             i # j => CellsOf(parts[i]) \cap CellsOf(parts[j]) = {}
      /\ \A i \in DOMAIN parts : CellsOf(parts[i]) \subseteq CellsOf(tr[n].area)
  <2>1. tr[n].area \in Areas /\ tr[n].exploreDepth \in Nat
    BY NodeType DEF Tree
  <2>2. /\ parts \in Seq(Areas) /\ Len(parts) \in Nat \ {0}
        /\ DOMAIN parts = 1..Len(parts)
    BY PartsOf
  <2>3. /\ \A i, j \in DOMAIN parts :
               i # j => CellsOf(parts[i]) \cap CellsOf(parts[j]) = {}
        /\ \A i \in DOMAIN parts : CellsOf(parts[i]) \subseteq CellsOf(tr[n].area)
        /\ UNION {CellsOf(parts[i]) : i \in DOMAIN parts} = CellsOf(tr[n].area)
    BY <2>1, PartsAreCells DEF Parts
  <2> QED  BY <2>2, <2>3
<1>2. AfterCut(tr, n, parts, new)
  BY <1>1, KidsCut
<1>3. /\ DOMAIN new = DOMAIN tr \cup K /\ ~Leaf(new, n) /\ Len(tr) \in Nat
      /\ DOMAIN tr = 1..Len(tr)
  BY <1>2, NodeType DEF AfterCut, Tree
<1>4. ASSUME NEW l \in DOMAIN new, Leaf(new, l)
      PROVE  \/ l \in K
             \/ l \in DOMAIN tr \ {n} /\ Leaf(tr, l) /\ new[l].area = tr[l].area
  <2>1. \A k \in DOMAIN tr \ {n} : new[k] = tr[k] /\ (Leaf(new, k) <=> Leaf(tr, k))
    BY <1>2 DEF AfterCut
  <2> QED  BY <1>3, <1>4, <2>1
<1>5. ASSUME NEW c \in K
      PROVE  /\ c \in Int /\ c - Len(tr) \in DOMAIN parts
             /\ new[c].area = parts[c - Len(tr)]
             /\ CellsOf(new[c].area) \subseteq CellsOf(tr[n].area)
  <2>1. c \in Int
    BY <1>3 DEF NewIds
  <2>2. /\ c - Len(tr) \in DOMAIN parts
        /\ Fresh(new[c], n, parts[c - Len(tr)], tr[n].exploreDepth + 1)
    BY <1>2 DEF AfterCut
  <2>3. new[c].area = parts[c - Len(tr)]
    BY <2>2 DEF Fresh
  <2> QED  BY <1>1, <2>1, <2>2, <2>3
<1> SUFFICES ASSUME NEW l \in DOMAIN new, NEW m \in DOMAIN new, l # m,
                    Leaf(new, l), Leaf(new, m)
             PROVE  CellsOf(new[l].area) \cap CellsOf(new[m].area) = {}
  BY DEF LeavesApart
<1>6. \A i, j \in DOMAIN tr : i # j /\ Leaf(tr, i) /\ Leaf(tr, j)
          => CellsOf(tr[i].area) \cap CellsOf(tr[j].area) = {}
  BY DEF Tree, LeavesApart
<1> HIDE DEF K, parts
<1>7. CASE l \in K /\ m \in K
  <2>1. l - Len(tr) # m - Len(tr)
    BY <1>3, <1>5, <1>7
  <2> QED  BY <1>1, <1>5, <1>7, <2>1
<1>8. ASSUME NEW i \in K, NEW j \in DOMAIN tr \ {n}, Leaf(tr, j),
             new[j].area = tr[j].area
      PROVE  CellsOf(new[i].area) \cap CellsOf(new[j].area) = {}
  <2>1. CellsOf(tr[n].area) \cap CellsOf(tr[j].area) = {}
    BY <1>6, <1>8
  <2> QED  BY <1>5, <1>8, <2>1
<1>9. CASE l \notin K /\ m \notin K
  BY <1>4, <1>6, <1>9
<1>10. CASE l \in K /\ m \notin K
  BY <1>4, <1>8, <1>10
<1>11. CASE l \notin K /\ m \in K
  <2>1. CellsOf(new[m].area) \cap CellsOf(new[l].area) = {}
    BY <1>4, <1>8, <1>11
  <2> QED  BY <2>1
<1> QED  BY <1>7, <1>9, <1>10, <1>11

\* the area that is cut keeps its error, the new ones are not known yet
LEMMA ToldCut ==
    ASSUME NEW tr, Tree(tr), NEW n \in DOMAIN tr, Leaf(tr, n),
           NEW parts \in Seq(Areas), Len(parts) \in Nat \ {0},
           NEW new, CutInto(tr, n, parts, new)
    PROVE  Told(new)
<1>1. AfterCut(tr, n, parts, new)
  BY KidsCut
<1>2. /\ DOMAIN new = DOMAIN tr \cup NewIds(tr, parts)
      /\ \A k \in DOMAIN tr \ {n} : Waiting(new, k) = Waiting(tr, k)
      /\ \A k \in DOMAIN tr \ {n} : Leaf(new, k) <=> Leaf(tr, k)
      /\ \A c \in NewIds(tr, parts) :
             Fresh(new[c], n, parts[c - Len(tr)], tr[n].exploreDepth + 1)
  BY <1>1 DEF AfterCut
<1>3. \A c \in DOMAIN tr : /\ Off(new, c) = Off(tr, c)
                           /\ Known(new, c) <=> Known(tr, c)
  BY OffCut
<1>4. ASSUME NEW k \in DOMAIN new, Astray(new, k)
      PROVE  k \in DOMAIN tr /\ Astray(tr, k)
  <2>1. CASE k \in DOMAIN tr
    <3>1. ~Complete(tr, k)
      <4>1. CASE k = n
        BY <4>1 DEF Complete
      <4>2. CASE k # n
        BY <1>2, <1>4, <2>1, <4>2 DEF Astray, Complete
      <4> QED  BY <4>1, <4>2
    <3> QED  BY <1>3, <1>4, <2>1, <3>1 DEF Astray, Complete
  <2>2. CASE k \notin DOMAIN tr
    <3>1. new[k].explored = FALSE
      BY <1>2, <2>2 DEF Fresh
    <3>2. k # Root
      BY <2>2 DEF Tree, RootIs
    <3> QED  BY <1>4, <3>1, <3>2 DEF Astray, Known
  <2> QED  BY <2>1, <2>2
<1>5. \A k, l \in DOMAIN tr :
          Astray(tr, k) /\ Astray(tr, l) => k = l /\ Nominal # Amount(Field)
  BY DEF Tree, Told
<1> QED  BY <1>4, <1>5 DEF Told

LEMMA TreeCut ==
    ASSUME NEW tr, Tree(tr), NEW n \in DOMAIN tr, Leaf(tr, n),
           n = Root \/ (tr[n].explored /\ Size(tr[n].area) > 1),
           NEW new, CutInto(tr, n, Parts(tr, n), new)
    PROVE  Tree(new)
<1> DEFINE parts == Parts(tr, n)
<1>1. tr[n].exploreDepth + 1 \in DOMAIN ExploreAreas
  BY RowLeft
<1>2. /\ parts \in Seq(Areas) /\ Len(parts) \in Nat \ {0}
      /\ DOMAIN parts = 1..Len(parts)
      /\ Sum(PartAmounts(parts), DOMAIN parts) = Amount(tr[n].area)
  BY <1>1, PartsOf
<1>3. AfterCut(tr, n, parts, new)
  BY <1>2, KidsCut
<1>4. /\ new \in Seq(Nodes) /\ Grown(tr, new)
      /\ DOMAIN new = DOMAIN tr \cup NewIds(tr, parts)
  BY <1>3 DEF AfterCut
<1>5. ASSUME NEW c \in NewIds(tr, parts)
      PROVE  Kin(new, c) /\ Placed(new, c) /\ Balanced(new, c) /\ Inherits(new, c)
  BY <1>1, NewNodes
<1>6. ASSUME NEW k \in DOMAIN tr
      PROVE  Kin(new, k) /\ Placed(new, k) /\ Balanced(new, k) /\ Inherits(new, k)
  <2>1. Kin(new, k)
    BY <1>2, KinCut
  <2>2. Placed(new, k)
    <3>1. Placed(tr, k)
      BY DEF Tree
    <3>2. new[k].area = tr[k].area /\ new[k].exploreDepth = tr[k].exploreDepth
      BY <1>4 DEF Grown
    <3> QED  BY <3>1, <3>2 DEF Placed
  <2>3. CASE k = n
    <3>1. Balanced(new, n) /\ Inherits(new, n)
      BY <1>2, CutBalanced
    <3> QED  BY <2>1, <2>2, <2>3, <3>1
  <2>4. CASE k # n
    <3>1. Balanced(new, k) /\ Inherits(new, k)
      BY <1>2, <2>4, OldBalanced
    <3> QED  BY <2>1, <2>2, <3>1
  <2> QED  BY <2>3, <2>4
<1>7. RootIs(new)
  <2>1. RootIs(tr) /\ Root \in DOMAIN tr
    BY DEF Tree, RootIs
  <2>2. new[Root].explored = tr[Root].explored
    BY <1>3, <2>1 DEF AfterCut
  <2> QED  BY <1>4, <2>1, <2>2 DEF RootIs, Grown
<1>8. LeavesApart(new)
  BY <1>1, LeavesCut
<1>9. Told(new)
  BY <1>2, ToldCut
<1> QED  BY <1>4, <1>5, <1>6, <1>7, <1>8, <1>9 DEF Tree

-----------------------------------------------------------------------------
(***************************************************************************)
(* The queue. Its elements are worth exploring further, in order, and it   *)
(* holds all such areas but those of X.                                    *)
(***************************************************************************)
Worth(tr, n) == ~Leaf(tr, n) /\ tr[n].actual - tr[n].exploredTreasures # 0

Queued(s, X) ==
    /\ \A n \in ToSet(s.queue) : n \in DOMAIN s.tree /\ Worth(s.tree, n)
    /\ SortedBy(s, s.queue)
    /\ \A n \in DOMAIN s.tree \ X : Worth(s.tree, n) => n \in ToSet(s.queue)

SameKeys(tr, new, n) ==
    /\ new[n].actual = tr[n].actual
    /\ new[n].exploredTreasures = tr[n].exploredTreasures
    /\ new[n].nonExploredSize = tr[n].nonExploredSize

\* r differs from s in its queue only, or in the queue and the tree
SameButQueue(s, r) == /\ r \in Clients /\ r.tree = s.tree /\ r.calls = s.calls
                      /\ r.found = s.found /\ r.status = s.status

LEMMA WorthRanked ==
    ASSUME NEW s, Tree(s.tree), NEW n \in DOMAIN s.tree, Worth(s.tree, n)
    PROVE  Ranked(s, n) /\ Waiting(s.tree, n) # {}
<1> DEFINE tr == s.tree
<1>1. /\ tr[n].nonExploredSize \in Nat
      /\ Complete(tr, n) => tr[n].actual - tr[n].exploredTreasures = 0
      /\ Waiting(tr, n) # {} => tr[n].nonExploredSize # 0
  BY LeftIsSum
<1>2. Waiting(tr, n) # {}
  BY <1>1 DEF Worth, Complete
<1>3. n \in Nat /\ tr[n].actual - tr[n].exploredTreasures \in Int
  BY NodeType DEF Tree
<1> QED  BY <1>1, <1>2, <1>3 DEF Ranked, Left

LEMMA QueueRanked ==
    ASSUME NEW s \in Clients, Tree(s.tree), NEW X, Queued(s, X)
    PROVE  /\ s.queue \in Seq(Nat) /\ SortedBy(s, s.queue)
           /\ \A i \in DOMAIN s.queue : Ranked(s, s.queue[i])
<1>1. ASSUME NEW i \in DOMAIN s.queue PROVE Ranked(s, s.queue[i])
  <2>1. s.queue[i] \in ToSet(s.queue)
    BY DEF ToSet
  <2>2. s.queue[i] \in DOMAIN s.tree /\ Worth(s.tree, s.queue[i])
    BY <2>1 DEF Queued
  <2> QED  BY <2>2, WorthRanked
<1> QED  BY <1>1, ClientType DEF Queued

LEMMA KeysKept ==
    ASSUME NEW s, NEW r, NEW q, SortedBy(s, q),
           \A i \in DOMAIN q : SameKeys(s.tree, r.tree, q[i])
    PROVE  SortedBy(r, q)
<1> SUFFICES ASSUME NEW i \in DOMAIN q, NEW j \in DOMAIN q, i < j
             PROVE  Before(r, q[i], q[j])
  BY DEF SortedBy
<1>1. Before(s, q[i], q[j])
  BY DEF SortedBy
<1>2. SameKeys(s.tree, r.tree, q[i]) /\ SameKeys(s.tree, r.tree, q[j])
  OBVIOUS
<1>3. Left(r, q[i]) = Left(s, q[i]) /\ Left(r, q[j]) = Left(s, q[j])
  BY <1>2 DEF SameKeys, Left
<1> QED  BY <1>1, <1>2, <1>3 DEF SameKeys, Before

\* the place in the queue where n belongs
Spot(s, n) == 1 + Cardinality({i \in DOMAIN s.queue : Before(s, s.queue[i], n)})

LEMMA AreaAdded ==
    ASSUME NEW s \in Clients, Tree(s.tree), NEW X, Queued(s, X),
           NEW n \in DOMAIN s.tree, Worth(s.tree, n), n \notin ToSet(s.queue)
    PROVE  /\ SameButQueue(s, AddExploreArea(s, n))
           /\ Queued(AddExploreArea(s, n), X \ {n})
<1> DEFINE q == InsertAt(s.queue, Spot(s, n), n)
           r == AddExploreArea(s, n)
<1>1. /\ s.queue \in Seq(Nat) /\ SortedBy(s, s.queue)
      /\ \A i \in DOMAIN s.queue : Ranked(s, s.queue[i])
  BY QueueRanked
<1>2. Ranked(s, n) /\ n \in Nat
  BY WorthRanked DEF Ranked
<1>3. r = WithQueue(s, q)
  BY DEF AddExploreArea, WithQueue, Spot
<1>4. /\ q \in Seq(Nat) /\ ToSet(q) = ToSet(s.queue) \cup {n} /\ SortedBy(s, q)
  BY <1>1, <1>2, AddedInOrder DEF Spot
<1> HIDE DEF q, r
<1>5. /\ r \in Clients /\ r.tree = s.tree /\ r.queue = q /\ r.calls = s.calls
      /\ r.found = s.found /\ r.status = s.status
  BY <1>3, <1>4, QueueReplaced
<1>6. SortedBy(r, q)
  <2>1. \A i \in DOMAIN q : SameKeys(s.tree, r.tree, q[i])
    BY <1>5 DEF SameKeys
  <2> QED  BY <1>4, <2>1, KeysKept
<1>7. Queued(r, X \ {n})
  <2>1. \A k \in DOMAIN s.tree \ X : Worth(s.tree, k) => k \in ToSet(s.queue)
    BY DEF Queued
  <2>2. \A k \in ToSet(s.queue) : k \in DOMAIN s.tree /\ Worth(s.tree, k)
    BY DEF Queued
  <2> QED  BY <1>4, <1>5, <1>6, <2>1, <2>2 DEF Queued
<1> QED  BY <1>5, <1>7 DEF SameButQueue, r

\* exploreQueue_ without p
Dropped(q, p) == IF p \notin ToSet(q) THEN q ELSE RemoveAt(q, Place(q, p))

LEMMA AreaRemoved ==
    ASSUME NEW s \in Clients, NEW p
    PROVE  RemoveExploreArea(s, p) = WithQueue(s, Dropped(s.queue, p))
<1>1. CASE p \notin ToSet(s.queue)
  <2>1. s = WithQueue(s, s.queue)
    BY DEF Clients, WithQueue
  <2> QED  BY <1>1, <2>1 DEF RemoveExploreArea, Dropped
<1>2. CASE p \in ToSet(s.queue)
  BY <1>2 DEF RemoveExploreArea, Dropped, Place, WithQueue
<1> QED  BY <1>1, <1>2

LEMMA QueueDropped ==
    ASSUME NEW s \in Clients, Tree(s.tree), NEW X, Queued(s, X), NEW p
    PROVE  /\ Dropped(s.queue, p) \in Seq(Nat)
           /\ ToSet(Dropped(s.queue, p)) = ToSet(s.queue) \ {p}
           /\ SortedBy(s, Dropped(s.queue, p))
<1>1. /\ s.queue \in Seq(Nat) /\ SortedBy(s, s.queue)
      /\ \A i \in DOMAIN s.queue : Ranked(s, s.queue[i])
  BY QueueRanked
<1>2. CASE p \notin ToSet(s.queue)
  BY <1>1, <1>2 DEF Dropped
<1>3. CASE p \in ToSet(s.queue)
  <2> DEFINE i == Place(s.queue, p)
             r == RemoveAt(s.queue, i)
  <2>1. i \in DOMAIN s.queue /\ s.queue[i] = p
    BY <1>3 DEF ToSet, Place
  <2>2. Dropped(s.queue, p) = r
    BY <1>3 DEF Dropped
  <2> HIDE DEF i
  <2>3. /\ r \in Seq(Nat) /\ ToSet(r) = ToSet(s.queue) \ {s.queue[i]}
        /\ SortedBy(s, r)
    BY <1>1, <2>1, RemovedInOrder
  <2> QED  BY <2>1, <2>2, <2>3
<1> QED  BY <1>2, <1>3

-----------------------------------------------------------------------------
(***************************************************************************)
(* The client between two calls of processExploredArea. A are the areas    *)
(* that are asked for; m is the area the next call is for, 0 for none: its *)
(* parent is not in the queue, and has no other unexplored part; p is the  *)
(* parent of the area that was answered for, whose last part has not been  *)
(* deduced yet.                                                            *)
(***************************************************************************)
Above(tr, m) == IF m = 0 THEN {} ELSE {tr[m].parent}

Flight(tr, A, m) ==
    /\ A \subseteq DOMAIN tr
    /\ \A a \in A : a # Root /\ ~tr[a].explored
    /\ m # 0 => m \in DOMAIN tr \ {Root} /\ ~tr[m].explored /\ m \notin A
    /\ \A n \in DOMAIN tr \ {m} : tr[n].requestInFlight <=> n \in A

Spare(tr, A, m, n) == \E c \in Waiting(tr, n) : c \notin A /\ c # m

Open(tr, A, m, p) ==
    \A n \in DOMAIN tr :
        /\ n \notin Above(tr, m) \/ n = p
               => tr[n].nonExploredCnt = 0 \/ Spare(tr, A, m, n)
        /\ n \notin Above(tr, m) /\ n # p => tr[n].nonExploredCnt # 1
        /\ n \in Above(tr, m) /\ n # p => tr[n].nonExploredCnt = 1

\* the cells that were handed over: none of area m
Handed(s, m) ==
    /\ \A i \in DOMAIN s.found : \E n \in DOMAIN s.tree \ {m} :
           /\ s.tree[n].explored /\ Size(s.tree[n].area) = 1
           /\ s.found[i] = [cell |-> <<s.tree[n].area.x, s.tree[n].area.y>>,
                            amount |-> s.tree[n].actual]
    /\ \A i, j \in DOMAIN s.found : s.found[i].cell = s.found[j].cell => i = j

Sound(s, A, m, p) ==
    /\ s \in Clients /\ Tree(s.tree) /\ Queued(s, Above(s.tree, m))
    /\ Flight(s.tree, A, m) /\ Open(s.tree, A, m, p)
    /\ p \in DOMAIN s.tree \cup {0} /\ (m # 0 => m # p)

Tidy(s, A, m, p) == Sound(s, A, m, p) /\ Handed(s, m)

\* the area is recorded with its parent, which is not in the queue
Half(s, n, amount) ==
    UpdateChildExplored(
        RemoveExploreArea(MarkExplored(s, n, amount), s.tree[n].parent),
        s.tree[n].parent, n)

LEMMA HalfIs ==
    ASSUME NEW s \in Clients, Tree(s.tree), NEW p \in DOMAIN s.tree,
           NEW n \in Kids(s.tree, p), ~s.tree[n].explored, NEW amount \in Int,
           Dropped(s.queue, p) \in Seq(Nat)
    PROVE  /\ Half(s, n, amount) \in Clients
           /\ Half(s, n, amount).tree = AfterExplored(s.tree, n, p, amount)
           /\ Half(s, n, amount).queue = Dropped(s.queue, p)
           /\ Half(s, n, amount).calls = s.calls
           /\ Half(s, n, amount).found = s.found
           /\ Half(s, n, amount).status = s.status
           /\ SetExplored(s, n, amount) =
                  IF Left(Half(s, n, amount), p) # 0
                  THEN AddExploreArea(Half(s, n, amount), p)
                  ELSE Half(s, n, amount)
<1> DEFINE tr == s.tree
           x == AsExplored(tr[n], amount)
           tr1 == With(tr, n, x)
           s1 == MarkExplored(s, n, amount)
           s2 == RemoveExploreArea(s1, p)
           t == Half(s, n, amount)
           new == AfterExplored(tr, n, p, amount)
           q == Dropped(s.queue, p)
<1>1. /\ tr \in Seq(Nodes) /\ n \in DOMAIN tr /\ n # p /\ tr[n].parent = p
      /\ tr[n] \in Nodes
  <2>1. n \in DOMAIN tr /\ n # p /\ tr \in Seq(Nodes)
    BY Families DEF Tree
  <2>2. tr[n].parent = p
    BY DEF Tree, Kin
  <2> QED  BY <2>1, <2>2, NodeType
<1>2. s1 = WithTree(s, tr1)
  BY <1>1, Marked
<1>3. x \in Nodes
  BY <1>1, ExploredNode
<1> HIDE DEF x
<1>4. tr1 \in Seq(Nodes) /\ DOMAIN tr1 = DOMAIN tr
  BY <1>1, <1>3, NodeReplaced
<1> HIDE DEF tr1, s1
<1>5. /\ s1 \in Clients /\ s1.tree = tr1 /\ s1.queue = s.queue
      /\ s1.calls = s.calls /\ s1.found = s.found /\ s1.status = s.status
  BY <1>2, <1>4, TreeReplaced
<1>6. s2 = WithQueue(s1, q)
  BY <1>5, AreaRemoved
<1> HIDE DEF s2, q
<1>7. /\ s2 \in Clients /\ s2.tree = tr1 /\ s2.queue = q
      /\ s2.calls = s.calls /\ s2.found = s.found /\ s2.status = s.status
  BY <1>5, <1>6, QueueReplaced DEF q
<1>8. t = UpdateChildExplored(s2, p, n)
  BY <1>1 DEF Half, s1, s2
<1>9. t = WithTree(s2, new)
  <2>1. p \in DOMAIN s2.tree /\ n \in DOMAIN s2.tree \ {p}
    BY <1>1, <1>4, <1>7
  <2>2. UpdateChildExplored(s2, p, n) =
            WithTree(s2, With(With(s2.tree, n, NotAsked(s2.tree[n])), p,
                              CountExplored(s2.tree[p],
                                            Place(s2.tree[p].children, n),
                                            s2.tree[n])))
    BY <1>7, <2>1, Updated
  <2>3. new = With(With(tr1, n, NotAsked(tr1[n])), p,
                   CountExplored(tr1[p], Place(tr1[p].children, n), tr1[n]))
    BY DEF AfterExplored, tr1, x
  <2> QED  BY <1>7, <1>8, <2>2, <2>3
<1>10. new \in Seq(Nodes)
  <2>1. Recorded(tr, n, p, amount, new)
    BY RecordedTree
  <2> QED  BY <2>1 DEF Recorded
<1> HIDE DEF new
<1>11. /\ t \in Clients /\ t.tree = new /\ t.queue = q
       /\ t.calls = s.calls /\ t.found = s.found /\ t.status = s.status
  BY <1>7, <1>9, <1>10, TreeReplaced
<1>12. SetExplored(s, n, amount) =
           IF Left(t, p) # 0 THEN AddExploreArea(t, p) ELSE t
  BY <1>1, <1>8 DEF SetExplored, MarkExplored, s1, s2
<1> QED  BY <1>11, <1>12 DEF t, new, q

\* the areas stay, the calls, and the cells that were handed over
Kept(s, r) == /\ Grown(s.tree, r.tree) /\ r.calls = s.calls
              /\ r.status = s.status
              /\ \A i \in DOMAIN s.found : /\ i \in DOMAIN r.found
                                           /\ r.found[i] = s.found[i]

\* area n is recorded as explored
Settled(s, A, n, p, r) ==
    /\ Sound(r, A, 0, p) /\ Handed(r, n) /\ Kept(s, r)
    /\ n \in DOMAIN r.tree /\ r.tree[n].explored /\ Leaf(r.tree, n)

LEMMA OpenRecorded ==
    ASSUME NEW tr, Tree(tr), NEW p \in DOMAIN tr, NEW n \in Kids(tr, p),
           ~tr[n].explored, NEW amount \in Int,
           NEW new, Recorded(tr, n, p, amount, new),
           NEW A, Flight(tr, A, n), NEW x, Open(tr, A, n, x)
    PROVE  Flight(new, A, 0) /\ Open(new, A, 0, x)
<1>1. /\ tr \in Seq(Nodes) /\ n \in DOMAIN tr \ {Root} /\ n # p
      /\ tr[n].parent = p /\ DOMAIN tr = 1..Len(tr)
  <2>1. n \in DOMAIN tr \ {Root} /\ n # p /\ tr \in Seq(Nodes)
    BY Families DEF Tree
  <2>2. tr[n].parent = p
    BY DEF Tree, Kin
  <2> QED  BY <2>1, <2>2, NodeType
<1>2. RecordedKids(tr, n, p, new)
  BY KidsRecorded
<1>3. Flight(new, A, 0)
  <2>1. /\ A \subseteq DOMAIN tr /\ n \notin A
        /\ \A a \in A : a # Root /\ ~tr[a].explored
        /\ \A k \in DOMAIN tr \ {n} : tr[k].requestInFlight <=> k \in A
    BY <1>1 DEF Flight
  <2>2. /\ DOMAIN new = DOMAIN tr
        /\ \A k \in DOMAIN tr \ {n} :
               /\ new[k].explored = tr[k].explored
               /\ new[k].requestInFlight = tr[k].requestInFlight
        /\ ~new[n].requestInFlight
    BY DEF Recorded
  <2>3. \A a \in A : a # Root /\ ~new[a].explored
    BY <2>1, <2>2
  <2>4. \A k \in DOMAIN new \ {0} : new[k].requestInFlight <=> k \in A
    BY <2>1, <2>2
  <2> QED  BY <2>1, <2>2, <2>3, <2>4 DEF Flight
<1>4. /\ DOMAIN new = DOMAIN tr
      /\ \A k \in DOMAIN tr \ {p} : new[k].nonExploredCnt = tr[k].nonExploredCnt
      /\ new[p].nonExploredCnt = tr[p].nonExploredCnt - 1
  BY DEF Recorded
<1>5. Above(tr, n) = {p} /\ Above(new, 0) = {}
  BY <1>1 DEF Above
<1>6. \A c \in Waiting(tr, p) : c # 0
  BY <1>1, Families DEF Waiting
<1>7. ASSUME NEW k \in DOMAIN tr, k # p
      PROVE  /\ new[k].nonExploredCnt = 0 \/ Spare(new, A, 0, k)
             /\ k # x => new[k].nonExploredCnt # 1
  <2>1. /\ tr[k].nonExploredCnt = 0 \/ Spare(tr, A, n, k)
        /\ k # x => tr[k].nonExploredCnt # 1
    BY <1>5, <1>7 DEF Open
  <2>2. \A c \in Waiting(tr, k) : c # 0
    BY <1>1, Families DEF Waiting
  <2>3. Spare(tr, A, n, k) => Spare(new, A, 0, k)
    BY <1>2, <1>7, <2>2 DEF Spare, RecordedKids
  <2> QED  BY <1>4, <1>7, <2>1, <2>3
<1>8. CASE p = x
  <2>1. Spare(tr, A, n, p)
    <3>1. tr[p].nonExploredCnt = 0 \/ Spare(tr, A, n, p)
      BY <1>8 DEF Open
    <3>2. tr[p].nonExploredCnt = Cardinality(Waiting(tr, p))
      BY DEF Tree, Balanced
    <3>3. IsFiniteSet(Waiting(tr, p))
      <4>1. IsFiniteSet(Kids(tr, p))
        BY <1>1, NodeType
      <4>2. Waiting(tr, p) \subseteq Kids(tr, p)
        BY DEF Waiting
      <4> QED  BY <4>1, <4>2, FS_Subset
    <3>4. Cardinality(Waiting(tr, p)) # 0
      BY <1>2, <3>3, FS_EmptySet DEF RecordedKids
    <3> QED  BY <3>1, <3>2, <3>4
  <2>2. Spare(new, A, 0, p)
    BY <1>2, <1>6, <2>1 DEF Spare, RecordedKids
  <2> QED  BY <1>3, <1>4, <1>5, <1>7, <1>8, <2>2 DEF Open
<1>9. CASE p # x
  <2>1. tr[p].nonExploredCnt = 1
    BY <1>5, <1>9 DEF Open
  <2>2. new[p].nonExploredCnt = 0
    BY <1>4, <2>1
  <2> QED  BY <1>3, <1>4, <1>5, <1>7, <1>9, <2>2 DEF Open
<1> QED  BY <1>8, <1>9

LEMMA QueuedRecorded ==
    ASSUME NEW s \in Clients, Tree(s.tree), NEW p \in DOMAIN s.tree,
           NEW n \in Kids(s.tree, p), ~s.tree[n].explored, NEW amount \in Int,
           Queued(s, {p}), NEW t,
           Recorded(s.tree, n, p, amount, t.tree),
           t.queue = Dropped(s.queue, p)
    PROVE  Queued(t, {p}) /\ p \notin ToSet(t.queue)
<1> DEFINE tr == s.tree
           q == Dropped(s.queue, p)
<1>1. /\ tr \in Seq(Nodes) /\ n \in DOMAIN tr \ {Root} /\ n # p
      /\ tr[n].parent = p /\ Leaf(tr, n)
  <2>1. n \in DOMAIN tr \ {Root} /\ tr \in Seq(Nodes) /\ n # p
    BY Families DEF Tree
  <2>2. tr[n].parent = p
    BY DEF Tree, Kin
  <2>3. Leaf(tr, n)
    BY <2>1, Families
  <2> QED  BY <2>1, <2>2, <2>3
<1>2. RecordedKids(tr, n, p, t.tree)
  BY KidsRecorded
<1>3. DOMAIN t.tree = DOMAIN tr
  BY DEF Recorded
<1>4. ASSUME NEW k \in DOMAIN tr \ {n, p}
      PROVE  SameKeys(tr, t.tree, k) /\ (Worth(t.tree, k) <=> Worth(tr, k))
  <2>1. SameKeys(tr, t.tree, k)
    BY DEF Recorded, SameKeys
  <2> QED  BY <1>2, <2>1 DEF SameKeys, Worth, RecordedKids
<1>5. ~Worth(tr, n) /\ ~Worth(t.tree, n)
  BY <1>1, <1>2 DEF Worth, RecordedKids
<1>6. /\ q \in Seq(Nat) /\ ToSet(q) = ToSet(s.queue) \ {p} /\ SortedBy(s, q)
  BY QueueDropped
<1>7. /\ \A k \in ToSet(s.queue) : k \in DOMAIN tr /\ Worth(tr, k)
      /\ \A k \in DOMAIN tr \ {p} : Worth(tr, k) => k \in ToSet(s.queue)
  BY DEF Queued
<1> HIDE DEF q
<1>8. ASSUME NEW k \in ToSet(q) PROVE k \in DOMAIN tr \ {n, p}
  BY <1>5, <1>6, <1>7
<1>9. SortedBy(t, q)
  <2>1. \A i \in DOMAIN q : q[i] \in ToSet(q)
    BY DEF ToSet
  <2>2. \A i \in DOMAIN q : SameKeys(s.tree, t.tree, q[i])
    BY <1>4, <1>8, <2>1
  <2> QED  BY <1>6, <2>2, KeysKept
<1>10. t.queue = q
  BY DEF q
<1>11. \A k \in ToSet(q) : k \in DOMAIN t.tree /\ Worth(t.tree, k)
  BY <1>3, <1>4, <1>6, <1>7, <1>8
<1>12. \A k \in DOMAIN t.tree \ {p} : Worth(t.tree, k) => k \in ToSet(q)
  BY <1>3, <1>4, <1>5, <1>6, <1>7
<1> QED  BY <1>6, <1>9, <1>10, <1>11, <1>12 DEF Queued

LEMMA SetExploredSound ==
    ASSUME NEW s, NEW A, NEW n \in Nat \ {0}, NEW p, Tidy(s, A, n, p)
    PROVE  Settled(s, A, n, p,
                   SetExplored(s, n, Due(s.tree, s.tree[n].parent, n)))
<1> DEFINE tr == s.tree
           P == tr[n].parent
           amount == Due(tr, P, n)
           t == Half(s, n, amount)
           r == SetExplored(s, n, amount)
           new == AfterExplored(tr, n, P, amount)
<1>1. /\ s \in Clients /\ Tree(tr) /\ n \in DOMAIN tr \ {Root}
      /\ ~tr[n].explored /\ Flight(tr, A, n) /\ Open(tr, A, n, p)
      /\ Queued(s, {P}) /\ Handed(s, n) /\ p \in DOMAIN tr \cup {0} /\ n # p
  BY DEF Tidy, Sound, Flight, Above
<1>2. /\ P \in DOMAIN tr /\ n \in DOMAIN tr \ {P} /\ n \in Kids(tr, P)
      /\ Leaf(tr, n)
  BY <1>1, Families
<1>3. amount \in Int
  BY <1>1, <1>2, DueIs
<1>4. Dropped(s.queue, P) \in Seq(Nat)
  BY <1>1, QueueDropped
<1> HIDE DEF amount, P, new, t, r
<1>5. Recorded(tr, n, P, amount, new)
  BY <1>1, <1>2, <1>3, RecordedTree DEF new
<1>6. Tree(new)
  BY <1>1, <1>2, <1>5, TreeExplored DEF amount
<1>7. /\ t \in Clients /\ t.tree = new /\ t.queue = Dropped(s.queue, P)
      /\ t.calls = s.calls /\ t.found = s.found /\ t.status = s.status
      /\ r = IF Left(t, P) # 0 THEN AddExploreArea(t, P) ELSE t
  BY <1>1, <1>2, <1>3, <1>4, HalfIs DEF t, r, new
<1>8. Flight(new, A, 0) /\ Open(new, A, 0, p)
  BY <1>1, <1>2, <1>3, <1>5, OpenRecorded
<1>9. Queued(t, {P}) /\ P \notin ToSet(t.queue)
  BY <1>1, <1>2, <1>3, <1>5, <1>7, QueuedRecorded
<1>10. /\ DOMAIN new = DOMAIN tr /\ new[n].explored /\ P \in DOMAIN new
       /\ \A k \in DOMAIN tr : /\ new[k].area = tr[k].area
                               /\ new[k].parent = tr[k].parent
                               /\ new[k].exploreDepth = tr[k].exploreDepth
       /\ \A k \in DOMAIN tr \ {n} : /\ new[k].explored = tr[k].explored
                                     /\ new[k].actual = tr[k].actual
       /\ new[n].children = tr[n].children /\ Kids(new, P) = Kids(tr, P)
  BY <1>2, <1>5 DEF Recorded
<1>11. Grown(tr, new) /\ Leaf(new, n) /\ ~Leaf(new, P)
  <2>1. Leaf(new, n)
    BY <1>2, <1>10 DEF Leaf
  <2>2. ~Leaf(new, P)
    BY <1>2, <1>6, <1>10, NodeType DEF Tree
  <2>3. Grown(tr, new)
    BY <1>10 DEF Grown
  <2> QED  BY <2>1, <2>2, <2>3
<1>12. /\ r \in Clients /\ r.tree = new /\ r.calls = s.calls
       /\ r.found = s.found /\ r.status = s.status /\ Queued(r, {})
  <2>1. CASE Left(t, P) # 0
    <3>1. Worth(t.tree, P)
      BY <1>7, <1>11, <2>1 DEF Worth, Left
    <3>2. /\ SameButQueue(t, AddExploreArea(t, P))
          /\ Queued(AddExploreArea(t, P), {P} \ {P})
      BY <1>6, <1>7, <1>9, <1>10, <3>1, AreaAdded
    <3>3. {P} \ {P} = {}
      OBVIOUS
    <3> QED  BY <1>7, <2>1, <3>2, <3>3 DEF SameButQueue
  <2>2. CASE ~ (Left(t, P) # 0)
    <3>1. ~Worth(t.tree, P)
      BY <2>2 DEF Worth, Left
    <3>2. Queued(t, {})
      BY <1>9, <3>1 DEF Queued
    <3> QED  BY <1>7, <2>2, <3>2
  <2> QED  BY <2>1, <2>2
<1>13. Handed(r, n)
  <2>1. ASSUME NEW i \in DOMAIN s.found
        PROVE  \E k \in DOMAIN new \ {n} :
                   /\ new[k].explored /\ Size(new[k].area) = 1
                   /\ s.found[i] = [cell |-> <<new[k].area.x, new[k].area.y>>,
                                    amount |-> new[k].actual]
    <3>1. PICK k \in DOMAIN tr \ {n} :
               /\ tr[k].explored /\ Size(tr[k].area) = 1
               /\ s.found[i] = [cell |-> <<tr[k].area.x, tr[k].area.y>>,
                                amount |-> tr[k].actual]
      BY <1>1 DEF Handed
    <3>2. new[k].area = tr[k].area /\ new[k].explored = tr[k].explored
          /\ new[k].actual = tr[k].actual /\ k \in DOMAIN new \ {n}
      BY <1>10
    <3> QED  BY <3>1, <3>2
  <2>2. \A i, j \in DOMAIN s.found : s.found[i].cell = s.found[j].cell => i = j
    BY <1>1 DEF Handed
  <2> QED  BY <1>12, <2>1, <2>2 DEF Handed
<1>14. Above(r.tree, 0) = {}
  BY DEF Above
<1>15. Sound(r, A, 0, p)
  BY <1>1, <1>6, <1>8, <1>10, <1>12, <1>14 DEF Sound
<1>16. Settled(s, A, n, p, r)
  BY <1>1, <1>10, <1>11, <1>12, <1>13, <1>15 DEF Settled, Kept
<1> QED  BY <1>16 DEF r, amount, P

LEMMA QueuedSame ==
    ASSUME NEW s, NEW r, NEW X, Queued(s, X), r.tree = s.tree,
           r.queue = s.queue
    PROVE  Queued(r, X)
<1>1. SortedBy(s, s.queue)
  BY DEF Queued
<1>2. \A i \in DOMAIN s.queue : SameKeys(s.tree, r.tree, s.queue[i])
  BY DEF SameKeys
<1>3. SortedBy(r, s.queue)
  BY <1>1, <1>2, KeysKept
<1> QED  BY <1>3 DEF Queued

LEMMA GrownTwice ==
    ASSUME NEW s, NEW r, NEW t, Kept(s, r), Kept(r, t)
    PROVE  Kept(s, t)
BY DEF Kept, Grown

LEMMA GrownSame ==
    ASSUME NEW s, NEW r, r.tree = s.tree, r.calls = s.calls,
           r.status = s.status, r.found = s.found
    PROVE  Kept(s, r)
BY DEF Kept, Grown

\* a cell with treasures is handed over to be dug
LEMMA DigSound ==
    ASSUME NEW s, NEW A, NEW n \in Nat \ {0}, NEW p, NEW r,
           Settled(s, A, n, p, r), Size(r.tree[n].area) = 1
    PROVE  /\ Tidy(StartDigging(r, r.tree[n].area, r.tree[n].actual), A, 0, p)
           /\ Kept(s, StartDigging(r, r.tree[n].area, r.tree[n].actual))
<1> DEFINE tr == r.tree
           a == tr[n].area
           cell == <<a.x, a.y>>
           item == [cell |-> cell, amount |-> tr[n].actual]
           d == StartDigging(r, a, tr[n].actual)
<1>1. /\ r \in Clients /\ Tree(tr) /\ Queued(r, {}) /\ Flight(tr, A, 0)
      /\ Open(tr, A, 0, p) /\ p \in DOMAIN tr \cup {0} /\ Handed(r, n)
      /\ n \in DOMAIN tr /\ tr[n].explored /\ Leaf(tr, n) /\ Kept(s, r)
  BY DEF Settled, Sound, Above
<1>2. a \in Areas /\ tr[n].actual \in Int /\ \A k \in DOMAIN tr : tr[k].area \in Areas
  BY <1>1, NodeType DEF Tree
<1>3. \A k \in DOMAIN tr : Inside(tr[k].area, Field)
  BY <1>1 DEF Tree, Placed
<1>4. cell \in Cells /\ cell \in CellsOf(a)
  BY <1>1, <1>2, <1>3, OneCell
<1>5. item \in Located
  BY <1>2, <1>4 DEF Located
<1>6. d = [r EXCEPT !.found = Append(@, item)]
  BY DEF StartDigging
<1> HIDE DEF item
<1> DEFINE f == Append(r.found, item)
<1>7. /\ r.found \in Seq(Located) /\ f \in Seq(Located)
      /\ Len(r.found) \in Nat /\ DOMAIN r.found = 1..Len(r.found)
      /\ Len(f) = Len(r.found) + 1 /\ DOMAIN f = 1..(Len(r.found) + 1)
      /\ \A i \in 1..Len(r.found) : f[i] = r.found[i]
      /\ f[Len(r.found) + 1] = item
  <2> DEFINE S == Located
  <2>1. r.found \in Seq(S) /\ item \in S
    BY <1>1, <1>5, ClientType
  <2> HIDE DEF S
  <2>2. /\ f \in Seq(S) /\ Len(f) = Len(r.found) + 1
        /\ \A i \in 1..Len(r.found) : f[i] = r.found[i]
        /\ f[Len(r.found) + 1] = item
    BY <2>1, AppendProperties
  <2>3. Len(r.found) \in Nat /\ DOMAIN r.found = 1..Len(r.found)
        /\ DOMAIN f = 1..Len(f)
    BY <2>1, <2>2, LenProperties
  <2> QED  BY <2>1, <2>2, <2>3 DEF S
<1> HIDE DEF f
<1>8. /\ d \in Clients /\ d.tree = tr /\ d.queue = r.queue /\ d.found = f
      /\ d.calls = r.calls /\ d.status = r.status
  <2>1. d = [r EXCEPT !.found = f]
    BY <1>6 DEF f
  <2> HIDE DEF d
  <2> QED  BY <1>1, <1>7, <2>1 DEF Clients
<1>9. ASSUME NEW i \in 1..Len(r.found) PROVE f[i].cell # cell
  <2>1. PICK k \in DOMAIN tr \ {n} :
             /\ tr[k].explored /\ Size(tr[k].area) = 1
             /\ r.found[i] = [cell |-> <<tr[k].area.x, tr[k].area.y>>,
                              amount |-> tr[k].actual]
    BY <1>1, <1>7 DEF Handed
  <2>2. Leaf(tr, k)
    <3>1. k # Root
      BY <1>1, <2>1 DEF Tree, RootIs
    <3>2. Kin(tr, k)
      BY <1>1 DEF Tree
    <3> QED  BY <2>1, <3>1, <3>2 DEF Kin
  <2>3. CellsOf(tr[k].area) \cap CellsOf(a) = {}
    BY <1>1, <2>2 DEF Tree, LeavesApart
  <2>4. <<tr[k].area.x, tr[k].area.y>> \in CellsOf(tr[k].area)
    BY <2>1, <1>2, <1>3, OneCell
  <2>5. f[i].cell = <<tr[k].area.x, tr[k].area.y>>
    BY <1>7, <2>1
  <2> QED  BY <1>4, <2>3, <2>4, <2>5
<1>10. Handed(d, 0)
  <2>1. ASSUME NEW i \in DOMAIN f
        PROVE  \E k \in DOMAIN tr \ {0} :
                   /\ tr[k].explored /\ Size(tr[k].area) = 1
                   /\ f[i] = [cell |-> <<tr[k].area.x, tr[k].area.y>>,
                              amount |-> tr[k].actual]
    <3>1. \A k \in DOMAIN tr : k # 0
      BY <1>1, NodeType DEF Tree
    <3>2. CASE i = Len(r.found) + 1
      BY <1>1, <1>7, <3>1, <3>2 DEF item
    <3>3. CASE i # Len(r.found) + 1
      <4>1. i \in 1..Len(r.found)
        BY <1>7, <3>3
      <4>2. PICK k \in DOMAIN tr \ {n} :
                 /\ tr[k].explored /\ Size(tr[k].area) = 1
                 /\ r.found[i] = [cell |-> <<tr[k].area.x, tr[k].area.y>>,
                                  amount |-> tr[k].actual]
        BY <1>1, <1>7, <4>1 DEF Handed
      <4> QED  BY <1>7, <3>1, <4>1, <4>2
    <3> QED  BY <3>2, <3>3
  <2>2. ASSUME NEW i \in DOMAIN f, NEW j \in DOMAIN f, f[i].cell = f[j].cell
        PROVE  i = j
    <3>1. item.cell = cell
      BY DEF item
    <3>2. \A k \in DOMAIN f : k \in 1..Len(r.found) \/ k = Len(r.found) + 1
      BY <1>7
    <3>3. CASE i \in 1..Len(r.found) /\ j \in 1..Len(r.found)
      BY <1>1, <1>7, <2>2, <3>3 DEF Handed
    <3>4. CASE ~ (i \in 1..Len(r.found) /\ j \in 1..Len(r.found))
      BY <1>7, <1>9, <2>2, <3>1, <3>2, <3>4
    <3> QED  BY <3>3, <3>4
  <2> QED  BY <1>8, <2>1, <2>2 DEF Handed
<1>11. Queued(d, {})
  BY <1>1, <1>8, QueuedSame
<1>12. Sound(d, A, 0, p)
  BY <1>1, <1>8, <1>11 DEF Sound, Above
<1>13. Kept(s, d)
  <2>1. Kept(r, d)
    BY <1>7, <1>8 DEF Kept, Grown
  <2> QED  BY <1>1, <2>1, GrownTwice
<1> QED  BY <1>10, <1>12, <1>13 DEF Tidy

\* the part that is left
Remaining(tr, n) == CHOOSE c \in ToSet(tr[n].children) : ~tr[c].explored

LEMMA LastPart ==
    ASSUME NEW tr, Tree(tr), NEW n \in DOMAIN tr, tr[n].nonExploredCnt = 1
    PROVE  /\ Remaining(tr, n) \in Kids(tr, n) /\ ~tr[Remaining(tr, n)].explored
           /\ Waiting(tr, n) = {Remaining(tr, n)}
<1> DEFINE W == Waiting(tr, n)
           c == Remaining(tr, n)
<1>1. /\ tr \in Seq(Nodes) /\ IsFiniteSet(Kids(tr, n))
      /\ (Leaf(tr, n) <=> Kids(tr, n) = {})
  BY NodeType DEF Tree
<1>2. IsFiniteSet(W)
  <2>1. W \subseteq Kids(tr, n)
    BY DEF Waiting
  <2> QED  BY <1>1, <2>1, FS_Subset
<1>3. Cardinality(W) = 1
  BY DEF Tree, Balanced
<1>4. W # {}
  BY <1>3, FS_EmptySet
<1>5. c \in Kids(tr, n) /\ ~tr[c].explored
  BY <1>4 DEF Waiting, Kids, Remaining
<1>6. W = {c}
  <2>1. PICK x : W = {x}
    BY <1>2, <1>3, FS_Singleton
  <2>2. c \in W
    BY <1>5 DEF Waiting
  <2> QED  BY <2>1, <2>2
<1> QED  BY <1>5, <1>6

\* what a call of processExploredArea or createSubAreas for area n leads to
Outcome(s, A, p, n, call) ==
    /\ Tidy(call.client, A, call.area, p) /\ Kept(s, call.client)
    /\ call.area \in Nat
    /\ call.area # 0 =>
           /\ call.amount = Due(call.client.tree,
                                call.client.tree[call.area].parent, call.area)
           /\ call.client.tree[call.area].exploreDepth =
                  s.tree[n].exploreDepth + 1

\* the parts of area n are new, and none is asked for
LEMMA OpenCut ==
    ASSUME NEW tr, Tree(tr), NEW n \in DOMAIN tr, Leaf(tr, n),
           NEW parts \in Seq(Areas), Len(parts) \in Nat \ {0},
           NEW new, CutInto(tr, n, parts, new), Tree(new),
           NEW A, Flight(tr, A, 0), NEW p, Open(tr, A, 0, p), n # p,
           NEW m, \/ m = 0 /\ Len(parts) # 1
                  \/ m \in NewIds(tr, parts) /\ Len(parts) = 1
    PROVE  Flight(new, A, m) /\ Open(new, A, m, p)
<1> DEFINE K == NewIds(tr, parts)
<1>1. AfterCut(tr, n, parts, new)
  BY KidsCut
<1>2. /\ DOMAIN new = DOMAIN tr \cup K /\ DOMAIN tr \cap K = {}
      /\ \A c \in K : /\ Fresh(new[c], n, parts[c - Len(tr)],
                               tr[n].exploreDepth + 1)
                      /\ Kids(new, c) = {}
      /\ Waiting(new, n) = K
      /\ \A k \in DOMAIN tr \ {n} : /\ new[k] = tr[k]
                                    /\ Waiting(new, k) = Waiting(tr, k)
      /\ \A k \in DOMAIN tr : new[k].explored = tr[k].explored
  BY <1>1 DEF AfterCut
<1>3. \A c \in K : /\ new[c].parent = n /\ new[c].explored = FALSE
                   /\ new[c].requestInFlight = FALSE
                   /\ new[c].nonExploredCnt = 0
  BY <1>2 DEF Fresh
<1>4. new[n].requestInFlight = tr[n].requestInFlight
  BY DEF CutInto
<1>5. /\ A \subseteq DOMAIN tr /\ \A a \in A : a # Root /\ ~tr[a].explored
      /\ \A k \in DOMAIN tr \ {0} : tr[k].requestInFlight <=> k \in A
  BY DEF Flight
<1>6. Root \in DOMAIN tr /\ 0 \notin DOMAIN new
  <2>1. tr \in Seq(Nodes) /\ new \in Seq(Nodes) /\ Root \in DOMAIN tr
    BY DEF Tree, RootIs
  <2> QED  BY <2>1, NodeType
<1> HIDE DEF K
<1>7. Flight(new, A, m)
  <2>1. m # 0 => m \in DOMAIN new \ {Root} /\ ~new[m].explored /\ m \notin A
    BY <1>2, <1>3, <1>5, <1>6 DEF K
  <2>2. \A a \in A : a # Root /\ ~new[a].explored
    BY <1>2, <1>5
  <2>3. ASSUME NEW k \in DOMAIN new PROVE new[k].requestInFlight <=> k \in A
    <3>1. CASE k \in K
      BY <1>2, <1>3, <1>5, <3>1
    <3>2. CASE k \notin K
      BY <1>2, <1>4, <1>5, <1>6, <3>2
    <3> QED  BY <3>1, <3>2
  <2> QED  BY <1>2, <1>5, <2>1, <2>2, <2>3 DEF Flight
<1>8. m = 0 \/ (m \in K /\ Above(new, m) = {n})
  <2>1. m \in K => m # 0
    BY <1>2, <1>6
  <2> QED  BY <1>3, <2>1 DEF Above, K
<1>9. ASSUME NEW k \in DOMAIN tr \ {n}
      PROVE  /\ new[k].nonExploredCnt = 0 \/ Spare(new, A, m, k)
             /\ k # p => new[k].nonExploredCnt # 1
             /\ k \notin Above(new, m)
  <2>1. /\ tr[k].nonExploredCnt = 0 \/ Spare(tr, A, 0, k)
        /\ k # p => tr[k].nonExploredCnt # 1
    BY DEF Open, Above
  <2>2. \A c \in Waiting(tr, k) : c # m
    <3>1. \A c \in Waiting(tr, k) : c \in DOMAIN tr
      BY Families DEF Waiting
    <3> QED  BY <1>2, <1>6, <1>8, <3>1
  <2>3. Spare(tr, A, 0, k) => Spare(new, A, m, k)
    BY <1>2, <2>2 DEF Spare
  <2>4. k \notin Above(new, m)
    BY <1>8 DEF Above
  <2> QED  BY <1>2, <2>1, <2>3, <2>4
<1>10. ASSUME NEW k \in K
       PROVE  new[k].nonExploredCnt = 0 /\ k \notin Above(new, m)
  <2>1. k # n
    BY <1>2
  <2> QED  BY <1>3, <1>8, <2>1 DEF Above
<1>11. /\ n \notin Above(new, m) =>
              /\ new[n].nonExploredCnt = 0 \/ Spare(new, A, m, n)
              /\ new[n].nonExploredCnt # 1
       /\ n \in Above(new, m) => new[n].nonExploredCnt = 1
  <2>1. new[n].nonExploredCnt = Len(parts)
    <3>1. Cardinality(K) = Len(parts)
      <4>1. /\ Sum(Sizes(new), NewIds(tr, parts)) =
                   Sum(PartSizes(parts), DOMAIN parts)
            /\ Sum(Amounts(new), NewIds(tr, parts)) =
                   Sum(PartAmounts(parts), DOMAIN parts)
            /\ Cardinality(NewIds(tr, parts)) = Len(parts)
            /\ Sum(Sizes(new), NewIds(tr, parts)) \in Int
        BY SumsOfParts
      <4> QED  BY <4>1 DEF K
    <3>2. Balanced(new, n)
      BY <1>2 DEF Tree
    <3> QED  BY <1>2, <3>1, <3>2 DEF Balanced
  <2>2. CASE m = 0
    <3>1. Len(parts) # 1
      BY <1>2, <1>6, <2>2 DEF K
    <3>2. PICK c \in K : TRUE
      <4>1. K # {}
        BY <1>1, NodeType DEF AfterCut, K, Tree
      <4> QED  BY <4>1
    <3>3. c \notin A /\ c # m
      BY <1>2, <1>5, <1>6, <2>2, <3>2
    <3>4. Spare(new, A, m, n)
      BY <1>2, <3>3 DEF Spare
    <3>5. n \notin Above(new, m)
      BY <2>2 DEF Above
    <3> QED  BY <2>1, <3>1, <3>4, <3>5
  <2>3. CASE m # 0
    BY <1>8, <2>1, <2>3 DEF K
  <2> QED  BY <2>2, <2>3
<1>12. Open(new, A, m, p)
  <2>1. \A k \in DOMAIN new : k \in K \/ k \in DOMAIN tr \ {n} \/ k = n
    BY <1>2
  <2> QED  BY <1>9, <1>10, <1>11, <2>1 DEF Open
<1> QED  BY <1>7, <1>12

LEMMA QueuedCut ==
    ASSUME NEW s \in Clients, Tree(s.tree), NEW n \in DOMAIN s.tree,
           Leaf(s.tree, n), NEW parts \in Seq(Areas),
           Len(parts) \in Nat \ {0}, Queued(s, {}), NEW t,
           t.queue = s.queue, CutInto(s.tree, n, parts, t.tree)
    PROVE  Queued(t, {n}) /\ n \notin ToSet(t.queue)
<1> DEFINE tr == s.tree
           new == t.tree
<1>1. AfterCut(tr, n, parts, new)
  BY KidsCut
<1>2. /\ DOMAIN new = DOMAIN tr \cup NewIds(tr, parts)
      /\ \A c \in NewIds(tr, parts) : Leaf(new, c)
      /\ \A k \in DOMAIN tr \ {n} : new[k] = tr[k] /\ (Leaf(new, k) <=> Leaf(tr, k))
  BY <1>1 DEF AfterCut
<1>3. /\ \A k \in ToSet(s.queue) : k \in DOMAIN tr /\ Worth(tr, k)
      /\ SortedBy(s, s.queue)
      /\ \A k \in DOMAIN tr : Worth(tr, k) => k \in ToSet(s.queue)
  BY DEF Queued
<1>4. ~Worth(tr, n)
  BY DEF Worth
<1>5. ASSUME NEW k \in DOMAIN tr \ {n}
      PROVE  SameKeys(tr, new, k) /\ (Worth(new, k) <=> Worth(tr, k))
  BY <1>2 DEF SameKeys, Worth
<1>6. \A k \in ToSet(s.queue) : k \in DOMAIN tr \ {n}
  BY <1>3, <1>4
<1>7. SortedBy(t, s.queue)
  <2>1. \A i \in DOMAIN s.queue : s.queue[i] \in ToSet(s.queue)
    BY DEF ToSet
  <2>2. \A i \in DOMAIN s.queue : SameKeys(s.tree, t.tree, s.queue[i])
    BY <1>5, <1>6, <2>1
  <2> QED  BY <1>3, <2>2, KeysKept
<1>8. \A k \in ToSet(t.queue) : k \in DOMAIN new /\ Worth(new, k)
  BY <1>2, <1>3, <1>5, <1>6
<1>9. ASSUME NEW k \in DOMAIN new \ {n}, Worth(new, k)
      PROVE  k \in ToSet(t.queue)
  <2>1. k \in DOMAIN tr
    BY <1>2, <1>9 DEF Worth
  <2> QED  BY <1>3, <1>5, <1>9, <2>1
<1> QED  BY <1>6, <1>7, <1>8, <1>9 DEF Queued

LEMMA HandedCut ==
    ASSUME NEW s, Handed(s, 0), NEW tr, s.tree = tr, Tree(tr),
           NEW t, t.found = s.found, NEW n \in DOMAIN tr,
           NEW parts, CutInto(tr, n, parts, t.tree),
           DOMAIN tr \subseteq DOMAIN t.tree, NEW m, m \notin DOMAIN tr
    PROVE  Handed(t, m)
<1> DEFINE new == t.tree
<1>1. ASSUME NEW i \in DOMAIN s.found
      PROVE  \E k \in DOMAIN new \ {m} :
                 /\ new[k].explored /\ Size(new[k].area) = 1
                 /\ s.found[i] = [cell |-> <<new[k].area.x, new[k].area.y>>,
                                  amount |-> new[k].actual]
  <2>1. PICK k \in DOMAIN tr :
             /\ tr[k].explored /\ Size(tr[k].area) = 1
             /\ s.found[i] = [cell |-> <<tr[k].area.x, tr[k].area.y>>,
                              amount |-> tr[k].actual]
    BY DEF Handed
  <2>2. /\ new[k].explored = tr[k].explored /\ new[k].area = tr[k].area
        /\ new[k].actual = tr[k].actual
    BY DEF CutInto
  <2> QED  BY <2>1, <2>2
<1>2. \A i, j \in DOMAIN s.found : s.found[i].cell = s.found[j].cell => i = j
  BY DEF Handed
<1> QED  BY <1>1, <1>2 DEF Handed

LEMMA CreateSound ==
    ASSUME NEW s, NEW A, NEW p, Sound(s, A, 0, p), Handed(s, 0),
           NEW n \in DOMAIN s.tree, Leaf(s.tree, n),
           n = Root \/ (s.tree[n].explored /\ Size(s.tree[n].area) > 1),
           s.tree[n].actual # 0, n # p
    PROVE  Outcome(s, A, p, n, CreateSubAreas(s, n))
<1> DEFINE tr == s.tree
           parts == Parts(tr, n)
           new == Cut(tr, n, parts, Len(parts))
           t == AddChildren(s, n, parts)
           K == NewIds(tr, parts)
           c == Remaining(new, n)
<1>1. /\ s \in Clients /\ Tree(tr) /\ Queued(s, {}) /\ Flight(tr, A, 0)
      /\ Open(tr, A, 0, p) /\ p \in DOMAIN tr \cup {0}
  BY DEF Sound, Above
<1>2. tr[n].exploreDepth + 1 \in DOMAIN ExploreAreas
  <2>1. n = Root \/ Size(tr[n].area) > 1
    OBVIOUS
  <2> QED  BY <1>1, <2>1, RowLeft
<1>3. parts \in Seq(Areas) /\ Len(parts) \in Nat \ {0}
  BY <1>1, <1>2, PartsOf
<1>4. CutInto(tr, n, parts, new)
  <2>1. tr \in Seq(Nodes)
    BY <1>1 DEF Tree
  <2> QED  BY <1>3, <2>1, CutIs
<1>5. t = WithTree(s, new)
  BY DEF AddChildren, WithTree
<1>6. CreateSubAreas(s, n) =
          IF t.tree[n].nonExploredCnt = 1
          THEN Call(t, Remaining(t.tree, n), Left(t, n))
          ELSE Return(AddExploreArea(t, n))
  BY DEF CreateSubAreas, Parts, LastNonExploredChild, Remaining
<1> HIDE DEF new, t, parts, c
<1>7. Tree(new)
  BY <1>1, <1>4, TreeCut DEF parts
<1>8. /\ t \in Clients /\ t.tree = new /\ t.queue = s.queue
      /\ t.calls = s.calls /\ t.found = s.found /\ t.status = s.status
  <2>1. new \in Seq(Nodes)
    BY <1>7 DEF Tree
  <2> QED  BY <1>1, <1>5, <2>1, TreeReplaced
<1>9. AfterCut(tr, n, parts, new)
  BY <1>1, <1>3, <1>4, KidsCut
<1>10. /\ DOMAIN new = DOMAIN tr \cup K /\ DOMAIN tr \cap K = {}
       /\ Grown(tr, new) /\ ~Leaf(new, n) /\ Explored(new, n) = {}
       /\ Waiting(new, n) = K /\ n \in DOMAIN new
       /\ \A k \in K : /\ k \in Nat
                       /\ new[k].exploreDepth = tr[n].exploreDepth + 1
  <2>1. \A k \in K : Fresh(new[k], n, parts[k - Len(tr)], tr[n].exploreDepth + 1)
    BY <1>9 DEF AfterCut
  <2>2. \A k \in K : new[k].exploreDepth = tr[n].exploreDepth + 1
    BY <2>1 DEF Fresh
  <2>3. /\ DOMAIN new = DOMAIN tr \cup K /\ DOMAIN tr \cap K = {}
        /\ Grown(tr, new) /\ ~Leaf(new, n) /\ Explored(new, n) = {}
        /\ Waiting(new, n) = K
    BY <1>9 DEF AfterCut
  <2>4. \A k \in DOMAIN new : k \in Nat
    BY <1>7, NodeType DEF Tree
  <2> QED  BY <2>2, <2>3, <2>4
<1>11. Queued(t, {n}) /\ n \notin ToSet(t.queue)
  BY <1>1, <1>3, <1>4, <1>8, QueuedCut
<1>12. Kept(s, t)
  BY <1>8, <1>10 DEF Kept
<1>13. new[n].nonExploredCnt = Len(parts)
  <2>1. /\ Sum(Sizes(new), NewIds(tr, parts)) =
               Sum(PartSizes(parts), DOMAIN parts)
        /\ Sum(Amounts(new), NewIds(tr, parts)) =
               Sum(PartAmounts(parts), DOMAIN parts)
        /\ Cardinality(NewIds(tr, parts)) = Len(parts)
        /\ Sum(Sizes(new), NewIds(tr, parts)) \in Int
    BY <1>1, <1>3, <1>4, SumsOfParts
  <2>2. Balanced(new, n)
    BY <1>7, <1>10 DEF Tree
  <2> QED  BY <1>10, <2>1, <2>2 DEF Balanced
<1>14. 0 \notin DOMAIN tr
  BY <1>1, NodeType DEF Tree
<1>15. CASE Len(parts) = 1
  <2>1. c \in Kids(new, n) /\ ~new[c].explored /\ Waiting(new, n) = {c}
    BY <1>7, <1>10, <1>13, <1>15, LastPart DEF c
  <2>2. c \in K /\ c # 0 /\ c \notin DOMAIN tr
    <3>1. c \in K
      BY <1>10, <2>1
    <3>2. c # 0
      BY <1>7, <1>10, <3>1, NodeType DEF Tree
    <3> QED  BY <1>10, <3>1, <3>2
  <2>3. Flight(new, A, c) /\ Open(new, A, c, p)
    BY <1>1, <1>3, <1>4, <1>7, <1>15, <2>2, OpenCut
  <2>4. Handed(t, c)
    BY <1>1, <1>4, <1>8, <1>10, <2>2, HandedCut
  <2>10. new[c].parent = n
    BY <1>7, <1>10, <2>1, ChildOf
  <2>5. Above(new, c) = {n}
    BY <2>2, <2>10 DEF Above
  <2>6. c # p
    BY <1>1, <2>2
  <2>7. Tidy(t, A, c, p)
    BY <1>1, <1>7, <1>8, <1>10, <1>11, <2>3, <2>4, <2>5, <2>6 DEF Tidy, Sound
  <2> DEFINE call == Call(t, c, Left(t, n))
  <2>8. CreateSubAreas(s, n) = call
    BY <1>6, <1>8, <1>13, <1>15 DEF c
  <2>9. /\ call.client = t /\ call.area = c
        /\ call.amount = Due(new, new[c].parent, c)
    BY <1>8, <2>1, <2>10 DEF Call, Left, Due
  <2> HIDE DEF call
  <2> QED  BY <1>8, <1>10, <1>12, <2>1, <2>2, <2>7, <2>8, <2>9 DEF Outcome
<1>16. CASE Len(parts) # 1
  <2>1. Flight(new, A, 0) /\ Open(new, A, 0, p)
    BY <1>1, <1>3, <1>4, <1>7, <1>16, OpenCut
  <2>2. Worth(new, n)
    <3>1. new[n].exploredTreasures = 0
      <4>1. Balanced(new, n) /\ Waiting(new, n) # {}
        BY <1>7, <1>9, <1>10, NodeType DEF Tree, AfterCut
      <4> QED  BY <1>10, <4>1, SumEmpty DEF Balanced, Complete
    <3>2. new[n].actual = tr[n].actual
      BY <1>4 DEF CutInto
    <3>3. tr[n].actual \in Int
      BY <1>1, NodeType DEF Tree
    <3> QED  BY <1>10, <3>1, <3>2, <3>3 DEF Worth
  <2> DEFINE r == AddExploreArea(t, n)
  <2>3. SameButQueue(t, r) /\ Queued(r, {n} \ {n})
    BY <1>7, <1>8, <1>10, <1>11, <2>2, AreaAdded
  <2>4. {n} \ {n} = {}
    OBVIOUS
  <2> HIDE DEF r
  <2>5. /\ r \in Clients /\ r.tree = new /\ r.calls = s.calls
        /\ r.found = s.found /\ r.status = s.status
    BY <1>8, <2>3 DEF SameButQueue
  <2>6. Handed(r, 0)
    BY <1>1, <1>4, <1>10, <1>14, <2>5, HandedCut
  <2>7. Tidy(r, A, 0, p)
    BY <1>1, <1>7, <1>10, <2>1, <2>3, <2>4, <2>5, <2>6 DEF Tidy, Sound, Above
  <2>8. Kept(s, r)
    BY <1>10, <2>5 DEF Kept
  <2>9. CreateSubAreas(s, n) = Return(r)
    BY <1>6, <1>8, <1>13, <1>16 DEF r
  <2>10. Return(r).client = r /\ Return(r).area = 0
    BY DEF Return, Call
  <2> QED  BY <2>7, <2>8, <2>9, <2>10 DEF Outcome
<1> QED  BY <1>15, <1>16

-----------------------------------------------------------------------------
(***************************************************************************)
(* processExploredArea                                                     *)
(***************************************************************************)
Ready(call, A, p) ==
    /\ Tidy(call.client, A, call.area, p) /\ call.area \in Nat
    /\ call.area # 0 =>
           call.amount = Due(call.client.tree,
                             call.client.tree[call.area].parent, call.area)

LEMMA ProcessSound ==
    ASSUME NEW call, NEW A, NEW p, Ready(call, A, p), call.area # 0
    PROVE  Outcome(call.client, A, p, call.area, Process(call))
<1> DEFINE s == call.client
           n == call.area
           amount == Due(s.tree, s.tree[n].parent, n)
           r == SetExplored(s, n, amount)
           end == Process(call)
           tr == r.tree
<1>1. Tidy(s, A, n, p) /\ n \in Nat \ {0} /\ call.amount = amount
  BY DEF Ready
<1>2. ~s.tree[n].explored /\ n # p
  BY <1>1 DEF Tidy, Sound, Flight
<1>3. end = Pursue(r, n)
  BY <1>1, <1>2 DEF Process
<1>4. Settled(s, A, n, p, r)
  BY <1>1, SetExploredSound
<1> HIDE DEF s, n, amount, r, end
<1>5. /\ Sound(r, A, 0, p) /\ Handed(r, n) /\ Kept(s, r) /\ Tree(tr)
      /\ n \in DOMAIN tr /\ tr[n].explored /\ Leaf(tr, n)
      /\ tr[n].area \in Areas
  <2>1. Tree(tr) /\ n \in DOMAIN tr
    BY <1>4 DEF Settled, Sound
  <2>2. tr[n].area \in Areas
    BY <2>1, NodeType DEF Tree
  <2> QED  BY <1>4, <2>1, <2>2 DEF Settled
<1>6. Handed(r, 0)
  <2>1. 0 \notin DOMAIN tr
    BY <1>5, NodeType DEF Tree
  <2> QED  BY <1>5, <2>1 DEF Handed
<1>7. CASE tr[n].actual = 0
  <2>1. end = Return(r)
    BY <1>3, <1>7 DEF Pursue
  <2>2. end.client = r /\ end.area = 0
    BY <2>1 DEF Return, Call
  <2> QED  BY <1>5, <1>6, <2>2 DEF Outcome, Tidy, s, n, end
<1>8. CASE tr[n].actual # 0 /\ Size(tr[n].area) = 1
  <2> DEFINE d == StartDigging(r, tr[n].area, tr[n].actual)
  <2>1. Tidy(d, A, 0, p) /\ Kept(s, d)
    BY <1>1, <1>4, <1>8, DigSound
  <2>2. end = Return(d)
    BY <1>3, <1>8 DEF Pursue
  <2> HIDE DEF d
  <2>3. end.client = d /\ end.area = 0
    BY <2>2 DEF Return, Call
  <2> QED  BY <2>1, <2>3 DEF Outcome, s, n, end
<1>9. CASE tr[n].actual # 0 /\ Size(tr[n].area) # 1
  <2>1. Size(tr[n].area) > 1
    BY <1>5, <1>9, SizeType
  <2>2. end = CreateSubAreas(r, n)
    BY <1>3, <1>9 DEF Pursue
  <2>3. Outcome(r, A, p, n, end)
    BY <1>2, <1>5, <1>6, <1>9, <2>1, <2>2, CreateSound
  <2>4. tr[n].exploreDepth = s.tree[n].exploreDepth
    <3>1. n \in DOMAIN s.tree
      BY <1>1 DEF Tidy, Sound, Flight
    <3> QED  BY <1>5, <3>1 DEF Kept, Grown
  <2>5. Kept(s, end.client)
    BY <1>5, <2>3, GrownTwice DEF Outcome
  <2>6. Outcome(s, A, p, n, end)
    BY <2>3, <2>4, <2>5 DEF Outcome
  <2> QED  BY <2>6 DEF s, n, end
<1> QED  BY <1>7, <1>8, <1>9

\* the calls that one call leads to
AreCalls(after, call, n) ==
    after = [k \in 0..n |-> IF k = 0 THEN call ELSE Process(after[k - 1])]

LEMMA AllIsChosen ==
    ASSUME NEW call
    PROVE  ProcessAll(call) =
               (CHOOSE after : AreCalls(after, call, Len(ExploreAreas)))
                   [Len(ExploreAreas)].client
BY Zenon DEF ProcessAll, AreCalls

LEMMA CallsExist ==
    ASSUME NEW call, NEW n \in Nat
    PROVE  \E after : AreCalls(after, call, n)
<1> DEFINE Def(g, k) == IF k = 0 THEN call ELSE Process(g[k - 1])
           P == {m \in Nat : \E g : g = [k \in 0..m |-> Def(g, k)]}
<1>1. 0 \in P
  <2> DEFINE g == [k \in 0..0 |-> call]
  <2>1. \A k \in 0..0 : k = 0
    OBVIOUS
  <2>2. g = [k \in 0..0 |-> Def(g, k)]
    BY <2>1
  <2> QED  BY <2>2
<1>2. ASSUME NEW m \in Nat, m \in P PROVE m + 1 \in P
  <2>1. PICK g : g = [k \in 0..m |-> Def(g, k)]
    BY <1>2
  <2> DEFINE h == [k \in 0..(m + 1) |-> IF k \in 0..m THEN g[k] ELSE Def(g, k)]
  <2>2. ASSUME NEW k \in 0..(m + 1) PROVE h[k] = Def(h, k)
    <3>1. k \in 0..m => g[k] = Def(g, k)
      BY <2>1
    <3>2. h[k] = Def(g, k)
      BY <3>1
    <3>3. CASE k = 0
      BY <3>2, <3>3
    <3>4. CASE k # 0
      <4>1. k - 1 \in 0..m /\ k - 1 \in 0..(m + 1)
        BY <3>4
      <4>2. h[k - 1] = g[k - 1]
        BY <4>1
      <4> QED  BY <3>2, <3>4, <4>2
    <3> QED  BY <3>3, <3>4
  <2>3. h = [k \in 0..(m + 1) |-> Def(h, k)]
    BY <2>2
  <2>4. \E f : f = [k \in 0..(m + 1) |-> Def(f, k)]
    <3> HIDE DEF h, Def
    <3> QED  BY <2>3
  <2> HIDE DEF h, Def
  <2> QED  BY <2>4
<1>3. Nat \subseteq P
  <2> HIDE DEF P
  <2> QED  BY <1>1, <1>2, SetInduction
<1>4. PICK g : g = [k \in 0..n |-> Def(g, k)]
  BY <1>3
<1> QED  BY <1>4 DEF AreCalls

LEMMA AllSound ==
    ASSUME NEW call, NEW A, NEW p, Ready(call, A, p)
    PROVE  /\ Tidy(ProcessAll(call), A, 0, p)
           /\ Kept(call.client, ProcessAll(call))
<1> DEFINE N == Len(ExploreAreas)
           f == CHOOSE after : AreCalls(after, call, N)
           Good(k) == /\ Ready(f[k], A, p)
                      /\ Kept(call.client, f[k].client)
                      /\ f[k].area # 0 =>
                             f[k].client.tree[f[k].area].exploreDepth > k
           P == {k \in Nat : k <= N => Good(k)}
<1>1. N \in Nat /\ DOMAIN ExploreAreas = 1..N
  <2>1. ExploreAreas \in Seq([height : Lengths, width : Lengths])
    BY SubAreasAssumption DEF Lengths
  <2> QED  BY <2>1, LenProperties
<1>2. AreCalls(f, call, N)
  BY <1>1, CallsExist
<1>3. ProcessAll(call) = f[N].client
  BY AllIsChosen
<1> HIDE DEF f, N
<1>4. /\ f[0] = call
      /\ \A k \in 0..N : k # 0 => f[k] = Process(f[k - 1])
  <2>1. f = [k \in 0..N |-> IF k = 0 THEN call ELSE Process(f[k - 1])]
    BY <1>2 DEF AreCalls
  <2>2. 0 \in 0..N
    BY <1>1
  <2> QED  BY <2>1, <2>2
<1>5. ASSUME NEW c, Ready(c, A, p), c.area # 0
      PROVE  /\ c.client.tree[c.area].exploreDepth \in 1..N
  <2>1. Tree(c.client.tree) /\ c.area \in DOMAIN c.client.tree \ {Root}
    BY <1>5 DEF Ready, Tidy, Sound, Flight
  <2> QED  BY <1>1, <2>1 DEF Tree, Placed
<1>6. 0 \in P
  <2>1. Ready(f[0], A, p)
    BY <1>4
  <2>2. Kept(call.client, f[0].client)
    BY <1>4, GrownSame
  <2>3. f[0].area # 0 => f[0].client.tree[f[0].area].exploreDepth > 0
    BY <1>1, <1>5, <2>1
  <2> QED  BY <2>1, <2>2, <2>3
<1>7. ASSUME NEW k \in Nat, k \in P PROVE k + 1 \in P
  <2> SUFFICES ASSUME k + 1 <= N PROVE Good(k + 1)
    OBVIOUS
  <2>1. Good(k) /\ f[k + 1] = Process(f[k])
    <3>1. k + 1 \in 0..N /\ k + 1 # 0 /\ (k + 1) - 1 = k /\ k <= N
      BY <1>1
    <3> QED  BY <1>4, <1>7, <3>1
  <2> DEFINE c == f[k]
             d == f[k + 1]
  <2>2. /\ Ready(c, A, p) /\ Kept(call.client, c.client) /\ d = Process(c)
        /\ c.area # 0 => c.client.tree[c.area].exploreDepth > k
    BY <2>1
  <2> HIDE DEF c, d
  <2>3. CASE c.area = 0
    <3>1. d = c
      BY <2>2, <2>3 DEF Process
    <3> QED  BY <2>2, <2>3, <3>1 DEF d
  <2>4. CASE c.area # 0
    <3>1. Outcome(c.client, A, p, c.area, d)
      BY <2>2, <2>4, ProcessSound
    <3>2. Ready(d, A, p)
      BY <3>1 DEF Outcome, Ready
    <3>3. Kept(call.client, d.client)
      BY <2>2, <3>1, GrownTwice DEF Outcome
    <3>4. c.client.tree[c.area].exploreDepth \in Nat
      BY <1>1, <1>5, <2>2, <2>4
    <3>5. d.area # 0 => d.client.tree[d.area].exploreDepth > k + 1
      BY <2>2, <2>4, <3>1, <3>4 DEF Outcome
    <3> QED  BY <3>2, <3>3, <3>5 DEF d
  <2> QED  BY <2>3, <2>4
<1>8. Good(N)
  <2>1. Nat \subseteq P
    <3> HIDE DEF P
    <3> QED  BY <1>6, <1>7, SetInduction
  <2> QED  BY <1>1, <2>1
<1>9. f[N].area = 0
  <2>1. Ready(f[N], A, p)
    BY <1>8
  <2>2. f[N].area # 0 => f[N].client.tree[f[N].area].exploreDepth > N
    BY <1>8
  <2>3. f[N].area # 0 => f[N].client.tree[f[N].area].exploreDepth \in 1..N
    BY <1>5, <2>1
  <2> QED  BY <1>1, <2>2, <2>3
<1>10. Ready(f[N], A, p) /\ Kept(call.client, f[N].client)
  BY <1>8
<1> QED  BY <1>3, <1>9, <1>10 DEF Ready

LEMMA DeduceReady ==
    ASSUME NEW s, NEW A, NEW p, Tidy(s, A, 0, p), p \in DOMAIN s.tree,
           s.tree[p].nonExploredCnt = 1
    PROVE  Ready(Call(s, LastNonExploredChild(s, p), Left(s, p)), A, 0)
<1> DEFINE tr == s.tree
           c == Remaining(tr, p)
           call == Call(s, LastNonExploredChild(s, p), Left(s, p))
<1>1. /\ s \in Clients /\ Tree(tr) /\ Queued(s, {}) /\ Flight(tr, A, 0)
      /\ Open(tr, A, 0, p) /\ Handed(s, 0)
  BY DEF Tidy, Sound, Above
<1>2. /\ c \in Kids(tr, p) /\ ~tr[c].explored /\ Waiting(tr, p) = {c}
  BY <1>1, LastPart
<1>12. tr[c].parent = p
  BY <1>1, <1>2, ChildOf
<1>3. call.client = s /\ call.area = c /\ call.amount = Due(tr, tr[c].parent, c)
  BY <1>2, <1>12 DEF Call, LastNonExploredChild, Remaining, Left, Due
<1> HIDE DEF c, call
<1>4. c \in DOMAIN tr \ {Root} /\ c # p /\ c \in Nat \ {0} /\ tr[c].parent = p
  BY <1>1, <1>2, ChildOf
<1>5. Above(tr, c) = {p} /\ Above(tr, 0) = {}
  BY <1>4 DEF Above
<1>6. c \notin A
  <2>1. Spare(tr, A, 0, p)
    BY <1>1 DEF Open
  <2> QED  BY <1>2, <2>1 DEF Spare
<1>7. Flight(tr, A, c)
  BY <1>1, <1>2, <1>4, <1>6, NodeType DEF Flight, Tree
<1>8. Open(tr, A, c, 0)
  <2> SUFFICES ASSUME NEW k \in DOMAIN tr
               PROVE  /\ k \notin Above(tr, c) \/ k = 0
                             => tr[k].nonExploredCnt = 0 \/ Spare(tr, A, c, k)
                      /\ k \notin Above(tr, c) /\ k # 0 => tr[k].nonExploredCnt # 1
                      /\ k \in Above(tr, c) /\ k # 0 => tr[k].nonExploredCnt = 1
    BY DEF Open
  <2>1. k # 0
    BY <1>1, NodeType DEF Tree
  <2>2. CASE k = p
    BY <1>5, <2>1, <2>2
  <2>3. CASE k # p
    <3>1. /\ tr[k].nonExploredCnt = 0 \/ Spare(tr, A, 0, k)
          /\ tr[k].nonExploredCnt # 1
      BY <1>1, <1>5, <2>3 DEF Open
    <3>2. c \notin Waiting(tr, k)
      <4>1. \A i \in DOMAIN tr : c \in Kids(tr, i) => i = p
        BY <1>1, <1>4, Families
      <4> QED  BY <2>3, <4>1 DEF Waiting
    <3>3. Spare(tr, A, 0, k) => Spare(tr, A, c, k)
      BY <3>2 DEF Spare
    <3> QED  BY <1>5, <2>3, <3>1, <3>3
  <2> QED  BY <2>2, <2>3
<1>9. Handed(s, c)
  BY <1>1, <1>2 DEF Handed
<1>10. Queued(s, {p})
  BY <1>1 DEF Queued
<1>11. Tidy(s, A, c, 0)
  BY <1>1, <1>4, <1>5, <1>7, <1>8, <1>9, <1>10 DEF Tidy, Sound
<1> QED  BY <1>3, <1>4, <1>11 DEF Ready, call

\* what was answered is recorded, and the last part is deduced
Deduced(s, n, amount) ==
    LET t == ProcessExploredArea(s, n, amount)
        p == t.tree[n].parent
    IN  IF t.tree[p].nonExploredCnt = 1
        THEN ProcessExploredArea(t, LastNonExploredChild(t, p), Left(t, p))
        ELSE t

LEMMA DeducedSound ==
    ASSUME NEW s, NEW B, Tidy(s, B, 0, 0), NEW n \in B
    PROVE  /\ Tidy(Deduced(s, n, Amount(s.tree[n].area)), B \ {n}, 0, 0)
           /\ Kept(s, Deduced(s, n, Amount(s.tree[n].area)))
<1> DEFINE A == B \ {n}
           tr == s.tree
           amount == Amount(tr[n].area)
           p == tr[n].parent
           call == Call(s, n, amount)
           t == ProcessExploredArea(s, n, amount)
           u == Deduced(s, n, amount)
<1>0. n \notin A /\ A \cup {n} = B /\ n \in DOMAIN tr \ {Root}
  BY DEF Tidy, Sound, Flight
<1> HIDE DEF A
<1>1. /\ s \in Clients /\ Tree(tr) /\ Queued(s, {}) /\ Flight(tr, A \cup {n}, 0)
      /\ Open(tr, A \cup {n}, 0, 0) /\ Handed(s, 0)
      /\ n \in Nat \ {0} /\ 0 \notin DOMAIN tr
  <2>1. Tree(tr)
    BY DEF Tidy, Sound
  <2>2. n \in Nat \ {0} /\ 0 \notin DOMAIN tr
    BY <1>0, <2>1, NodeType DEF Tree
  <2> QED  BY <1>0, <2>2 DEF Tidy, Sound, Above
<1>2. ~tr[n].explored
  BY <1>1 DEF Flight
<1>3. p \in DOMAIN tr \ {n} /\ n \in Kids(tr, p)
  BY <1>0, <1>1, Families
<1>4. Above(tr, n) = {p} /\ Above(tr, 0) = {}
  BY <1>1 DEF Above
<1> HIDE DEF p
<1>5. Flight(tr, A, n)
  BY <1>0, <1>1, <1>2 DEF Flight
<1>6. Open(tr, A, n, p)
  <2> SUFFICES ASSUME NEW k \in DOMAIN tr
               PROVE  /\ k \notin Above(tr, n) \/ k = p
                             => tr[k].nonExploredCnt = 0 \/ Spare(tr, A, n, k)
                      /\ k \notin Above(tr, n) /\ k # p => tr[k].nonExploredCnt # 1
                      /\ k \in Above(tr, n) /\ k # p => tr[k].nonExploredCnt = 1
    BY DEF Open
  <2>1. /\ tr[k].nonExploredCnt = 0 \/ Spare(tr, A \cup {n}, 0, k)
        /\ k # 0 => tr[k].nonExploredCnt # 1
    BY <1>1, <1>4 DEF Open
  <2>2. Spare(tr, A \cup {n}, 0, k) => Spare(tr, A, n, k)
    BY DEF Spare
  <2> QED  BY <1>1, <1>4, <2>1, <2>2
<1>7. Handed(s, n)
  BY <1>1, <1>2 DEF Handed
<1>8. Queued(s, {p})
  BY <1>1 DEF Queued
<1>9. Tidy(s, A, n, p)
  BY <1>1, <1>3, <1>4, <1>5, <1>6, <1>7, <1>8 DEF Tidy, Sound
<1>16. amount = Due(tr, tr[n].parent, n)
  <2>1. Spare(tr, A \cup {n}, 0, p)
    <3>1. tr[p].nonExploredCnt # 0
      <4>1. n \in Waiting(tr, p) /\ IsFiniteSet(Waiting(tr, p))
        BY <1>1, <1>2, <1>3, LeftIsSum DEF Waiting
      <4>2. tr[p].nonExploredCnt = Cardinality(Waiting(tr, p))
        BY <1>1, <1>3 DEF Tree, Balanced
      <4> QED  BY <4>1, <4>2, FS_EmptySet
    <3> QED  BY <1>1, <1>3, <1>4, <3>1 DEF Open
  <2>2. Waiting(tr, p) # {n}
    BY <2>1 DEF Spare
  <2> QED  BY <2>2 DEF Due, p
<1>10. Ready(call, A, p)
  <2>1. call.client = s /\ call.area = n /\ call.amount = amount
    BY DEF Call
  <2> HIDE DEF call, amount
  <2> QED  BY <1>1, <1>9, <1>16, <2>1 DEF Ready
<1>11. call.client = s /\ t = ProcessAll(call)
  BY DEF Call, ProcessExploredArea
<1> HIDE DEF call, amount, t
<1>12. Tidy(t, A, 0, p) /\ Kept(s, t)
  BY <1>10, <1>11, AllSound
<1>13. t.tree[n].parent = p /\ p \in DOMAIN t.tree
  BY <1>0, <1>3, <1>12 DEF Kept, Grown, p
<1>14. CASE t.tree[p].nonExploredCnt = 1
  <2> DEFINE next == Call(t, LastNonExploredChild(t, p), Left(t, p))
  <2>1. Ready(next, A, 0)
    BY <1>12, <1>13, <1>14, DeduceReady
  <2>2. u = ProcessAll(next) /\ next.client = t
    BY <1>13, <1>14 DEF Deduced, ProcessExploredArea, t, Call
  <2> HIDE DEF next, u
  <2>3. Tidy(u, A, 0, 0) /\ Kept(t, u)
    BY <2>1, <2>2, AllSound
  <2>4. Kept(s, u)
    BY <1>12, <2>3, GrownTwice
  <2> QED  BY <2>3, <2>4 DEF u, amount, A
<1>15. CASE t.tree[p].nonExploredCnt # 1
  <2>1. u = t
    BY <1>13, <1>15 DEF Deduced, t
  <2>2. Open(t.tree, A, 0, 0)
    <3>1. Open(t.tree, A, 0, p)
      BY <1>12 DEF Tidy, Sound
    <3>2. Above(t.tree, 0) = {}
      BY DEF Above
    <3> QED  BY <1>15, <3>1, <3>2 DEF Open
  <2>3. Tidy(t, A, 0, 0)
    BY <1>12, <2>2 DEF Tidy, Sound
  <2> QED  BY <1>12, <2>1, <2>3 DEF amount, A
<1> QED  BY <1>14, <1>15

-----------------------------------------------------------------------------
(***************************************************************************)
(* scheduleNextExplore                                                     *)
(***************************************************************************)
OnlyMarked(tr, new) ==
    /\ new \in Seq(Nodes) /\ DOMAIN new = DOMAIN tr
    /\ \A k \in DOMAIN tr :
           /\ new[k].parent = tr[k].parent /\ new[k].area = tr[k].area
           /\ new[k].exploreDepth = tr[k].exploreDepth
           /\ new[k].actual = tr[k].actual /\ new[k].explored = tr[k].explored
           /\ new[k].children = tr[k].children
           /\ new[k].childSwaps = tr[k].childSwaps
           /\ new[k].exploredTreasures = tr[k].exploredTreasures
           /\ new[k].nonExploredSize = tr[k].nonExploredSize
           /\ new[k].nonExploredCnt = tr[k].nonExploredCnt

LEMMA TreeMarked ==
    ASSUME NEW tr, Tree(tr), NEW new, OnlyMarked(tr, new)
    PROVE  /\ Tree(new) /\ Grown(tr, new)
           /\ \A k \in DOMAIN tr : Kids(new, k) = Kids(tr, k)
                                   /\ Waiting(new, k) = Waiting(tr, k)
<1>1. /\ new \in Seq(Nodes) /\ DOMAIN new = DOMAIN tr /\ Root \in DOMAIN tr
      /\ tr \in Seq(Nodes) /\ RootIs(tr) /\ LeavesApart(tr) /\ Told(tr)
      /\ \A k \in DOMAIN tr : /\ Kin(tr, k) /\ Placed(tr, k)
                             /\ Balanced(tr, k) /\ Inherits(tr, k)
  BY DEF OnlyMarked, Tree, RootIs
<1>2. \A k \in DOMAIN tr :
           /\ new[k].parent = tr[k].parent /\ new[k].area = tr[k].area
           /\ new[k].exploreDepth = tr[k].exploreDepth
           /\ new[k].actual = tr[k].actual /\ new[k].explored = tr[k].explored
           /\ new[k].children = tr[k].children
  BY DEF OnlyMarked
<1>3. \A k \in DOMAIN tr : \A c \in Kids(tr, k) : c \in DOMAIN tr
  BY Families
<1>4. ASSUME NEW k \in DOMAIN tr
      PROVE  /\ Kids(new, k) = Kids(tr, k) /\ (Leaf(new, k) <=> Leaf(tr, k))
             /\ Explored(new, k) = Explored(tr, k)
             /\ Waiting(new, k) = Waiting(tr, k)
             /\ Complete(new, k) <=> Complete(tr, k)
             /\ Off(new, k) = Off(tr, k) /\ (Known(new, k) <=> Known(tr, k))
  <2>1. Kids(new, k) = Kids(tr, k) /\ (Leaf(new, k) <=> Leaf(tr, k))
    BY <1>2 DEF Kids, Leaf
  <2>2. \A c \in Kids(tr, k) : new[c].explored = tr[c].explored
    BY <1>2, <1>3
  <2>3. Off(new, k) = Off(tr, k) /\ (Known(new, k) <=> Known(tr, k))
    BY <1>2 DEF Off, Known
  <2> QED  BY <2>1, <2>2, <2>3 DEF Explored, Waiting, Complete
<1>5. Amounts(new) = Amounts(tr) /\ Sizes(new) = Sizes(tr)
  BY <1>1, <1>2 DEF Amounts, Sizes
<1>8. Told(new)
  <2>1. \A k \in DOMAIN tr : Astray(new, k) <=> Astray(tr, k)
    BY <1>4 DEF Astray
  <2> QED  BY <1>1, <2>1 DEF Told
<1>6. RootIs(new) /\ LeavesApart(new) /\ Grown(tr, new)
  <2>1. RootIs(new)
    BY <1>1, <1>2 DEF RootIs
  <2>2. LeavesApart(new)
    BY <1>1, <1>2, <1>4 DEF LeavesApart
  <2>3. Grown(tr, new)
    BY <1>1, <1>2 DEF Grown
  <2> QED  BY <2>1, <2>2, <2>3
<1>7. ASSUME NEW k \in DOMAIN tr
      PROVE  Kin(new, k) /\ Placed(new, k) /\ Balanced(new, k) /\ Inherits(new, k)
  <2>1. Placed(new, k)
    BY <1>1, <1>2 DEF Placed
  <2>4. Inherits(new, k)
    <3>1. \A c \in Kids(tr, k) : c \in DOMAIN tr /\ Off(new, c) = Off(tr, c)
      BY <1>3, <1>4
    <3>2. Inherits(tr, k)
      BY <1>1
    <3>3. CASE ~Complete(tr, k)
      BY <1>4, <3>1, <3>2, <3>3 DEF Inherits, Explored
    <3>4. CASE Complete(tr, k)
      BY <1>4, <3>1, <3>2, <3>4 DEF Inherits
    <3> QED  BY <3>3, <3>4
  <2>2. Kin(new, k)
    <3>1. Kin(tr, k)
      BY <1>1
    <3>2. k # Root => new[k].parent \in DOMAIN new
                      /\ k \in Kids(new, new[k].parent)
      BY <1>1, <1>2, <1>4, <3>1 DEF Kin
    <3>3. \A c \in Kids(new, k) : /\ c \in DOMAIN new /\ new[c].parent = k
                                  /\ new[c].exploreDepth = new[k].exploreDepth + 1
      BY <1>1, <1>2, <1>4, <3>1 DEF Kin
    <3>4. \A i, j \in DOMAIN new[k].children :
              new[k].children[i] = new[k].children[j] => i = j
      BY <1>2, <3>1 DEF Kin
    <3>5. ~Leaf(new, k) => k = Root \/ (new[k].explored /\ Size(new[k].area) > 1)
      BY <1>2, <1>4, <3>1 DEF Kin
    <3> QED  BY <3>2, <3>3, <3>4, <3>5 DEF Kin
  <2>3. Balanced(new, k)
    <3>1. Balanced(tr, k)
      BY <1>1
    <3>2. /\ new[k].actual = tr[k].actual /\ new[k].explored = tr[k].explored
          /\ new[k].children = tr[k].children /\ new[k].area = tr[k].area
          /\ new[k].childSwaps = tr[k].childSwaps
          /\ new[k].exploredTreasures = tr[k].exploredTreasures
          /\ new[k].nonExploredSize = tr[k].nonExploredSize
          /\ new[k].nonExploredCnt = tr[k].nonExploredCnt
      BY DEF OnlyMarked
    <3>3. ASSUME NEW i \in DOMAIN new[k].children
          PROVE  new[new[k].children[i]].explored
                     <=> i > Len(new[k].children) - new[k].childSwaps
      <4>1. tr[k].children[i] \in DOMAIN tr
        BY <1>3, <3>2 DEF Kids, ToSet
      <4> QED  BY <1>2, <3>1, <3>2, <4>1 DEF Balanced
    <3>4. /\ tr[k].exploredTreasures = IF Complete(tr, k) THEN tr[k].actual
                                       ELSE Sum(Amounts(tr), Explored(tr, k))
          /\ tr[k].nonExploredSize = Sum(Sizes(tr), Waiting(tr, k))
          /\ tr[k].nonExploredCnt = Cardinality(Waiting(tr, k))
          /\ ~Leaf(tr, k) => Amount(tr[k].area) = Sum(Amounts(tr), Kids(tr, k))
          /\ Leaf(tr, k) => tr[k].childSwaps = 0
      BY <3>1 DEF Balanced
    <3> QED  BY <1>4, <1>5, <3>2, <3>3, <3>4 DEF Balanced
  <2> QED  BY <2>1, <2>2, <2>3, <2>4
<1> QED  BY <1>1, <1>4, <1>6, <1>7, <1>8 DEF Tree

\* the area is asked for
Requested(node) == [node EXCEPT !.requestInFlight = TRUE]
Asks(s, c) == [s EXCEPT !.tree[c].requestInFlight = TRUE, !.calls = @ \cup {c}]

LEMMA AsksIs ==
    ASSUME NEW s \in Clients, NEW c \in DOMAIN s.tree
    PROVE  /\ Asks(s, c) \in Clients
           /\ OnlyMarked(s.tree, Asks(s, c).tree)
           /\ Asks(s, c).tree[c].requestInFlight
           /\ \A k \in DOMAIN s.tree \ {c} : Asks(s, c).tree[k] = s.tree[k]
           /\ Asks(s, c).queue = s.queue /\ Asks(s, c).calls = s.calls \cup {c}
           /\ Asks(s, c).found = s.found /\ Asks(s, c).status = s.status
<1> DEFINE node == s.tree[c]
           x == Requested(node)
           new == With(s.tree, c, x)
           r == Asks(s, c)
<1>1. /\ s.tree \in Seq(Nodes) /\ node \in Nodes /\ c \in Nat
      /\ s.calls \in SUBSET Nat
  BY ClientType
<1>2. x = [node EXCEPT !.requestInFlight = TRUE]
  BY DEF Requested
<1>3. r = [s EXCEPT !.tree = [s.tree EXCEPT ![c] = x], !.calls = s.calls \cup {c}]
  BY <1>1, <1>2 DEF Asks, Clients
<1>4. r = [s EXCEPT !.tree = new, !.calls = s.calls \cup {c}]
  BY <1>3 DEF With
<1> HIDE DEF node, x, r
<1>5. /\ x \in Nodes /\ x.requestInFlight
      /\ x.parent = node.parent /\ x.area = node.area
      /\ x.exploreDepth = node.exploreDepth /\ x.actual = node.actual
      /\ x.explored = node.explored /\ x.children = node.children
      /\ x.childSwaps = node.childSwaps
      /\ x.exploredTreasures = node.exploredTreasures
      /\ x.nonExploredSize = node.nonExploredSize
      /\ x.nonExploredCnt = node.nonExploredCnt
  BY <1>1, <1>2 DEF Nodes
<1>6. /\ new \in Seq(Nodes) /\ Len(new) = Len(s.tree)
      /\ DOMAIN new = DOMAIN s.tree /\ new[c] = x
      /\ \A k \in DOMAIN s.tree \ {c} : new[k] = s.tree[k]
  BY <1>1, <1>5, NodeReplaced
<1> HIDE DEF new
<1>7. /\ r \in Clients /\ r.tree = new /\ r.queue = s.queue
      /\ r.calls = s.calls \cup {c} /\ r.found = s.found /\ r.status = s.status
  <2> DEFINE calling == s.calls \cup {c}
  <2>1. calling \in SUBSET Nat
    BY <1>1
  <2>2. r = [s EXCEPT !.tree = new, !.calls = calling]
    BY <1>4
  <2> HIDE DEF calling
  <2>3. /\ r \in Clients /\ r.tree = new /\ r.queue = s.queue
        /\ r.calls = calling /\ r.found = s.found /\ r.status = s.status
    BY <1>6, <2>1, <2>2 DEF Clients
  <2> QED  BY <2>3 DEF calling
<1>8. OnlyMarked(s.tree, new)
  BY <1>5, <1>6 DEF OnlyMarked, node
<1> QED  BY <1>5, <1>6, <1>7, <1>8 DEF r

LEMMA AskSound ==
    ASSUME NEW s, NEW A, Tidy(s, A, 0, 0), NEW n \in DOMAIN s.tree,
           NEW c \in Waiting(s.tree, n), NEW d \in Waiting(s.tree, n),
           c \notin A, d \notin A, c # d
    PROVE  Tidy(Asks(s, c), A \cup {c}, 0, 0)
<1> DEFINE tr == s.tree
           r == Asks(s, c)
           new == r.tree
           B == A \cup {c}
<1>1. /\ s \in Clients /\ Tree(tr) /\ Queued(s, {}) /\ Flight(tr, A, 0)
      /\ Open(tr, A, 0, 0) /\ Handed(s, 0)
  BY DEF Tidy, Sound, Above
<1>2. c \in Kids(tr, n) /\ ~tr[c].explored
  BY DEF Waiting
<1>3. c \in DOMAIN tr \ {Root} /\ \A k \in DOMAIN tr : c \in Kids(tr, k) => k = n
  <2>1. c \in DOMAIN tr \ {Root}
    BY <1>1, <1>2, Families
  <2>2. \A k \in DOMAIN tr : c \in Kids(tr, k) => k = tr[c].parent
    BY <1>1, <2>1, Families
  <2> QED  BY <1>2, <2>1, <2>2
<1>4. /\ r \in Clients /\ OnlyMarked(tr, new) /\ new[c].requestInFlight
      /\ \A k \in DOMAIN tr \ {c} : new[k] = tr[k]
      /\ r.queue = s.queue /\ r.found = s.found
  BY <1>1, <1>3, AsksIs
<1> HIDE DEF r
<1>5. /\ Tree(new)
      /\ \A k \in DOMAIN tr : Kids(new, k) = Kids(tr, k)
                              /\ Waiting(new, k) = Waiting(tr, k)
  BY <1>1, <1>4, TreeMarked
<1>6. /\ DOMAIN new = DOMAIN tr /\ 0 \notin DOMAIN tr
      /\ \A k \in DOMAIN tr :
             /\ new[k].area = tr[k].area /\ new[k].actual = tr[k].actual
             /\ new[k].explored = tr[k].explored
             /\ new[k].children = tr[k].children
             /\ new[k].exploredTreasures = tr[k].exploredTreasures
             /\ new[k].nonExploredSize = tr[k].nonExploredSize
             /\ new[k].nonExploredCnt = tr[k].nonExploredCnt
  <2>1. 0 \notin DOMAIN tr
    BY <1>1, NodeType DEF Tree
  <2> QED  BY <1>4, <2>1 DEF OnlyMarked
<1>7. Flight(new, B, 0)
  <2>1. \A k \in DOMAIN new : new[k].requestInFlight <=> k \in B
    BY <1>1, <1>3, <1>4, <1>6 DEF Flight
  <2>2. B \subseteq DOMAIN new /\ \A a \in B : a # Root /\ ~new[a].explored
    BY <1>1, <1>2, <1>3, <1>6 DEF Flight
  <2> QED  BY <2>1, <2>2 DEF Flight
<1>8. Open(new, B, 0, 0)
  <2> SUFFICES ASSUME NEW k \in DOMAIN new
               PROVE  /\ new[k].nonExploredCnt = 0 \/ Spare(new, B, 0, k)
                      /\ new[k].nonExploredCnt # 1
    BY <1>6 DEF Open, Above
  <2>1. /\ tr[k].nonExploredCnt = 0 \/ Spare(tr, A, 0, k)
        /\ tr[k].nonExploredCnt # 1
    BY <1>1, <1>6 DEF Open, Above
  <2>2. CASE k = n
    <3>1. d \in Waiting(new, k) /\ d \notin B /\ d # 0
      <4>1. d \in DOMAIN tr
        BY <1>1, Families DEF Waiting
      <4> QED  BY <1>5, <1>6, <2>2, <4>1
    <3> QED  BY <1>6, <2>1, <3>1 DEF Spare
  <2>3. CASE k # n
    <3>1. c \notin Waiting(tr, k)
      BY <1>3, <1>6, <2>3 DEF Waiting
    <3>2. Spare(tr, A, 0, k) => Spare(new, B, 0, k)
      BY <1>5, <1>6, <3>1 DEF Spare
    <3> QED  BY <1>6, <2>1, <3>2
  <2> QED  BY <2>2, <2>3
<1>9. Queued(r, {})
  <2>1. \A k \in DOMAIN tr : Worth(new, k) <=> Worth(tr, k)
    BY <1>6 DEF Worth, Leaf
  <2>2. \A k \in ToSet(s.queue) : k \in DOMAIN tr /\ Worth(tr, k)
    BY <1>1 DEF Queued
  <2>3. \A i \in DOMAIN s.queue : SameKeys(s.tree, r.tree, s.queue[i])
    BY <1>6, <2>2 DEF SameKeys, ToSet
  <2>4. SortedBy(s, s.queue)
    BY <1>1 DEF Queued
  <2>5. SortedBy(r, s.queue)
    BY <2>3, <2>4, KeysKept
  <2>6. \A k \in DOMAIN tr : Worth(tr, k) => k \in ToSet(s.queue)
    BY <1>1 DEF Queued
  <2> QED  BY <1>4, <1>6, <2>1, <2>2, <2>5, <2>6 DEF Queued
<1>10. Handed(r, 0)
  <2>1. ASSUME NEW i \in DOMAIN r.found
        PROVE  \E k \in DOMAIN new \ {0} :
                   /\ new[k].explored /\ Size(new[k].area) = 1
                   /\ r.found[i] = [cell |-> <<new[k].area.x, new[k].area.y>>,
                                    amount |-> new[k].actual]
    <3>1. PICK k \in DOMAIN tr \ {0} :
              /\ tr[k].explored /\ Size(tr[k].area) = 1
              /\ s.found[i] = [cell |-> <<tr[k].area.x, tr[k].area.y>>,
                               amount |-> tr[k].actual]
      BY <1>1, <1>4 DEF Handed
    <3>2. /\ new[k].area = tr[k].area /\ new[k].actual = tr[k].actual
          /\ new[k].explored = tr[k].explored
      BY <1>6
    <3> QED  BY <1>4, <1>6, <3>1, <3>2
  <2>2. \A i, j \in DOMAIN r.found : r.found[i].cell = r.found[j].cell => i = j
    BY <1>1, <1>4 DEF Handed
  <2> QED  BY <2>1, <2>2 DEF Handed
<1>11. Above(new, 0) = {}
  BY DEF Above
<1> QED  BY <1>4, <1>5, <1>7, <1>8, <1>9, <1>10, <1>11 DEF Tidy, Sound, r

\* a further area is asked for, unless there is none
Scheduled(s, A, r) ==
    /\ Grown(s.tree, r.tree) /\ r.found = s.found
    /\ \/ r.status = "crashed" /\ r.calls = s.calls /\ Tidy(r, A, 0, 0)
       \/ /\ r.status = s.status
          /\ \E c \in DOMAIN s.tree \ A : /\ r.calls = s.calls \cup {c}
                                          /\ Tidy(r, A \cup {c}, 0, 0)

LEMMA ScheduleSound ==
    ASSUME NEW s, NEW A, Tidy(s, A, 0, 0)
    PROVE  Scheduled(s, A, ScheduleNextExplore(s))
<1> DEFINE tr == s.tree
           able == {i \in DOMAIN s.queue : HasChildForRequest(s, s.queue[i])}
           r == ScheduleNextExplore(s)
<1>1. /\ s \in Clients /\ Tree(tr) /\ Queued(s, {}) /\ Flight(tr, A, 0)
      /\ Open(tr, A, 0, 0) /\ Handed(s, 0)
  BY DEF Tidy, Sound, Above
<1>2. CASE able = {}
  <2>1. r = [s EXCEPT !.status = "crashed"]
    BY <1>2 DEF ScheduleNextExplore
  <2>2. /\ r \in Clients /\ r.tree = tr /\ r.queue = s.queue
        /\ r.calls = s.calls /\ r.found = s.found /\ r.status = "crashed"
    BY <1>1, <2>1 DEF Clients
  <2> HIDE DEF r
  <2>3. Queued(r, {})
    BY <1>1, <2>2, QueuedSame
  <2>4. Handed(r, 0)
    BY <1>1, <2>2 DEF Handed
  <2>5. Above(r.tree, 0) = {}
    BY DEF Above
  <2>6. Tidy(r, A, 0, 0)
    BY <1>1, <2>2, <2>3, <2>4, <2>5 DEF Tidy, Sound
  <2>7. Grown(tr, r.tree)
    BY <2>2 DEF Grown
  <2> QED  BY <2>2, <2>6, <2>7 DEF Scheduled, r
<1>3. CASE able # {}
  <2> DEFINE n == s.queue[Min(able)]
             open == Candidates(s, n)
             i == Min(open)
             c == tr[n].children[i]
  <2>1. n \in DOMAIN tr /\ HasChildForRequest(s, n)
    <3>1. Min(able) \in able
      <4>1. s.queue \in Seq(Nat)
        BY <1>1, ClientType
      <4>2. DOMAIN s.queue \subseteq Nat
        BY <4>1, LenProperties
      <4>3. able \subseteq Nat
        BY <4>2
      <4> HIDE DEF able
      <4> QED  BY <1>3, <4>3, HasMin
    <3>2. Min(able) \in DOMAIN s.queue /\ HasChildForRequest(s, n)
      BY <3>1
    <3>3. n \in ToSet(s.queue)
      BY <3>2 DEF ToSet
    <3> QED  BY <1>1, <3>2, <3>3 DEF Queued
  <2>2. r = Asks(s, c)
    BY <1>3 DEF ScheduleNextExplore, ChildForRequest, Asks
  <2> HIDE DEF able, n, r
  <2>3. /\ open = {k \in DOMAIN tr[n].children :
                      /\ ~tr[tr[n].children[k]].explored
                      /\ ~tr[tr[n].children[k]].requestInFlight}
        /\ Cardinality(open) >= 2
    BY <2>1 DEF Candidates, HasChildForRequest
  <2>4. open \subseteq Nat /\ IsFiniteSet(open)
    <3> DEFINE L == Len(tr[n].children)
    <3>1. DOMAIN tr[n].children = 1..L /\ L \in Nat
      BY <1>1, <2>1, NodeType DEF Tree
    <3>2. open \subseteq 1..L
      BY <2>3, <3>1
    <3> HIDE DEF L, open
    <3>3. IsFiniteSet(1..L)
      BY <3>1, FS_Interval
    <3>4. IsFiniteSet(open)
      BY <3>2, <3>3, FS_Subset
    <3> QED  BY <3>1, <3>2, <3>4
  <2>5. PICK j \in open : j # i
    <3>1. \A x : Cardinality({x}) = 1
      BY FS_Singleton
    <3>2. Cardinality({}) = 0
      BY FS_EmptySet
    <3> DEFINE size == Cardinality(open)
    <3>3. size >= 2 /\ (open = {} => size = 0) /\ (open = {i} => size = 1)
      BY <2>3, <3>1, <3>2
    <3> HIDE DEF size, open, i
    <3>4. open # {} /\ open # {i}
      BY <3>3
    <3> QED  BY <3>4
  <2>6. i \in open
    <3> HIDE DEF open
    <3> QED  BY <2>4, <2>5, HasMin
  <2> HIDE DEF i, open
  <2> DEFINE d == tr[n].children[j]
  <2>7. /\ c \in Kids(tr, n) /\ ~tr[c].explored /\ ~tr[c].requestInFlight
        /\ d \in Kids(tr, n) /\ ~tr[d].explored /\ ~tr[d].requestInFlight
    BY <2>3, <2>5, <2>6 DEF Kids, ToSet
  <2>8. c # d
    <3>1. Kin(tr, n)
      BY <1>1, <2>1 DEF Tree
    <3>2. i \in DOMAIN tr[n].children /\ j \in DOMAIN tr[n].children
      BY <2>3, <2>5, <2>6
    <3> QED  BY <2>5, <3>1, <3>2 DEF Kin
  <2> HIDE DEF c, d
  <2>9. c \in DOMAIN tr \ A /\ d \in DOMAIN tr \ A
    <3>1. c \in DOMAIN tr /\ d \in DOMAIN tr
      BY <1>1, <2>1, <2>7, Families
    <3>2. c # 0 /\ d # 0
      BY <1>1, <3>1, NodeType DEF Tree
    <3> QED  BY <1>1, <2>7, <3>1, <3>2 DEF Flight
  <2>10. c \in Waiting(tr, n) /\ d \in Waiting(tr, n)
    BY <2>7 DEF Waiting
  <2>11. Tidy(r, A \cup {c}, 0, 0)
    BY <2>1, <2>2, <2>8, <2>9, <2>10, AskSound
  <2>12. /\ OnlyMarked(tr, r.tree) /\ r.calls = s.calls \cup {c}
         /\ r.found = s.found /\ r.status = s.status
    BY <1>1, <2>2, <2>9, AsksIs
  <2>13. Grown(tr, r.tree)
    BY <1>1, <2>12, TreeMarked
  <2> QED  BY <2>9, <2>11, <2>12, <2>13 DEF Scheduled, r
<1> QED  BY <1>2, <1>3

-----------------------------------------------------------------------------
(***************************************************************************)
(* fireInitRequests                                                        *)
(***************************************************************************)
LEMMA StartSound == Tidy(Start, {}, 0, 0) /\ Start.tree[Root] =
                        Node(0, Field, 0, Nominal) /\ DOMAIN Start.tree = {Root}
<1> DEFINE node == Node(0, Field, 0, Nominal)
           tr == <<node>>
           s == Start
<1>1. /\ node.parent = 0 /\ node.area = Field /\ node.exploreDepth = 0
      /\ node.actual = Nominal /\ ~node.explored /\ ~node.requestInFlight
      /\ node.children = <<>> /\ node.childSwaps = 0
      /\ node.exploredTreasures = 0 /\ node.nonExploredSize = 0
      /\ node.nonExploredCnt = 0
  BY DEF Node
<1>2. Field \in Areas /\ Inside(Field, Field)
  BY SubAreasAssumption DEF Field, Areas, Lengths, Inside
<1>3. node \in Nodes
  <2>1. Nominal \in Int
    BY ExploreTreeAssumption
  <2>2. Field \in Areas
    BY <1>2
  <2>3. <<>> \in Seq(Nat)
    OBVIOUS
  <2> QED  BY <2>1, <2>2, <2>3 DEF Nodes, Node
<1> HIDE DEF node
<1>4. tr \in Seq(Nodes) /\ DOMAIN tr = {Root} /\ tr[Root] = node
  BY <1>3 DEF Root
<1> HIDE DEF tr
<1>5. /\ s.tree = tr /\ s.queue = <<>> /\ s.calls = {} /\ s.found = <<>>
      /\ s.status = "running"
  BY DEF Start, tr, node
<1>6. s \in Clients
  <2>1. <<>> \in Seq(Nat) /\ <<>> \in Seq(Located)
    OBVIOUS
  <2>2. s = [tree |-> tr, queue |-> <<>>, calls |-> {}, found |-> <<>>,
             status |-> "running"]
    BY DEF Start, tr, node
  <2> HIDE DEF s
  <2> QED  BY <1>4, <2>1, <2>2 DEF Clients
<1> HIDE DEF s
<1>7. /\ Kids(tr, Root) = {} /\ Explored(tr, Root) = {} /\ Waiting(tr, Root) = {}
      /\ Leaf(tr, Root) /\ DOMAIN tr[Root].children = {}
  <2>1. Kids(tr, Root) = {} /\ Leaf(tr, Root) /\ DOMAIN tr[Root].children = {}
    BY <1>1, <1>4 DEF Kids, ToSet, Leaf
  <2> QED  BY <2>1 DEF Explored, Waiting
<1>8. Tree(tr)
  <2>1. RootIs(tr)
    BY <1>1, <1>4 DEF RootIs
  <2>2. Kin(tr, Root)
    BY <1>7 DEF Kin
  <2>3. Placed(tr, Root)
    BY <1>1, <1>2, <1>4 DEF Placed
  <2>4. Balanced(tr, Root)
    <3>1. Sum(Amounts(tr), {}) = 0 /\ Sum(Sizes(tr), {}) = 0
      BY SumEmpty
    <3>2. Cardinality({}) = 0
      BY FS_EmptySet
    <3>3. ~Complete(tr, Root)
      BY <1>7 DEF Complete
    <3> QED  BY <1>1, <1>4, <1>7, <3>1, <3>2, <3>3 DEF Balanced
  <2>6. Inherits(tr, Root)
    BY <1>7 DEF Inherits, Complete
  <2>7. Told(tr)
    <3>1. Off(tr, Root) = Nominal - Amount(Field)
      BY <1>1, <1>4 DEF Off
    <3>2. Nominal \in Int /\ Amount(Field) \in Int
      BY <1>2, ExploreTreeAssumption, AmountIsSum
    <3>3. Astray(tr, Root) => Nominal # Amount(Field)
      BY <3>1, <3>2 DEF Astray
    <3> QED  BY <1>4, <3>3 DEF Told
  <2>5. LeavesApart(tr)
    BY <1>4 DEF LeavesApart
  <2> QED  BY <1>4, <2>1, <2>2, <2>3, <2>4, <2>5, <2>6, <2>7 DEF Tree
<1>9. Above(tr, 0) = {}
  BY DEF Above
<1>10. Queued(s, {})
  <2>1. ToSet(s.queue) = {} /\ DOMAIN s.queue = {}
    BY <1>5 DEF ToSet
  <2>2. ~Worth(tr, Root)
    BY <1>7 DEF Worth
  <2> QED  BY <1>4, <1>5, <2>1, <2>2 DEF Queued, SortedBy
<1>11. Flight(tr, {}, 0)
  BY <1>1, <1>4 DEF Flight
<1>12. Open(tr, {}, 0, 0)
  BY <1>1, <1>4, <1>9 DEF Open
<1>13. Handed(s, 0)
  BY <1>5 DEF Handed
<1>14. Tidy(s, {}, 0, 0)
  BY <1>5, <1>6, <1>8, <1>9, <1>10, <1>11, <1>12, <1>13 DEF Tidy, Sound
<1> QED  BY <1>4, <1>5, <1>14 DEF s, node

LEMMA FirstSound ==
    /\ Tidy(ProcessAll(CreateSubAreas(Start, Root)), {}, 0, 0)
    /\ ProcessAll(CreateSubAreas(Start, Root)).calls = {}
    /\ ProcessAll(CreateSubAreas(Start, Root)).status = "running"
<1> DEFINE s == Start
           call == CreateSubAreas(Start, Root)
           r == ProcessAll(call)
<1>1. /\ Tidy(s, {}, 0, 0) /\ s.tree[Root] = Node(0, Field, 0, Nominal)
      /\ DOMAIN s.tree = {Root}
  BY StartSound
<1>2. s.calls = {} /\ s.status = "running"
  BY DEF Start
<1>3. s.tree[Root].actual # 0 /\ Leaf(s.tree, Root)
  BY <1>1, ExploreTreeAssumption DEF Node, Leaf
<1>4. Sound(s, {}, 0, 0) /\ Handed(s, 0) /\ Root \in DOMAIN s.tree /\ Root # 0
  BY <1>1 DEF Tidy, Root
<1>5. Outcome(s, {}, 0, Root, call)
  BY <1>3, <1>4, CreateSound
<1> HIDE DEF s, call
<1>6. Ready(call, {}, 0) /\ Kept(s, call.client)
  BY <1>5 DEF Outcome, Ready
<1>7. Tidy(r, {}, 0, 0) /\ Kept(call.client, r)
  BY <1>6, AllSound
<1> HIDE DEF r
<1>8. r.calls = {} /\ r.status = "running"
  BY <1>2, <1>6, <1>7 DEF Kept
<1> QED  BY <1>7, <1>8 DEF r, call

\* the calls of scheduleNextExplore one after the other
AreFired(after, first, n) ==
    after = [k \in 0..n |-> IF k = 0 THEN first
                            ELSE ScheduleNextExplore(after[k - 1])]

LEMMA FiredIsChosen ==
    Fired = (CHOOSE after : AreFired(after, ProcessAll(CreateSubAreas(Start, Root)),
                                     Concurrent))[Concurrent]
BY Zenon DEF Fired, AreFired

LEMMA FiredExist ==
    ASSUME NEW first, NEW n \in Nat
    PROVE  \E after : AreFired(after, first, n)
<1> DEFINE Def(g, k) == IF k = 0 THEN first ELSE ScheduleNextExplore(g[k - 1])
           P == {m \in Nat : \E g : g = [k \in 0..m |-> Def(g, k)]}
<1>1. 0 \in P
  <2> DEFINE g == [k \in 0..0 |-> first]
  <2>1. \A k \in 0..0 : k = 0
    OBVIOUS
  <2>2. g = [k \in 0..0 |-> Def(g, k)]
    BY <2>1
  <2> QED  BY <2>2
<1>2. ASSUME NEW m \in Nat, m \in P PROVE m + 1 \in P
  <2>1. PICK g : g = [k \in 0..m |-> Def(g, k)]
    BY <1>2
  <2> DEFINE h == [k \in 0..(m + 1) |-> IF k \in 0..m THEN g[k] ELSE Def(g, k)]
  <2>2. ASSUME NEW k \in 0..(m + 1) PROVE h[k] = Def(h, k)
    <3>1. k \in 0..m => g[k] = Def(g, k)
      BY <2>1
    <3>2. h[k] = Def(g, k)
      BY <3>1
    <3>3. CASE k = 0
      BY <3>2, <3>3
    <3>4. CASE k # 0
      <4>1. k - 1 \in 0..m /\ k - 1 \in 0..(m + 1)
        BY <3>4
      <4>2. h[k - 1] = g[k - 1]
        BY <4>1
      <4> QED  BY <3>2, <3>4, <4>2
    <3> QED  BY <3>3, <3>4
  <2>3. h = [k \in 0..(m + 1) |-> Def(h, k)]
    BY <2>2
  <2>4. \E f : f = [k \in 0..(m + 1) |-> Def(f, k)]
    <3> HIDE DEF h, Def
    <3> QED  BY <2>3
  <2> HIDE DEF h, Def
  <2> QED  BY <2>4
<1>3. Nat \subseteq P
  <2> HIDE DEF P
  <2> QED  BY <1>1, <1>2, SetInduction
<1>4. PICK g : g = [k \in 0..n |-> Def(g, k)]
  BY <1>3
<1> QED  BY <1>4 DEF AreFired

LEMMA FiredSound ==
    /\ Tidy(Fired, Fired.calls, 0, 0) /\ IsFiniteSet(Fired.calls)
    /\ Fired.status = "running" => Cardinality(Fired.calls) = Concurrent
<1> DEFINE N == Concurrent
           first == ProcessAll(CreateSubAreas(Start, Root))
           f == CHOOSE after : AreFired(after, first, N)
           Good(k) == /\ Tidy(f[k], f[k].calls, 0, 0)
                      /\ IsFiniteSet(f[k].calls)
                      /\ f[k].status = "running" => Cardinality(f[k].calls) = k
           P == {k \in Nat : k <= N => Good(k)}
<1>1. N \in Nat
  BY ExploreTreeAssumption
<1>2. AreFired(f, first, N)
  BY <1>1, FiredExist
<1>3. Fired = f[N]
  BY FiredIsChosen
<1>4. /\ Tidy(first, {}, 0, 0) /\ first.calls = {}
  BY FirstSound
<1> HIDE DEF f, N, first
<1>5. /\ f[0] = first
      /\ \A k \in 0..N : k # 0 => f[k] = ScheduleNextExplore(f[k - 1])
  <2>1. f = [k \in 0..N |-> IF k = 0 THEN first ELSE ScheduleNextExplore(f[k - 1])]
    BY <1>2 DEF AreFired
  <2>2. 0 \in 0..N
    BY <1>1
  <2> QED  BY <2>1, <2>2
<1>6. 0 \in P
  <2>1. Cardinality({}) = 0 /\ IsFiniteSet({})
    BY FS_EmptySet
  <2> QED  BY <1>4, <1>5, <2>1
<1>7. ASSUME NEW k \in Nat, k \in P PROVE k + 1 \in P
  <2> SUFFICES ASSUME k + 1 <= N PROVE Good(k + 1)
    OBVIOUS
  <2> DEFINE s == f[k]
             r == f[k + 1]
  <2>1. Good(k) /\ r = ScheduleNextExplore(s)
    <3>1. k + 1 \in 0..N /\ k + 1 # 0 /\ (k + 1) - 1 = k /\ k <= N
      BY <1>1
    <3> QED  BY <1>5, <1>7, <3>1
  <2>2. /\ Tidy(s, s.calls, 0, 0) /\ IsFiniteSet(s.calls)
        /\ s.status = "running" => Cardinality(s.calls) = k
    BY <2>1
  <2>3. Scheduled(s, s.calls, r)
    BY <2>1, <2>2, ScheduleSound
  <2> HIDE DEF s, r
  <2>4. CASE r.status = "crashed" /\ r.calls = s.calls /\ Tidy(r, s.calls, 0, 0)
    <3>1. r.status # "running"
      BY <2>4
    <3> QED  BY <2>2, <2>4, <3>1 DEF r
  <2>5. CASE /\ r.status = s.status
             /\ \E c \in DOMAIN s.tree \ s.calls :
                    r.calls = s.calls \cup {c} /\ Tidy(r, s.calls \cup {c}, 0, 0)
    <3>1. PICK c \in DOMAIN s.tree \ s.calls :
              r.calls = s.calls \cup {c} /\ Tidy(r, s.calls \cup {c}, 0, 0)
      BY <2>5
    <3>2. /\ IsFiniteSet(s.calls \cup {c})
          /\ Cardinality(s.calls \cup {c}) = Cardinality(s.calls) + 1
      BY <2>2, <3>1, FS_AddElement
    <3>3. Tidy(r, r.calls, 0, 0) /\ IsFiniteSet(r.calls)
      BY <3>1, <3>2
    <3>4. r.status = "running" => Cardinality(r.calls) = k + 1
      BY <2>2, <2>5, <3>1, <3>2
    <3> QED  BY <3>3, <3>4 DEF r
  <2> QED  BY <2>3, <2>4, <2>5 DEF Scheduled
<1>8. Good(N)
  <2>1. Nat \subseteq P
    <3> HIDE DEF P
    <3> QED  BY <1>6, <1>7, SetInduction
  <2> QED  BY <1>1, <2>1
<1> QED  BY <1>3, <1>8 DEF N

-----------------------------------------------------------------------------
(***************************************************************************)
(* The client, the answers under way to it and the treasures that are left *)
(* below the cells.                                                        *)
(***************************************************************************)
Answers == [id : Nat, status : {200, 429}, amount : Nat]

Await(s, got) == s.calls \cup {reply.id : reply \in got}

InStep(s, got) ==
    /\ got \subseteq Answers
    /\ \A a \in got : /\ a.id \notin s.calls
                      /\ a.status = 200 => a.amount = Amount(s.tree[a.id].area)
    /\ \A a, b \in got : a.id = b.id => a = b
    /\ IsFiniteSet(s.calls) /\ IsFiniteSet(got) /\ IsFiniteSet(Await(s, got))
    /\ s.status = "running" =>
           /\ Cardinality(s.calls) + Cardinality(got) = Concurrent
           /\ Cardinality(Await(s, got)) = Concurrent

Dug(s, left) ==
    /\ left \in [Cells -> Nat]
    /\ \A c \in Cells : left[c] # Treasures[c]
           => \E i \in DOMAIN s.found : s.found[i].cell = c

IInv == /\ Tidy(Client, Asked, 0, 0)
        /\ InStep(Client, replies)
        /\ Dug(Client, counts)
        /\ refused \in 0..MaxRefused

\* nothing was dug in an area that is asked for
LEMMA AskedAreFull ==
    ASSUME NEW s, NEW A, Tidy(s, A, 0, 0), NEW n \in A, NEW left, Dug(s, left)
    PROVE  TreasuresIn(left, s.tree[n].area) = Amount(s.tree[n].area)
<1> DEFINE tr == s.tree
           S == CellsOf(tr[n].area)
<1>1. /\ Tree(tr) /\ Flight(tr, A, 0) /\ Handed(s, 0)
  BY DEF Tidy, Sound
<1>2. n \in DOMAIN tr /\ n # Root /\ ~tr[n].explored
  BY <1>1 DEF Flight
<1>3. Leaf(tr, n)
  BY <1>1, <1>2, Families
<1>4. \A k \in DOMAIN tr : tr[k].area \in Areas /\ Inside(tr[k].area, Field)
                           /\ (~Leaf(tr, k) => k = Root \/ Size(tr[k].area) > 1)
  BY <1>1, NodeType DEF Tree, Placed, Kin
<1>5. ~tr[Root].explored /\ LeavesApart(tr)
  BY <1>1 DEF Tree, RootIs
<1>6. ASSUME NEW c \in S PROVE left[c] = Treasures[c]
  <2> SUFFICES ASSUME left[c] # Treasures[c] PROVE FALSE
    OBVIOUS
  <2>1. c \in Cells
    BY <1>6 DEF CellsOf
  <2>2. PICK i \in DOMAIN s.found : s.found[i].cell = c
    BY <2>1 DEF Dug
  <2>3. PICK k \in DOMAIN tr \ {0} :
            /\ tr[k].explored /\ Size(tr[k].area) = 1
            /\ s.found[i] = [cell |-> <<tr[k].area.x, tr[k].area.y>>,
                             amount |-> tr[k].actual]
    BY <1>1 DEF Handed
  <2>4. c = <<tr[k].area.x, tr[k].area.y>>
    BY <2>2, <2>3
  <2>5. Leaf(tr, k) /\ k # n
    BY <1>2, <1>4, <1>5, <2>3
  <2>6. c \in CellsOf(tr[k].area)
    BY <1>4, <2>3, <2>4, OneCell
  <2> QED  BY <1>2, <1>3, <1>5, <2>3, <2>5, <2>6 DEF LeavesApart
<1>7. IsFiniteSet(S) /\ S \subseteq Cells
  BY <1>4, CellsOfFinite DEF CellsOf
<1>8. \A c \in S : Treasures[c] \in Int
  BY <1>7, ExploreTreeAssumption
<1>9. Sum(left, S) = Sum(Treasures, S)
  <2> HIDE DEF S
  <2> QED  BY <1>6, <1>7, <1>8, SumEqual
<1> QED  BY <1>9 DEF TreasuresIn, Amount, Sum

\* the client's record of the calls changes, and nothing else of it
LEMMA TidySame ==
    ASSUME NEW s, NEW A, Tidy(s, A, 0, 0), NEW r \in Clients,
           r.tree = s.tree, r.queue = s.queue, r.found = s.found
    PROVE  Tidy(r, A, 0, 0)
<1>1. /\ Tree(s.tree) /\ Queued(s, Above(s.tree, 0)) /\ Flight(s.tree, A, 0)
      /\ Open(s.tree, A, 0, 0) /\ Handed(s, 0)
  BY DEF Tidy, Sound
<1>2. Queued(r, Above(r.tree, 0))
  BY <1>1, QueuedSame
<1>3. Handed(r, 0)
  BY <1>1 DEF Handed
<1> QED  BY <1>1, <1>2, <1>3 DEF Tidy, Sound

\* a call is answered
LEMMA AnsweredInStep ==
    ASSUME NEW s, NEW got, InStep(s, got), NEW a \in Answers, a.id \in s.calls,
           a.status = 200 => a.amount = Amount(s.tree[a.id].area),
           NEW r, r.calls = s.calls \ {a.id}, r.tree = s.tree,
           r.status = s.status
    PROVE  InStep(r, got \cup {a}) /\ Await(r, got \cup {a}) = Await(s, got)
<1>1. Await(r, got \cup {a}) = Await(s, got)
  BY DEF Await
<1>2. /\ IsFiniteSet(s.calls) /\ IsFiniteSet(got) /\ a \notin got
      /\ IsFiniteSet(Await(s, got))
  BY DEF InStep
<1>3. /\ IsFiniteSet(r.calls)
      /\ Cardinality(r.calls) = Cardinality(s.calls) - 1
  BY <1>2, FS_RemoveElement
<1>4. /\ IsFiniteSet(got \cup {a})
      /\ Cardinality(got \cup {a}) = Cardinality(got) + 1
  BY <1>2, FS_AddElement
<1>5. Cardinality(s.calls) \in Nat /\ Cardinality(got) \in Nat
  BY <1>2, FS_CardinalityType
<1>6. r.status = "running" =>
          /\ Cardinality(r.calls) + Cardinality(got \cup {a}) = Concurrent
          /\ Cardinality(Await(r, got \cup {a})) = Concurrent
  BY <1>1, <1>3, <1>4, <1>5 DEF InStep
<1>7. /\ got \cup {a} \subseteq Answers
      /\ \A b \in got \cup {a} :
             /\ b.id \notin r.calls
             /\ b.status = 200 => b.amount = Amount(r.tree[b.id].area)
      /\ \A b, c \in got \cup {a} : b.id = c.id => b = c
  BY DEF InStep
<1> QED  BY <1>1, <1>2, <1>3, <1>4, <1>6, <1>7 DEF InStep

\* an answer is handled and area c is asked for next
LEMMA HandledInStep ==
    ASSUME NEW s, NEW got, InStep(s, got), Await(s, got) \subseteq DOMAIN s.tree,
           NEW a \in got, NEW c, c \notin Await(s, got) \ {a.id},
           NEW r, Grown(s.tree, r.tree), r.calls = s.calls \cup {c},
           r.status = s.status
    PROVE  /\ InStep(r, got \ {a})
           /\ Await(r, got \ {a}) = (Await(s, got) \ {a.id}) \cup {c}
<1> DEFINE B == Await(s, got)
           C == Await(r, got \ {a})
<1>1. /\ IsFiniteSet(s.calls) /\ IsFiniteSet(got) /\ IsFiniteSet(B)
      /\ a.id \in B /\ a.id \notin s.calls
      /\ \A b \in got : b.id = a.id => b = a
  BY DEF InStep, Await
<1>2. C = (B \ {a.id}) \cup {c}
  BY <1>1 DEF Await
<1>3. c \notin s.calls
  BY <1>1 DEF Await
<1>4. /\ IsFiniteSet(r.calls)
      /\ Cardinality(r.calls) = Cardinality(s.calls) + 1
  <2>1. /\ IsFiniteSet(s.calls \cup {c})
        /\ Cardinality(s.calls \cup {c}) = Cardinality(s.calls) + 1
    BY <1>1, <1>3, FS_AddElement
  <2> QED  BY <2>1
<1>5. /\ IsFiniteSet(got \ {a})
      /\ Cardinality(got \ {a}) = Cardinality(got) - 1
  BY <1>1, FS_RemoveElement
<1>6. IsFiniteSet(C) /\ Cardinality(C) = Cardinality(B)
  <2> HIDE DEF B, C
  <2>1. /\ IsFiniteSet(B \ {a.id})
        /\ Cardinality(B \ {a.id}) = Cardinality(B) - 1
    BY <1>1, FS_RemoveElement
  <2>2. c \notin B \ {a.id}
    BY DEF B
  <2>3. /\ IsFiniteSet(C)
        /\ Cardinality(C) = Cardinality(B \ {a.id}) + 1
    BY <1>2, <2>1, <2>2, FS_AddElement
  <2>4. Cardinality(B) \in Nat
    BY <1>1, FS_CardinalityType
  <2> QED  BY <2>1, <2>3, <2>4
<1>7. Cardinality(s.calls) \in Nat /\ Cardinality(got) \in Nat
  BY <1>1, FS_CardinalityType
<1>8. s.status = "running" =>
          /\ Cardinality(s.calls) + Cardinality(got) = Concurrent
          /\ Cardinality(B) = Concurrent
  BY DEF InStep
<1> HIDE DEF B, C
<1>9. r.status = "running" =>
          /\ Cardinality(r.calls) + Cardinality(got \ {a}) = Concurrent
          /\ Cardinality(C) = Concurrent
  BY <1>4, <1>5, <1>6, <1>7, <1>8
<1>10. ASSUME NEW b \in got \ {a}
       PROVE  /\ b \in Answers /\ b.id \notin r.calls
              /\ b.status = 200 => b.amount = Amount(r.tree[b.id].area)
  <2>1. /\ b \in Answers /\ b.id \notin s.calls /\ b.id # a.id
        /\ b.status = 200 => b.amount = Amount(s.tree[b.id].area)
    BY DEF InStep
  <2>2. b.id \in Await(s, got)
    BY DEF Await
  <2>3. b.id # c
    BY <2>1, <2>2
  <2>4. r.tree[b.id].area = s.tree[b.id].area
    BY <2>2 DEF Grown
  <2> QED  BY <2>1, <2>3, <2>4
<1>11. \A b, d \in got \ {a} : b.id = d.id => b = d
  BY DEF InStep
<1> QED  BY <1>2, <1>4, <1>5, <1>6, <1>9, <1>10, <1>11 DEF InStep, B, C

\* an answer is handled and the client has no area to ask for
LEMMA CrashInStep ==
    ASSUME NEW s, NEW got, InStep(s, got), Await(s, got) \subseteq DOMAIN s.tree,
           NEW a \in got, NEW r, Grown(s.tree, r.tree), r.calls = s.calls,
           r.status = "crashed"
    PROVE  /\ InStep(r, got \ {a})
           /\ Await(r, got \ {a}) = Await(s, got) \ {a.id}
<1>1. /\ IsFiniteSet(s.calls) /\ IsFiniteSet(got) /\ IsFiniteSet(Await(s, got))
      /\ a.id \notin s.calls /\ \A b \in got : b.id = a.id => b = a
  BY DEF InStep
<1>2. Await(r, got \ {a}) = Await(s, got) \ {a.id}
  BY <1>1 DEF Await
<1>3. IsFiniteSet(got \ {a}) /\ IsFiniteSet(Await(s, got) \ {a.id})
  BY <1>1, FS_Subset
<1>4. ASSUME NEW b \in got \ {a}
      PROVE  /\ b \in Answers /\ b.id \notin r.calls
             /\ b.status = 200 => b.amount = Amount(r.tree[b.id].area)
  <2>1. /\ b \in Answers /\ b.id \notin s.calls
        /\ b.status = 200 => b.amount = Amount(s.tree[b.id].area)
    BY DEF InStep
  <2>2. b.id \in Await(s, got)
    BY DEF Await
  <2>3. r.tree[b.id].area = s.tree[b.id].area
    BY <2>2 DEF Grown
  <2> QED  BY <2>1, <2>3
<1>5. \A b, d \in got \ {a} : b.id = d.id => b = d
  BY DEF InStep
<1>6. r.status # "running"
  OBVIOUS
<1> QED  BY <1>1, <1>2, <1>3, <1>4, <1>5, <1>6 DEF InStep

-----------------------------------------------------------------------------
LEMMA ClientIs ==
    /\ Client.tree = tree /\ Client.queue = queue /\ Client.calls = calls
    /\ Client.found = found /\ Client.status = status
    /\ Asked = Await(Client, replies)
    /\ \A s \in Clients :
           (/\ s.tree = tree /\ s.queue = queue /\ s.calls = calls
            /\ s.found = found /\ s.status = status) => Client = s
<1>1. /\ Client.tree = tree /\ Client.queue = queue /\ Client.calls = calls
      /\ Client.found = found /\ Client.status = status
  BY DEF Client
<1>2. Asked = Await(Client, replies)
  BY <1>1 DEF Asked, Await
<1>3. ASSUME NEW s \in Clients, s.tree = tree, s.queue = queue,
             s.calls = calls, s.found = found, s.status = status
      PROVE  Client = s
  <2>1. s = [tree |-> s.tree, queue |-> s.queue, calls |-> s.calls,
             found |-> s.found, status |-> s.status]
    BY DEF Clients
  <2> QED  BY <1>3, <2>1 DEF Client
<1> QED  BY <1>1, <1>2, <1>3

LEMMA InitInv == ASSUME Init PROVE IInv
<1>1. /\ Tidy(Fired, Fired.calls, 0, 0) /\ IsFiniteSet(Fired.calls)
      /\ Fired.status = "running" => Cardinality(Fired.calls) = Concurrent
  BY FiredSound
<1>2. Fired \in Clients
  BY <1>1 DEF Tidy, Sound
<1>3. Client = Fired
  BY <1>2, ClientIs DEF Init
<1>4. Asked = Fired.calls /\ Await(Fired, {}) = Fired.calls
  BY DEF Init, Asked, Await
<1>5. InStep(Fired, {})
  <2>1. IsFiniteSet({}) /\ Cardinality({}) = 0
    BY FS_EmptySet
  <2>2. Cardinality(Fired.calls) \in Nat
    BY <1>1, FS_CardinalityType
  <2>3. Fired.status = "running" =>
            /\ Cardinality(Fired.calls) + Cardinality({}) = Concurrent
            /\ Cardinality(Await(Fired, {})) = Concurrent
    BY <1>1, <1>4, <2>1, <2>2
  <2> QED  BY <1>1, <1>4, <2>1, <2>3 DEF InStep
<1>6. Dug(Fired, Treasures)
  BY ExploreTreeAssumption DEF Dug
<1>7. 0 \in 0..MaxRefused
  BY ExploreTreeAssumption
<1> QED  BY <1>1, <1>3, <1>4, <1>5, <1>6, <1>7 DEF IInv, Init

\* a call is answered, by the number of treasures or by an error
LEMMA AnswerInv ==
    ASSUME IInv, NEW n \in calls, Answer(n) \/ Refuse(n)
    PROVE  IInv'
<1> DEFINE s == Client
           r == Client'
           a == IF Answer(n)
                THEN [id |-> n, status |-> 200,
                      amount |-> TreasuresIn(counts, tree[n].area)]
                ELSE [id |-> n, status |-> 429, amount |-> 0]
<1>1. /\ Tidy(s, Asked, 0, 0) /\ InStep(s, replies) /\ Dug(s, counts)
      /\ s \in Clients
  BY DEF IInv, Tidy, Sound
<1>2. /\ s.tree = tree /\ s.queue = queue /\ s.calls = calls
      /\ s.found = found /\ s.status = status /\ Asked = Await(s, replies)
  BY ClientIs
<1>3. /\ r.tree = tree /\ r.queue = queue /\ r.calls = calls \ {n}
      /\ r.found = found /\ r.status = status
  BY DEF Answer, Refuse, Client
<1>4. r \in Clients
  <2>1. r = [s EXCEPT !.calls = calls \ {n}]
    BY DEF Answer, Refuse, Client
  <2> QED  BY <1>1, <1>2, <2>1 DEF Clients
<1>5. n \in Asked /\ n \in Nat /\ s.calls \in SUBSET Nat
  BY <1>1, <1>2 DEF Asked, Clients
<1>6. TreasuresIn(counts, tree[n].area) = Amount(tree[n].area)
  <2>1. TreasuresIn(counts, s.tree[n].area) = Amount(s.tree[n].area)
    BY <1>1, <1>5, AskedAreFull
  <2> QED  BY <1>2, <2>1
<1>7. /\ a \in Answers /\ a.id = n
      /\ a.status = 200 => a.amount = Amount(tree[n].area)
  BY <1>5, <1>6, AmountIsSum DEF Answers
<1>8. replies' = replies \cup {a}
  BY DEF Answer, Refuse
<1> HIDE DEF a
<1>9. /\ InStep(r, replies \cup {a})
      /\ Await(r, replies \cup {a}) = Await(s, replies)
  <2> HIDE DEF s, r
  <2> QED  BY <1>1, <1>2, <1>3, <1>7, AnsweredInStep
<1>10. Asked' = Asked
  <2>1. Asked' = Await(r, replies')
    BY DEF Asked, Await, Client
  <2> QED  BY <1>2, <1>8, <1>9, <2>1
<1>11. Tidy(r, Asked, 0, 0)
  <2> HIDE DEF s, r
  <2> QED  BY <1>1, <1>2, <1>3, <1>4, TidySame
<1>12. Dug(r, counts')
  <2>1. counts' = counts
    BY DEF Answer, Refuse
  <2> QED  BY <1>1, <1>2, <1>3, <2>1 DEF Dug
<1>13. refused' \in 0..MaxRefused
  BY ExploreTreeAssumption DEF IInv, Answer, Refuse
<1> QED  BY <1>8, <1>9, <1>10, <1>11, <1>12, <1>13 DEF IInv

\* an answer is handled: what of the client is left as it was
LEMMA HandledDug ==
    ASSUME NEW s, NEW left, Dug(s, left), NEW r,
           \A i \in DOMAIN s.found : i \in DOMAIN r.found
                                     /\ r.found[i] = s.found[i]
    PROVE  Dug(r, left)
BY DEF Dug

LEMMA HandleInv ==
    ASSUME IInv, NEW a \in replies, Handle(a)
    PROVE  IInv'
<1> DEFINE s == Client
           r == Client'
           n == a.id
           B == Asked
<1>1. /\ Tidy(s, B, 0, 0) /\ InStep(s, replies) /\ Dug(s, counts)
      /\ s \in Clients /\ B \subseteq DOMAIN s.tree
  BY DEF IInv, Tidy, Sound, Flight
<1>2. /\ s.tree = tree /\ s.queue = queue /\ s.calls = calls
      /\ s.found = found /\ s.status = status /\ B = Await(s, replies)
  BY ClientIs
<1>3. /\ replies' = replies \ {a} /\ counts' = counts /\ refused' = refused
      /\ status = "running" /\ Asked' = Await(r, replies')
  BY DEF Handle, Asked, Await, Client
<1>4. n \in B /\ n \in DOMAIN s.tree
  BY <1>1, <1>2 DEF Await
<1>5. refused' \in 0..MaxRefused
  BY <1>3 DEF IInv
<1> HIDE DEF B
<1>6. SUFFICES Tidy(r, Asked', 0, 0) /\ InStep(r, replies') /\ Dug(r, counts')
  BY <1>5 DEF IInv
<1>7. CASE a.status # 200
  <2> DEFINE t == [Client EXCEPT !.calls = @ \cup {a.id}]
  <2>1. Become(t)
    BY <1>7 DEF Handle
  <2>2. t = [s EXCEPT !.calls = s.calls \cup {n}]
    BY DEF Client
  <2> HIDE DEF t
  <2>3. /\ t.tree = s.tree /\ t.queue = s.queue /\ t.calls = s.calls \cup {n}
        /\ t.found = s.found /\ t.status = s.status /\ t \in Clients
    <3> DEFINE calling == s.calls \cup {n}
    <3>1. calling \in SUBSET Nat
      BY <1>1, <1>4, ClientType
    <3>2. t = [s EXCEPT !.calls = calling]
      BY <2>2
    <3> HIDE DEF s, calling
    <3>3. /\ t.tree = s.tree /\ t.queue = s.queue /\ t.calls = calling
          /\ t.found = s.found /\ t.status = s.status /\ t \in Clients
      BY <1>1, <3>1, <3>2 DEF Clients
    <3> QED  BY <3>3 DEF calling
  <2>4. r = t
    BY <2>1, <2>3 DEF Become, Client, Clients
  <2> HIDE DEF s, r
  <2>5. Tidy(r, B, 0, 0)
    BY <1>1, <2>3, <2>4, TidySame
  <2>6. Grown(s.tree, r.tree)
    BY <2>3, <2>4 DEF Grown
  <2>7. /\ InStep(r, replies \ {a})
        /\ Await(r, replies \ {a}) = (Await(s, replies) \ {a.id}) \cup {n}
    <3>1. /\ Await(s, replies) \subseteq DOMAIN s.tree
          /\ n \notin Await(s, replies) \ {a.id}
      BY <1>1, <1>2
    <3>2. r.calls = s.calls \cup {n} /\ r.status = s.status
      BY <2>3, <2>4
    <3>3. ASSUME NEW c, c \notin Await(s, replies) \ {a.id},
                 r.calls = s.calls \cup {c}
          PROVE  /\ InStep(r, replies \ {a})
                 /\ Await(r, replies \ {a}) = (Await(s, replies) \ {a.id}) \cup {c}
      BY <1>1, <2>6, <3>1, <3>2, <3>3, HandledInStep
    <3> QED  BY <3>1, <3>2, <3>3
  <2>8. Asked' = B
    BY <1>2, <1>3, <1>4, <2>7
  <2>9. Dug(r, counts)
    BY <1>1, <2>3, <2>4, HandledDug
  <2> QED  BY <1>3, <2>5, <2>7, <2>8, <2>9
<1>8. CASE a.status = 200
  <2> DEFINE u == Deduced(s, n, a.amount)
             t == ScheduleNextExplore(u)
  <2>1. a.amount = Amount(s.tree[n].area)
    BY <1>1, <1>8 DEF InStep
  <2>2. Become(t)
    BY <1>8 DEF Handle, ProcessExploreResponse, Deduced
  <2> HIDE DEF s
  <2>3. Tidy(u, B \ {n}, 0, 0) /\ Kept(s, u)
    BY <1>1, <1>4, <2>1, DeducedSound
  <2> HIDE DEF u
  <2>4. Scheduled(u, B \ {n}, t)
    BY <2>3, ScheduleSound
  <2> HIDE DEF t
  <2>5. t \in Clients
    BY <2>4 DEF Scheduled, Tidy, Sound
  <2>6. r = t
    BY <2>2, <2>5 DEF Become, Client, Clients
  <2> HIDE DEF r
  <2>7. /\ Grown(s.tree, u.tree) /\ u.calls = s.calls /\ u.status = s.status
        /\ \A i \in DOMAIN s.found : i \in DOMAIN u.found
                                     /\ u.found[i] = s.found[i]
    BY <2>3 DEF Kept
  <2>8. Grown(u.tree, r.tree) /\ r.found = u.found
    BY <2>4, <2>6 DEF Scheduled
  <2>9. Grown(s.tree, r.tree)
    BY <2>7, <2>8 DEF Grown
  <2>10. Dug(r, counts')
    BY <1>1, <1>3, <2>7, <2>8, HandledDug
  <2>11. CASE r.status = "crashed" /\ r.calls = u.calls /\ Tidy(r, B \ {n}, 0, 0)
    <3>1. /\ InStep(r, replies \ {a})
          /\ Await(r, replies \ {a}) = Await(s, replies) \ {a.id}
      BY <1>1, <1>2, <2>7, <2>9, <2>11, CrashInStep
    <3> QED  BY <1>2, <1>3, <2>10, <2>11, <3>1
  <2>12. CASE /\ r.status = u.status
              /\ \E c \in DOMAIN u.tree \ (B \ {n}) :
                     /\ r.calls = u.calls \cup {c}
                     /\ Tidy(r, (B \ {n}) \cup {c}, 0, 0)
    <3>1. PICK c \in DOMAIN u.tree \ (B \ {n}) :
              r.calls = u.calls \cup {c} /\ Tidy(r, (B \ {n}) \cup {c}, 0, 0)
      BY <2>12
    <3>2. /\ InStep(r, replies \ {a})
          /\ Await(r, replies \ {a}) = (Await(s, replies) \ {a.id}) \cup {c}
      <4>1. /\ Await(s, replies) \subseteq DOMAIN s.tree
            /\ c \notin Await(s, replies) \ {a.id}
        BY <1>1, <1>2, <3>1
      <4>2. r.calls = s.calls \cup {c} /\ r.status = s.status
        BY <2>7, <2>12, <3>1
      <4> QED  BY <1>1, <2>9, <4>1, <4>2, HandledInStep
    <3> QED  BY <1>2, <1>3, <2>10, <3>1, <3>2
  <2> QED  BY <2>4, <2>6, <2>11, <2>12 DEF Scheduled
<1> QED  BY <1>7, <1>8

LEMMA DigInv ==
    ASSUME IInv, NEW c \in Cells, Dig(c)
    PROVE  IInv'
<1>1. /\ Client' = Client /\ Asked' = Asked /\ replies' = replies
      /\ refused' = refused
  BY DEF Dig, Client, Asked
<1>2. /\ counts \in [Cells -> Nat] /\ counts[c] > 0
      /\ counts' = [counts EXCEPT ![c] = counts[c] - 1]
      /\ \E i \in DOMAIN Client.found : Client.found[i].cell = c
      /\ Dug(Client, counts)
  BY DEF IInv, Dug, Dig, Client
<1>3. counts' \in [Cells -> Nat]
      /\ \A d \in Cells \ {c} : counts'[d] = counts[d]
  <2>1. counts[c] - 1 \in Nat
    BY <1>2
  <2> QED  BY <1>2, <2>1
<1>4. Dug(Client, counts')
  BY <1>2, <1>3 DEF Dug
<1> QED  BY <1>1, <1>4 DEF IInv

LEMMA StepInv == ASSUME IInv, [Next]_vars PROVE IInv'
<1>1. CASE UNCHANGED vars
  <2>1. /\ Client' = Client /\ Asked' = Asked /\ replies' = replies
        /\ refused' = refused /\ counts' = counts
    BY <1>1 DEF vars, Client, Asked
  <2> QED  BY <2>1 DEF IInv
<1>2. CASE \E n \in calls : Answer(n) \/ Refuse(n)
  BY <1>2, AnswerInv
<1>3. CASE \E reply \in replies : Handle(reply)
  BY <1>3, HandleInv
<1>4. CASE \E c \in Cells : Dig(c)
  BY <1>4, DigInv
<1> QED  BY <1>1, <1>2, <1>3, <1>4 DEF Next

-----------------------------------------------------------------------------
LEMMA Invariance == Spec => []IInv
<1>1. Init => IInv
  BY InitInv
<1>2. IInv /\ [Next]_vars => IInv'
  BY StepInv
<1> QED  BY <1>1, <1>2, PTL DEF Spec

LEMMA InvClient ==
    ASSUME IInv
    PROVE  /\ Client \in Clients /\ Tree(tree) /\ Queued(Client, {})
           /\ Flight(tree, Asked, 0) /\ Open(tree, Asked, 0, 0)
           /\ Handed(Client, 0) /\ InStep(Client, replies)
           /\ Dug(Client, counts) /\ Asked = Await(Client, replies)
           /\ Client.tree = tree /\ Client.queue = queue
           /\ Client.calls = calls /\ Client.found = found
           /\ Client.status = status
<1>1. /\ Client.tree = tree /\ Client.queue = queue
      /\ Client.calls = calls /\ Client.found = found
      /\ Client.status = status /\ Asked = Await(Client, replies)
  BY ClientIs
<1>2. /\ Sound(Client, Asked, 0, 0) /\ Handed(Client, 0)
      /\ InStep(Client, replies) /\ Dug(Client, counts)
  BY DEF IInv, Tidy
<1>3. Above(tree, 0) = {}
  BY DEF Above
<1> QED  BY <1>1, <1>2, <1>3 DEF Sound

\* a sequence whose elements are in a smaller set
LEMMA SeqWithin ==
    ASSUME NEW S, NEW T, NEW s \in Seq(S), \A i \in DOMAIN s : s[i] \in T
    PROVE  s \in Seq(T)
<1>1. Len(s) \in Nat /\ DOMAIN s = 1..Len(s) /\ s \in [1..Len(s) -> S]
  BY LenProperties
<1>2. s \in [1..Len(s) -> T]
  BY <1>1
<1> QED  BY <1>1, <1>2, SeqDef

LEMMA AreaType ==
    ASSUME Tree(tree), NEW n \in DOMAIN tree
    PROVE  tree[n] \in AreaNode
<1> DEFINE node == tree[n]
           L == Len(tree)
           D == Len(ExploreAreas)
<1>1. /\ L \in Nat /\ DOMAIN tree = 1..L
      /\ node \in Nodes /\ node.children \in Seq(Nat)
      /\ node.childSwaps \in Nat /\ node.actual \in Int
      /\ node.explored \in BOOLEAN /\ node.requestInFlight \in BOOLEAN
      /\ node.area \in Areas
  BY NodeType DEF Tree
<1>2. /\ node.exploredTreasures \in Int /\ node.nonExploredSize \in Nat
      /\ node.nonExploredCnt \in Nat
  BY LeftIsSum
<1>3. D \in Nat /\ DOMAIN ExploreAreas = 1..D
  <2>1. ExploreAreas \in Seq([height : Lengths, width : Lengths])
    BY SubAreasAssumption DEF Lengths
  <2> QED  BY <2>1, LenProperties
<1>4. node.parent \in 0..L
  <2>1. n = Root => node.parent = 0
    BY DEF Tree, RootIs
  <2>2. n # Root => node.parent \in DOMAIN tree
    BY Families
  <2> QED  BY <1>1, <2>1, <2>2
<1>5. node.exploreDepth \in 0..D
  <2>1. n = Root => node.exploreDepth = 0
    BY DEF Tree, RootIs
  <2>2. n # Root => node.exploreDepth \in DOMAIN ExploreAreas
    BY DEF Tree, Placed
  <2> QED  BY <1>3, <2>1, <2>2
<1>6. node.children \in Seq(1..L)
  <2> DEFINE c == node.children
  <2>1. \A i \in DOMAIN c : c[i] \in Kids(tree, n)
    BY DEF Kids, ToSet
  <2>2. \A i \in DOMAIN c : c[i] \in 1..L
    BY <1>1, <2>1, Families
  <2>3. c \in Seq(Nat)
    BY <1>1
  <2> HIDE DEF c, L
  <2>4. c \in Seq(1..L)
    BY <2>2, <2>3, SeqWithin
  <2> QED  BY <2>4 DEF c
<1>7. node = [parent |-> node.parent, area |-> node.area,
              exploreDepth |-> node.exploreDepth, actual |-> node.actual,
              explored |-> node.explored,
              requestInFlight |-> node.requestInFlight,
              children |-> node.children, childSwaps |-> node.childSwaps,
              exploredTreasures |-> node.exploredTreasures,
              nonExploredSize |-> node.nonExploredSize,
              nonExploredCnt |-> node.nonExploredCnt]
  BY <1>1 DEF Nodes
<1> HIDE DEF node
<1> QED  BY <1>1, <1>2, <1>4, <1>5, <1>6, <1>7 DEF AreaNode, Areas, Lengths, node

(***************************************************************************)
(* Every variable of the exploration has its type, whatever the treasures  *)
(* and the nominal number of them: the sizes and the numbers of children   *)
(* of an area never go below zero (api_entities.h:148-165). Its treasures  *)
(* may, when the nominal number is too small.                              *)
(***************************************************************************)
THEOREM ExploreTypes == Spec => []TypeOK
<1>1. ASSUME IInv PROVE TypeOK
  <2>1. /\ Client \in Clients /\ Tree(tree) /\ Queued(Client, {})
        /\ Flight(tree, Asked, 0) /\ InStep(Client, replies)
        /\ Dug(Client, counts) /\ Client.tree = tree /\ Client.queue = queue
        /\ Client.found = found /\ Client.status = status
    BY <1>1, InvClient
  <2>2. tree \in Seq(AreaNode)
    <3>1. tree \in Seq(Nodes) /\ \A n \in DOMAIN tree : tree[n] \in AreaNode
      BY <2>1, AreaType DEF Tree
    <3> QED  BY <3>1, SeqWithin
  <2>3. queue \in Seq(Ids)
    <3>1. queue \in Seq(Nat) /\ \A i \in DOMAIN queue : queue[i] \in Ids
      BY <2>1, ClientType DEF Queued, ToSet, Ids
    <3> QED  BY <3>1, SeqWithin
  <2>4. calls \in SUBSET Ids
    BY <2>1 DEF Flight, Asked, Ids
  <2>5. replies \subseteq [id : Ids, status : {200, 429}, amount : Nat]
    <3>1. replies \subseteq Answers /\ \A reply \in replies : reply.id \in Ids
      BY <2>1 DEF Flight, Asked, Ids, InStep
    <3> QED  BY <3>1 DEF Answers
  <2>6. found \in Seq([cell : Cells, amount : Int])
    BY <2>1, ClientType DEF Located
  <2>7. status \in {"running", "crashed"}
    BY <2>1, ClientType
  <2>8. counts \in [Cells -> Nat] /\ refused \in 0..MaxRefused
    BY <1>1, <2>1 DEF Dug, IInv
  <2> QED  BY <2>2, <2>3, <2>4, <2>5, <2>6, <2>7, <2>8 DEF TypeOK
<1> QED  BY <1>1, Invariance, PTL

(***************************************************************************)
(* The queue stays in order, whatever the answers and their order: an area *)
(* is out of it while its key changes (state.cpp:5-25, app.cpp:363-386).   *)
(***************************************************************************)
THEOREM QueueInOrder == Spec => []QueueSorted
<1>1. ASSUME IInv PROVE QueueSorted
  BY <1>1, InvClient DEF Queued, SortedBy, QueueSorted
<1> QED  BY <1>1, Invariance, PTL

(***************************************************************************)
(* The queue holds exactly the areas that are cut and have treasures that  *)
(* are not located yet.                                                    *)
(***************************************************************************)
THEOREM QueueComplete == Spec => []QueueExact
<1>1. ASSUME IInv PROVE QueueExact
  <2>1. Queued(Client, {}) /\ Client.tree = tree /\ Client.queue = queue
    BY <1>1, InvClient
  <2>2. \A n \in Ids : Worth(tree, n)
                           <=> tree[n].children # <<>> /\ Left(Client, n) # 0
    BY <2>1 DEF Worth, Leaf, Left
  <2>3. \A n \in Ids : n \in ToSet(queue) <=> Worth(tree, n)
    BY <2>1 DEF Queued, Ids
  <2> QED  BY <2>2, <2>3 DEF QueueExact
<1> QED  BY <1>1, Invariance, PTL

\* the sum of a function over its domain
LEMMA SumFunctionIs ==
    ASSUME NEW f PROVE SumFunction(f) = Sum(f, DOMAIN f)
BY DEF SumFunction, FoldFunction, Sum, SumFunctionOnSet

LEMMA SumOver ==
    ASSUME NEW S, IsFiniteSet(S), NEW f, \A x \in S : f[x] \in Int,
           NEW g, DOMAIN g = S, \A x \in S : g[x] = f[x]
    PROVE  SumFunction(g) = Sum(f, S)
BY SumFunctionIs, SumEqual

\* what the client believes of the explored parts of an area, added up
LEMMA SumOfBeliefs ==
    ASSUME NEW tr, Tree(tr), NEW n \in DOMAIN tr, NEW f, DOMAIN f = Explored(tr, n),
           \A c \in Explored(tr, n) : f[c] = tr[c].actual
    PROVE  tr[n].exploredTreasures = SumFunction(f)
<1> DEFINE E == Explored(tr, n)
           a == Amounts(tr)
<1>1. tr[n].exploredTreasures = IF Complete(tr, n) THEN tr[n].actual ELSE Sum(a, E)
  BY DEF Tree, Balanced
<1>2. IsFiniteSet(E)
  BY LeftIsSum
<1>3. \A c \in Kids(tr, n) : c \in DOMAIN tr /\ tr[c].area \in Areas
                             /\ tr[c].actual \in Int
  BY Families, NodeType DEF Tree
<1>4. ASSUME NEW c \in E
      PROVE  a[c] \in Int /\ Off(tr, c) \in Int /\ f[c] = a[c] + Off(tr, c)
  <2>1. c \in DOMAIN tr /\ tr[c].area \in Areas /\ tr[c].actual \in Int
    BY <1>3 DEF Explored
  <2>2. a[c] = Amount(tr[c].area) /\ Amount(tr[c].area) \in Int
    BY <2>1, AmountIsSum DEF Amounts
  <2>3. f[c] = tr[c].actual /\ Off(tr, c) = tr[c].actual - Amount(tr[c].area)
    BY DEF Off
  <2> QED  BY <2>1, <2>2, <2>3
<1>5. SumFunction(f) = Sum(f, E)
  BY SumFunctionIs
<1>6. CASE ~Complete(tr, n)
  <2>1. \A c \in E : Off(tr, c) = 0
    BY <1>6 DEF Tree, Inherits
  <2>2. \A c \in E : f[c] = a[c] /\ a[c] \in Int
    BY <1>4, <2>1
  <2> HIDE DEF E, a
  <2>3. Sum(f, E) = Sum(a, E)
    BY <1>2, <2>2, SumEqual
  <2> QED  BY <1>1, <1>5, <1>6, <2>3
<1>7. CASE Complete(tr, n)
  <2>1. E = Kids(tr, n) /\ ~Leaf(tr, n)
    BY <1>7 DEF Complete, Explored, Waiting
  <2>2. PICK d \in E : \A c \in E : Off(tr, c) = IF c = d THEN Off(tr, n) ELSE 0
    BY <1>7, <2>1 DEF Tree, Inherits
  <2>3. Amount(tr[n].area) = Sum(a, E)
    BY <2>1 DEF Tree, Balanced
  <2>4. /\ Off(tr, n) \in Int /\ Off(tr, n) = tr[n].actual - Amount(tr[n].area)
        /\ tr[n].actual \in Int /\ Amount(tr[n].area) \in Int
    BY NodeType, AmountIsSum DEF Tree, Off
  <2>5. \A c \in E : /\ a[c] \in Int
                     /\ f[c] = IF c = d THEN a[c] + Off(tr, n) ELSE a[c]
    BY <1>4, <2>2
  <2> HIDE DEF E, a
  <2>6. /\ a[d] \in Int /\ f[d] = a[d] + Off(tr, n) /\ f[d] \in Int
        /\ \A c \in E : a[c] \in Int
        /\ \A c \in E \ {d} : f[c] = a[c]
    BY <2>4, <2>5
  <2>7. /\ Sum(f, E) = Sum(a, E) - a[d] + f[d]
        /\ Sum(a, E) \in Int
    BY <1>2, <2>6, SumChange
  <2>8. tr[n].exploredTreasures = tr[n].actual
    BY <1>1, <1>7
  <2> QED  BY <1>5, <2>3, <2>4, <2>6, <2>7, <2>8
<1> QED  BY <1>6, <1>7

(***************************************************************************)
(* The counters of an area are the sums over its children, and iter_swap   *)
(* keeps the explored children at the end, whatever the nominal number of  *)
(* treasures.                                                              *)
(***************************************************************************)
THEOREM CountersAgree == Spec => []NodeSums
<1>1. ASSUME IInv PROVE NodeSums
  <2> SUFFICES ASSUME NEW n \in Ids
               PROVE  /\ tree[n].exploredTreasures =
                             SumFunction([c \in Explored(tree, n) |-> tree[c].actual])
                      /\ tree[n].nonExploredSize =
                             SumFunction([c \in Waiting(tree, n) |->
                                              Size(tree[c].area)])
                      /\ tree[n].nonExploredCnt = Cardinality(Waiting(tree, n))
                      /\ \A i \in DOMAIN tree[n].children :
                             tree[tree[n].children[i]].explored
                                 <=> i > Len(tree[n].children) - tree[n].childSwaps
    <3>1. \A n \in Ids :
              /\ Explored(tree, n) = {c \in Children(n) : tree[c].explored}
              /\ Waiting(tree, n) = Children(n) \ Explored(tree, n)
      BY DEF Explored, Waiting, Kids, Children
    <3> QED  BY <3>1 DEF NodeSums
  <2> DEFINE W == Waiting(tree, n)
             f == [c \in Explored(tree, n) |-> tree[c].actual]
             g == [c \in W |-> Size(tree[c].area)]
  <2>1. /\ Tree(tree) /\ n \in DOMAIN tree
    BY <1>1, InvClient DEF Ids
  <2>2. /\ tree[n].nonExploredSize = Sum(Sizes(tree), W)
        /\ tree[n].nonExploredCnt = Cardinality(W)
        /\ \A i \in DOMAIN tree[n].children :
               tree[tree[n].children[i]].explored
                   <=> i > Len(tree[n].children) - tree[n].childSwaps
    BY <2>1 DEF Tree, Balanced
  <2>3. IsFiniteSet(W)
    BY <2>1, LeftIsSum
  <2>4. \A c \in Kids(tree, n) : c \in DOMAIN tree /\ tree[c].area \in Areas
    BY <2>1, Families, NodeType DEF Tree
  <2>5. tree[n].exploredTreasures = SumFunction(f)
    <3>1. DOMAIN f = Explored(tree, n)
          /\ \A c \in Explored(tree, n) : f[c] = tree[c].actual
      OBVIOUS
    <3> HIDE DEF f
    <3> QED  BY <2>1, <3>1, SumOfBeliefs
  <2>6. SumFunction(g) = Sum(Sizes(tree), W)
    <3>1. \A c \in W : /\ Sizes(tree)[c] = Size(tree[c].area)
                       /\ g[c] = Size(tree[c].area)
      BY <2>4 DEF Sizes, Waiting
    <3>2. \A c \in W : Size(tree[c].area) \in Int
      BY <2>4, SizeType DEF Waiting
    <3>3. DOMAIN g = W
      OBVIOUS
    <3> HIDE DEF g, W
    <3> QED  BY <2>3, <3>1, <3>2, <3>3, SumOver
  <2> QED  BY <2>2, <2>5, <2>6
<1> QED  BY <1>1, Invariance, PTL

(***************************************************************************)
(* Whatever the treasures and the nominal number of them, and although     *)
(* cells are dug meanwhile: the error of the nominal number is that of one *)
(* area at a time, handed down to the part that is deduced last; no area   *)
(* that was asked for is wrong; one cell at most is handed over with a     *)
(* wrong number of treasures, none if the nominal number is right, and no  *)
(* cell twice (app.cpp:40, 143-168, 188-195).                              *)
(***************************************************************************)
THEOREM BeliefsExact == Spec => []CountsExact
<1>1. ASSUME IInv PROVE CountsExact
  <2>1. Tree(tree) /\ Handed(Client, 0) /\ Client.tree = tree /\ Client.found = found
    BY <1>1, InvClient
  <2>2. \A n \in Ids : Surplus(n) = Off(tree, n)
    BY DEF Surplus, Off, Amount
  <2>3. ASSUME NEW n \in Ids
        PROVE  /\ Children(n) = Kids(tree, n) /\ Children(n) \subseteq Ids
               /\ tree[n].nonExploredCnt # 0 => ~Complete(tree, n)
               /\ tree[n].nonExploredCnt = 0 /\ tree[n].children # <<>>
                      => Complete(tree, n)
               /\ Inherits(tree, n)
    <3>1. n \in DOMAIN tree
      BY DEF Ids
    <3>2. Children(n) = Kids(tree, n) /\ Children(n) \subseteq Ids
      BY <2>1, <3>1, Families DEF Ids, Children, Kids
    <3>3. /\ tree[n].nonExploredCnt = Cardinality(Waiting(tree, n))
          /\ IsFiniteSet(Waiting(tree, n)) /\ Inherits(tree, n)
      BY <2>1, <3>1, LeftIsSum DEF Tree, Balanced
    <3>4. tree[n].nonExploredCnt = 0 <=> Waiting(tree, n) = {}
      BY <3>3, FS_EmptySet
    <3> QED  BY <3>2, <3>3, <3>4 DEF Complete, Leaf
  <2>4. ASSUME NEW n \in Ids, tree[n].nonExploredCnt # 0,
               NEW c \in Children(n), tree[c].explored
        PROVE  Surplus(c) = 0
    BY <2>2, <2>3, <2>4 DEF Inherits, Explored
  <2>5. ASSUME NEW n \in Ids, tree[n].nonExploredCnt = 0, tree[n].children # <<>>
        PROVE  \E last \in Children(n) : \A c \in Children(n) :
                   Surplus(c) = IF c = last THEN Surplus(n) ELSE 0
    <3>1. PICK d \in Kids(tree, n) : \A c \in Kids(tree, n) :
              Off(tree, c) = IF c = d THEN Off(tree, n) ELSE 0
      BY <2>3, <2>5 DEF Inherits
    <3> QED  BY <2>2, <2>3, <3>1
  <2>6. ASSUME NEW i \in DOMAIN found, found[i].amount # Treasures[found[i].cell]
        PROVE  \E n \in DOMAIN tree :
                   /\ Astray(tree, n)
                   /\ found[i].cell = <<tree[n].area.x, tree[n].area.y>>
    <3>1. PICK n \in DOMAIN tree \ {0} :
              /\ tree[n].explored /\ Size(tree[n].area) = 1
              /\ found[i] = [cell |-> <<tree[n].area.x, tree[n].area.y>>,
                             amount |-> tree[n].actual]
      BY <2>1 DEF Handed
    <3>2. tree[n].area \in Areas /\ Inside(tree[n].area, Field)
          /\ tree[n].actual \in Int
      BY <2>1, NodeType DEF Tree, Placed
    <3>3. /\ Amount(tree[n].area) = Treasures[<<tree[n].area.x, tree[n].area.y>>]
          /\ Amount(tree[n].area) \in Int
      BY <3>1, <3>2, OneCell, AmountIsSum
    <3>4. Off(tree, n) # 0
      BY <2>6, <3>1, <3>2, <3>3 DEF Off
    <3>5. Leaf(tree, n)
      <4>1. n # Root
        BY <2>1, <3>1 DEF Tree, RootIs
      <4> QED  BY <2>1, <3>1, <4>1 DEF Tree, Kin
    <3> QED  BY <3>1, <3>4, <3>5 DEF Astray, Known, Complete
  <2>7. \A i, j \in DOMAIN found : found[i].cell = found[j].cell => i = j
    BY <2>1 DEF Handed
  <2>8. \A m, n \in DOMAIN tree :
            Astray(tree, m) /\ Astray(tree, n) => m = n /\ Nominal # Amount(Field)
    BY <2>1 DEF Tree, Told
  <2> DEFINE wrong == {i \in DOMAIN found :
                          found[i].amount # Treasures[found[i].cell]}
  <2>9. \A i, j \in wrong : i = j
    BY <2>6, <2>7, <2>8
  <2>10. Nominal = TreasuresIn(Treasures, Field) => wrong = {}
    BY <2>6, <2>8 DEF Amount
  <2> QED  BY <2>4, <2>5, <2>7, <2>9, <2>10 DEF CountsExact
<1> QED  BY <1>1, Invariance, PTL

(***************************************************************************)
(* The client that has not crashed keeps the same number of explore calls  *)
(* under way, no two for one area, and marks exactly their areas; refused  *)
(* calls are made again (app.cpp:20-28, 126-135).                          *)
(***************************************************************************)
THEOREM CallsTracked == Spec => []CallsInStep
<1>1. ASSUME IInv PROVE CallsInStep
  <2>1. /\ Flight(tree, Asked, 0) /\ InStep(Client, replies)
        /\ Asked = Await(Client, replies) /\ Client.calls = calls
        /\ Client.status = status /\ Tree(tree)
    BY <1>1, InvClient
  <2>2. status = "running" =>
            /\ Cardinality(calls) + Cardinality(replies) = Concurrent
            /\ Cardinality(Asked) = Concurrent
    BY <2>1 DEF InStep
  <2>3. 0 \notin DOMAIN tree
    BY <2>1, NodeType DEF Tree
  <2>4. \A n \in Ids : tree[n].requestInFlight
                           <=> n \in Asked /\ ~tree[n].explored
    BY <2>1, <2>3 DEF Flight, Ids
  <2> QED  BY <2>2, <2>4 DEF CallsInStep
<1> QED  BY <1>1, Invariance, PTL

(***************************************************************************)
(* Whatever is asked for, one unexplored part of every area is kept to be  *)
(* deduced, and is deduced when it is the last (app.cpp:149-156).          *)
(***************************************************************************)
THEOREM LastDeduced == Spec => []LastIsDeduced
<1>1. ASSUME IInv PROVE LastIsDeduced
  <2>1. Open(tree, Asked, 0, 0) /\ Tree(tree)
    BY <1>1, InvClient
  <2>2. 0 \notin DOMAIN tree /\ Above(tree, 0) = {}
    BY <2>1, NodeType DEF Tree, Above
  <2>3. \A n \in Ids : tree[n].nonExploredCnt # 1
                       /\ (tree[n].nonExploredCnt = 0 \/ Spare(tree, Asked, 0, n))
    BY <2>1, <2>2 DEF Open, Ids
  <2> QED  BY <2>3 DEF LastIsDeduced, Spare, Waiting, Kids, Children
<1> QED  BY <1>1, Invariance, PTL

-----------------------------------------------------------------------------
(***************************************************************************)
(* The walk of MCSubAreas from the field down to single cells.             *)
(***************************************************************************)
WalkInv == area \in Areas /\ depth \in Nat

LEMMA WalkInvariant == Walk => []WalkInv
<1>1. AtField => WalkInv
  BY SubAreasAssumption DEF AtField, WalkInv, Field, Areas, Lengths
<1>2. WalkInv /\ [Descend]_<<area, depth>> => WalkInv'
  <2> SUFFICES ASSUME WalkInv, Descend PROVE WalkInv'
    BY DEF WalkInv
  <2> QED  BY PartInside DEF WalkInv, Descend, HasRow
<1> QED  BY <1>1, <1>2, PTL DEF Walk

(***************************************************************************)
(* Whatever the field and the table, every area that is reached is cut     *)
(* into parts that are not empty, lie inside it, are disjoint, and leave   *)
(* no cell out (app.cpp:324-349).                                          *)
(***************************************************************************)
THEOREM CutCorrect == Walk => []CutIsPartition
<1>1. WalkInv => CutIsPartition
  <2> SUFFICES ASSUME WalkInv, HasRow PROVE CutIsPartition
    BY DEF CutIsPartition
  <2>1. area \in Areas /\ depth \in Nat /\ depth + 1 \in DOMAIN ExploreAreas
    BY DEF WalkInv, HasRow
  <2>2. ASSUME NEW k \in DOMAIN SubAreas(area, depth)
        PROVE  /\ Size(SubAreas(area, depth)[k]) > 0
               /\ Inside(SubAreas(area, depth)[k], area)
    <3>1. /\ SubAreas(area, depth)[k] \in Areas
          /\ Inside(SubAreas(area, depth)[k], area)
      BY <2>1, PartInside
    <3>2. ASSUME NEW b \in Areas PROVE Size(b) > 0
      BY DEF Areas, Size, Lengths
    <3> QED  BY <3>1, <3>2
  <2>3. \A k, l \in DOMAIN SubAreas(area, depth) :
            k # l => Disjoint(SubAreas(area, depth)[k], SubAreas(area, depth)[l])
    BY <2>1, PartsDisjoint
  <2>4. \A x \in area.x..(area.x + area.sizeX - 1),
           y \in area.y..(area.y + area.sizeY - 1) :
            \E k \in DOMAIN SubAreas(area, depth) : In(x, y, SubAreas(area, depth)[k])
    BY <2>1, PartsCover
  <2> QED  BY <2>2, <2>3, <2>4 DEF CutIsPartition
<1> QED  BY <1>1, WalkInvariant, PTL

(***************************************************************************)
(* The client's table.                                                     *)
(***************************************************************************)
LEMMA ClientTable ==
    ASSUME ExploreAreas = kExploreAreas
    PROVE  /\ DOMAIN ExploreAreas = 1..9
           /\ \A i \in 1..9 : ExploreAreas[i] = [height |-> Heights[i], width |-> 1]
           /\ \A i \in 1..9 : Heights[i] \in Nat
           /\ Heights[9] = 1
BY DEF kExploreAreas, Heights

(***************************************************************************)
(* With the client's table every area that has more than one cell has a    *)
(* row, whatever the size of the field: an area is no larger than the row  *)
(* it was cut with, and those of the last row are single cells             *)
(* (app.cpp:325-326, const.h:23-39).                                       *)
(***************************************************************************)
THEOREM TableSuffices ==
    ASSUME ExploreAreas = kExploreAreas
    PROVE  Walk => []TableLongEnough
<1> DEFINE Small == /\ depth \in 0..9
                    /\ depth > 0 => /\ area.sizeX <= Heights[depth]
                                    /\ area.sizeY <= 1
<1>1. AtField => Small
  BY DEF AtField
<1>2. WalkInv /\ Small /\ [Descend]_<<area, depth>> => Small'
  <2> SUFFICES ASSUME WalkInv, Small, Descend PROVE Small'
    OBVIOUS
  <2>1. PICK k \in DOMAIN SubAreas(area, depth) : area' = SubAreas(area, depth)[k]
    BY DEF Descend
  <2>2. area \in Areas /\ depth \in Nat /\ depth + 1 \in DOMAIN ExploreAreas
        /\ depth' = depth + 1
    BY DEF WalkInv, Descend, HasRow
  <2>3. /\ area'.sizeX <= ExploreAreas[depth + 1].height
        /\ area'.sizeY <= ExploreAreas[depth + 1].width
    BY <2>1, <2>2, PartInside
  <2>4. depth + 1 \in 1..9
    BY <2>2, ClientTable
  <2> QED  BY <2>2, <2>3, <2>4, ClientTable
<1>3. WalkInv /\ Small => TableLongEnough
  <2> SUFFICES ASSUME WalkInv, Small, depth + 1 \notin DOMAIN ExploreAreas
               PROVE  Size(area) = 1
    BY DEF TableLongEnough, HasRow
  <2>1. depth = 9
    BY ClientTable
  <2>2. area.sizeX = 1 /\ area.sizeY = 1
    BY <2>1, ClientTable DEF WalkInv, Areas, Lengths
  <2> QED  BY <2>2 DEF Size
<1> HIDE DEF Small
<1> QED  BY <1>1, <1>2, <1>3, WalkInvariant, PTL DEF Walk
=============================================================================
