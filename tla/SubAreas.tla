------------------------------ MODULE SubAreas ------------------------------
(***************************************************************************)
(* How an explored area is cut into smaller ones (App::createSubAreas with *)
(* the table kExploreAreas): strips of a given height along x and width    *)
(* along y, the last strip being what is left.                             *)
(***************************************************************************)
EXTENDS Integers, Sequences

CONSTANTS FieldX, FieldY,   \* kFieldMaxX, kFieldMaxY
          ExploreAreas      \* kExploreAreas: for each depth a height and width

ASSUME SubAreasAssumption ==
    /\ FieldX \in Nat \ {0} /\ FieldY \in Nat \ {0}
    /\ ExploreAreas \in Seq([height : Nat \ {0}, width : Nat \ {0}])

\* mutant: the last row is missing
Heights_Short == <<3500, 875, 219, 55, 14, 7, 4, 2>>
\* the rows of the client's table, all of width 1
Heights == <<3500, 875, 219, 55, 14, 7, 4, 2, 1>>
kExploreAreas == [i \in DOMAIN Heights |-> [height |-> Heights[i], width |-> 1]]

Field == [x |-> 0, y |-> 0, sizeX |-> FieldX, sizeY |-> FieldY]

\* Area::getArea
Size(area) == area.sizeX * area.sizeY

\* number of strips of length n that cover a length
Strips(length, n) == (length + n - 1) \div n

\* mutant: every strip has the full length
StripLength_Full(k, length, n) == n

\* the k-th strip, from 0: where it starts and how long it is
StripStart(k, n) == k * n
StripLength(k, length, n) == IF (k + 1) * n > length THEN length - k * n ELSE n

\* the cut of an area explored at a depth, in the order of the two loops
SubAreas(area, depth) ==
    LET h == ExploreAreas[depth + 1].height
        w == ExploreAreas[depth + 1].width
        columns == Strips(area.sizeY, w)
    IN  [k \in 1..(Strips(area.sizeX, h) * columns) |->
            LET i == (k - 1) \div columns
                j == (k - 1) % columns
            IN  [x |-> area.x + StripStart(i, h),
                 y |-> area.y + StripStart(j, w),
                 sizeX |-> StripLength(i, area.sizeX, h),
                 sizeY |-> StripLength(j, area.sizeY, w)]]

\* a cell of the field lies in an area
In(x, y, area) == /\ area.x <= x /\ x < area.x + area.sizeX
                  /\ area.y <= y /\ y < area.y + area.sizeY

Inside(a, b) == /\ b.x <= a.x /\ a.x + a.sizeX <= b.x + b.sizeX
                /\ b.y <= a.y /\ a.y + a.sizeY <= b.y + b.sizeY

Disjoint(a, b) == \/ a.x + a.sizeX <= b.x \/ b.x + b.sizeX <= a.x
                  \/ a.y + a.sizeY <= b.y \/ b.y + b.sizeY <= a.y
=============================================================================
