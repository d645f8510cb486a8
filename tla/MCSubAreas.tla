----------------------------- MODULE MCSubAreas -----------------------------
(***************************************************************************)
(* The cut with the client's own table: a walk from the field down to the  *)
(* single cells. All columns of the field are cut alike, so a field of     *)
(* three columns has every shape the full one has.                         *)
(***************************************************************************)
EXTENDS SubAreas

VARIABLES area, depth

AtField == area = Field /\ depth = 0

\* the table is read only for areas of more than one cell
HasRow == depth + 1 \in DOMAIN ExploreAreas

Descend == /\ Size(area) > 1 /\ HasRow
           /\ depth' = depth + 1
           /\ \E k \in DOMAIN SubAreas(area, depth) :
                  area' = SubAreas(area, depth)[k]

Walk == AtField /\ [][Descend]_<<area, depth>>

(***************************************************************************)
(* Where an area of more than one cell is cut, the table has a row for it: *)
(* createSubAreas reads kExploreAreas without looking at the size of the   *)
(* table (app.cpp:325-326).                                                *)
(***************************************************************************)
TableLongEnough == Size(area) > 1 => HasRow

(***************************************************************************)
(* A cut loses no cell and counts none twice: the parts are not empty, lie *)
(* inside the area, are disjoint, and together are the whole area. The     *)
(* client relies on it when it deduces the last part from the others       *)
(* (app.cpp:324-349).                                                      *)
(***************************************************************************)
CutIsPartition ==
    Size(area) > 1 /\ HasRow =>
        LET parts == SubAreas(area, depth)
        IN  /\ \A i \in DOMAIN parts : /\ Size(parts[i]) > 0
                                       /\ Inside(parts[i], area)
            /\ \A i, j \in DOMAIN parts : i # j => Disjoint(parts[i], parts[j])
            /\ \A x \in area.x..(area.x + area.sizeX - 1),
                  y \in area.y..(area.y + area.sizeY - 1) :
                   \E i \in DOMAIN parts : In(x, y, parts[i])
=============================================================================
