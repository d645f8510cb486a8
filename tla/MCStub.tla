------------------------------- MODULE MCStub -------------------------------
(***************************************************************************)
(* Two cells of two depths and three maps: treasures at both depths of a   *)
(* cell, treasures at the second depth only, and one that pays for a       *)
(* bigger licence. The bodies have numbers on both sides of each limit of  *)
(* the schemas and of the field, and some leave out a field.               *)
(***************************************************************************)
EXTENDS Stub

MCMap(values) == [c \in Cell |-> [d \in Depths |-> values[c[1] + 1][d]]]

MCTreasureMaps == {MCMap(<< <<1, 1>>, <<1, 0>> >>),
                   MCMap(<< <<0, 2>>, <<0, 1>> >>),
                   MCMap(<< <<6, 0>>, <<0, 0>> >>)}

Without(bodies) == UNION {{Restrict(body, DOMAIN body \ {f}) : f \in DOMAIN body} :
                              body \in bodies}

MCAreas == [posX : {0, 1, 2}, posY : {0}, sizeX : {1, 2}, sizeY : {1}]
MCAreaBodies ==
    MCAreas \cup Without(MCAreas)
    \cup [posX : {-1}, posY : {0}, sizeX : {1}, sizeY : {1}]
    \cup [posX : {0}, posY : {0}, sizeX : {0}, sizeY : {1}]

MCDigs == [licenseID : 1..2, posX : 0..2, posY : {0}, depth : 1..3]
MCDigBodies ==
    MCDigs \cup Without([licenseID : {1}, posX : {0}, posY : {0}, depth : {1}])
    \cup [licenseID : {3}, posX : {-1, 0}, posY : {1}, depth : {0, 1, 100, 101}]

\* no payment, one coin, two that may be the same, and six
MCPayments == {<<>>, <<0>>, <<1>>, <<2>>, <<0, 1>>, <<1, 1>>, <<0, 1, 2, 3, 4, 5>>}
=============================================================================
