--------------------------- MODULE MCExploreTree ---------------------------
(***************************************************************************)
(* A field of four columns of five cells, cut into strips of 3, then 2,    *)
(* then 1, so that last strips are shorter and some cuts have one part.    *)
(* The six treasures are more than the nominal number of the cfg, so that  *)
(* a difference of the client's counts wraps around.                       *)
(***************************************************************************)
EXTENDS ExploreTree

MCExploreAreas == << [height |-> 5, width |-> 1], [height |-> 3, width |-> 1],
                     [height |-> 2, width |-> 1], [height |-> 1, width |-> 1] >>

MCTreasures == [c \in Cells |->
    IF c \in {<<0, 0>>, <<4, 0>>, <<3, 1>>, <<2, 2>>} THEN 1
    ELSE IF c = <<1, 0>> THEN 2 ELSE 0]
=============================================================================
