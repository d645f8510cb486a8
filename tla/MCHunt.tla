------------------------------- MODULE MCHunt -------------------------------
(***************************************************************************)
(* Two columns of two cells. The treasures of both cells of the first one  *)
(* are located by one response.                                            *)
(***************************************************************************)
EXTENDS Hunt

Columns == (0..(Width - 1)) \X (0..(Height - 1))

MCTreasureMaps == {[c \in Columns |->
                       CASE c = <<0, 0>> -> <<0, 1>>
                         [] c = <<1, 0>> -> <<1, 1>>
                         [] c = <<0, 1>> -> <<1, 0>>
                         [] c = <<1, 1>> -> <<0, 0>>]}

MCExploreAreas == << [height |-> 2, width |-> 1], [height |-> 1, width |-> 1] >>
=============================================================================
