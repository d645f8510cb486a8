----------------------------- MODULE MCGoldRush -----------------------------
(***************************************************************************)
(* Two cells of three depths, with treasures of different shapes.          *)
(***************************************************************************)
EXTENDS GoldRush

Columns == (0..(Width - 1)) \X (0..(Height - 1))

MCMap(values) ==
    [c \in Columns |-> [d \in 1..MaxDepth |-> values[c[1] + 1][d]]]

MCTreasureMaps == {MCMap(<< <<0, 1, 1>>, <<1, 0, 0>> >>),
                   MCMap(<< <<1, 1, 1>>, <<0, 0, 0>> >>)}
=============================================================================
