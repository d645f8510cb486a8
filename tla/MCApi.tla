------------------------------- MODULE MCApi -------------------------------
(***************************************************************************)
(* A small pool: two workers and three requests, an exploration and two    *)
(* digs at different depths, for a queue of two.                           *)
(***************************************************************************)
EXTENDS Api, TLC

CONSTANTS w1, w2, explore, dig1, dig2

MCWorkers == {w1, w2}
MCRequest == {explore, dig1, dig2}
MCType == (explore :> "Explore") @@ (dig1 :> "Dig") @@ (dig2 :> "Dig")
MCDepth == (explore :> 0) @@ (dig1 :> 1) @@ (dig2 :> 2)
=============================================================================
