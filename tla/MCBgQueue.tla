------------------------------ MODULE MCBgQueue ------------------------------
(* A player of each team: one joins, plays, leaves and joins again. *)
EXTENDS BgQueue, TLC

CONSTANTS a1, h1

MCMaxJoins == a1 :> 2 @@ h1 :> 1
=============================================================================
