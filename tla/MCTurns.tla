------------------------------- MODULE MCTurns -------------------------------
(* A small instance of PlayerBotTurns for TLC. *)
EXTENDS PlayerBotTurns
=============================================================================
