------------------------------- MODULE MCDepot -------------------------------
(* Small instances of PlayerBotDepot for TLC. *)
EXTENDS PlayerBotDepot

CONSTANT sword      \* what is deposited
=============================================================================
