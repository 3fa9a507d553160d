------------------------------- MODULE MCLoot --------------------------------
(* A small instance of PlayerBotLoot for TLC. *)
EXTENDS PlayerBotLoot

\* A pouch in the bag, with room for one item more.
Pouch == {"pouch"}
=============================================================================
