---------------------------- MODULE MCRouteCache ----------------------------
(* Small instances of PlayerBotRouteCache for TLC. *)
EXTENDS PlayerBotRouteCache, TLC

\* Tiles and controllers are told apart by nothing but what happens to them.
Symmetry == Permutations(Tiles) \cup Permutations(Works)
=============================================================================
