---------------------------- MODULE MCLifecycle ----------------------------
(* Small instances of PlayerBotLifecycle for TLC *)
EXTENDS PlayerBotLifecycle, TLC

Symmetry == Permutations(Bots)
=============================================================================
