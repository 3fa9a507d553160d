------------------------------ MODULE MCThreads ------------------------------
(* A small instance of TfsThreads for TLC. *)
EXTENDS TfsThreads

CONSTANTS q1, q2, s1    \* two queries and a save
=============================================================================
