------------------------------ MODULE MCGames ------------------------------
(* A small instance of Games.                                              *)
EXTENDS Games, TLC

CONSTANTS spawn, capture

\* No definition tells one pid from another, nor one thread or library from another.
Symmetry == Permutations(Pids) \cup Permutations(Threads) \cup Permutations(Libraries)
=============================================================================
