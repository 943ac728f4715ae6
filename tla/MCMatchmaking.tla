--------------------------- MODULE MCMatchmaking ---------------------------
(***************************************************************************)
(* Small instances of Matchmaking for TLC.                                 *)
(***************************************************************************)
EXTENDS Matchmaking, TLC

\* Players, joins and instances are interchangeable: nothing orders them.
Symmetry == Permutations(Players) \cup Permutations(Joins) \cup Permutations(Instances)
=============================================================================
