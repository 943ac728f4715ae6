----------------------------- MODULE MCFriends -----------------------------
(***************************************************************************)
(* Small instances of Friends for TLC.                                     *)
(***************************************************************************)
EXTENDS Friends, TLC

Symmetry ==
    Permutations(Users) \cup Permutations(Sends) \cup Permutations(Accepts)
    \cup Permutations(Rejects) \cup Permutations(Removes)
=============================================================================
