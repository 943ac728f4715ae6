----------------------------- MODULE MCPresence -----------------------------
(***************************************************************************)
(* Small instances of Presence for TLC.                                    *)
(***************************************************************************)
EXTENDS Presence, TLC

Symmetry ==
    Permutations(Users) \cup Permutations(Instances) \cup Permutations(Sockets)
    \cup Permutations(Calls)
=============================================================================
