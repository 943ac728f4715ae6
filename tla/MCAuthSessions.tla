--------------------------- MODULE MCAuthSessions ---------------------------
(***************************************************************************)
(* Small instances of AuthSessions for TLC.                                *)
(***************************************************************************)
EXTENDS AuthSessions, TLC

Symmetry ==
    Permutations(Users) \cup Permutations(Logins) \cup Permutations(Refreshes) \cup Permutations(Cleaners)
=============================================================================
