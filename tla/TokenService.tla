---------------------------- MODULE TokenService ----------------------------
(***************************************************************************)
(* What POST /login, /refresh and /logout promise about refresh tokens: a  *)
(* token is given out once, stays usable until it is exchanged or its      *)
(* session ends, and never comes back.  AuthSessions implements it, and    *)
(* the browser of Dashboard relies on it.                                  *)
(***************************************************************************)
CONSTANTS Tokens

VARIABLES
    issued,    \* tokens that a login or a refresh generated and stored
    live,      \* tokens that POST /refresh accepts
    exchanged  \* <<k, n>>: token k was exchanged for n

vars == <<issued, live, exchanged>>

Init == issued = {} /\ live = {} /\ exchanged = {}

\* A login stores a new token.  It may end other sessions of the user, and a
\* login slower than the lifetime of a token stores one that is dead already.
Issue(k) ==
    /\ k \notin issued
    /\ issued' = issued \cup {k}
    /\ live' \in SUBSET (live \cup {k})
    /\ UNCHANGED exchanged

\* A refresh replaces a live token, and no other token changes.  The new one is dead
\* if the refresh was slower than its lifetime.
Exchange(k, n) ==
    /\ k \in live /\ n \notin issued
    /\ issued' = issued \cup {n}
    /\ live' \in {live \ {k}, (live \ {k}) \cup {n}}
    /\ exchanged' = exchanged \cup {<<k, n>>}

\* Sessions end: logged out, or expired.
End ==
    /\ live' \in SUBSET live
    /\ UNCHANGED <<issued, exchanged>>

Next == (\E k \in Tokens : Issue(k)) \/ (\E k, n \in Tokens : Exchange(k, n)) \/ End

Spec == Init /\ [][Next]_vars
=============================================================================
