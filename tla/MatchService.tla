---------------------------- MODULE MatchService ----------------------------
(***************************************************************************)
(* What matchmaking promises its clients, without Redis, requests, keys or *)
(* crashes: a join waits until it is seated, with joins of other players,  *)
(* in one match formed in a single step, until its player leaves, or until *)
(* a later join of the same player takes its place.                        *)
(* Matchmaking implements it (Service in Matchmaking, MatchmakingProofs).  *)
(***************************************************************************)
CONSTANTS
    Players,
    Joins,
    Groups   \* the sets of joins that fill a match

VARIABLES
    player,   \* player[t]: who sent join t
    waiting,  \* joins that wait for a match
    left,     \* joins withdrawn by their player
    renewed,  \* joins replaced by a later one of their player
    rosters   \* the matches: sets of joins

vars == <<player, waiting, left, renewed, rosters>>

Settled == left \cup renewed \cup UNION rosters

Init ==
    /\ player \in [Joins -> Players]
    /\ waiting = {} /\ left = {} /\ renewed = {} /\ rosters = {}

Join(t) ==
    /\ t \notin waiting \cup Settled
    /\ \E old \in SUBSET {u \in waiting : player[u] = player[t]} :
        /\ waiting' = (waiting \ old) \cup {t}
        /\ renewed' = renewed \cup old
    /\ UNCHANGED <<player, left, rosters>>

Leave(t) ==
    /\ t \in waiting
    /\ waiting' = waiting \ {t}
    /\ left' = left \cup {t}
    /\ UNCHANGED <<player, renewed, rosters>>

Form(S) ==
    /\ S \in Groups /\ S \subseteq waiting
    /\ \A t, u \in S : player[t] = player[u] => t = u
    /\ waiting' = waiting \ S
    /\ rosters' = rosters \cup {S}
    /\ UNCHANGED <<player, left, renewed>>

FormAny == \E S \in SUBSET waiting : Form(S)

Next == (\E t \in Joins : Join(t) \/ Leave(t)) \/ FormAny

Spec == Init /\ [][Next]_vars

\* The promise with progress: a quorum of different waiting players is seated.
FairSpec == Spec /\ WF_vars(FormAny)
=============================================================================
