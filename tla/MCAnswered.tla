----------------------------- MODULE MCAnswered -----------------------------
(***************************************************************************)
(* Does everything that began come to an end?  Three parts of the server   *)
(* that share no state are checked side by side: the processes             *)
(* (Lifecycle), the transactions of friends (Friends) and those of logins  *)
(* and the cleanup (AuthSessions).  A behaviour is one of one part, chosen *)
(* initially; the other two stay in an initial state in which nothing is   *)
(* obliged to happen.  The parts use the same names for their actors, so   *)
(* that one fairness condition speaks of an actor of whichever part moves. *)
(***************************************************************************)
EXTENDS Lifecycle

CONSTANTS
    Friend1, Friend2, Sends, Accepts, Removes,  \* Friends
    Player, Logins, Cleaners                    \* AuthSessions

VARIABLES
    active,
    pair, opc, status, friendships, adding, ovictims, odeleting, undercut, unfriended, clashed,
    clock, user, pc, began, victims, deleting, rows, token, expires, lastUsed, old, revoked, raced

friendsVars == <<pair, opc, status, friendships, adding, ovictims, odeleting, undercut, unfriended, clashed>>
sessionVars == <<clock, user, pc, began, victims, deleting, rows, token, expires, lastUsed, old,
                 revoked, raced>>
parts       == <<vars, friendsVars, sessionVars>>

\* No faults here: a fault ends a transaction as well.
F == INSTANCE Friends
    WITH Users <- {Friend1, Friend2}, Rejects <- {}, MaxFaults <- 0, faults <- 0,
         pc <- opc, rows <- friendships, victims <- ovictims, deleting <- odeleting

\* MAX_SESSIONS_PER_USER is 1 and the cleanup deletes two rows at a time.
S == INSTANCE AuthSessions
    WITH Users <- {Player}, Refreshes <- {}, MaxSessions <- 1, Batch <- 2, TTL <- 1,
         MaxClock <- 1, MaxFaults <- 0, faults <- 0, started <- <<>>, rescued <- {}

\* A part that is not active starts in one initial state.
AllInit ==
    /\ Init /\ F!Init /\ S!Init
    /\ active \in {"lifecycle", "friends", "sessions"}
    /\ active # "lifecycle" => table /\ recorded = {} /\ \A i \in Instances : ~wanted[i]
    /\ active # "friends" => \A o \in DOMAIN pair : pair[o] = <<Friend1, Friend2>>

AllNext ==
    /\ UNCHANGED active
    /\ \/ active = "lifecycle" /\ Next /\ UNCHANGED <<friendsVars, sessionVars>>
       \/ active = "friends" /\ F!Next /\ UNCHANGED <<vars, sessionVars>>
       \/ active = "sessions" /\ S!Next /\ UNCHANGED <<vars, friendsVars>>

\* The fairness of the three parts: Fairness, F!Fairness and S!Fairness.
Runs(o) ==
    \/ o \in Instances /\ RunFile(o) /\ UNCHANGED <<friendsVars, sessionVars>>
    \/ o \in Accepts \cup Removes /\ F!TxnRuns(o) /\ UNCHANGED <<vars, sessionVars>>
    \/ o \in Logins \cup Cleaners /\ S!TxnRuns(o) /\ UNCHANGED <<vars, friendsVars>>

AllFairness ==
    /\ \A i \in Instances : WF_vars(Progress(i))
    /\ \A o \in Instances \cup Accepts \cup Removes \cup Logins \cup Cleaners : SF_parts(Runs(o))

AllSpec == AllInit /\ [][AllNext]_<<active, parts>> /\ AllFairness

----------------------------------------------------------------------------
\* Every accept, removal and login whose transaction began ends it, for good since it is
\* sent once: those that wait for each other's rows in opposite orders end in a deadlock
\* that PostgreSQL breaks, and no lock outlives its transaction.
TransactionsAnswered ==
    \A o \in Accepts \cup Removes \cup Logins : []<>(~F!InTransaction(o) /\ ~S!InTransaction(o))
=============================================================================
