---------------------------- MODULE AuthSessions ----------------------------
(***************************************************************************)
(* Refresh-token sessions: POST /login, /refresh and /logout and the       *)
(* periodic cleanup of expired tokens, run by any number of requests and   *)
(* instances over the refresh_tokens table (src/src/modules/auth,          *)
(* src/src/shared/plugins/cleanup.plugin.ts).                              *)
(*                                                                         *)
(* PostgreSQL runs at READ COMMITTED.  Inside a transaction every          *)
(* statement is a step of its own that sees the rows committed when it     *)
(* starts; a DELETE then removes the rows it found one by one and waits    *)
(* for each that another transaction has deleted but not committed.  Of a  *)
(* row that changed meanwhile it asks its conditions on that row again,    *)
(* but no sub-select.  NOW() is the moment the transaction began.  The     *)
(* UPDATE of a refresh begins and takes effect in two steps; SELECTs and   *)
(* the DELETE of a logout are one.                                         *)
(*                                                                         *)
(* A session (a row) is named by the login that inserts it, a refresh      *)
(* token by the login or the refresh that generates it.                    *)
(***************************************************************************)
EXTENDS Naturals, FiniteSets

CONSTANTS
    Users,
    Logins,       \* POST /login requests that passed the password check
    Refreshes,    \* POST /refresh requests
    Cleaners,     \* one per instance: its cleanup runs, one after the other
    MaxSessions,  \* MAX_SESSIONS_PER_USER
    Batch,        \* TOKEN_CLEANUP_BATCH_SIZE
    TTL,          \* lifetime of a refresh token
    MaxClock,     \* bound: last value of the clock
    MaxFaults     \* bound: transactions that fail, and replies that are lost

ASSUME LimitsAssumption == MaxSessions \in Nat \ {0} /\ Batch \in Nat \ {0} /\ TTL \in Nat \ {0}
ASSUME BoundsAssumption == MaxClock \in Nat /\ MaxFaults \in Nat
ASSUME FiniteAssumption == IsFiniteSet(Logins)
ASSUME DisjointAssumption ==
    /\ Logins \cap Refreshes = {} /\ Logins \cap Cleaners = {} /\ Refreshes \cap Cleaners = {}

Txns   == Logins \cup Cleaners       \* the multi-statement transactions
Tokens == Logins \cup Refreshes

VARIABLES
    clock,     \* NOW()
    user,      \* user[s]: who logs in, user_id of the session
    pc,        \* where each login, refresh and cleanup is
    began,     \* began[l]: NOW() in the transaction of login l, its start
    victims,   \* victims[t]: rows its current DELETE found and has not reached
    deleting,  \* deleting[t]: rows it deleted and locks until it ends
    rows,      \* committed rows of refresh_tokens
    token,     \* token[s]: the token whose hash is in row s
    expires,   \* expires[s]: expires_at
    lastUsed,  \* lastUsed[s]: last_used_at
    old,       \* old[f]: the token refresh f presents
    started,   \* started[f]: NOW() in its UPDATE
    revoked,   \* history: tokens whose session /logout deleted
    rescued,   \* history: expired sessions that were renewed since the last cleanup began
    raced,     \* history: logins overtaken by another login of the same user
    faults     \* failures so far

row  == <<token, expires, lastUsed>>
call == <<old, started>>
past == <<revoked, rescued, raced>>
vars == <<clock, user, pc, began, victims, deleting, rows, token, expires, lastUsed,
          old, started, revoked, rescued, raced, faults>>

\* "lost": the transaction committed, but its reply or the client's did not arrive.
LoginStage   == {"idle", "expiring", "evicting", "done", "lost", "failed"}
RefreshStage == {"idle", "rotate", "update", "ok", "lost", "denied", "failed"}
CleanerStage == {"idle", "cleaning"}

\* The tokens that were returned to a client.
Issued == {k \in Tokens : pc[k] \in {"done", "ok"}}

\* The refreshes that replaced the token they presented.
Rotated == {f \in Refreshes : pc[f] \in {"ok", "lost"}}

TypeOK ==
    /\ clock \in Nat /\ faults \in Nat
    /\ user \in [Logins -> Users]
    /\ pc \in [Txns \cup Refreshes -> LoginStage \cup RefreshStage \cup CleanerStage]
    /\ \A l \in Logins : pc[l] \in LoginStage
    /\ \A f \in Refreshes : pc[f] \in RefreshStage
    /\ \A c \in Cleaners : pc[c] \in CleanerStage
    /\ began \in [Logins -> Nat]
    /\ victims \in [Txns -> SUBSET Logins]
    /\ deleting \in [Txns -> SUBSET Logins]
    /\ rows \in SUBSET Logins
    /\ token \in [Logins -> Tokens]
    /\ expires \in [Logins -> Nat] /\ lastUsed \in [Logins -> Nat]
    /\ old \in [Refreshes -> Tokens] /\ started \in [Refreshes -> Nat]
    /\ revoked \in SUBSET Tokens
    /\ rescued \in SUBSET Logins /\ raced \in SUBSET Logins

Init ==
    /\ clock = 0 /\ faults = 0
    /\ user \in [Logins -> Users]
    /\ pc = [a \in Txns \cup Refreshes |-> "idle"]
    /\ began = [l \in Logins |-> 0]
    /\ victims = [t \in Txns |-> {}] /\ deleting = [t \in Txns |-> {}]
    /\ rows = {}
    /\ token = [s \in Logins |-> s]
    /\ expires = [s \in Logins |-> 0] /\ lastUsed = [s \in Logins |-> 0]
    /\ old = [f \in Refreshes |-> f] /\ started = [f \in Refreshes |-> 0]
    /\ revoked = {} /\ rescued = {} /\ raced = {}

Goto(a, stage) == pc' = [pc EXCEPT ![a] = stage]

----------------------------------------------------------------------------
\* DELETE inside a transaction.

Locked(s) == \E t \in Txns : s \in deleting[t]

Expired(s, now) == expires[s] <= now

\* What transaction t sees: committed rows it has not deleted itself.
Visible(t) == rows \ deleting[t]

\* Its DELETE finds the rows S.
FindVictims(t, S) == victims' = [victims EXCEPT ![t] = S]

\* Mutant: a login's first DELETE asks nothing again.
Rechecked_Never(t, s) == s \in rows

\* What is asked again of row s when it is reached: that it exists and, by a login's
\* first DELETE, that it is expired.  The other DELETEs choose by id in a sub-select.
Rechecked(t, s) == s \in rows /\ (pc[t] = "expiring" => Expired(s, began[t]))

\* It reaches the next one: deletes and locks it, or passes it over.
DeleteRow(t) ==
    /\ \E s \in victims[t] :
        /\ ~Locked(s)
        /\ victims' = [victims EXCEPT ![t] = @ \ {s}]
        /\ deleting' = [deleting EXCEPT ![t] = IF Rechecked(t, s) THEN @ \cup {s} ELSE @]
    /\ UNCHANGED <<clock, user, pc, began, rows, row, call, past, faults>>

\* The transaction ends and releases its locks.
Release(t) ==
    /\ victims' = [victims EXCEPT ![t] = {}]
    /\ deleting' = [deleting EXCEPT ![t] = {}]

\* Transactions that wait for one another's row locks: deadlock_timeout aborts one.
WaitsFor(t, u) == t # u /\ victims[t] \cap deleting[u] # {}
Deadlocked(t) ==
    \E C \in SUBSET Txns :
        /\ t \in C
        /\ \A u \in C : (\E v \in C : WaitsFor(u, v)) /\ (\E v \in C : WaitsFor(v, u))

----------------------------------------------------------------------------
\* POST /login: storeRefreshTokenEnforceLimit.

\* BEGIN, and the first DELETE finds the user's expired rows.
BeginLogin(l) ==
    /\ pc[l] = "idle"
    /\ began' = [began EXCEPT ![l] = clock]
    /\ FindVictims(l, {s \in rows : user[s] = user[l] /\ Expired(s, clock)})
    /\ Goto(l, "expiring")
    /\ UNCHANGED <<clock, user, deleting, rows, row, call, past, faults>>

\* last_used_at DESC, created_at DESC; created_at is the NOW() of the INSERT.
MoreRecent(s, u) == lastUsed[s] > lastUsed[u] \/ (lastUsed[s] = lastUsed[u] /\ began[s] >= began[u])

\* Mutant: LIMIT maxSessions.
Keeps_OffByOne(l, K) ==
    LET mine == {s \in Visible(l) : user[s] = user[l]}
    IN  /\ K \subseteq mine
        /\ \A s \in K, u \in mine \ K : MoreRecent(s, u)
        /\ \/ Cardinality(K) = MaxSessions
           \/ K = mine /\ Cardinality(K) < MaxSessions

\* The ids the sub-select keeps: the first MaxSessions - 1 of the user's rows.
Keeps(l, K) ==
    LET mine == {s \in Visible(l) : user[s] = user[l]}
    IN  /\ K \subseteq mine
        /\ \A s \in K, u \in mine \ K : MoreRecent(s, u)
        /\ \/ Cardinality(K) = MaxSessions - 1
           \/ K = mine /\ Cardinality(K) < MaxSessions - 1

\* The second DELETE finds the user's other rows.
FindEvicted(l) ==
    /\ pc[l] = "expiring" /\ victims[l] = {}
    /\ \E K \in SUBSET rows :
        /\ Keeps(l, K)
        /\ FindVictims(l, {s \in Visible(l) : user[s] = user[l]} \ K)
    /\ Goto(l, "evicting")
    /\ UNCHANGED <<clock, user, began, deleting, rows, row, call, past, faults>>

\* Mutant: the lifetime is subtracted.
Insert_BornExpired(l) ==
    /\ rows' = (rows \ deleting[l]) \cup {l}
    /\ token' = [token EXCEPT ![l] = l]
    /\ expires' = [expires EXCEPT ![l] = began[l] - TTL]
    /\ lastUsed' = [lastUsed EXCEPT ![l] = began[l]]

\* The row of l appears and those it deleted go.
Insert(l) ==
    /\ rows' = (rows \ deleting[l]) \cup {l}
    /\ token' = [token EXCEPT ![l] = l]
    /\ expires' = [expires EXCEPT ![l] = began[l] + TTL]
    /\ lastUsed' = [lastUsed EXCEPT ![l] = began[l]]

\* INSERT and COMMIT; the token is returned, unless the instance or its
\* connection dies after the server committed.
CommitLogin(l) ==
    /\ pc[l] = "evicting" /\ victims[l] = {}
    /\ Insert(l)
    /\ raced' = raced \cup {m \in Logins \ {l} : user[m] = user[l] /\ pc[m] = "evicting"}
    /\ Release(l)
    /\ \/ Goto(l, "done") /\ UNCHANGED faults
       \/ Goto(l, "lost") /\ faults < MaxFaults /\ faults' = faults + 1
    /\ UNCHANGED <<clock, user, began, call, revoked, rescued>>

\* A statement fails, the instance dies, or PostgreSQL breaks a deadlock:
\* ROLLBACK, and the login answers 500.
AbortLogin(l) ==
    /\ pc[l] \in {"expiring", "evicting"}
    /\ \/ faults < MaxFaults /\ faults' = faults + 1
       \/ Deadlocked(l) /\ UNCHANGED faults
    /\ Release(l)
    /\ Goto(l, "failed")
    /\ UNCHANGED <<clock, user, began, rows, row, call, past>>

----------------------------------------------------------------------------
\* POST /refresh: findRefreshToken, then rotateRefreshToken.

\* Mutant: no check of expires_at.
Holder_NoExpiry(k, now) == {s \in rows : token[s] = k}

\* Mutant: the previous token is still accepted.
Holder_Previous(k, now) ==
    {s \in rows : /\ ~Expired(s, now)
                  /\ token[s] = k \/ \E g \in Refreshes : g \in Rotated /\ old[g] = k /\ token[s] = g}

\* The row that a statement with NOW() = now finds: the hash matches and it has not
\* expired.
Holder(k, now) == {s \in rows : token[s] = k /\ ~Expired(s, now)}

\* findRefreshToken.
Find(f, k) ==
    /\ pc[f] = "idle"
    /\ old' = [old EXCEPT ![f] = k]
    /\ Goto(f, IF Holder(k, clock) # {} THEN "rotate" ELSE "denied")
    /\ UNCHANGED <<clock, user, began, victims, deleting, rows, row, started, past, faults>>

\* The UPDATE begins and finds the row, or none: 401.
BeginUpdate(f) ==
    /\ pc[f] = "rotate"
    /\ started' = [started EXCEPT ![f] = clock]
    /\ Goto(f, IF Holder(old[f], clock) # {} THEN "update" ELSE "denied")
    /\ UNCHANGED <<clock, user, began, victims, deleting, rows, row, old, past, faults>>

\* Mutant: the UPDATE extends the session without replacing the hash.
Replace_KeepsHash(s, f) ==
    /\ expires' = [expires EXCEPT ![s] = started[f] + TTL]
    /\ lastUsed' = [lastUsed EXCEPT ![s] = started[f]]
    /\ UNCHANGED token

\* The assignments of the UPDATE, computed when it began.
Replace(s, f) ==
    /\ token' = [token EXCEPT ![s] = f]
    /\ expires' = [expires EXCEPT ![s] = started[f] + TTL]
    /\ lastUsed' = [lastUsed EXCEPT ![s] = started[f]]

\* The session expired after the UPDATE of f began.
Rescued(s, f) == ~Expired(s, started[f]) /\ Expired(s, clock)

\* The UPDATE has waited for its row, finds that it still matches, replaces it and
\* commits, maybe after the row's expiry.  The reply with the new token may be lost.
Rotate(f) ==
    /\ pc[f] = "update"
    /\ \E s \in Holder(old[f], started[f]) :
        /\ ~Locked(s)
        /\ Replace(s, f)
        /\ rescued' = rescued \cup {u \in {s} : Rescued(u, f)}
    /\ \/ Goto(f, "ok") /\ UNCHANGED faults
       \/ Goto(f, "lost") /\ faults < MaxFaults /\ faults' = faults + 1
    /\ UNCHANGED <<clock, user, began, victims, deleting, rows, call, revoked, raced>>

\* The UPDATE fails, or the instance dies before it takes effect.
RotateFails(f) ==
    /\ pc[f] \in {"rotate", "update"}
    /\ faults < MaxFaults /\ faults' = faults + 1
    /\ Goto(f, "failed")
    /\ UNCHANGED <<clock, user, began, victims, deleting, rows, row, call, past>>

\* The row was rotated, evicted or logged out while the UPDATE waited: rowCount = 0, 401.
RotateMisses(f) ==
    /\ pc[f] = "update"
    /\ Holder(old[f], started[f]) = {}
    /\ Goto(f, "denied")
    /\ UNCHANGED <<clock, user, began, victims, deleting, rows, row, call, past, faults>>

----------------------------------------------------------------------------
\* POST /logout: one DELETE by hash; no row is no error.
Logout(k) ==
    /\ \A s \in rows : token[s] = k => ~Locked(s)
    /\ rows' = {s \in rows : token[s] # k}
    /\ revoked' = revoked \cup ({k} \cap {token[s] : s \in rows})
    /\ UNCHANGED <<clock, user, pc, began, victims, deleting, row, call, rescued, raced, faults>>

----------------------------------------------------------------------------
\* runExpiredTokenCleanup.

LockFree == \A c \in Cleaners : pc[c] = "idle"

\* BEGIN, pg_try_advisory_xact_lock granted, and the DELETE finds at most Batch
\* expired rows.  A run that is refused the lock rolls back and changes nothing.
BeginCleanup(c) ==
    /\ pc[c] = "idle"
    /\ LockFree
    /\ \E S \in SUBSET {s \in rows : Expired(s, clock)} :
        /\ \/ Cardinality(S) = Batch
           \/ S = {s \in rows : Expired(s, clock)} /\ Cardinality(S) < Batch
        /\ FindVictims(c, S)
    /\ Goto(c, "cleaning")
    /\ rescued' = {}
    /\ UNCHANGED <<clock, user, began, deleting, rows, row, call, revoked, raced, faults>>

\* Mutant: the run returns its connection without COMMIT.
CommitCleanup_NoCommit(c) ==
    /\ pc[c] = "cleaning" /\ victims[c] = {}
    /\ Goto(c, "idle")
    /\ UNCHANGED <<clock, user, began, victims, deleting, rows, row, call, past, faults>>

\* COMMIT ends the transaction, which also releases the advisory lock.
CommitCleanup(c) ==
    /\ pc[c] = "cleaning" /\ victims[c] = {}
    /\ rows' = rows \ deleting[c]
    /\ Release(c)
    /\ Goto(c, "idle")
    /\ UNCHANGED <<clock, user, began, row, call, past, faults>>

\* The error is logged; the next interval tries again.
AbortCleanup(c) ==
    /\ pc[c] = "cleaning"
    /\ \/ faults < MaxFaults /\ faults' = faults + 1
       \/ Deadlocked(c) /\ UNCHANGED faults
    /\ Release(c)
    /\ Goto(c, "idle")
    /\ UNCHANGED <<clock, user, began, rows, row, call, past>>

Tick ==
    /\ clock < MaxClock
    /\ clock' = clock + 1
    /\ UNCHANGED <<user, pc, began, victims, deleting, rows, row, call, past, faults>>

----------------------------------------------------------------------------
Next ==
    \/ \E l \in Logins : BeginLogin(l) \/ FindEvicted(l) \/ CommitLogin(l) \/ AbortLogin(l)
    \/ \E f \in Refreshes : (\E k \in Issued : Find(f, k)) \/ BeginUpdate(f) \/ Rotate(f) \/ RotateMisses(f) \/ RotateFails(f)
    \/ \E k \in Issued : Logout(k)
    \/ \E c \in Cleaners : BeginCleanup(c) \/ CommitCleanup(c) \/ AbortCleanup(c)
    \/ \E t \in Txns : DeleteRow(t)
    \/ Tick

Spec == Init /\ [][Next]_vars

\* A transaction that began runs on.  A statement that waits for a row lock is
\* queued for it and gets it when its turn comes, so it cannot be passed over
\* for ever (strong fairness); the deadlock detector aborts a transaction that
\* is part of a deadlock.  Nothing obliges a client to log in, or an instance
\* to start a cleanup.
TxnRuns(t) ==
    \/ DeleteRow(t)
    \/ t \in Logins /\ (FindEvicted(t) \/ CommitLogin(t))
    \/ t \in Logins /\ Deadlocked(t) /\ AbortLogin(t)
    \/ t \in Cleaners /\ CommitCleanup(t)
    \/ t \in Cleaners /\ Deadlocked(t) /\ AbortCleanup(t)

Fairness ==
    /\ \A t \in Txns : SF_vars(TxnRuns(t))
    /\ \A f \in Refreshes : SF_vars(BeginUpdate(f) \/ Rotate(f) \/ RotateMisses(f))

FairSpec == Spec /\ Fairness

----------------------------------------------------------------------------
\* Properties.

\* A refresh token is exchanged at most once, whatever refreshes run at the same
\* time with it (the single-use guarantee of rotateRefreshToken), also when the
\* reply to the first is lost.
SingleUse == \A f, g \in Rotated : old[f] = old[g] => f = g

\* No session can be continued with a token that was exchanged or logged out,
\* and no two sessions share one.
DeadTokens ==
    /\ \A s \in rows : token[s] \notin revoked /\ \A f \in Rotated : old[f] # token[s]
    /\ \A s, u \in rows : token[s] = token[u] => s = u

\* "Deletes expired tokens and leaves live ones untouched": the cleanup removes a
\* session that is alive only if an UPDATE that began before the session expired
\* renewed it after the cleanup had chosen its rows, for it asks expires_at no more.
\* The first DELETE of a login removes no live session at all.
LiveSessionsKept ==
    /\ \A c \in Cleaners : \A s \in deleting[c] : s \in rows /\ (Expired(s, clock) \/ s \in rescued)
    /\ \A l \in Logins : pc[l] = "expiring" => \A s \in deleting[l] : s \in rows /\ Expired(s, clock)

\* A login that no other login of the user overtook leaves at most MaxSessions
\* sessions of the user.
LimitWithoutRace ==
    [][\A l \in Logins : l \in rows' \ rows /\ l \notin raced =>
            Cardinality({s \in rows' : user[s] = user[l]}) <= MaxSessions]_vars

\* "The total never exceeds the limit."
SessionLimit == \A u \in Users : Cardinality({s \in rows : user[s] = u}) <= MaxSessions

\* An UPDATE that began before row s expired will find it.
Renewing(s) == \E f \in Refreshes : pc[f] = "update" /\ old[f] = token[s] /\ ~Expired(s, started[f])

\* The abstract service this implements: its live tokens are those of the rows
\* that have not expired, or that a refresh will renew all the same.
Service == INSTANCE TokenService
    WITH issued    <- {k \in Tokens : pc[k] \in {"done", "ok", "lost"}},
         live      <- {token[s] : s \in {u \in rows : ~Expired(u, clock) \/ Renewing(u)}},
         exchanged <- {<<old[f], f>> : f \in Rotated}

\* Every step of the transactions is a step of the abstract service or invisible
\* to it: only a live token is exchanged, in one step with its replacement, and
\* no eviction, logout, expiry or cleanup revives a token.
TokenServiceSpec == Service!Spec

\* The transaction of a login is open.
InTransaction(l) == l \in Logins /\ pc[l] \in {"expiring", "evicting"}
=============================================================================
