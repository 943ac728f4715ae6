------------------------- MODULE AuthSessionsProofs -------------------------
(***************************************************************************)
(* What TLAPS proves about AuthSessions, for any users, any logins,        *)
(* refreshes and cleanup runs, any session limit, batch size and lifetime, *)
(* and any bounds.                                                         *)
(***************************************************************************)
EXTENDS AuthSessions, FiniteSetTheorems, TLAPS

----------------------------------------------------------------------------
\* Types.

LEMMA InitType == Init => TypeOK
BY DisjointAssumption DEF Init, TypeOK, Txns, Tokens, LoginStage, RefreshStage, CleanerStage

LEMMA NextType == TypeOK /\ [Next]_vars => TypeOK'
<1> SUFFICES ASSUME TypeOK, [Next]_vars PROVE TypeOK'
  OBVIOUS
<1> USE DisjointAssumption, LimitsAssumption
    DEF TypeOK, Txns, Tokens, LoginStage, RefreshStage, CleanerStage, row, call, past, Goto, Release, FindVictims
<1>1. ASSUME NEW l \in Logins, BeginLogin(l) PROVE TypeOK'
  BY <1>1 DEF BeginLogin
<1>2. ASSUME NEW l \in Logins, FindEvicted(l) PROVE TypeOK'
  BY <1>2 DEF FindEvicted, Visible
<1>3. ASSUME NEW l \in Logins, CommitLogin(l) PROVE TypeOK'
  <2>1. began[l] \in Nat /\ began[l] + TTL \in Nat /\ l \in Tokens
    OBVIOUS
  <2>2. /\ rows' \in SUBSET Logins /\ token' \in [Logins -> Tokens]
        /\ expires' \in [Logins -> Nat] /\ lastUsed' \in [Logins -> Nat]
    BY <1>3, <2>1 DEF CommitLogin, Insert
  <2>3. victims' \in [Txns -> SUBSET Logins] /\ deleting' \in [Txns -> SUBSET Logins]
    BY <1>3 DEF CommitLogin
  <2>4. /\ pc' \in [Txns \cup Refreshes -> LoginStage \cup RefreshStage \cup CleanerStage]
        /\ \A m \in Logins : pc'[m] \in LoginStage
        /\ \A f \in Refreshes : pc'[f] \in RefreshStage
        /\ \A c \in Cleaners : pc'[c] \in CleanerStage
    <3>1. PICK stage \in {"done", "lost"} : pc' = [pc EXCEPT ![l] = stage]
      BY <1>3 DEF CommitLogin
    <3>2. l \in Txns /\ l \notin Refreshes /\ l \notin Cleaners /\ stage \in LoginStage
      BY <3>1
    <3> QED
      BY <3>1, <3>2
  <2>5. faults' \in Nat /\ raced' \in SUBSET Logins
    BY <1>3 DEF CommitLogin
  <2>6. /\ clock' = clock /\ user' = user /\ began' = began /\ old' = old /\ started' = started
        /\ revoked' = revoked /\ rescued' = rescued
    BY <1>3 DEF CommitLogin
  <2> HIDE DEF Txns, Tokens, LoginStage, RefreshStage, CleanerStage, row, call, past, Goto, Release, FindVictims
  <2> QED
    BY <2>2, <2>3, <2>4, <2>5, <2>6
<1>4. ASSUME NEW l \in Logins, AbortLogin(l) PROVE TypeOK'
  BY <1>4 DEF AbortLogin
<1>5. ASSUME NEW f \in Refreshes, NEW k \in Issued, Find(f, k) PROVE TypeOK'
  BY <1>5 DEF Find, Issued
<1>5a. ASSUME NEW f \in Refreshes, BeginUpdate(f) PROVE TypeOK'
  BY <1>5a DEF BeginUpdate
<1>6. ASSUME NEW f \in Refreshes, Rotate(f) PROVE TypeOK'
  BY <1>6 DEF Rotate, Replace, Holder
<1>7. ASSUME NEW f \in Refreshes, RotateMisses(f) PROVE TypeOK'
  BY <1>7 DEF RotateMisses
<1>8. ASSUME NEW f \in Refreshes, RotateFails(f) PROVE TypeOK'
  BY <1>8 DEF RotateFails
<1>9. ASSUME NEW k \in Issued, Logout(k) PROVE TypeOK'
  BY <1>9 DEF Logout, Issued
<1>10. ASSUME NEW c \in Cleaners, BeginCleanup(c) PROVE TypeOK'
  BY <1>10 DEF BeginCleanup
<1>11. ASSUME NEW c \in Cleaners, CommitCleanup(c) PROVE TypeOK'
  BY <1>11 DEF CommitCleanup
<1>12. ASSUME NEW c \in Cleaners, AbortCleanup(c) PROVE TypeOK'
  BY <1>12 DEF AbortCleanup
<1>13. ASSUME NEW t \in Txns, DeleteRow(t) PROVE TypeOK'
  BY <1>13 DEF DeleteRow
<1>14. CASE Tick
  BY <1>14 DEF Tick
<1>15. CASE UNCHANGED vars
  BY <1>15 DEF vars
<1> HIDE DEF TypeOK, Txns, Tokens, LoginStage, RefreshStage, CleanerStage, row, call, past, Goto, Release, FindVictims
<1> QED
  BY <1>1, <1>2, <1>3, <1>4, <1>5, <1>5a, <1>6, <1>7, <1>8, <1>9, <1>10, <1>11, <1>12, <1>13, <1>14, <1>15
  DEF Next

\* Every variable keeps its type.
THEOREM TypeCorrect == Spec => []TypeOK
  BY InitType, NextType, PTL DEF Spec

----------------------------------------------------------------------------
\* Tokens.

\* The tokens that were stored, whether or not their client got them.
Stored == {k \in Tokens : pc[k] \in {"done", "ok", "lost"}}

\* A row belongs to a login that committed and holds a token that was stored;
\* what a refresh presents was issued.
TokenInv ==
    /\ \A s \in rows : pc[s] \in {"done", "lost"} /\ token[s] \in Stored
    /\ \A f \in Refreshes : pc[f] \in {"rotate", "update", "ok", "lost"} => old[f] \in Issued
    /\ revoked \subseteq Stored
    /\ DeadTokens
    /\ SingleUse

LEMMA InitToken == Init => TokenInv
BY DisjointAssumption DEF Init, TokenInv, DeadTokens, SingleUse, Issued, Stored, Rotated, Txns

LEMMA NextToken == TypeOK /\ TokenInv /\ [Next]_vars => TokenInv'
<1> SUFFICES ASSUME TypeOK, TokenInv, [Next]_vars PROVE TokenInv'
  OBVIOUS
<1> USE DisjointAssumption
    DEF TypeOK, Txns, Tokens, LoginStage, RefreshStage, CleanerStage, row, call, past, Goto,
        TokenInv, DeadTokens, SingleUse, Issued, Stored, Rotated
<1>1. ASSUME NEW l \in Logins, BeginLogin(l) PROVE TokenInv'
  BY <1>1 DEF BeginLogin
<1>2. ASSUME NEW l \in Logins, FindEvicted(l) PROVE TokenInv'
  BY <1>2 DEF FindEvicted
<1>3. ASSUME NEW l \in Logins, CommitLogin(l) PROVE TokenInv'
  <2>1. /\ pc[l] = "evicting" /\ pc'[l] \in {"done", "lost"}
        /\ \A a \in (Txns \cup Refreshes) \ {l} : pc'[a] = pc[a]
    BY <1>3 DEF CommitLogin
  <2>2. /\ rows' \subseteq rows \cup {l} /\ token'[l] = l
        /\ \A s \in Logins \ {l} : token'[s] = token[s]
        /\ old' = old /\ revoked' = revoked
    BY <1>3 DEF CommitLogin, Insert
  <2>3. Stored' = Stored \cup {l} /\ Issued \subseteq Issued' /\ Rotated' = Rotated /\ l \notin Stored
    BY <2>1
  <2>4. \A s \in rows : s # l
    BY <2>1
  <2>5. \A s \in rows' : s = l \/ (s # l /\ s \in rows /\ token'[s] = token[s] /\ token[s] \in Stored /\ token[s] # l)
    BY <2>2, <2>3, <2>4
  <2>6. \A f \in Rotated : old[f] \in Stored /\ old[f] # l
    BY <2>3
  <2>7. DeadTokens'
    BY <2>2, <2>3, <2>5, <2>6
  <2>8. \A s \in rows' : pc'[s] \in {"done", "lost"} /\ token'[s] \in Stored'
    BY <2>1, <2>2, <2>3, <2>5
  <2>9. \A f \in Refreshes : pc'[f] \in {"rotate", "update", "ok", "lost"} => old'[f] \in Issued'
    BY <2>1, <2>2, <2>3
  <2> QED
    BY <2>2, <2>3, <2>7, <2>8, <2>9
<1>4. ASSUME NEW l \in Logins, AbortLogin(l) PROVE TokenInv'
  BY <1>4 DEF AbortLogin
<1>5. ASSUME NEW f \in Refreshes, NEW k \in Issued, Find(f, k) PROVE TokenInv'
  BY <1>5 DEF Find
<1>5a. ASSUME NEW f \in Refreshes, BeginUpdate(f) PROVE TokenInv'
  BY <1>5a DEF BeginUpdate
<1>6. ASSUME NEW f \in Refreshes, Rotate(f) PROVE TokenInv'
  <2>1. /\ pc[f] = "update" /\ pc'[f] \in {"ok", "lost"}
        /\ \A a \in (Txns \cup Refreshes) \ {f} : pc'[a] = pc[a]
    BY <1>6 DEF Rotate
  <2>2. PICK s \in rows : token[s] = old[f] /\ token' = [token EXCEPT ![s] = f]
    BY <1>6 DEF Rotate, Replace, Holder
  <2>3. rows' = rows /\ old' = old /\ revoked' = revoked
    BY <1>6 DEF Rotate
  <2>4. Stored' = Stored \cup {f} /\ Issued \subseteq Issued' /\ Rotated' = Rotated \cup {f} /\ f \notin Stored
    BY <2>1
  <2>5. token'[s] = f /\ \A u \in rows \ {s} : token'[u] = token[u] /\ token[u] # old[f] /\ token[u] # f
    BY <2>2, <2>4
  <2>6. \A g \in Rotated : old[g] # old[f] /\ old[g] \in Stored
    BY <2>2
  <2>7. DeadTokens'
    <3>1. \A u \in rows : token'[u] \notin revoked /\ token'[u] # old[f] /\ \A g \in Rotated : old[g] # token'[u]
      BY <2>2, <2>4, <2>5, <2>6
    <3>2. \A u, v \in rows : token'[u] = token'[v] => u = v
      BY <2>5
    <3> QED
      BY <2>3, <2>4, <3>1, <3>2
  <2>8. SingleUse'
    BY <2>3, <2>4, <2>6
  <2>9. \A u \in rows' : pc'[u] \in {"done", "lost"} /\ token'[u] \in Stored'
    BY <2>1, <2>3, <2>4, <2>5
  <2>10. \A g \in Refreshes : pc'[g] \in {"rotate", "update", "ok", "lost"} => old'[g] \in Issued'
    BY <2>1, <2>3, <2>4
  <2> QED
    BY <2>3, <2>4, <2>7, <2>8, <2>9, <2>10
<1>7. ASSUME NEW f \in Refreshes, RotateMisses(f) PROVE TokenInv'
  BY <1>7 DEF RotateMisses
<1>8. ASSUME NEW f \in Refreshes, RotateFails(f) PROVE TokenInv'
  BY <1>8 DEF RotateFails
<1>9. ASSUME NEW k \in Issued, Logout(k) PROVE TokenInv'
  BY <1>9 DEF Logout
<1>10. ASSUME NEW c \in Cleaners, BeginCleanup(c) PROVE TokenInv'
  BY <1>10 DEF BeginCleanup
<1>11. ASSUME NEW c \in Cleaners, CommitCleanup(c) PROVE TokenInv'
  BY <1>11 DEF CommitCleanup
<1>12. ASSUME NEW c \in Cleaners, AbortCleanup(c) PROVE TokenInv'
  BY <1>12 DEF AbortCleanup
<1>13. ASSUME NEW t \in Txns, DeleteRow(t) PROVE TokenInv'
  BY <1>13 DEF DeleteRow
<1>14. CASE Tick
  BY <1>14 DEF Tick
<1>15. CASE UNCHANGED vars
  BY <1>15 DEF vars
<1> HIDE DEF TypeOK, Txns, Tokens, LoginStage, RefreshStage, CleanerStage, row, call, past, Goto,
             TokenInv, DeadTokens, SingleUse, Issued, Stored, Rotated
<1> QED
  BY <1>1, <1>2, <1>3, <1>4, <1>5, <1>5a, <1>6, <1>7, <1>8, <1>9, <1>10, <1>11, <1>12, <1>13, <1>14, <1>15
  DEF Next

LEMMA TokenInvHolds == Spec => []TokenInv
BY InitToken, NextToken, TypeCorrect, PTL DEF Spec

\* A refresh token is exchanged at most once, however many refreshes race.
THEOREM SingleUseHolds == Spec => []SingleUse
<1>1. TokenInv => SingleUse
  BY DEF TokenInv
<1> QED
  BY <1>1, TokenInvHolds, PTL

\* A session is never held by a token that was exchanged or logged out.
THEOREM DeadTokensHold == Spec => []DeadTokens
<1>1. TokenInv => DeadTokens
  BY DEF TokenInv
<1> QED
  BY <1>1, TokenInvHolds, PTL

----------------------------------------------------------------------------
\* Rows that a DELETE found or holds.

\* A row is deleted by one transaction at a time and stays until that commits, only
\* sessions that were once inserted are found, and a transaction holds nothing before
\* it begins.  What a cleanup found is expired or was renewed since it began, for only
\* an UPDATE that began before the expiry renews an expired row; the first DELETE of a
\* login asked the expiry again of every row it holds.
LiveInv ==
    /\ \A t, u \in Txns : t # u => deleting[t] \cap deleting[u] = {}
    /\ \A t \in Txns : deleting[t] \subseteq rows
    /\ \A t \in Txns : \A s \in victims[t] : pc[s] \in {"done", "lost"}
    /\ \A t \in Txns : pc[t] = "idle" => victims[t] = {} /\ deleting[t] = {}
    /\ \A l \in Logins : began[l] <= clock
    /\ \A l \in Logins : pc[l] = "expiring" => \A s \in deleting[l] : Expired(s, clock)
    /\ \A c \in Cleaners : \A s \in victims[c] \cup deleting[c] :
            s \in rows => Expired(s, clock) \/ s \in rescued

LEMMA InitLive == Init => LiveInv
BY DEF Init, LiveInv, Txns

LEMMA NextLive == TypeOK /\ TokenInv /\ LiveInv /\ [Next]_vars => LiveInv'
<1> SUFFICES ASSUME TypeOK, TokenInv, LiveInv, [Next]_vars PROVE LiveInv'
  OBVIOUS
<1>0. rows \subseteq {s \in Logins : pc[s] \in {"done", "lost"}}
  BY DEF TypeOK, TokenInv
<1> USE DisjointAssumption, LimitsAssumption
    DEF TypeOK, Txns, Tokens, LoginStage, RefreshStage, CleanerStage, row, call, past, Goto, Release,
        FindVictims, LiveInv, Locked, Expired
<1>1. ASSUME NEW l \in Logins, BeginLogin(l) PROVE LiveInv'
  BY <1>0, <1>1 DEF BeginLogin
<1>2. ASSUME NEW l \in Logins, FindEvicted(l) PROVE LiveInv'
  BY <1>0, <1>2 DEF FindEvicted, Visible
<1>3. ASSUME NEW l \in Logins, CommitLogin(l) PROVE LiveInv'
  <2>1. /\ pc[l] = "evicting" /\ pc'[l] \in {"done", "lost"}
        /\ \A a \in Logins \ {l} : pc'[a] = pc[a]
    BY <1>3 DEF CommitLogin
  <2>2. \A t \in Txns : victims'[t] \subseteq victims[t] /\ deleting'[t] \subseteq deleting[t]
    BY <1>3 DEF CommitLogin
  <2>3. deleting'[l] = {} /\ rows' = (rows \ deleting[l]) \cup {l}
        /\ clock' = clock /\ rescued' = rescued /\ began' = began
    BY <1>3 DEF CommitLogin, Insert
  <2>4. \A s \in Logins \ {l} : expires'[s] = expires[s]
    BY <1>3 DEF CommitLogin, Insert
  <2>5. \A t \in Txns : l \notin victims[t] \cup deleting[t]
    BY <1>0, <2>1
  <2>6. \A t \in Txns : \A s \in victims'[t] : pc'[s] \in {"done", "lost"}
    BY <2>1, <2>2
  <2>7. \A t \in Txns : deleting'[t] \subseteq rows'
    BY <2>2, <2>3
  <2>8. \A c \in Cleaners : \A s \in victims'[c] \cup deleting'[c] : s \in rows' => expires'[s] <= clock' \/ s \in rescued'
    BY <2>2, <2>3, <2>4, <2>5
  <2>9. \A t, u \in Txns : t # u => deleting'[t] \cap deleting'[u] = {}
    BY <2>2
  <2>10. \A t \in Txns : pc'[t] = "idle" => victims'[t] = {} /\ deleting'[t] = {}
    <3>1. ASSUME NEW t \in Txns, pc'[t] = "idle" PROVE pc[t] = "idle"
      BY <1>3, <3>1 DEF CommitLogin
    <3> QED
      BY <2>2, <3>1
  <2>11. \A m \in Logins : pc'[m] = "expiring" => \A s \in deleting'[m] : expires'[s] <= clock'
    BY <2>1, <2>2, <2>3, <2>4, <2>5
  <2> QED
    BY <2>3, <2>6, <2>7, <2>8, <2>9, <2>10, <2>11
<1>4. ASSUME NEW l \in Logins, AbortLogin(l) PROVE LiveInv'
  BY <1>0, <1>4 DEF AbortLogin
<1>5. ASSUME NEW f \in Refreshes, NEW k \in Issued, Find(f, k) PROVE LiveInv'
  BY <1>5 DEF Find
<1>5a. ASSUME NEW f \in Refreshes, BeginUpdate(f) PROVE LiveInv'
  BY <1>5a DEF BeginUpdate
<1>6. ASSUME NEW f \in Refreshes, Rotate(f) PROVE LiveInv'
  <2>1. PICK s \in rows : /\ \A t \in Txns : s \notin deleting[t]
                          /\ ~Expired(s, started[f])
                          /\ expires' = [expires EXCEPT ![s] = started[f] + TTL]
                          /\ rescued' = rescued \cup {u \in {s} : Rescued(u, f)}
    BY <1>6 DEF Rotate, Replace, Holder
  <2>2. /\ rows' = rows /\ clock' = clock /\ victims' = victims /\ deleting' = deleting /\ began' = began
        /\ \A a \in Txns : pc'[a] = pc[a]
    BY <1>6 DEF Rotate
  <2>3. \A u \in rows \ {s} : expires'[u] = expires[u]
    BY <2>1
  <2>4. Expired(s, clock) => s \in rescued'
    BY <2>1 DEF Rescued
  <2>5. \A c \in Cleaners : \A u \in victims[c] \cup deleting[c] :
            u \in rows => expires'[u] <= clock \/ u \in rescued'
    BY <2>1, <2>3, <2>4
  <2>6. \A l \in Logins : pc[l] = "expiring" => \A u \in deleting[l] : expires'[u] <= clock
    BY <2>1, <2>3
  <2> QED
    BY <2>2, <2>5, <2>6
<1>7. ASSUME NEW f \in Refreshes, RotateMisses(f) PROVE LiveInv'
  BY <1>7 DEF RotateMisses
<1>8. ASSUME NEW f \in Refreshes, RotateFails(f) PROVE LiveInv'
  BY <1>8 DEF RotateFails
<1>9. ASSUME NEW k \in Issued, Logout(k) PROVE LiveInv'
  BY <1>9 DEF Logout
<1>10. ASSUME NEW c \in Cleaners, BeginCleanup(c) PROVE LiveInv'
  BY <1>0, <1>10 DEF BeginCleanup, LockFree
<1>11. ASSUME NEW c \in Cleaners, CommitCleanup(c) PROVE LiveInv'
  BY <1>11 DEF CommitCleanup
<1>12. ASSUME NEW c \in Cleaners, AbortCleanup(c) PROVE LiveInv'
  BY <1>12 DEF AbortCleanup
<1>13. ASSUME NEW t \in Txns, DeleteRow(t) PROVE LiveInv'
  BY <1>13 DEF DeleteRow, Rechecked
<1>14. CASE Tick
  BY <1>14 DEF Tick
<1>15. CASE UNCHANGED vars
  BY <1>15 DEF vars
<1> HIDE DEF TypeOK, Txns, Tokens, LoginStage, RefreshStage, CleanerStage, row, call, past, Goto, Release,
             FindVictims, LiveInv, Locked, Expired
<1> QED
  BY <1>1, <1>2, <1>3, <1>4, <1>5, <1>5a, <1>6, <1>7, <1>8, <1>9, <1>10, <1>11, <1>12, <1>13, <1>14, <1>15
  DEF Next

LEMMA LiveInvHolds == Spec => []LiveInv
BY InitLive, NextLive, TypeCorrect, TokenInvHolds, PTL DEF Spec

\* The cleanup deletes no session that is alive but one that an UPDATE older than the
\* session's expiry renewed after the cleanup had chosen it; the first DELETE of a
\* login, which asks the expiry again, deletes none.
THEOREM LiveSessionsAreKept == Spec => []LiveSessionsKept
<1>1. LiveInv => LiveSessionsKept
  BY DEF LiveInv, LiveSessionsKept, Txns
<1> QED
  BY <1>1, LiveInvHolds, PTL

----------------------------------------------------------------------------
\* The session limit.

\* The sessions of l's user that l will leave beside its own.
Spared(l) == {s \in rows : user[s] = user[l]} \ (deleting[l] \cup victims[l])

\* A login that evicts and was not overtaken leaves room for its own session.
LimitInv ==
    \A l \in Logins : pc[l] = "evicting" /\ l \notin raced => Cardinality(Spared(l)) <= MaxSessions - 1

\* No step but those of login l and of logins that overtake it adds to Spared(l).
LEMMA SparedShrinks ==
    ASSUME TypeOK, LimitInv,
           \A l \in Logins : pc'[l] = "evicting" /\ l \notin raced' =>
                pc[l] = "evicting" /\ l \notin raced /\ Spared(l)' \subseteq Spared(l)
    PROVE  LimitInv'
<1> SUFFICES ASSUME NEW l \in Logins, pc'[l] = "evicting", l \notin raced'
             PROVE  Cardinality(Spared(l)') <= MaxSessions' - 1
  BY DEF LimitInv
<1>1. Cardinality(Spared(l)) <= MaxSessions - 1 /\ Spared(l)' \subseteq Spared(l)
  BY DEF LimitInv
<1>2. IsFiniteSet(Spared(l))
  BY FiniteAssumption, FS_Subset DEF Spared, TypeOK
<1>3. Cardinality(Spared(l)') <= Cardinality(Spared(l)) /\ Cardinality(Spared(l)) \in Nat
      /\ Cardinality(Spared(l)') \in Nat
  BY <1>1, <1>2, FS_Subset, FS_CardinalityType
<1> QED
  BY <1>1, <1>3, LimitsAssumption

LEMMA InitLimit == Init => LimitInv
BY DEF Init, LimitInv, Txns

LEMMA NextLimit == TypeOK /\ LimitInv /\ [Next]_vars => LimitInv'
<1> SUFFICES ASSUME TypeOK, LimitInv, [Next]_vars PROVE LimitInv'
  OBVIOUS
<1> DEFINE Shrinks == \A l \in Logins : pc'[l] = "evicting" /\ l \notin raced' =>
                pc[l] = "evicting" /\ l \notin raced /\ Spared(l)' \subseteq Spared(l)
<1>0. Shrinks => LimitInv'
  BY SparedShrinks
<1> USE DisjointAssumption
    DEF TypeOK, Txns, row, call, past, Goto, Release, FindVictims, Spared
<1>1. ASSUME NEW l \in Logins, BeginLogin(l) PROVE Shrinks
  BY <1>1 DEF BeginLogin
<1>2. ASSUME NEW l \in Logins, FindEvicted(l) PROVE LimitInv'
  <2>1. PICK K \in SUBSET rows : Keeps(l, K) /\ FindVictims(l, {s \in Visible(l) : user[s] = user[l]} \ K)
    BY <1>2 DEF FindEvicted
  <2>2. IsFiniteSet(K) /\ Cardinality(K) \in Nat /\ Cardinality(K) <= MaxSessions - 1
    <3>1. IsFiniteSet(K)
      BY FiniteAssumption, FS_Subset
    <3> QED
      BY <2>1, <3>1, FS_CardinalityType, LimitsAssumption DEF Keeps
  <2>3. Spared(l)' \subseteq K
    BY <1>2, <2>1 DEF FindEvicted, Visible
  <2>4. Cardinality(Spared(l)') <= MaxSessions - 1
    BY <2>2, <2>3, FS_Subset, FS_CardinalityType, LimitsAssumption
  <2>5. ASSUME NEW m \in Logins, m # l, pc'[m] = "evicting", m \notin raced'
        PROVE  Cardinality(Spared(m)') <= MaxSessions - 1
    <3>1. Spared(m)' = Spared(m) /\ pc[m] = "evicting" /\ m \notin raced
      BY <1>2, <2>1, <2>5 DEF FindEvicted
    <3> QED
      BY <3>1 DEF LimitInv
  <2> QED
    BY <2>4, <2>5 DEF LimitInv
<1>3. ASSUME NEW l \in Logins, CommitLogin(l) PROVE Shrinks
  BY <1>3 DEF CommitLogin, Insert
<1>4. ASSUME NEW l \in Logins, AbortLogin(l) PROVE Shrinks
  BY <1>4 DEF AbortLogin
<1>5. ASSUME NEW f \in Refreshes, NEW k \in Issued, Find(f, k) PROVE Shrinks
  BY <1>5 DEF Find
<1>5a. ASSUME NEW f \in Refreshes, BeginUpdate(f) PROVE Shrinks
  BY <1>5a DEF BeginUpdate
<1>6. ASSUME NEW f \in Refreshes, Rotate(f) PROVE Shrinks
  BY <1>6 DEF Rotate, Replace
<1>7. ASSUME NEW f \in Refreshes, RotateMisses(f) PROVE Shrinks
  BY <1>7 DEF RotateMisses
<1>8. ASSUME NEW f \in Refreshes, RotateFails(f) PROVE Shrinks
  BY <1>8 DEF RotateFails
<1>9. ASSUME NEW k \in Issued, Logout(k) PROVE Shrinks
  BY <1>9 DEF Logout
<1>10. ASSUME NEW c \in Cleaners, BeginCleanup(c) PROVE Shrinks
  BY <1>10 DEF BeginCleanup
<1>11. ASSUME NEW c \in Cleaners, CommitCleanup(c) PROVE Shrinks
  BY <1>11 DEF CommitCleanup
<1>12. ASSUME NEW c \in Cleaners, AbortCleanup(c) PROVE Shrinks
  BY <1>12 DEF AbortCleanup
<1>13. ASSUME NEW t \in Txns, DeleteRow(t) PROVE Shrinks
  <2>1. PICK s \in victims[t] :
            /\ victims' = [victims EXCEPT ![t] = @ \ {s}]
            /\ deleting' = [deleting EXCEPT ![t] = IF Rechecked(t, s) THEN @ \cup {s} ELSE @]
    BY <1>13 DEF DeleteRow
  <2>2. pc' = pc /\ raced' = raced /\ rows' = rows /\ user' = user
    BY <1>13 DEF DeleteRow
  <2>3. SUFFICES ASSUME NEW l \in Logins, pc[l] = "evicting"
                 PROVE  Spared(l)' \subseteq Spared(l)
    BY <2>2
  <2>4. \A u \in rows : u \in victims[l] \cup deleting[l] => u \in victims'[l] \cup deleting'[l]
    BY <2>1, <2>3 DEF Rechecked
  <2> QED
    BY <2>2, <2>4
<1>14. CASE Tick
  <2> Shrinks
    BY <1>14 DEF Tick
  <2> QED
    BY <1>0
<1>15. CASE UNCHANGED vars
  <2> Shrinks
    BY <1>15 DEF vars
  <2> QED
    BY <1>0
<1> HIDE DEF TypeOK, Txns, row, call, past, Goto, Release, FindVictims, Spared, Shrinks
<1> QED
  BY <1>0, <1>1, <1>2, <1>3, <1>4, <1>5, <1>5a, <1>6, <1>7, <1>8, <1>9, <1>10, <1>11, <1>12, <1>13, <1>14, <1>15
  DEF Next

LEMMA LimitInvHolds == Spec => []LimitInv
BY InitLimit, NextLimit, TypeCorrect, PTL DEF Spec

\* Only the commit of login l brings l's row.
LEMMA NewRow ==
    ASSUME TypeOK, [Next]_vars, NEW l \in Logins, l \in rows' \ rows
    PROVE  CommitLogin(l)
<1>1. ASSUME NEW m \in Logins, BeginLogin(m) \/ FindEvicted(m) \/ AbortLogin(m) PROVE FALSE
  BY <1>1 DEF BeginLogin, FindEvicted, AbortLogin
<1>2. ASSUME NEW m \in Logins, CommitLogin(m) PROVE CommitLogin(l)
  BY <1>2 DEF CommitLogin, Insert
<1>3. ASSUME NEW f \in Refreshes, (\E k \in Issued : Find(f, k)) \/ BeginUpdate(f) \/ Rotate(f) \/ RotateMisses(f) \/ RotateFails(f) PROVE FALSE
  BY <1>3 DEF Find, BeginUpdate, Rotate, RotateMisses, RotateFails
<1>4. ASSUME NEW k \in Issued, Logout(k) PROVE FALSE
  BY <1>4 DEF Logout
<1>5. ASSUME NEW c \in Cleaners, BeginCleanup(c) \/ CommitCleanup(c) \/ AbortCleanup(c) PROVE FALSE
  BY <1>5 DEF BeginCleanup, CommitCleanup, AbortCleanup
<1>6. ASSUME NEW t \in Txns, DeleteRow(t) PROVE FALSE
  BY <1>6 DEF DeleteRow
<1>7. ~Tick /\ ~UNCHANGED vars
  BY DEF Tick, vars
<1> QED
  BY <1>1, <1>2, <1>3, <1>4, <1>5, <1>6, <1>7 DEF Next

\* A login that none of the same user overtook leaves at most MaxSessions
\* sessions, however refreshes, logouts, cleanups and other logins interleave.
THEOREM LimitWithoutRaceHolds == Spec => LimitWithoutRace
<1>1. ASSUME TypeOK, LimitInv, [Next]_vars, NEW l \in Logins, l \in rows' \ rows, l \notin raced
      PROVE  Cardinality({s \in rows' : user[s] = user[l]}) <= MaxSessions
  <2>1. CommitLogin(l)
    BY <1>1, NewRow
  <2>2. Cardinality(Spared(l)) <= MaxSessions - 1
    BY <1>1, <2>1 DEF LimitInv, CommitLogin
  <2>3. IsFiniteSet(Spared(l))
    BY <1>1, FiniteAssumption, FS_Subset DEF Spared, TypeOK
  <2>4. {s \in rows' : user[s] = user[l]} \subseteq Spared(l) \cup {l}
    BY <2>1 DEF CommitLogin, Insert, Spared
  <2>5. IsFiniteSet(Spared(l) \cup {l}) /\ Cardinality(Spared(l) \cup {l}) <= Cardinality(Spared(l)) + 1
    <3> DEFINE S == Spared(l)
    <3>1. IsFiniteSet(S) /\ Cardinality(S) \in Nat
      BY <2>3, FS_CardinalityType
    <3> HIDE DEF S
    <3>2. IsFiniteSet(S \cup {l}) /\ Cardinality(S \cup {l}) = IF l \in S THEN Cardinality(S) ELSE Cardinality(S) + 1
      BY <3>1, FS_AddElement
    <3>3. IsFiniteSet(S \cup {l}) /\ Cardinality(S \cup {l}) <= Cardinality(S) + 1
      BY <3>1, <3>2
    <3> QED
      BY <3>3 DEF S
  <2>6. Cardinality(Spared(l)) \in Nat /\ Cardinality(Spared(l) \cup {l}) \in Nat
    BY <2>3, <2>5, FS_CardinalityType
  <2>7. /\ IsFiniteSet({s \in rows' : user[s] = user[l]})
        /\ Cardinality({s \in rows' : user[s] = user[l]}) <= Cardinality(Spared(l) \cup {l})
    BY <2>4, <2>5, FS_Subset
  <2>8. Cardinality({s \in rows' : user[s] = user[l]}) \in Nat
    BY <2>7, FS_CardinalityType
  <2> QED
    BY <2>2, <2>5, <2>6, <2>7, <2>8, LimitsAssumption
<1>2. TypeOK /\ LimitInv /\ [Next]_vars =>
        [\A l \in Logins : l \in rows' \ rows /\ l \notin raced =>
            Cardinality({s \in rows' : user[s] = user[l]}) <= MaxSessions]_vars
  BY <1>1
<1> QED
  BY <1>2, TypeCorrect, LimitInvHolds, PTL DEF Spec, LimitWithoutRace

----------------------------------------------------------------------------
\* The abstract service.

\* The tokens that POST /refresh accepts, or that an UPDATE already running will.
Live == {token[s] : s \in {u \in rows : ~Expired(u, clock) \/ Renewing(u)}}

Exchanged == {<<old[f], f>> : f \in Rotated}

\* A step that generates no token and continues no session revives none.
LEMMA NothingRevived ==
  ASSUME Stored' = Stored, Exchanged' = Exchanged, Live' \subseteq Live
  PROVE  Service!End
BY DEF Service!End, Stored, Exchanged, Live

LEMMA NextTokenService == TypeOK /\ TokenInv /\ [Next]_vars => [Service!Next]_(Service!vars)
<1> SUFFICES ASSUME TypeOK, TokenInv, [Next]_vars PROVE Service!Next
  OBVIOUS
<1> USE DisjointAssumption DEF Txns, Tokens, row, call, past, Goto
<1>1. ASSUME Service!End PROVE Service!Next
  BY <1>1 DEF Service!Next
<1>2. ASSUME rows' \subseteq rows, row' = row, old' = old, clock <= clock', clock' \in Nat,
             \A a \in Tokens : \/ pc'[a] = pc[a]
                               \/ {pc[a], pc'[a]} \cap {"done", "ok", "lost"} = {},
             \A g \in Refreshes : pc'[g] = "update" => pc[g] = "update" /\ started'[g] = started[g]
      PROVE  Service!Next
  <2>1. Stored' = Stored /\ Rotated' = Rotated
    BY <1>2 DEF Stored, Rotated
  <2>2. Exchanged' = Exchanged
    BY <1>2, <2>1 DEF Exchanged
  <2>3. \A u \in rows' : ~Expired(u, clock)' \/ Renewing(u)' => ~Expired(u, clock) \/ Renewing(u)
    BY <1>2 DEF Expired, Renewing, TypeOK
  <2>4. Live' \subseteq Live
    BY <1>2, <2>3 DEF Live
  <2> QED
    BY <1>1, <2>1, <2>2, <2>4, NothingRevived
<1>3. ASSUME NEW l \in Logins, BeginLogin(l) PROVE Service!Next
  BY <1>3, <1>2 DEF BeginLogin, TypeOK
<1>4. ASSUME NEW l \in Logins, FindEvicted(l) PROVE Service!Next
  BY <1>4, <1>2 DEF FindEvicted, TypeOK
<1>5. ASSUME NEW l \in Logins, CommitLogin(l) PROVE Service!Next
  <2>1. /\ pc[l] = "evicting" /\ pc'[l] \in {"done", "lost"}
        /\ \A a \in (Txns \cup Refreshes) \ {l} : pc'[a] = pc[a]
    BY <1>5 DEF CommitLogin, TypeOK
  <2>2. /\ rows' \subseteq rows \cup {l} /\ token'[l] = l
        /\ \A s \in Logins \ {l} : token'[s] = token[s] /\ expires'[s] = expires[s]
        /\ old' = old /\ started' = started /\ clock' = clock
    BY <1>5 DEF CommitLogin, Insert, TypeOK
  <2>3. Stored' = Stored \cup {l} /\ Rotated' = Rotated /\ l \notin Stored
    BY <2>1 DEF Stored, Rotated
  <2>4. Exchanged' = Exchanged
    BY <2>2, <2>3 DEF Exchanged
  <2>5. Live' \subseteq Live \cup {l}
    <3>1. \A u \in rows' \ {l} : /\ u \in rows /\ token'[u] = token[u]
                                 /\ ~Expired(u, clock)' \/ Renewing(u)' => ~Expired(u, clock) \/ Renewing(u)
      BY <2>1, <2>2 DEF Expired, Renewing, TypeOK
    <3> QED
      BY <2>2, <3>1 DEF Live
  <2>6. Service!Issue(l)
    BY <2>3, <2>4, <2>5 DEF Service!Issue, Stored, Exchanged, Live
  <2> QED
    BY <2>6 DEF Service!Next
<1>6. ASSUME NEW l \in Logins, AbortLogin(l) PROVE Service!Next
  BY <1>6, <1>2 DEF AbortLogin, TypeOK
<1>7. ASSUME NEW f \in Refreshes, NEW k \in Issued, Find(f, k) PROVE Service!Next
  <2>1. pc[f] = "idle" /\ pc'[f] \in {"rotate", "denied"} /\ \A a \in Tokens \ {f} : pc'[a] = pc[a]
    BY <1>7 DEF Find, TypeOK
  <2>2. Stored' = Stored /\ Rotated' = Rotated /\ f \notin Rotated
    BY <2>1 DEF Stored, Rotated
  <2>3. Exchanged' = Exchanged
    BY <1>7, <2>2 DEF Find, Exchanged, Rotated, TypeOK
  <2>4. Live' \subseteq Live
    <3>1. /\ rows' = rows /\ row' = row /\ clock' = clock /\ started' = started
          /\ \A g \in Refreshes : pc'[g] = "update" => pc[g] = "update" /\ old'[g] = old[g]
      BY <1>7, <2>1 DEF Find, TypeOK
    <3>2. \A u \in rows : ~Expired(u, clock)' \/ Renewing(u)' => ~Expired(u, clock) \/ Renewing(u)
      BY <3>1 DEF Expired, Renewing
    <3> QED
      BY <3>1, <3>2 DEF Live
  <2> QED
    BY <1>1, <2>2, <2>3, <2>4, NothingRevived
<1>7a. ASSUME NEW f \in Refreshes, BeginUpdate(f) PROVE Service!Next
  <2>1. /\ pc[f] = "rotate" /\ pc'[f] \in {"update", "denied"} /\ \A a \in Tokens \ {f} : pc'[a] = pc[a]
        /\ rows' = rows /\ row' = row /\ clock' = clock /\ old' = old
        /\ started'[f] = clock /\ \A g \in Refreshes \ {f} : started'[g] = started[g]
    BY <1>7a DEF BeginUpdate, TypeOK
  <2>2. Stored' = Stored /\ Rotated' = Rotated
    BY <2>1 DEF Stored, Rotated
  <2>3. Exchanged' = Exchanged
    BY <2>1, <2>2 DEF Exchanged
  <2>4. \A u \in rows : ~Expired(u, clock)' \/ Renewing(u)' => ~Expired(u, clock) \/ Renewing(u)
    BY <2>1 DEF Expired, Renewing
  <2>5. Live' \subseteq Live
    BY <2>1, <2>4 DEF Live
  <2> QED
    BY <1>1, <2>2, <2>3, <2>5, NothingRevived
<1>8. ASSUME NEW f \in Refreshes, Rotate(f) PROVE Service!Next
  <2>1. /\ pc[f] = "update" /\ pc'[f] \in {"ok", "lost"}
        /\ \A a \in (Txns \cup Refreshes) \ {f} : pc'[a] = pc[a]
    BY <1>8 DEF Rotate, TypeOK
  <2>2. PICK s \in rows : /\ token[s] = old[f] /\ ~Expired(s, started[f])
                          /\ token' = [token EXCEPT ![s] = f]
                          /\ expires' = [expires EXCEPT ![s] = started[f] + TTL]
    BY <1>8 DEF Rotate, Replace, Holder
  <2>3. rows' = rows /\ old' = old /\ started' = started /\ clock' = clock
    BY <1>8 DEF Rotate, call
  <2>4. Stored' = Stored \cup {f} /\ Rotated' = Rotated \cup {f} /\ f \notin Stored
    BY <2>1 DEF Stored, Rotated
  <2>5. Exchanged' = Exchanged \cup {<<old[f], f>>}
    BY <2>3, <2>4 DEF Exchanged
  <2>6. old[f] \in Live /\ old[f] \in Tokens
    <3>1. Renewing(s)
      BY <2>1, <2>2 DEF Renewing
    <3> QED
      BY <2>2, <3>1 DEF Live, TypeOK
  <2>7. \A u \in rows \ {s} : token[u] # old[f]
    BY <2>2 DEF TokenInv, DeadTokens
  <2>8. f \notin Live
    BY <2>4 DEF TokenInv, Live
  <2>9. token'[s] = f /\ \A u \in rows \ {s} : token'[u] = token[u] /\ expires'[u] = expires[u]
    BY <2>2 DEF TypeOK
  <2>10. \A u \in rows \ {s} : (~Expired(u, clock) \/ Renewing(u))' <=> (~Expired(u, clock) \/ Renewing(u))
    <3>1. \A u \in rows \ {s} : Renewing(u)' <=> Renewing(u)
      BY <2>1, <2>3, <2>7, <2>9 DEF Renewing, Expired
    <3> QED
      BY <2>3, <2>9, <3>1 DEF Expired
  <2>11. Live' \ {f} = Live \ {old[f]}
    BY <2>2, <2>3, <2>7, <2>8, <2>9, <2>10 DEF Live
  <2>12. Live' \in {Live \ {old[f]}, (Live \ {old[f]}) \cup {f}}
    BY <2>11
  <2>13. Service!Exchange(old[f], f)
    BY <2>4, <2>5, <2>6, <2>12 DEF Service!Exchange, Stored, Exchanged, Live
  <2> QED
    BY <2>6, <2>13 DEF Service!Next
<1>9. ASSUME NEW f \in Refreshes, RotateMisses(f) PROVE Service!Next
  BY <1>9, <1>2 DEF RotateMisses, TypeOK
<1>10. ASSUME NEW f \in Refreshes, RotateFails(f) PROVE Service!Next
  BY <1>10, <1>2 DEF RotateFails, TypeOK
<1>11. ASSUME NEW k \in Issued, Logout(k) PROVE Service!Next
  BY <1>11, <1>2 DEF Logout, TypeOK
<1>12. ASSUME NEW c \in Cleaners, BeginCleanup(c) PROVE Service!Next
  BY <1>12, <1>2 DEF BeginCleanup, TypeOK
<1>13. ASSUME NEW c \in Cleaners, CommitCleanup(c) PROVE Service!Next
  BY <1>13, <1>2 DEF CommitCleanup, TypeOK
<1>14. ASSUME NEW c \in Cleaners, AbortCleanup(c) PROVE Service!Next
  BY <1>14, <1>2 DEF AbortCleanup, TypeOK
<1>15. ASSUME NEW t \in Txns, DeleteRow(t) PROVE Service!Next
  BY <1>15, <1>2 DEF DeleteRow, TypeOK
<1>16. CASE Tick
  BY <1>16, <1>2 DEF Tick, TypeOK
<1>17. CASE UNCHANGED vars
  BY <1>17, <1>2 DEF vars, TypeOK
<1> HIDE DEF Txns, Tokens, row, call, past, Goto
<1> QED
  BY <1>3, <1>4, <1>5, <1>6, <1>7, <1>7a, <1>8, <1>9, <1>10, <1>11, <1>12, <1>13, <1>14, <1>15, <1>16, <1>17
  DEF Next

\* The login, refresh, logout and cleanup transactions implement TokenService: a token is
\* issued once, only a live one is exchanged, and none comes back.
THEOREM ImplementsTokenService == Spec => TokenServiceSpec
<1>1. Init => Service!Init
  BY DisjointAssumption DEF Init, Service!Init, Rotated, Txns, Tokens
<1>2. TypeOK /\ TokenInv /\ [Next]_vars => [Service!Next]_(Service!vars)
  BY NextTokenService
<1> QED
  BY <1>1, <1>2, TypeCorrect, TokenInvHolds, PTL DEF Spec, TokenServiceSpec, Service!Spec
=============================================================================
