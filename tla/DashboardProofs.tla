-------------------------- MODULE DashboardProofs --------------------------
(***************************************************************************)
(* What TLAPS proves about Dashboard, for any number of tabs, queries and  *)
(* logins, and any number of faults.                                       *)
(***************************************************************************)
EXTENDS Dashboard, TLAPS

----------------------------------------------------------------------------
\* Types.

\* What Finish does to the requests and to the others.
LEMMA Finished ==
  ASSUME TypeOK, NEW S \in SUBSET Requests, NEW s \in Settled, Finish(S, s)
  PROVE  /\ pc' \in [Requests -> Stage] /\ tab' \in [Requests -> Tabs \cup {None}]
         /\ sent' \in [Requests -> Stored] /\ presented' \in [Requests -> Stored]
         /\ \A q \in Requests :
              IF pc'[q] \in UnderWay
              THEN /\ q \notin S /\ tab'[q] = tab[q]
                   /\ tab[q] \in Tabs /\ stage[tab[q]] # "mounting"
              ELSE tab'[q] = None
BY DEF Finish, TypeOK, Stage, Settled, UnderWay, Stored

LEMMA InitType == Init => TypeOK
BY DEF Init, Service!Init, TypeOK, Stored, TabStage, Stage, Settled, UnderWay

LEMMA NextType == TypeOK /\ [Next]_vars => TypeOK'
<1> SUFFICES ASSUME TypeOK, [Next]_vars PROVE TypeOK'
  OBVIOUS
<1> USE DEF server, storage, requests, history, Tokens, Goto, Store
<1>1. ASSUME NEW q \in Requests, Served(q) \/ Rejected(q) PROVE TypeOK'
  <2>1. PICK s \in Settled : Finish({q}, s)
    BY <1>1 DEF Served, Rejected, Settled
  <2>2. UNCHANGED <<server, fresh, storage, react, stage, history>>
    BY <1>1 DEF Served, Rejected
  <2> QED
    BY <2>1, <2>2, Finished DEF TypeOK
<1>2. ASSUME NEW q \in Requests, BeginRefresh(q) PROVE TypeOK'
  BY <1>2 DEF BeginRefresh, Replacing, TypeOK, Stage, Settled, UnderWay
<1>3. ASSUME NEW q \in Requests, Renewed(q) PROVE TypeOK'
  <2>1. presented[q] \in issued
    BY <1>3 DEF Renewed, Service!Exchange, TypeOK
  <2> QED
    BY <1>3, <2>1 DEF Renewed, Service!Exchange, TypeOK, Stage, Settled, UnderWay
<1>4. ASSUME NEW q \in Requests, StoreRenewed(q) PROVE TypeOK'
  BY <1>4 DEF StoreRenewed, TypeOK, Stage, Settled, UnderWay, Stored
<1>5. ASSUME NEW q \in Requests, Clear(q), tab[q] \in Tabs,
             faulted' \in SUBSET Requests, orphaned' \in SUBSET Requests
      PROVE  TypeOK'
  <2>1. Finish({q}, "failed") /\ stage' \in [Tabs -> TabStage]
    BY <1>5 DEF Clear, TypeOK, TabStage
  <2>2. \A t \in Tabs : stage'[t] = "mounting" => stage[t] = "mounting"
    BY <1>5 DEF Clear, TypeOK
  <2>3. dropped' \in SUBSET Requests
    BY <1>5 DEF Clear, TypeOK
  <2> QED
    BY <1>5, <2>1, <2>2, <2>3, Finished DEF Clear, TypeOK, Settled, Stored
<1>6. ASSUME NEW q \in Requests, RefreshRefused(q) PROVE TypeOK'
  <2>1. tab[q] \in Tabs
    BY <1>6 DEF RefreshRefused, TypeOK, Stage, Settled, UnderWay
  <2> QED
    BY <1>5, <1>6, <2>1 DEF RefreshRefused, TypeOK
<1>7. ASSUME NEW q \in Requests, RefreshFails(q) PROVE TypeOK'
  <2>1. tab[q] \in Tabs
    BY <1>7 DEF RefreshFails, TypeOK, Stage, Settled, UnderWay
  <2> QED
    BY <1>5, <1>7, <2>1 DEF RefreshFails, Fault, TypeOK
<1>8. ASSUME NEW l \in Requests, Welcome(l) PROVE TypeOK'
  BY <1>8 DEF Welcome, Service!Issue, Replacing, TypeOK, Stage, Settled, UnderWay
<1>9. ASSUME NEW l \in Requests, StoreLogin(l) PROVE TypeOK'
  <2>1. Finish({l}, "done") /\ react' \in [Tabs -> Stored]
    BY <1>9 DEF StoreLogin, TypeOK, Stored
  <2> QED
    BY <1>9, <2>1, Finished DEF StoreLogin, TypeOK, Settled, Stored
<1>10. ASSUME NEW q \in Requests, Fails(q) PROVE TypeOK'
  BY <1>10, Finished DEF Fails, Fault, TypeOK, Settled
<1>11. ASSUME NEW q \in Requests, NEW t \in Tabs, SendQuery(q, t) PROVE TypeOK'
  BY <1>11 DEF SendQuery, Guarded, TypeOK, Stage, Settled, UnderWay
<1>12. ASSUME NEW l \in Requests, NEW t \in Tabs, SendLogin(l, t) PROVE TypeOK'
  BY <1>12 DEF SendLogin, TypeOK, Stage, Settled, UnderWay
<1>13. ASSUME NEW t \in Tabs, DemoMode(t) \/ Logout(t) PROVE TypeOK'
  BY <1>13 DEF DemoMode, Logout, TypeOK, Stored
<1>14. ASSUME NEW t \in Tabs, Reload(t) PROVE TypeOK'
  <2> DEFINE S == {q \in Requests : tab[q] = t}
  <2>1. Finish(S, "gone") /\ "gone" \in Settled
    BY <1>14 DEF Reload, Settled
  <2>2. stage' \in [Tabs -> TabStage] /\ \A u \in Tabs \ {t} : stage'[u] = stage[u]
    BY <1>14 DEF Reload, TypeOK, TabStage
  <2>3. react' \in [Tabs -> Stored] /\ orphaned' \in SUBSET Requests
    BY <1>14 DEF Reload, TypeOK
  <2>4. ASSUME NEW q \in Requests
        PROVE  IF pc'[q] \in UnderWay THEN tab'[q] \in Tabs /\ stage'[tab'[q]] # "mounting"
                                      ELSE tab'[q] = None
    BY <2>1, <2>2, Finished
  <2>5. pc' \in [Requests -> Stage] /\ tab' \in [Requests -> Tabs \cup {None}]
        /\ sent' \in [Requests -> Stored] /\ presented' \in [Requests -> Stored]
    BY <2>1, Finished
  <2> QED
    BY <1>14, <2>2, <2>3, <2>4, <2>5 DEF Reload, TypeOK
<1>15. ASSUME NEW t \in Tabs, Mount(t) PROVE TypeOK'
  BY <1>15 DEF Mount, TypeOK, TabStage
<1>16. ASSUME NEW k \in Tokens, AccessExpires(k) \/ SessionEnds(k) PROVE TypeOK'
  BY <1>16 DEF AccessExpires, SessionEnds, TypeOK
<1>17. CASE UNCHANGED vars
  BY <1>17 DEF vars, TypeOK
<1> HIDE DEF server, storage, requests, history, Goto, Store
<1>18. ASSUME NEW q \in Requests, Goes(q) PROVE TypeOK'
  BY <1>1, <1>2, <1>3, <1>4, <1>6, <1>8, <1>9, <1>18 DEF Goes
<1> QED
  BY <1>7, <1>10, <1>11, <1>12, <1>13, <1>14, <1>15, <1>16, <1>17, <1>18 DEF Next, Requests

\* Every variable keeps its type; a request that is under way belongs to a tab whose
\* page has not been reloaded since.
THEOREM TypeCorrect == Spec => []TypeOK
  BY InitType, NextType, PTL DEF Spec

----------------------------------------------------------------------------
\* The stored refresh token.

\* The reply with the tokens of request q is on its way.
Arriving(q) == pc[q] \in {"renewed", "welcomed"}

\* The browser knows only tokens that were issued, and a token whose reply is on its
\* way is known nowhere: it is not stored, nobody presents it, nothing replaced it.
SecretInv ==
    /\ exchanged \subseteq issued \X Requests
    /\ refresh \in issued \cup {Demo, None}
    /\ \A q \in Requests : presented[q] \in issued \cup {Demo, None}
    /\ \A q \in Requests : Arriving(q) =>
        /\ q \in issued /\ refresh # q
        /\ \A r \in Requests : presented[r] # q /\ <<q, r>> \notin exchanged

\* A step after which the browser knows no more than before, and expects nothing new.
LEMMA KnowsLess ==
  ASSUME TypeOK, SecretInv,
         issued' = issued, exchanged' = exchanged,
         refresh' \in {refresh, Demo, None},
         \A q \in Requests : presented'[q] \in {presented[q], refresh, None},
         \A q \in Requests : Arriving(q)' => Arriving(q)
  PROVE  SecretInv'
BY DistinctAssumption DEF TypeOK, SecretInv, Stored, Tokens

\* A request that is over is not waited for any more.
LEMMA FinishArrives ==
  ASSUME TypeOK, NEW S \in SUBSET Requests, NEW s \in Settled, Finish(S, s), NEW q \in Requests
  PROVE  /\ Arriving(q)' <=> Arriving(q) /\ q \notin S
         /\ presented'[q] \in {presented[q], None}
BY DEF Finish, Arriving, Settled, TypeOK

LEMMA InitSecret == Init => SecretInv
BY DEF Init, Service!Init, SecretInv, Arriving

LEMMA NextSecret == TypeOK /\ SecretInv /\ [Next]_vars => SecretInv'
<1> SUFFICES ASSUME TypeOK, SecretInv, [Next]_vars PROVE SecretInv'
  OBVIOUS
<1> USE DistinctAssumption DEF server, storage, requests, history, Tokens, Goto, Store
<1>1. ASSUME NEW q \in Requests, Served(q) \/ Rejected(q) \/ Fails(q) PROVE SecretInv'
  <2>1. PICK s \in Settled : Finish({q}, s)
    BY <1>1 DEF Served, Rejected, Fails, Settled
  <2>2. UNCHANGED <<server, storage>>
    BY <1>1 DEF Served, Rejected, Fails
  <2> QED
    BY <2>1, <2>2, FinishArrives, KnowsLess
<1>2. ASSUME NEW q \in Requests, BeginRefresh(q) PROVE SecretInv'
  <2>1. \A r \in Requests : Arriving(r)' => Arriving(r)
    BY <1>2 DEF BeginRefresh, TypeOK, Arriving
  <2>2. \A r \in Requests : presented'[r] \in {presented[r], refresh, None}
    BY <1>2 DEF BeginRefresh, TypeOK
  <2> QED
    BY <1>2, <2>1, <2>2, KnowsLess DEF BeginRefresh
<1>3. ASSUME NEW q \in Requests, Renewed(q) PROVE SecretInv'
  <2>1. /\ presented[q] \in issued /\ q \notin issued
        /\ issued' = issued \cup {q} /\ exchanged' = exchanged \cup {<<presented[q], q>>}
        /\ refresh' = refresh /\ presented' = presented
    BY <1>3 DEF Renewed, Service!Exchange, TypeOK
  <2>2. ASSUME NEW r \in Requests, Arriving(r)' PROVE r = q \/ Arriving(r)
    BY <1>3, <2>2 DEF Renewed, TypeOK, Arriving
  <2>3. ASSUME NEW r \in Requests, Arriving(r)', NEW o \in Requests
        PROVE  /\ r \in issued' /\ refresh' # r
               /\ presented'[o] # r /\ <<r, o>> \notin exchanged'
    <3>1. CASE r = q
      BY <2>1, <3>1 DEF SecretInv
    <3>2. CASE Arriving(r)
      BY <2>1, <3>2 DEF SecretInv
    <3> QED
      BY <2>2, <2>3, <3>1, <3>2
  <2>4. exchanged' \subseteq issued' \X Requests
    BY <2>1 DEF SecretInv
  <2>5. refresh' \in issued' \cup {Demo, None}
    BY <2>1 DEF SecretInv
  <2>6. \A r \in Requests : presented'[r] \in issued' \cup {Demo, None}
    BY <2>1 DEF SecretInv
  <2> HIDE DEF Tokens, Goto, Store
  <2> QED
    BY <2>3, <2>4, <2>5, <2>6 DEF SecretInv
<1>4. ASSUME NEW q \in Requests, StoreRenewed(q) PROVE SecretInv'
  <2>1. q \in issued /\ refresh' = q /\ UNCHANGED <<issued, exchanged, presented>>
    BY <1>4 DEF StoreRenewed, SecretInv, Arriving
  <2>2. ASSUME NEW r \in Requests, Arriving(r)' PROVE r # q /\ Arriving(r)
    BY <1>4, <2>2 DEF StoreRenewed, TypeOK, Arriving
  <2> QED
    BY <2>1, <2>2 DEF SecretInv
<1>5. ASSUME NEW q \in Requests, RefreshRefused(q) \/ RefreshFails(q) PROVE SecretInv'
  <2>1. Finish({q}, "failed") /\ refresh' = None /\ UNCHANGED server
    BY <1>5 DEF RefreshRefused, RefreshFails, Clear
  <2> QED
    BY <2>1, FinishArrives, KnowsLess DEF Settled
<1>6. ASSUME NEW l \in Requests, Welcome(l) PROVE SecretInv'
  <2>1. /\ l \notin issued /\ issued' = issued \cup {l}
        /\ UNCHANGED <<exchanged, refresh, presented>>
    BY <1>6 DEF Welcome, Service!Issue
  <2>2. ASSUME NEW r \in Requests, Arriving(r)' PROVE r = l \/ Arriving(r)
    BY <1>6, <2>2 DEF Welcome, TypeOK, Arriving
  <2> QED
    BY <2>1, <2>2 DEF SecretInv
<1>7. ASSUME NEW l \in Requests, StoreLogin(l) PROVE SecretInv'
  <2>1. l \in issued /\ refresh' = l /\ UNCHANGED <<issued, exchanged>>
    BY <1>7 DEF StoreLogin, SecretInv, Arriving
  <2>2. ASSUME NEW r \in Requests
        PROVE  (Arriving(r)' => r # l /\ Arriving(r)) /\ presented'[r] \in {presented[r], None}
    <3>1. Finish({l}, "done")
      BY <1>7 DEF StoreLogin
    <3> QED
      BY <3>1, FinishArrives DEF Settled
  <2> QED
    BY <2>1, <2>2 DEF SecretInv
<1>8. ASSUME NEW q \in Requests, NEW t \in Tabs, SendQuery(q, t) \/ SendLogin(q, t) PROVE SecretInv'
  <2>1. UNCHANGED <<server, storage, presented>> /\ Goto(q, "sent")
    BY <1>8 DEF SendQuery, SendLogin
  <2>2. \A r \in Requests : Arriving(r)' => Arriving(r)
    BY <2>1 DEF TypeOK, Arriving
  <2> QED
    BY <2>1, <2>2, KnowsLess
<1>9. ASSUME NEW t \in Tabs, DemoMode(t) \/ Logout(t) PROVE SecretInv'
  <2>1. refresh' \in {Demo, None} /\ UNCHANGED <<server, requests>>
    BY <1>9 DEF DemoMode, Logout
  <2> QED
    BY <2>1, KnowsLess DEF Arriving
<1>10. ASSUME NEW t \in Tabs, Reload(t) PROVE SecretInv'
  <2>1. Finish({q \in Requests : tab[q] = t}, "gone") /\ UNCHANGED <<server, storage>>
    BY <1>10 DEF Reload
  <2> QED
    BY <2>1, FinishArrives, KnowsLess DEF Settled
<1>11. ASSUME UNCHANGED <<issued, exchanged, refresh, requests>> PROVE SecretInv'
  BY <1>11 DEF SecretInv, Arriving
<1>12. ASSUME NEW t \in Tabs, Mount(t) PROVE SecretInv'
  BY <1>11, <1>12 DEF Mount
<1>13. ASSUME NEW k \in Tokens, AccessExpires(k) \/ SessionEnds(k) PROVE SecretInv'
  BY <1>11, <1>13 DEF AccessExpires, SessionEnds
<1>14. CASE UNCHANGED vars
  BY <1>11, <1>14 DEF vars
<1> HIDE DEF server, storage, requests, history, Goto, Store
<1>15. ASSUME NEW q \in Requests, Goes(q) PROVE SecretInv'
  BY <1>1, <1>2, <1>3, <1>4, <1>5, <1>6, <1>7, <1>15 DEF Goes
<1> QED
  BY <1>1, <1>5, <1>8, <1>9, <1>10, <1>12, <1>13, <1>14, <1>15 DEF Next, Requests

\* A step that stores no other token, exchanges none and forgets no reply.
LEMMA RemainsCurrent ==
  ASSUME StoredIsCurrent, refresh' = refresh, exchanged' = exchanged,
         \A q \in Requests : pc[q] = "renewed" => pc'[q] = "renewed" \/ q \in orphaned',
         orphaned \subseteq orphaned'
  PROVE  StoredIsCurrent'
BY DEF StoredIsCurrent

LEMMA NextCurrent ==
  TypeOK /\ SecretInv /\ StoredIsCurrent /\ TypeOK' /\ SecretInv' /\ [Next]_vars => StoredIsCurrent'
<1> SUFFICES ASSUME TypeOK, SecretInv, StoredIsCurrent, TypeOK', SecretInv', [Next]_vars
             PROVE  StoredIsCurrent'
  OBVIOUS
<1> USE DEF server, storage, requests, history, Goto, Store
<1>1. ASSUME refresh' \in {Demo, None} PROVE StoredIsCurrent'
  <2>1. \A q \in Requests : <<refresh', q>> \notin exchanged'
    BY <1>1, DistinctAssumption DEF TypeOK, SecretInv, Tokens
  <2> QED
    BY <2>1 DEF StoredIsCurrent
<1>2. ASSUME NEW q \in Requests, Served(q) \/ Rejected(q) \/ Fails(q) PROVE StoredIsCurrent'
  <2>1. pc[q] # "renewed" /\ UNCHANGED <<server, storage, orphaned>>
    BY <1>2 DEF Served, Rejected, Fails
  <2>2. \A r \in Requests \ {q} : pc'[r] = pc[r]
    BY <1>2 DEF Served, Rejected, Fails, Finish
  <2> QED
    BY <2>1, <2>2, RemainsCurrent
<1>3. ASSUME NEW q \in Requests, NEW t \in Tabs,
             SendQuery(q, t) \/ SendLogin(q, t)
      PROVE  StoredIsCurrent'
  BY <1>3, RemainsCurrent DEF SendQuery, SendLogin, TypeOK
<1>4. ASSUME NEW q \in Requests, Renewed(q) PROVE StoredIsCurrent'
  <2>1. /\ exchanged' = exchanged \cup {<<presented[q], q>>}
        /\ UNCHANGED <<refresh, orphaned>> /\ pc' = [pc EXCEPT ![q] = "renewed"]
    BY <1>4 DEF Renewed, Service!Exchange
  <2> QED
    BY <2>1 DEF TypeOK, StoredIsCurrent
<1>5. ASSUME NEW q \in Requests, StoreRenewed(q) \/ StoreLogin(q) PROVE StoredIsCurrent'
  <2>1. Arriving(q) /\ refresh' = q /\ exchanged' = exchanged
    BY <1>5 DEF StoreRenewed, StoreLogin, Arriving
  <2> QED
    BY <2>1 DEF SecretInv, StoredIsCurrent
<1>6. ASSUME NEW q \in Requests, RefreshRefused(q) \/ RefreshFails(q) PROVE StoredIsCurrent'
  BY <1>1, <1>6 DEF RefreshRefused, RefreshFails, Clear
<1>7. ASSUME NEW t \in Tabs, DemoMode(t) \/ Logout(t) PROVE StoredIsCurrent'
  BY <1>1, <1>7 DEF DemoMode, Logout
<1>8. ASSUME NEW t \in Tabs, Reload(t) PROVE StoredIsCurrent'
  BY <1>8, RemainsCurrent DEF Reload, Finish
<1>9. ASSUME UNCHANGED <<exchanged, refresh, requests, history>> PROVE StoredIsCurrent'
  BY <1>9, RemainsCurrent
<1>10. ASSUME NEW t \in Tabs, Mount(t) PROVE StoredIsCurrent'
  BY <1>9, <1>10 DEF Mount
<1>11. ASSUME NEW k \in Tokens, AccessExpires(k) \/ SessionEnds(k) PROVE StoredIsCurrent'
  BY <1>9, <1>11 DEF AccessExpires, SessionEnds
<1>12. CASE UNCHANGED vars
  BY <1>9, <1>12 DEF vars
<1>13. ASSUME NEW q \in Requests, BeginRefresh(q) \/ Welcome(q) PROVE StoredIsCurrent'
  BY <1>13, RemainsCurrent DEF BeginRefresh, Welcome, Service!Issue, TypeOK
<1> HIDE DEF server, storage, requests, history, Goto, Store
<1>14. ASSUME NEW q \in Requests, Goes(q) PROVE StoredIsCurrent'
  BY <1>2, <1>4, <1>5, <1>6, <1>13, <1>14 DEF Goes
<1> QED
  BY <1>2, <1>3, <1>6, <1>7, <1>8, <1>10, <1>11, <1>12, <1>14 DEF Next, Requests

\* However the tabs refresh, log in, log out and reload, the refresh token in
\* localStorage was exchanged only if the reply with its successor is on its way, or
\* was lost, or its page was reloaded first (the interceptor of api/client.ts).
THEOREM CurrentTokenStored == Spec => []StoredIsCurrent
<1>1. Init => StoredIsCurrent
  BY DEF Init, Service!Init, StoredIsCurrent
<1> QED
  BY <1>1, InitType, NextType, InitSecret, NextSecret, NextCurrent, PTL DEF Spec

----------------------------------------------------------------------------
\* Sessions that a failed refresh throws away.

\* A refresh that nothing overlapped is the only request that is about to replace the
\* stored tokens, and presents the stored one, if one is stored still.
SoloInv ==
    \A q \in Requests : pc[q] = "refreshing" /\ q \notin raced =>
        /\ Replacing = {q}
        /\ refresh \in {presented[q], Demo, None}

\* A step that lets no request begin to replace the tokens, nor store one.
LEMMA RemainsSolo ==
  ASSUME SoloInv, Replacing' \subseteq Replacing, raced \subseteq raced',
         refresh' \in {refresh, Demo, None},
         \A q \in Requests : pc'[q] = "refreshing" => pc[q] = "refreshing" /\ presented'[q] = presented[q]
  PROVE  SoloInv'
BY DEF SoloInv, Replacing

LEMMA NextSolo == TypeOK /\ SoloInv /\ [Next]_vars => SoloInv'
<1> SUFFICES ASSUME TypeOK, SoloInv, [Next]_vars PROVE SoloInv'
  OBVIOUS
<1> USE DEF server, storage, requests, history, Goto, Store
<1>1. ASSUME NEW S \in SUBSET Requests, NEW s \in Settled, Finish(S, s),
             raced' = raced, refresh' \in {refresh, Demo, None}
      PROVE  SoloInv'
  <2>1. Replacing' \subseteq Replacing
    BY <1>1 DEF Finish, Replacing, Settled
  <2>2. \A q \in Requests : pc'[q] = "refreshing" => pc[q] = "refreshing" /\ presented'[q] = presented[q]
    BY <1>1 DEF Finish, Settled
  <2> QED
    BY <1>1, <2>1, <2>2, RemainsSolo
<1>2. ASSUME NEW q \in Requests,
             Served(q) \/ Rejected(q) \/ Fails(q) \/ RefreshRefused(q) \/ RefreshFails(q)
      PROVE  SoloInv'
  <2>1. PICK s \in Settled : Finish({q}, s)
    BY <1>2 DEF Served, Rejected, Fails, RefreshRefused, RefreshFails, Clear, Settled
  <2>2. raced' = raced /\ refresh' \in {refresh, None}
    BY <1>2 DEF Served, Rejected, Fails, RefreshRefused, RefreshFails, Clear
  <2> QED
    BY <1>1, <2>1, <2>2
<1>3. ASSUME NEW t \in Tabs, Reload(t) PROVE SoloInv'
  <2>1. Finish({q \in Requests : tab[q] = t}, "gone") /\ raced' = raced /\ refresh' = refresh
    BY <1>3 DEF Reload
  <2> QED
    BY <1>1, <2>1 DEF Settled
<1>4. ASSUME NEW q \in Requests, BeginRefresh(q) PROVE SoloInv'
  <2>1. Replacing' = Replacing \cup {q}
    BY <1>4 DEF BeginRefresh, Replacing, TypeOK
  <2>2. CASE Replacing = {}
    <3>1. \A r \in Requests : pc'[r] = "refreshing" => r = q
      BY <1>4, <2>2 DEF BeginRefresh, Replacing, TypeOK
    <3>2. presented'[q] = refresh /\ refresh' = refresh
      BY <1>4 DEF BeginRefresh, TypeOK
    <3> QED
      BY <2>1, <2>2, <3>1, <3>2 DEF SoloInv
  <2>3. CASE Replacing # {}
    <3>1. Replacing' \subseteq raced'
      BY <1>4, <2>1, <2>3 DEF BeginRefresh
    <3> QED
      BY <3>1 DEF SoloInv, Replacing
  <2> QED
    BY <2>2, <2>3
<1>5. ASSUME NEW q \in Requests, Renewed(q) PROVE SoloInv'
  <2>1. /\ Replacing' \subseteq Replacing
        /\ \A r \in Requests : pc'[r] = "refreshing" => pc[r] = "refreshing"
    BY <1>5 DEF Renewed, Replacing, TypeOK
  <2> QED
    BY <1>5, <2>1, RemainsSolo DEF Renewed
<1>6. ASSUME NEW q \in Requests, StoreRenewed(q) \/ StoreLogin(q) PROVE SoloInv'
  <2>1. q \in Replacing /\ pc'[q] # "refreshing" /\ raced' = raced
    BY <1>6 DEF StoreRenewed, StoreLogin, Finish, Replacing, TypeOK
  <2>2. ASSUME NEW r \in Requests, pc'[r] = "refreshing" PROVE r # q /\ pc[r] = "refreshing"
    BY <1>6, <2>1, <2>2 DEF StoreRenewed, StoreLogin, Finish, TypeOK
  <2> QED
    BY <2>1, <2>2 DEF SoloInv
<1>7. ASSUME NEW l \in Requests, Welcome(l) PROVE SoloInv'
  <2>1. raced' = raced \cup Replacing
    BY <1>7 DEF Welcome
  <2>2. \A r \in Requests : pc'[r] = "refreshing" => r \in Replacing
    BY <1>7 DEF Welcome, Replacing, TypeOK
  <2> QED
    BY <2>1, <2>2 DEF SoloInv
<1>8. ASSUME NEW q \in Requests, NEW t \in Tabs, SendQuery(q, t) \/ SendLogin(q, t) PROVE SoloInv'
  <2>1. Goto(q, "sent") /\ UNCHANGED <<refresh, raced, presented>>
    BY <1>8 DEF SendQuery, SendLogin
  <2>2. /\ Replacing' \subseteq Replacing
        /\ \A r \in Requests : pc'[r] = "refreshing" => pc[r] = "refreshing"
    BY <2>1 DEF Replacing, TypeOK
  <2> QED
    BY <2>1, <2>2, RemainsSolo
<1>9. ASSUME refresh' \in {refresh, Demo, None}, UNCHANGED <<requests, raced>> PROVE SoloInv'
  BY <1>9, RemainsSolo DEF Replacing
<1>10. ASSUME NEW t \in Tabs, DemoMode(t) \/ Logout(t) \/ Mount(t) PROVE SoloInv'
  BY <1>9, <1>10 DEF DemoMode, Logout, Mount
<1>11. ASSUME NEW k \in Tokens, AccessExpires(k) \/ SessionEnds(k) PROVE SoloInv'
  BY <1>9, <1>11 DEF AccessExpires, SessionEnds
<1>12. CASE UNCHANGED vars
  BY <1>9, <1>12 DEF vars
<1> HIDE DEF server, storage, requests, history, Goto, Store
<1>13. ASSUME NEW q \in Requests, Goes(q) PROVE SoloInv'
  BY <1>2, <1>4, <1>5, <1>6, <1>7, <1>13 DEF Goes
<1> QED
  BY <1>2, <1>3, <1>8, <1>10, <1>11, <1>12, <1>13 DEF Next, Requests

\* A session that is removed alive: the refresh met a fault or was overlapped.
LEMMA NextKept == TypeOK /\ SoloInv /\ KeptWithoutRace /\ [Next]_vars => KeptWithoutRace'
<1> SUFFICES ASSUME TypeOK, SoloInv, KeptWithoutRace, [Next]_vars PROVE KeptWithoutRace'
  OBVIOUS
<1> USE DEF KeptWithoutRace, history
<1>1. ASSUME NEW q \in Requests, RefreshRefused(q) PROVE KeptWithoutRace'
  <2>1. ASSUME refresh \in live PROVE q \in raced
    <3>1. live \subseteq Requests /\ Demo \notin live /\ None \notin live
      BY DistinctAssumption DEF TypeOK, Tokens
    <3>2. pc[q] = "refreshing" /\ presented[q] \notin live
      BY <1>1, <2>1, <3>1 DEF RefreshRefused
    <3> QED
      BY <2>1, <3>1, <3>2 DEF SoloInv
  <2> QED
    BY <1>1, <2>1 DEF RefreshRefused, Clear
<1>2. ASSUME NEW q \in Requests, RefreshFails(q) PROVE KeptWithoutRace'
  BY <1>2 DEF RefreshFails, Clear, Fault
<1>3. ASSUME dropped' = dropped, raced \subseteq raced', faulted \subseteq faulted'
      PROVE  KeptWithoutRace'
  BY <1>3
<1>4. ASSUME NEW q \in Requests, Goes(q) PROVE KeptWithoutRace'
  BY <1>1, <1>3, <1>4 DEF Goes, Served, Rejected, BeginRefresh, Renewed, StoreRenewed, Welcome,
     StoreLogin
<1>5. ASSUME NEW q \in Requests, Fails(q) PROVE KeptWithoutRace'
  BY <1>3, <1>5 DEF Fails, Fault
<1>6. ASSUME NEW q \in Requests, NEW t \in Tabs, SendQuery(q, t) \/ SendLogin(q, t)
      PROVE  KeptWithoutRace'
  BY <1>3, <1>6 DEF SendQuery, SendLogin
<1>7. ASSUME NEW t \in Tabs, DemoMode(t) \/ Logout(t) \/ Reload(t) \/ Mount(t) PROVE KeptWithoutRace'
  BY <1>3, <1>7 DEF DemoMode, Logout, Reload, Mount
<1>8. ASSUME NEW k \in Tokens, AccessExpires(k) \/ SessionEnds(k) PROVE KeptWithoutRace'
  BY <1>3, <1>8 DEF AccessExpires, SessionEnds
<1>9. CASE UNCHANGED vars
  BY <1>3, <1>9 DEF vars
<1> QED
  BY <1>2, <1>4, <1>5, <1>6, <1>7, <1>8, <1>9 DEF Next, Requests

\* The dashboard throws a session away that is alive only if the failed refresh met a
\* fault, or overlapped with another refresh or login of the browser.
THEOREM LiveSessionKept == Spec => []KeptWithoutRace
<1>1. Init => SoloInv /\ KeptWithoutRace
  BY DEF Init, SoloInv, KeptWithoutRace
<1> QED
  BY <1>1, InitType, NextType, NextSolo, NextKept, PTL DEF Spec
=============================================================================
