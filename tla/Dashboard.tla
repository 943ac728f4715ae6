------------------------------ MODULE Dashboard ------------------------------
(***************************************************************************)
(* The session of the admin dashboard in one browser: the axios            *)
(* interceptors (src/admin-dashboard/src/api/client.ts), AuthContext, the  *)
(* login page and the queries of the pages, in any number of tabs.         *)
(*                                                                         *)
(* The tabs share localStorage, and each keeps the access token in React   *)
(* state as well.  A request that gets a 401 exchanges the stored refresh  *)
(* token and is sent again once.  Whenever the exchange does not succeed   *)
(* the tokens are removed and the tab is sent to /login, which reloads it  *)
(* and drops its requests.                                                 *)
(*                                                                         *)
(* The server is TokenService.  A pair of tokens is named by the request   *)
(* that obtained it: the name stands for the refresh token and for the     *)
(* access token that came with it.  A 401 is a fact that lasts (an access  *)
(* token that expired and a refresh token that died stay so), therefore    *)
(* the server's refusal and the browser's reaction to it are one step,     *)
(* taken when the reply is handled.                                        *)
(***************************************************************************)
EXTENDS Naturals, FiniteSets

CONSTANTS
    Tabs,
    Queries,    \* requests of the pages, which need an access token
    Logins,     \* submissions of the login form
    Demo,       \* the tokens of the demo mode, which no server issued
    None,       \* no token, no tab
    MaxFaults   \* bound: requests that meet a fault

Requests == Queries \cup Logins
Tokens   == Requests

ASSUME BoundsAssumption == MaxFaults \in Nat
ASSUME DistinctAssumption ==
    /\ Queries \cap Logins = {} /\ Demo # None
    /\ Demo \notin Requests /\ None \notin Requests

VARIABLES
    issued, live, exchanged,  \* refresh tokens: TokenService
    fresh,      \* access tokens that have not expired
    access,     \* localStorage access_token
    refresh,    \* localStorage refresh_token
    react,      \* react[t]: token in the AuthContext of tab t
    stage,      \* stage[t]
    pc,         \* where each request is
    tab,        \* tab[q]: the tab that sent it
    sent,       \* sent[q]: access token in its header
    presented,  \* presented[q]: refresh token it exchanges
    raced,      \* history: requests whose refresh overlapped with another exchange or a login
    faulted,    \* history: requests that met a fault
    dropped,    \* history: requests whose failed refresh removed a live token
    orphaned    \* history: requests whose new tokens never reached localStorage

Service == INSTANCE TokenService

server   == <<issued, live, exchanged>>
storage  == <<access, refresh>>
requests == <<pc, tab, sent, presented>>
history  == <<raced, faulted, dropped, orphaned>>
vars     == <<server, fresh, storage, react, stage, requests, history>>

\* "leaving": window.location was assigned and the page still runs.
\* "mounting": AuthProvider has read the token, its effect has not run yet.
TabStage == {"open", "leaving", "mounting"}

\* After a 401 a request is "refreshing"; with the reply of the exchange on its
\* way it is "renewed", then "resent".  A login is "welcomed" while its reply is
\* on its way.  "gone": its page was reloaded.
Stage    == {"idle", "sent", "refreshing", "renewed", "resent", "welcomed", "done", "failed", "gone"}
Settled  == {"done", "failed", "gone"}
UnderWay == Stage \ (Settled \cup {"idle"})

Stored == Tokens \cup {Demo, None}

TypeOK ==
    /\ issued \in SUBSET Tokens /\ live \in SUBSET issued /\ fresh \in SUBSET issued
    /\ exchanged \in SUBSET (Tokens \X Tokens)
    /\ access \in Stored /\ refresh \in Stored
    /\ react \in [Tabs -> Stored] /\ stage \in [Tabs -> TabStage]
    /\ pc \in [Requests -> Stage] /\ tab \in [Requests -> Tabs \cup {None}]
    /\ sent \in [Requests -> Stored] /\ presented \in [Requests -> Stored]
    /\ \A q \in Requests : IF pc[q] \in UnderWay THEN tab[q] \in Tabs /\ stage[tab[q]] # "mounting"
                                                 ELSE tab[q] = None
    /\ raced \in SUBSET Requests /\ faulted \in SUBSET Requests
    /\ dropped \in SUBSET Requests /\ orphaned \in SUBSET Requests

Init ==
    /\ Service!Init
    /\ fresh = {} /\ access = None /\ refresh = None
    /\ react = [t \in Tabs |-> None] /\ stage = [t \in Tabs |-> "open"]
    /\ pc = [q \in Requests |-> "idle"] /\ tab = [q \in Requests |-> None]
    /\ sent = [q \in Requests |-> None] /\ presented = [q \in Requests |-> None]
    /\ raced = {} /\ faulted = {} /\ dropped = {} /\ orphaned = {}

Goto(q, s) == pc' = [pc EXCEPT ![q] = s]

\* The requests S are over and forgotten.
Finish(S, s) ==
    /\ pc' = [q \in Requests |-> IF q \in S THEN s ELSE pc[q]]
    /\ tab' = [q \in Requests |-> IF q \in S THEN None ELSE tab[q]]
    /\ sent' = [q \in Requests |-> IF q \in S THEN None ELSE sent[q]]
    /\ presented' = [q \in Requests |-> IF q \in S THEN None ELSE presented[q]]

\* The network, the rate limit or the server fails the request.
Fault(q) ==
    /\ Cardinality(faulted) < MaxFaults
    /\ faulted' = faulted \cup {q}

Store(k) == access' = k /\ refresh' = k

\* Guard: the pages are shown to who has a token in React state.
Guarded(t) == stage[t] = "open" /\ react[t] # None

----------------------------------------------------------------------------
\* A request and its reply.

\* A guarded page sends a query with the stored access token.
SendQuery(q, t) ==
    /\ pc[q] = "idle" /\ Guarded(t)
    /\ Goto(q, "sent")
    /\ tab' = [tab EXCEPT ![q] = t]
    /\ sent' = [sent EXCEPT ![q] = access]
    /\ UNCHANGED <<server, fresh, storage, react, stage, presented, history>>

\* The login form is disabled while a login of the tab is pending.
SendLogin(l, t) ==
    /\ pc[l] = "idle" /\ stage[t] = "open"
    /\ \A m \in Logins : tab[m] # t
    /\ Goto(l, "sent")
    /\ tab' = [tab EXCEPT ![l] = t]
    /\ UNCHANGED <<server, fresh, storage, react, stage, sent, presented, history>>

\* The access token is accepted.
Served(q) ==
    /\ q \in Queries /\ pc[q] \in {"sent", "resent"}
    /\ sent[q] \in fresh
    /\ Finish({q}, "done")
    /\ UNCHANGED <<server, fresh, storage, react, stage, history>>

\* An expired, foreign or missing access token, or a wrong password.
Unauthorized(q) == q \in Logins \/ sent[q] \notin fresh

\* A second 401, after _retry was set: the promise is rejected.
Rejected(q) ==
    /\ pc[q] = "resent" /\ Unauthorized(q)
    /\ Finish({q}, "failed")
    /\ UNCHANGED <<server, fresh, storage, react, stage, history>>

\* Any other error: the promise is rejected and the tokens stay.  The retry of the
\* query client is another query.
Fails(q) ==
    /\ pc[q] \in {"sent", "resent", "welcomed"}
    /\ Fault(q)
    /\ Finish({q}, "failed")
    /\ UNCHANGED <<server, fresh, storage, react, stage, raced, dropped, orphaned>>

----------------------------------------------------------------------------
\* The response interceptor: refresh, then retry once.

\* Requests that are about to replace the stored tokens.
Replacing == {r \in Requests : pc[r] \in {"refreshing", "renewed", "welcomed"}}

\* Mutant: the refresh token is the one that was stored when the request was sent.
BeginRefresh_Stale(q) ==
    /\ pc[q] = "sent" /\ Unauthorized(q)
    /\ refresh # None
    /\ presented' = [presented EXCEPT ![q] = IF sent[q] = None THEN refresh ELSE sent[q]]
    /\ raced' = IF Replacing = {} THEN raced ELSE raced \cup Replacing \cup {q}
    /\ Goto(q, "refreshing")
    /\ UNCHANGED <<server, fresh, storage, react, stage, tab, sent, faulted, dropped, orphaned>>

\* The first 401: POST /auth/refresh with the token stored now.
BeginRefresh(q) ==
    /\ pc[q] = "sent" /\ Unauthorized(q)
    /\ refresh # None
    /\ presented' = [presented EXCEPT ![q] = refresh]
    /\ raced' = IF Replacing = {} THEN raced ELSE raced \cup Replacing \cup {q}
    /\ Goto(q, "refreshing")
    /\ UNCHANGED <<server, fresh, storage, react, stage, tab, sent, faulted, dropped, orphaned>>

\* The server exchanges the token; its reply is on its way.
Renewed(q) ==
    /\ pc[q] = "refreshing"
    /\ Service!Exchange(presented[q], q)
    /\ fresh' = fresh \cup {q}
    /\ Goto(q, "renewed")
    /\ UNCHANGED <<storage, react, stage, tab, sent, presented, history>>

\* Mutant: the new refresh token is not stored.
StoreRenewed_AccessOnly(q) ==
    /\ pc[q] = "renewed"
    /\ access' = q /\ UNCHANGED refresh
    /\ sent' = [sent EXCEPT ![q] = q]
    /\ Goto(q, "resent")
    /\ UNCHANGED <<server, fresh, react, stage, tab, presented, history>>

\* Both tokens are stored, whatever is stored by now, and the request is sent
\* again with the new access token.  The React state is not updated.
StoreRenewed(q) ==
    /\ pc[q] = "renewed"
    /\ Store(q)
    /\ sent' = [sent EXCEPT ![q] = q]
    /\ Goto(q, "resent")
    /\ UNCHANGED <<server, fresh, react, stage, tab, presented, history>>

\* The catch block: both tokens are removed, whatever is stored by now, and the
\* tab is sent to /login.
Clear(q) ==
    /\ Store(None)
    /\ dropped' = IF refresh \in live THEN dropped \cup {q} ELSE dropped
    /\ stage' = [stage EXCEPT ![tab[q]] = "leaving"]
    /\ Finish({q}, "failed")
    /\ UNCHANGED <<server, fresh, react, raced>>

\* There is no refresh token, or the server refuses it.
RefreshRefused(q) ==
    /\ \/ pc[q] = "sent" /\ Unauthorized(q) /\ refresh = None
       \/ pc[q] = "refreshing" /\ presented[q] \notin live
    /\ Clear(q)
    /\ UNCHANGED <<faulted, orphaned>>

\* The exchange fails, or its reply is lost.
RefreshFails(q) ==
    /\ pc[q] \in {"refreshing", "renewed"}
    /\ Fault(q)
    /\ Clear(q)
    /\ orphaned' = IF pc[q] = "renewed" THEN orphaned \cup {q} ELSE orphaned
----------------------------------------------------------------------------
\* The login page, logout and the page itself.

\* The server accepts the password; its reply is on its way.
Welcome(l) ==
    /\ l \in Logins /\ pc[l] = "sent"
    /\ Service!Issue(l)
    /\ fresh' = fresh \cup {l}
    /\ raced' = raced \cup Replacing
    /\ Goto(l, "welcomed")
    /\ UNCHANGED <<storage, react, stage, tab, sent, presented, faulted, dropped, orphaned>>

\* onSuccess: AuthContext.login.  The effect that follows writes the access token that
\* has just been stored, and is left out, here and in Logout.
StoreLogin(l) ==
    /\ pc[l] = "welcomed"
    /\ Store(l)
    /\ react' = [react EXCEPT ![tab[l]] = l]
    /\ Finish({l}, "done")
    /\ UNCHANGED <<server, fresh, stage, history>>

\* The demo mode stores made-up tokens.
DemoMode(t) ==
    /\ stage[t] = "open"
    /\ Store(Demo)
    /\ react' = [react EXCEPT ![t] = Demo]
    /\ UNCHANGED <<server, fresh, stage, requests, history>>

\* The tokens are removed; POST /auth/logout is not called.
Logout(t) ==
    /\ Guarded(t)
    /\ Store(None)
    /\ react' = [react EXCEPT ![t] = None]
    /\ UNCHANGED <<server, fresh, stage, requests, history>>

\* The page is loaded again, by the interceptor or the user: its requests are
\* dropped and AuthProvider reads the stored access token.
Reload(t) ==
    /\ stage[t] \in {"open", "leaving"}
    /\ Finish({q \in Requests : tab[q] = t}, "gone")
    /\ orphaned' = orphaned \cup {q \in Requests : tab[q] = t /\ pc[q] = "renewed"}
    /\ react' = [react EXCEPT ![t] = access]
    /\ stage' = [stage EXCEPT ![t] = "mounting"]
    /\ UNCHANGED <<server, fresh, storage, raced, faulted, dropped>>

\* AuthProvider's effect writes the token it read, or removes the stored one.
Mount(t) ==
    /\ stage[t] = "mounting"
    /\ access' = react[t]
    /\ stage' = [stage EXCEPT ![t] = "open"]
    /\ UNCHANGED <<server, fresh, refresh, react, requests, history>>

----------------------------------------------------------------------------
\* Time passes at the server.

AccessExpires(k) ==
    /\ k \in fresh
    /\ fresh' = fresh \ {k}
    /\ UNCHANGED <<server, storage, react, stage, requests, history>>

\* The session expires, is evicted by a login elsewhere, or is logged out.
SessionEnds(k) ==
    /\ k \in live
    /\ live' = live \ {k}
    /\ UNCHANGED <<issued, exchanged, fresh, storage, react, stage, requests, history>>

----------------------------------------------------------------------------
\* A request goes on.
Goes(q) ==
    \/ Served(q) \/ Rejected(q) \/ BeginRefresh(q) \/ Renewed(q) \/ StoreRenewed(q)
    \/ RefreshRefused(q) \/ Welcome(q) \/ StoreLogin(q)

Next ==
    \/ \E q \in Requests : Goes(q) \/ Fails(q) \/ RefreshFails(q)
    \/ \E t \in Tabs : \/ \E q \in Queries : SendQuery(q, t)
                      \/ \E l \in Logins : SendLogin(l, t)
                      \/ DemoMode(t) \/ Logout(t) \/ Reload(t) \/ Mount(t)
    \/ \E k \in Tokens : AccessExpires(k) \/ SessionEnds(k)

Spec == Init /\ [][Next]_vars

----------------------------------------------------------------------------
\* Properties.

\* The stored refresh token was exchanged only if the reply with its successor
\* is on its way, or was lost, or its page was reloaded first: no order of
\* replies, logins and logouts of the tabs puts a used token back.
StoredIsCurrent ==
    \A q \in Requests : <<refresh, q>> \in exchanged => pc[q] = "renewed" \/ q \in orphaned

\* "On 401: attempt token refresh, then retry once": a failed refresh throws a
\* session away that is alive only if the call met a fault, or overlapped with
\* another refresh or login of the browser.
KeptWithoutRace == dropped \subseteq raced \cup faulted
=============================================================================
