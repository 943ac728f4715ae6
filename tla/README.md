# A formal model of the Playnet backend

Playnet is a game backend: Fastify HTTP handlers and a Socket.IO gateway, run by several
instances behind nginx, over one PostgreSQL database and one Redis. This directory holds
TLA+ models of its core, the TLC configurations that check them, and TLAPS proofs of the
properties that matter most. `tlc -config X.cfg M`, `tlasany M.tla` and `tlapm M.tla`
check, parse and prove a module. Paths below are relative to the repository; the server's
own code is in `src/`.

## 1. Inventory

| Component | State | Operations | Hard behaviour | What makes it correct |
|---|---|---|---|---|
| matchmaking (`src/modules/matchmaking`) | Redis sorted set `matchmaking:queue`, keys `matchmaking:player:*` with a TTL, tables `matches`, `match_players` | join (enqueue script, pop script, transaction, events), leave, status | three stores steps apart; instances crash between them; replies are lost; the key expires and the set does not | no player twice, no short match, nobody who left is matched, nobody is lost, a waiting quorum is served |
| authentication sessions (`src/modules/auth`) | `refresh_tokens`, `users` | register, login (evict and insert), refresh (rotate), logout | READ COMMITTED snapshots, row locks, races between login, refresh, logout and cleanup | a token is used once, a dead token stays dead, the session limit |
| token cleanup (`src/shared/plugins/cleanup.plugin.ts`) | the advisory lock, rows of `refresh_tokens` | periodic batch delete | several instances, refreshes that move `expires_at` under the DELETE | removes no live session, unless it is renewed while the cleanup runs; never blocks logins for ever |
| friends (`src/modules/friends`) | `friend_requests`, `friendships` | send, accept, reject, remove, list | check-then-act, crossing requests, opposite lock orders | friendship is symmetric and consented; a request is decided once |
| notifications (`src/modules/notifications`) | `notifications` | create, list, mark read | created without being awaited; pages of a feed that grows | who pages through the feed misses nothing they were told of |
| presence (`src/modules/presence`) | Redis key per user with a TTL, set of online users | setOnline, setOffline, getPresence, getOnlineUsers (which also cleans the set) | pipelines interleave, stale cleanup, TTL without a heartbeat | a connected user is online, a user without sockets is not |
| realtime gateway (`src/realtime`) | sockets, rooms | connect, disconnecting, emit to a user | sockets of one user on several instances | as presence |
| leaderboards (`src/modules/leaderboards`) | `leaderboards`, `leaderboard_scores` | create, submit (best score upsert), rank, list | the rank, the page and its total are separate statements | the best score survives concurrent submits; answers are never worse than the data |
| users (`src/modules/users`) | `users` | create a user, read a profile | check-then-insert beside registration | a name and an email have one owner; the loser of a race gets the 409 |
| graceful shutdown (`src/shared/shutdown.ts`) | a flag and a timer, the stages of `app.close()` | signals, close hooks, forced exit | signals at any moment; the timer races the hooks | requests are drained before pools close; a stopped process exits |
| migrations (`src/migrate.ts`) | `schema_migrations` | apply the pending files | runners of several instances, a crash between files, a lost COMMIT | a file is applied once, completely, and nothing serves without all of them |
| admin dashboard session (`admin-dashboard/src/api`, `features/auth`) | tokens in local storage, shared by tabs; the token in React state | 401 interceptor: refresh and retry; login, demo mode, logout | several requests and tabs get a 401 together; pages reload while replies are on their way | a used token is never stored; a live session is not dropped |
| access tokens, rate limit, connections, error handler, application and health, dashboard pages | none of their own that changes | – | – | – |

How they interact. A handler of matchmaking or friends writes its tables, then emits to the
user's room through the gateway and starts a notification INSERT it does not wait for. Login,
refresh and the cleanup share `refresh_tokens`, and their interaction is row locks. The gateway
drives presence. The dashboard is a client of auth. Everything else is isolated by PostgreSQL
constraints. A process runs handlers one event-loop turn at a time: code between two `await`s is
a step, and everything else interleaves, within an instance and across instances.

## 2. Plan

Order, most important first (✓ = in this directory):

1. ✓ `Matchmaking` with `MatchService`, the abstract service it implements, and its proofs.
2. ✓ `AuthSessions`: sessions and the cleanup over one table, composed in one module because
   they meet only in its row locks; its proofs.
3. ✓ `Friends`, statement by statement; proofs of consent, of accepted requests having their
   friendship, that the sends are accounted for, and of symmetry without the race.
4. ✓ `Presence`: the Redis store and the gateway that drives it, by several instances; proofs that a
   handler that finds its socket to be the last is right, that whoever left is offline, and that
   whoever is connected is online without the race.
5. ✓ `TokenService`: what clients may rely on about refresh tokens; `AuthSessions` implements it (proved)
   and `Dashboard` uses it.
6. ✓ `Lifecycle`: entrypoint, migrations, start and shutdown of several instances; proofs of both safety properties.
7. ✓ `MCAnswered`: does everything that began come to an end? Processes and transactions under fairness.
8. ✓ `Dashboard`, `Accounts`, `Leaderboards`, `Notifications`, and `MCRecords`, which checks them side by side;
   their proofs in `DashboardProofs`, `RecordsProofs` and `FeedProofs`.

Every invariant and safety refinement of the passing runs is stated by a theorem. What is left is liveness, which
stays with TLC, and, should the code get them, the locks and orders that the violated runs miss.

## 3. Modules

### Matchmaking, MatchService, MatchmakingProofs

A *ticket* is a join request: the entry that the enqueue script adds carries its player and
its `queuedAt`. `queue` is the sorted set as a set of tickets, `keys` the players whose metadata
key exists, `held[r]` what the pop script returned to request r, `matches` the committed
transactions, `told`/`noting`/`noted` the events and notifications.

| Action | Code |
|---|---|
| `Receive` | the controller up to the enqueue call; `new Date()` is read here |
| `EnqueueNX`, `Enqueue`, `AlreadyQueued` | `ENQUEUE_NX_SCRIPT` and its two results |
| `PopMatch`, `Pop`, `PopNone` | `POP_MATCH_SCRIPT` and its two results |
| `SaveMatch` | `saveMatch`, a transaction whose rows appear together at COMMIT |
| `Announce` | the controller's loop: every `match:created` and every notification started |
| `NoteStored`, `NoteFails` | the notification INSERT that nobody awaits |
| `Leave` | MULTI of ZREM and DEL |
| `Expire` | the key's TTL |
| `EnqueueFails`, `PopFails`, `SaveFails` | the call throws, with or without its effect |
| `PopResent` | ioredis reconnects and sends a pop again that had run: its members are `dropped` |
| `Crash` | an instance dies with its requests and unfinished notifications |

A Lua script and a MULTI are one step because Redis runs them so. The history variables
`dropped`, `accepted`, `left`, `renewed` say where each ticket went, and `entered` when it was added; only properties
read them.

`MatchService` is what clients may rely on: a join waits until it is seated in a match formed in a
single step with other players, leaves, or is replaced by a later join of its player. The
mapping (`Service` in `Matchmaking`) takes as rosters the groups stored, and a
join that was popped still waits until its match is committed. With fairness and no faults the detailed specification also
implements the progress of the abstract one.

### AuthSessions, AuthSessionsProofs

A login is also the session it creates, so a row is named by its login; a token is named by the
login or refresh that issued it (raw token and hash are one name: SHA-256 does not collide here). Multi-statement transactions are modelled statement by statement:
a DELETE takes its snapshot (`FindVictims`), then reaches its rows one at a time (`DeleteRow`),
waiting for rows another transaction has deleted and holds; the locks go with COMMIT or ROLLBACK
(`Release`). A transaction in a cycle of waits may be aborted (`Deadlocked`). `began[l]` is NOW() of login
l's transaction, its start.

The UPDATE of a refresh is two steps. `BeginUpdate` fixes NOW() (`started[f]`), which its WHERE and its
assignments use, and finds the row; `Rotate` takes effect later, once the row is not locked and still
matches, perhaps after the session has expired by the clock (`rescued` records these). A DELETE that reaches a row which
was changed since its snapshot asks its own WHERE again, but no sub-select (`Rechecked`): the first DELETE of a login
asks `expires_at` again, the cleanup's `id IN (SELECT ...)` only whether the id is still there.
Hence a refresh that began before a session expired and commits after the cleanup chose the session renews a row
that is deleted all the same: Find, Tick, BeginUpdate, Tick, BeginCleanup, Rotate, DeleteRow in the
`sessions` run. `tests/token-cleanup.test.ts` says that live tokens are left untouched; `LiveSessionsKept` says it
of every session but these, and that they are the only exception.

`TokenService` is the service as clients see it: a token is issued to a login, a live one can be exchanged
for one other, and a session ends at any moment, by expiry, eviction or logout. `Service` in
`AuthSessions` maps to it: issued tokens are those whose statement committed, exchanges the refreshes that
committed, live tokens those in a row that has not expired or that an UPDATE under way will find (`Renewing`): in
real time the token still ends up exchanged. The new token of an `Exchange` may be dead at once, for an UPDATE that
waited as long as a token lives stores an `expires_at` that has passed.

### Friends, FriendsProofs

Same conventions: snapshots, row locks, ON CONFLICT waiting for the transaction that is inserting
or deleting its key. Accept, reject and remove follow the code: a lookup, then an UPDATE by id
whatever the status has become; two tuples inserted in the order of the request; two DELETEs with a
snapshot each. A friendship row remembers the accept that inserted it, so a DELETE's snapshot does
not match a row that was inserted later. `unfriended` holds the couples that a removal committed for, until an
accept of theirs commits that inserts both keys after it; `undercut` are the accepts that were inserting
when the removal committed, which renew nothing.

### Presence, PresenceProofs

`pipe[i]` is the connection `app.redis` of instance i: commands that Redis has not run yet, in order.
A pipeline is several commands of one connection; Redis runs those of other connections in between,
so the two writes of a `setOnline` are separate steps (the comment at `redis-store.ts:34` calls the
pipeline atomic; it is not a MULTI). The Socket.IO adapter publishes over the same connection.

| Action | Code |
|---|---|
| `Connect` | the connection handler: the socket joins its room, `setOnline` is sent |
| `Disconnect` | the `disconnecting` handler up to its `await`: the local sockets of the room, and the request to the other instances; the socket then leaves the room in the same turn |
| `RunAsk`, `Answer`, `RunReply` | the adapter: the request is published, an instance answers with the sockets it has in the room then, the reply is collected |
| `Decide` | all replies are in: the last socket sends `setOffline` |
| `Timeout` | `requestsTimeout`, at any time or because the instance asked has died |
| `RunWrite`, `WriteFails` | Redis runs the next write, or it fails alone (`exec()` resolves and nobody reads its results) |
| `Expire` | the TTL of `presence:user:{userId}` |
| `Put` | PUT /presence: `setOnline` or `setOffline` |
| `ListMembers`, `ListPrune` | `getOnlineUsers`: SMEMBERS; then MGET and the SREM of the members without a key |
| `Crash` | an instance dies with its sockets and handlers, or shuts down: its sockets stay until the forced exit (section 6), or leave before, so a shutdown is some disconnects followed by the loss of the connection. A prefix of its commands reached Redis. It starts again at once |

`numSub` counts the instances that are up, and a dead instance has no sockets, so asking an instance
that is restarted at once is the same. A read runs when its reply is used: sent
earlier and delayed it would return the same. The `getPresence` after a PUT reads only.
`raced` and `manual` are history: whether a user connected while a removal was on its way, and whether they
set their presence by hand; the properties are about the gateway alone and exclude the latter.

### Lifecycle, LifecycleProofs

One `stage` per instance goes from `docker-entrypoint.sh` through the runner of `src/migrate.ts`, the start of
`src/app.ts`, serving, and the steps of `app.close()` to the exit; `wanted` is docker's restart policy.
The database's side is `schema` (files in effect), `recorded` (rows of `schema_migrations`) and `tx` (the
open file of an instance).

| Action | Code |
|---|---|
| `Start`, `Create`, `CreateLoses` | the entrypoint and BOOTSTRAP: CREATE TABLE IF NOT EXISTS beside another one fails on the catalog's index |
| `ReadApplied`, `RunSql`, `FileTaken`, `Note`, `CommitFile`, `CommitLost` | the runner; two transactions of one file wait for each other, and the later fails |
| `MigrationFails`, `Migrated` | `process.exit(1)`, with which `set -e` ends the entrypoint; or on to the application |
| `ConnectPool`, `ConnectRedis`, `StartFails`, `Register` | the plugins in their order, listen, `registerShutdown` |
| `Stop`, `StopEarly`, `StopAgain` | a signal that the handler gets, one before the handlers exist, a second one of the same kind (`process.once` has removed the handler; process 1 ignores it) |
| `Drained`, `CloseRedis`, `ClosePool`, `ExitClean`, `CloseFails` | `app.close()`: the HTTP server with its last connection, then the hooks, last registered first |
| `ForceExit` | the timer of 10 s |
| `Tick`, `TickDone` | a cleanup run, which holds a client of the pool that `pool.end()` waits for |

### Dashboard, DashboardProofs

The interceptors of `client.ts`, `AuthContext`, the login page and the pages' queries, in several tabs with one
localStorage. A request is a state machine (`Stage`); the server is `TokenService`, and a pair of tokens is
named by the request that obtained it. `Replacing` are the requests about to replace the stored tokens; `raced`
records the ones that overlapped. `Guarded` is the router's guard. Most pages show mock data; the queries here
are those that go through `apiClient`.

### Accounts, Leaderboards, Notifications, RecordsProofs, FeedProofs

Each request is a state machine whose steps are the statements of its handler, each with its own snapshot.

- `Accounts`: `CheckFree` and `Insert` / `Violation` of both creations; `FindByEmail` and `Compare` of a login. An
  account is named by the request that creates it, and so is its password. An account of POST /users has no password hash: a login
  compares with `DUMMY_HASH` then, as it does for an unknown email, but is not refused by `!user`, so the password of that
  hash (`Guard`) opens it. `PasswordOf` and `Matches` follow this, and `LoginsOwned` says which password opens which account.
- `Leaderboards`: `Create`, `Find`, `Upsert` with `GREATEST`, `ReadRank`, and a listing whose `ReadPage` and `Count` run in
  either order. Listings read the first page, of any length `Limit`.
- `Notifications`: `Begin` (the INSERT takes its `created_at`), `Store` (it commits, perhaps after later ones), `Tell` (the
  event), `Mark`, and readers that `Fetch` page after page until one is short. The feed is the set of rows that the
  query selects; `Place` is the position that ORDER BY gives a row, and a page is the rows whose places are in it.

### MC modules

`MCMatchmaking`, `MCAuthSessions`, `MCFriends` and `MCPresence` add the symmetry sets only; bounds are in the cfgs.
`MCAnswered` and `MCRecords` check parts that share no state in one run: a behaviour is one of one part,
chosen initially (`active`), and the others stay put. A property of a part is a property of the behaviours in
which it moves, and the runs need no product of the parts. No component orders or compares identities, so
permuting them is sound. Runs that check liveness use no symmetry.

## 4. Runs

| Run | Shows |
|---|---|
| `matchmaking` | every ticket is in exactly one place (`Custody`), matches are full and disjoint (`ProperMatches`), a key implies a queue entry (`KeysQueued`), duplicate joins need an expiry (`NoDuplicateJoin`), a waiting quorum always has a request that will pop it, or a fault to blame (`QuorumAccounted`), players are told only of committed matches, and a match nobody was told of belongs to a request that will tell them or failed (`ToldOfRealMatches`), no join that was received after another had been added is popped before it (`NoLateOvertaking`), and the component implements `MatchService` – under crashes, lost replies and expiry |
| `matchmaking_live` | without faults and expiry: nobody is lost, a quorum is served, status is truthful, popped players are eventually seated and told, and the progress of `MatchService` holds |
| `matchmaking_loss` | *violated*: with one fault a popped player can be in neither store |
| `sessions` | tokens are single-use, dead tokens stay dead, the first DELETE of a login deletes no live session and the cleanup only those that an older UPDATE renewed after the choice (`LiveSessionsKept`), a login that no other overtook respects the limit, and the component implements `TokenService` |
| `sessions_limit` | *violated*: two overlapping logins leave MaxSessions + 1 sessions |
| `friends` | friendship is symmetric for couples without an overlap of accept and removal, accepted requests have both rows unless a removal took one since, friendships are consented, duplicate sends are accounted for |
| `friends_asymmetric` | *violated*: an accept that commits between the two DELETEs leaves one row |
| `presence` | a handler that counts one socket is right about every socket connected when it began (`LastMeansLast`), a user without sockets ends up offline in both keys (`GoneAreOffline`), a connected user online in both unless they connected while being removed (`OnlineWithoutRace`) |
| `presence_late` | *violated*: a user who connects between the count and the `setOffline` is connected and offline |
| `answered` | a file is in effect exactly if recorded and nothing serves without all (`ServesMigrated`), the hooks close nothing that a client needs and a close cuts nobody off (`CloseSparesClients`), a wanted process ends up serving and a stopped one down (`ProcessesSettle`), and every login, accept and removal whose transaction began is answered although they, and the cleanup, lock rows in different orders (`TransactionsAnswered`) |
| `shutdown_sockets` | *violated*: a connected WebSocket keeps the shutdown waiting until the forced exit |
| `records` | the dashboard never stores a used token (`StoredTokenIsCurrent`) and drops a live session only in a race or a fault (`SessionKept`); a name and an email have one owner, 201 and 409 are true, and an account is opened only by its password, or by that of DUMMY_HASH if it has none (`AccountsKept`); the best score is kept, and ranks, pages and totals read by separate statements hold (`ScoresKept`); paging the feed hides nothing (`FeedComplete`) |

### Bounds

Every bound is a CONSTANT named in its module: `MaxClock`, `MaxExpiries`, `MaxFaults`, and the finite
sets of requests. A request happens once; a client that repeats is another request.

- `matchmaking`: 3 players, 3 joins, match size 2, 2 instances. Three joins are the fewest with a
  leftover, a race for the last place and a duplicate join at the same time; a clock of 2 values gives
  both equal and inverted scores; one fault and one expiry can fall at any step.
  A resent pop that finds a second group needs four joins: the theorems cover it.
- `matchmaking_live`: 4 joins of 2 players, so that two matches form one after the other.
- `sessions`: one user (users meet only in the cleanup, which does not look at the user), 2 logins and
  a limit of 1: two sessions that compete. 2 refreshes race for one token, or follow one another. 2 cleaners
  contend for the advisory lock. A token lives two ticks and the clock has four values: a refresh moves `expires_at`
  by a tick, a statement can begin before an expiry and take effect after it, and the replacement can expire too.
- `sessions_limit`: 3 logins and a limit of 2: two that evict on one snapshot beside a session that is there.
- `friends`: 2 users, both directions: two sends, two accepts, a reject and two removals cover crossing
  requests, double decisions, opposite removals and all pairs of overlapping transactions. Couples
  share no row, so more users add no interaction.

- `presence`: one user (users share only the set, where each has their own member), three sockets on two
  instances: two that leave together and one that stays or comes back. One call, a PUT or a GET, and one fault
  or expiry at any step. "At rest" in the properties means that nothing about the user is on its way: a statement
  about what the state settles to, checked as an invariant.

- `answered`: two instances and two files, so that runners race within and between files, with one fault at any step;
  a request and a socket. For the transactions: both directions of a couple and a removal, or three logins and a
  cleanup, with a limit of 1 and a batch of 2 so that each deletes rows the others want; no faults, which would end a
  transaction too. They are the smallest instances with a cycle of waits.
- `shutdown_sockets`: no faults: the violation needs none.
- `records`: two tabs, two queries and a login: two refreshes, or a refresh and a login, in one tab or across
  tabs, with one fault. Two registrations and an admin creation over two names and two emails, so that all
  conflicts occur; a login presents any email with the password of any registration, of DUMMY_HASH, or of nobody. Three submits of two players with ties. Three notifications of two users on pages of one,
  so that a reader needs several pages while the feed moves.

`CHECK_DEADLOCK FALSE` stands only where requests and sockets are finite in number and the model stops when all are
done: `Friends`, `Presence`, `Lifecycle` without faults, and the two combined runs. Elsewhere leaves and logouts stay
enabled.

### Fairness

- `Matchmaking`: weak fairness of each step of a request already received, and of notification
  INSERTs already started: Redis and PostgreSQL answer and the event loop resumes the handler.
  Clients owe nothing, so joining and leaving are not fair; faults are not either.
- `AuthSessions`, `Friends`: strong fairness of each transaction that has begun. A row lock is
  released and taken again by others, which disables and enables the waiting statement; PostgreSQL
  queues the waiters of a row, so none is passed over for ever. The deadlock detector
  (`deadlock_timeout`) eventually aborts a transaction of a cycle, which the fairness conditions state
  as the enabled abort of a deadlocked transaction.
- `Lifecycle`: weak fairness of an instance's own progress, its timer included, and strong fairness of the next
  file of its runner, which waits for a lock that others take and release. Clients need not leave and a cleanup need
  not end; nobody has to stop an instance.

Temporal properties are written `[]<>~P` where a request, once out of the condition P, never enters it again.

## 5. Proofs

The theorems hold for every number of players, requests, users and instances, every match size and limit,
and every bound. The assumptions are those the modules name: the sets of requests are finite where something
is counted, sizes are positive, and requests of different routes are different (the combined run adds those of
its parts in `MCRecords`, with scores that are natural numbers).

`MatchmakingProofs`. Type correctness is by cases on Next. The rest does not look at
actions one by one: lemma `Effects` shows that each step has one of seven effects on the data (enqueue,
pop, a pop whose result is lost, commit, leave, expiry, or none), and each invariant is proved over these.
  - `CustodyHolds`: `Custody` is not inductive alone: a request must hold nothing before its pop and be
    accepted only after its enqueue (`StageInv`).
  - `ProperMatchesHold`: `GroupInv` (what a request holds has the size and different players) and `RecordInv`
    (a stored match is what its request holds), with `KeysQueued`, which makes players in the queue different.
  - `QuorumAccountedHolds`: a counting invariant: the queue is shorter than a match unless requests
    that will pop, or faults, make up for it; with lemmas on cardinalities.
  - `NoDuplicateJoinHolds`: renewed tickets plus queued players without a key are at most the expirations.
  - `NoLateOvertakingHolds`: `OrderInv` says that a score is no later than the moment its join was added, nor than the clock.
  - `ToldOfRealMatchesHolds`, `NoLossWithoutFaults`, `QuorumServedWithoutFaults`,
    `StatusTruthfulWithoutExpiry`: the last three under the assumption that a bound is zero, as in the run; faults
    may happen in the last, which excludes only expirations.
  - `Implements`: every step of `Matchmaking` is a step or a stutter of `MatchService`.

`AuthSessionsProofs`. `TokenInv`: the token of a row is the last of its chain, each token was
presented at most once, revoked tokens are in no row; it gives `SingleUse` and `DeadTokens`. `LiveInv`: what a
cleanup has found or deleted is expired or was renewed since the cleanup began, because only an UPDATE that began before the expiry
renews an expired row; of what the first DELETE of a login holds each row was asked its expiry
again, and a locked row cannot be renewed.
`LimitInv`: a login in its second DELETE that nobody overtook spares at most MaxSessions - 1 rows of its user;
lemma `SparedShrinks` says that no other step adds to them. `ImplementsTokenService`: a step on `refresh_tokens` is one of `TokenService`
or a stutter; `TokenInv` makes the token that a refresh replaces the live one of its row, and since `Renewing` begins only
while the session is alive, the clock and `BeginUpdate` revive none (`NothingRevived`).

`FriendsProofs`. `Steady`: an answered request stays answered and no request changes its couple.
  - `FriendsConsentedHolds`: `ConsentInv` follows a friendship back through what an accept inserts, the decision
    under way and the request row to a send that succeeded.
  - `AcceptedAreFriendsHolds`: `PairInv` says of an accept, statement by statement, that a key it has passed
    is committed, its own, or removed since (`Covered`, by `undercut`). A couple that has both keys or is recorded as unfriended
    stays so (`Settled`, `SettledStays`): a key leaves the table only with its couple recorded (`RemovedKey`), and an accept
    clears the record only if its commit leaves both keys (`CommitBefriends`). The proof uses no lock: the property does not depend on them.
  - `SendsAccountedHolds`: a count over the sends and rejections that succeeded; a pending or accepted row
    is the one success not answered by a rejection. Only `Create` and `Reject` change it (`QuietCounts`).
  - `SymmetricWithoutRaceHolds`: `CoupleInv` follows the two statements of an accept and of a removal. An accept that has
    inserted a key still has it, in the table or its own uncommitted row (`FirstHeld`, `SecondHeld`), and a removal that has reached a key
    has it among its victims (`FirstReached`, `SecondReached`), unless the couple clashed. Keys are unique
    (`KeysUnique`, `AddsNew`), which the ON CONFLICT waits give.

`PresenceProofs`. `LastMeansLastHolds` rests on `CountInv`: a socket that was connected when a handler began to
count and still is has been found, is in a reply on its way, or is on an instance that has not replied
(`MailInv`, `ReplyInv`, `FoundInv`). The property alone is not inductive: it says nothing before the last
reply. Connections, writes, timeouts and crashes do not disturb the count (`QuietSteps`). The other two need the
order of the commands in the pipes: lemmas say at which places a step appends (`Kept`, `Fresh`) and how places move when Redis
runs the head of a pipe.
  - `GoneAreOfflineHolds`: `GoneInv` says of a user without sockets that either whatever puts them online is followed in
    its pipe by what removes it (`Off`), or some socket will find itself the last, because the writes of the earlier
    connections are ahead of the replies it waits for (`Removing`). It rests on `Delivered`: without a fault, what
    a handler waits for is asked for, or in a reply on its way, so that no request times out (`NoTimeout`).
  - `OnlineWithoutRaceHolds`: `OnlineInv` says of a connected user whom no removal raced that no removal is on its way, that
    the key is written before the set, so that no list prunes them, and that every handler that counts has all their
    sockets to count, so that by `LastIsAlone` it is not the last. A first connection starts from `GoneInv`.

`LifecycleProofs`. `TypeCorrect` includes that a runner has a file open exactly in the stages of a transaction.
`MigratedBeforeServing`: `MigrateInv` says that what is recorded is closed downwards, that a runner has read only what is
recorded, and that the files before the one it runs are. `ClientsSpared`: `ClientInv` says that a process
with clients is serving or draining and has all its connections; it is what the order of the hooks is for.

`DashboardProofs`. `CurrentTokenStored`: `SecretInv` says that a token whose reply is on its way is known nowhere else in the
browser, and that nothing has replaced it. `LiveSessionKept`: `SoloInv` says that a refresh which nothing overlapped
is the only request about to replace the tokens, and presented the stored one.

`RecordsProofs` and `FeedProofs` prove the properties of the combined run, each in the behaviours in which its part moves.
  - `StoredTokenCurrent`, `SessionsKept`: the two theorems above, carried over.
  - `AccountsSafe`: what a login found is an account with its email (`FoundInv`), and it is welcome only with the password that
    opens that account (`WelcomeInv`); exclusiveness is inductive with the stages of `TypeOK`.
  - `ScoresSafe`: a stored score is the greatest of the submits that ran (`BestRan`), and a listing under way has counted or
    paged what it knew when it began (`BegunInv`, `CountedInv`, `PagedInv`), with lemmas on ranks and cardinalities.
  - `FeedSafe`: `ReadingInv` says that each notification the reader knew of has been seen or stands behind
    the pages fetched (`Ahead`). Nothing but `Mark` takes a row out of a feed, so places only grow (`FeedGrows`); a short page is the last
    because places are taken without gaps (`PlacesTaken`, `PageFull`, `ShortPage`).
  - `RecordsTypeCorrect`: the types of the four parts.

Only model-checked: liveness (`PoppedAreMatched`, `ProcessesSettle`, `TransactionsAnswered`, and the progress part of the
refinement, `ServiceFairSpec`), which is out of the prover's reach. Every other property of a passing run is a theorem.

## 6. Findings

1. `matchmaking_loss`: `service.ts` says that partial results are impossible and
   `tests/matchmaking-concurrency.test.ts` that no player is lost. The pop removes players from Redis
   before the transaction stores the match; a failure between them loses the players.
2. `sessions_limit`: the comment of `storeRefreshTokenEnforceLimit` says that the transaction keeps two
   concurrent logins from both skipping the eviction. At READ COMMITTED, without a lock on the user,
   both may.
3. `friends_asymmetric`: migration 004 says that both rows of a friendship are stored. A removal that
   overlaps an accept may delete one of them only.
4. `presence_late`: the `disconnecting` handler says "this is the last socket for this user" and marks the user
   offline, with the count taken across the cluster. A socket that connects after the count is not in it, and its
   `setOnline` may reach Redis first; the user stays offline while connected.
5. `shutdown_sockets`: `docs/graceful-shutdown.md` says that the shutdown disconnects all WebSocket clients by `io.close()`,
   and `shutdown.ts` that the gateway's hook runs before those of Redis and PostgreSQL. `app.close()` first closes the HTTP
   server, which waits for upgraded connections too; the gateway's hook comes after, and returns because the
   server no longer listens. With a client connected every shutdown is a forced exit with code 1, its pools unclosed.

`README.md` of the repository calls match creation one Lua script: the pop is; the match is stored by a
PostgreSQL transaction after it. It also says that the cleanup takes its lock at startup; the code takes it in
every run.

## 7. Approximations

- The SELECT of a refresh and the DELETE of a logout are one step each. The UPDATE of a refresh finds its row when it begins and
  again when it takes effect; a row that stopped matching meanwhile ends it (401). BEGIN is merged with the
  statement after it; `expires_at`, which the handler computes from its own clock just before, is computed
  from NOW() of the statement or transaction. One clock serves the processes and the database: `NoLateOvertaking`
  and the expiry of tokens take the clocks of the instances to agree.
- Members of the sorted set with equal scores are popped in any order: Redis orders them by user id,
  which are random.
- ioredis may resend a command that was not answered when it reconnects. A resent pop is `PopResent`; a resent
  enqueue meets its own key and leaves the state of `EnqueueFails`. That a leave, a pop or an expiry falls between
  the two runs of one enqueue, so that the second run adds the player again, is left out. A leave may happen
  again at any time anyway. A presence write that is sent again after a write of another instance is left out.
- The rotate statement also compares the user; the lookup just returned it from the same row, and
  rows never change their user, so the comparison is left out.
- Rows that a cleanup run is refused the lock for are not touched: such a run has no step.
- Friends and Matchmaking start notifications that touch no table of theirs: `Notifications` models them from the INSERT on.
- Migrations: that two transactions of one file wait for each other, by locks on the catalog, on tables or on the key of
  `schema_migrations`, is taken as the order of their statements.
- Dashboard: a lasting 401 (an expired access token, a dead refresh token) and the browser's reaction to it are
  one step. The retries of the query client are other queries.
- Two notifications do not start in the same microsecond; `updated_at` of a score is not modelled.
- The replies' wording, validation of the bodies, authentication of the requests and rate limits are left out:
  the requests modelled are those that pass them.

## 8. Not modelled, and why

The delivery of events to rooms keeps no state. The signature and claims of access tokens are a library's: `Dashboard`
models that a token is accepted until it expires. The rate limit configures a library whose counter is its own
script in Redis. The error handler maps an exception to a status; a handler that throws is the failed
stage of a request. The health check and the other GET routes read only. The dashboard's pages render reads, most of them
of mock data. `storeRefreshToken`, `PostgresPresenceStore` and the `scripts/` are not used by the server; `scripts/migrate.ts`
is the same runner, started by hand, and counts as one more.
