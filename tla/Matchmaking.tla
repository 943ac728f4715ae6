---------------------------- MODULE Matchmaking ----------------------------
(***************************************************************************)
(* The matchmaking component: POST /join and POST /leave served by several *)
(* instances over one Redis sorted set and one PostgreSQL database         *)
(* (src/src/modules/matchmaking).                                          *)
(*                                                                         *)
(* A ticket is a join request: the member userId and the score queuedAt    *)
(* that the enqueue script adds are player[t] and queuedAt[t] of the join  *)
(* t that added them, so the sorted set is a set of tickets.  Each Lua     *)
(* script and each MULTI is one step, a PostgreSQL transaction is one step *)
(* (its COMMIT), and everything between two awaits of a handler is one     *)
(* step.  An instance can crash between any two of them.                   *)
(***************************************************************************)
EXTENDS Naturals, FiniteSets

CONSTANTS
    Players,      \* authenticated users
    Joins,        \* the join requests the clients send
    Instances,    \* server processes behind the load balancer
    MatchSize,    \* MATCH_SIZE
    MaxClock,     \* bound: last value of the clock that queuedAt reads
    MaxExpiries,  \* bound: metadata keys that reach their one-hour TTL
    MaxFaults     \* bound: crashes and failed Redis or PostgreSQL calls

ASSUME JoinsAssumption == IsFiniteSet(Joins)
ASSUME MatchSizeAssumption == MatchSize \in Nat \ {0}
ASSUME BoundsAssumption == MaxClock \in Nat /\ MaxExpiries \in Nat /\ MaxFaults \in Nat

VARIABLES
    clock,     \* what new Date() reads
    player,    \* player[r]: the user that sends join r
    inst,      \* inst[r]: the instance that serves it
    pc,        \* pc[r]: where the handler of r is
    queuedAt,  \* queuedAt[r]: entry.queuedAt
    queue,     \* matchmaking:queue, the sorted set
    keys,      \* players whose matchmaking:player:{userId} key exists
    held,      \* held[r]: the tickets the pop script removed for r
    dropped,   \* history: tickets it removed for a request that never saw them
    matches,   \* committed rows of matches, with their match_players
    told,      \* tickets whose player was sent match:created
    noting,    \* tickets whose notification INSERT is in flight
    noted,     \* tickets whose notification row is stored
    accepted,  \* history: joins whose script added an entry
    entered,   \* history: entered[r]: when the script added the entry of r
    left,      \* history: tickets removed by POST /leave
    renewed,   \* history: tickets whose entry a later join of the player took over
    expiries,  \* TTL expirations so far
    faults     \* faults so far

request == <<player, inst>>
redis   == <<queue, keys, dropped, accepted, entered, left, renewed>>
notices == <<told, noting, noted>>
vars == <<clock, player, inst, pc, queuedAt, queue, keys, held, dropped, matches, told,
          noting, noted, accepted, entered, left, renewed, expiries, faults>>

Stage == {"idle", "enqueue", "try", "save", "notify", "done", "failed"}
InFlight == {"enqueue", "try", "save", "notify"}

\* Derived views of the state.
QueuedPlayers == {player[t] : t \in queue}
Popped  == dropped \cup UNION {held[r] : r \in Joins}
Matched == UNION {m.roster : m \in matches}
Trying  == {r \in Joins : pc[r] = "try"}

TypeOK ==
    /\ clock \in Nat /\ expiries \in Nat /\ faults \in Nat
    /\ player \in [Joins -> Players]
    /\ inst \in [Joins -> Instances]
    /\ pc \in [Joins -> Stage]
    /\ queuedAt \in [Joins -> Nat] /\ entered \in [Joins -> Nat]
    /\ held \in [Joins -> SUBSET Joins]
    /\ matches \in SUBSET [by : Joins, roster : SUBSET Joins]
    /\ keys \in SUBSET Players
    /\ queue \in SUBSET Joins
    /\ dropped \in SUBSET Joins
    /\ accepted \in SUBSET Joins /\ left \in SUBSET Joins /\ renewed \in SUBSET Joins
    /\ told \in SUBSET Joins /\ noting \in SUBSET Joins /\ noted \in SUBSET Joins

Init ==
    /\ clock = 0 /\ expiries = 0 /\ faults = 0
    /\ player \in [Joins -> Players]
    /\ inst \in [Joins -> Instances]
    /\ pc = [r \in Joins |-> "idle"]
    /\ queuedAt = [r \in Joins |-> 0] /\ entered = [r \in Joins |-> 0]
    /\ held = [r \in Joins |-> {}]
    /\ queue = {} /\ keys = {} /\ matches = {}
    /\ dropped = {} /\ accepted = {} /\ left = {} /\ renewed = {}
    /\ told = {} /\ noting = {} /\ noted = {}

Goto(r, stage) == pc' = [pc EXCEPT ![r] = stage]

\* A request fails: its handler throws and the client gets a 500.
Fail(r) == faults < MaxFaults /\ faults' = faults + 1 /\ Goto(r, "failed")

----------------------------------------------------------------------------
\* The Redis scripts.

\* Mutant: a list instead of a sorted set, which adds a second entry.
Superseded_List(r) == {}

\* The ticket of r's player that is already a member: ZADD only rescores it.
Superseded(r) == {t \in queue : player[t] = player[r]}

\* Mutant: SET and ZADD without the EXISTS check.
EnqueueNX_Unchecked(r) ==
    /\ keys' = keys \cup {player[r]}
    /\ queue' = (queue \ Superseded(r)) \cup {r}
    /\ accepted' = accepted \cup {r} /\ entered' = [entered EXCEPT ![r] = clock]
    /\ renewed' = renewed \cup Superseded(r)
    /\ UNCHANGED <<dropped, left>>

\* ENQUEUE_NX_SCRIPT, the branch that returns 1.
EnqueueNX(r) ==
    /\ player[r] \notin keys
    /\ keys' = keys \cup {player[r]}
    /\ queue' = (queue \ Superseded(r)) \cup {r}
    /\ accepted' = accepted \cup {r} /\ entered' = [entered EXCEPT ![r] = clock]
    /\ renewed' = renewed \cup Superseded(r)
    /\ UNCHANGED <<dropped, left>>

\* Mutant: ZPOPMAX.
PopMin_Max(S) ==
    /\ S \subseteq queue
    /\ Cardinality(S) = MatchSize
    /\ \A t \in S, u \in queue \ S : queuedAt[t] >= queuedAt[u]

\* Mutant: a partial pop.
PopMin_Partial(S) ==
    /\ S \subseteq queue
    /\ Cardinality(S) \in 1 .. MatchSize
    /\ \A t \in S, u \in queue \ S : queuedAt[t] <= queuedAt[u]

\* ZPOPMIN: the MatchSize lowest scores; members with equal scores come in the
\* order of their random user ids, so any of them may come first.
PopMin(S) ==
    /\ S \subseteq queue
    /\ Cardinality(S) = MatchSize
    /\ \A t \in S, u \in queue \ S : queuedAt[t] <= queuedAt[u]

\* Mutant: ZRANGE, which reads the members and leaves them in the set.
PopMatch_Reads(r) ==
    /\ Cardinality(queue) >= MatchSize
    /\ \E S \in SUBSET queue : PopMin(S) /\ held' = [held EXCEPT ![r] = S]
    /\ UNCHANGED redis

\* Mutant: no DEL of the metadata keys.
PopMatch_KeepsKeys(r) ==
    /\ Cardinality(queue) >= MatchSize
    /\ \E S \in SUBSET queue :
        PopMin(S) /\ queue' = queue \ S /\ held' = [held EXCEPT ![r] = S]
    /\ UNCHANGED <<keys, dropped, accepted, entered, left, renewed>>

\* The popped members and their metadata keys are gone.
TakeOut(S) ==
    /\ PopMin(S)
    /\ queue' = queue \ S
    /\ keys' = keys \ {player[t] : t \in S}

\* POP_MATCH_SCRIPT, the branch that pops.
PopMatch(r) ==
    /\ Cardinality(queue) >= MatchSize
    /\ \E S \in SUBSET queue : TakeOut(S) /\ held' = [held EXCEPT ![r] = S]
    /\ UNCHANGED <<dropped, accepted, entered, left, renewed>>

----------------------------------------------------------------------------
\* POST /join.

\* The handler reads the clock and sends the enqueue script.
Receive(r) ==
    /\ pc[r] = "idle"
    /\ queuedAt' = [queuedAt EXCEPT ![r] = clock]
    /\ Goto(r, "enqueue")
    /\ UNCHANGED <<clock, request, redis, held, matches, notices, expiries, faults>>

\* Mutant: joinQueue without tryMatch.
Enqueue_NoTry(r) ==
    /\ pc[r] = "enqueue"
    /\ EnqueueNX(r)
    /\ Goto(r, "done")
    /\ UNCHANGED <<clock, request, queuedAt, held, matches, notices, expiries, faults>>

Enqueue(r) ==
    /\ pc[r] = "enqueue"
    /\ EnqueueNX(r)
    /\ Goto(r, "try")
    /\ UNCHANGED <<clock, request, queuedAt, held, matches, notices, expiries, faults>>

\* The key exists: 409.
AlreadyQueued(r) ==
    /\ pc[r] = "enqueue"
    /\ player[r] \in keys
    /\ Goto(r, "done")
    /\ UNCHANGED <<clock, request, redis, queuedAt, held, matches, notices, expiries, faults>>

\* The call fails; the script may have run although its reply is lost.  A script that
\* ioredis sends again meets its own key: that 409 leaves the same state behind.
EnqueueFails(r) ==
    /\ pc[r] = "enqueue"
    /\ Fail(r)
    /\ EnqueueNX(r) \/ UNCHANGED redis
    /\ UNCHANGED <<clock, request, queuedAt, held, matches, notices, expiries>>

Pop(r) ==
    /\ pc[r] = "try"
    /\ PopMatch(r)
    /\ Goto(r, "save")
    /\ UNCHANGED <<clock, request, queuedAt, matches, notices, expiries, faults>>

\* Mutant: ZCARD <= count.
PopNone_OffByOne(r) ==
    /\ pc[r] = "try"
    /\ Cardinality(queue) <= MatchSize
    /\ Goto(r, "done")
    /\ UNCHANGED <<clock, request, redis, queuedAt, held, matches, notices, expiries, faults>>

\* Too few members: the join answers without a match.
PopNone(r) ==
    /\ pc[r] = "try"
    /\ Cardinality(queue) < MatchSize
    /\ Goto(r, "done")
    /\ UNCHANGED <<clock, request, redis, queuedAt, held, matches, notices, expiries, faults>>

PopFails(r) ==
    /\ pc[r] = "try"
    /\ Fail(r)
    /\ PopMatch(r) \/ UNCHANGED <<redis, held>>
    /\ UNCHANGED <<clock, request, queuedAt, matches, notices, expiries>>

\* The connection is lost after the script ran: ioredis reconnects and sends it again,
\* and nobody learns what the first one popped.
PopResent(r) ==
    /\ pc[r] = "try"
    /\ faults < MaxFaults /\ faults' = faults + 1
    /\ Cardinality(queue) >= MatchSize
    /\ \E S \in SUBSET queue : TakeOut(S) /\ dropped' = dropped \cup S
    /\ UNCHANGED <<clock, request, accepted, entered, left, renewed, pc, queuedAt, held, matches,
                   notices, expiries>>

\* Mutant: the user id for the match id.
CommitMatch_WrongId(r) == matches' = matches \cup {[by |-> player[r], roster |-> held[r]]}

\* Mutant: the loop over playerIds stops one short.
CommitMatch_OneShort(r) ==
    \E t \in held[r] : matches' = matches \cup {[by |-> r, roster |-> held[r] \ {t}]}

\* saveMatch's transaction: the match row and one match_players row per entry
\* become visible together, at COMMIT.
CommitMatch(r) == matches' = matches \cup {[by |-> r, roster |-> held[r]]}

\* Mutant: the handler goes on without waiting for the commit.
SaveMatch_NoAwait(r) ==
    /\ pc[r] = "save"
    /\ Goto(r, "notify")
    /\ UNCHANGED <<clock, request, redis, queuedAt, held, matches, notices, expiries, faults>>

SaveMatch(r) ==
    /\ pc[r] = "save"
    /\ CommitMatch(r)
    /\ Goto(r, "notify")
    /\ UNCHANGED <<clock, request, redis, queuedAt, held, notices, expiries, faults>>

\* connect or a statement fails and the transaction is rolled back, or the
\* connection is lost after the server committed; both throw.
SaveFails(r) ==
    /\ pc[r] = "save"
    /\ Fail(r)
    /\ CommitMatch(r) \/ UNCHANGED matches
    /\ UNCHANGED <<clock, request, redis, queuedAt, held, notices, expiries>>

\* Mutant: the events without the notifications.
Announce_NoNotification(r) ==
    /\ pc[r] = "notify"
    /\ told' = told \cup held[r]
    /\ Goto(r, "done")
    /\ UNCHANGED <<clock, request, redis, queuedAt, held, matches, noting, noted, expiries, faults>>

\* The controller's loop and its reply run without an await: every player gets
\* the event, every notification INSERT is started, none is waited for.
Announce(r) ==
    /\ pc[r] = "notify"
    /\ told' = told \cup held[r]
    /\ noting' = noting \cup held[r]
    /\ Goto(r, "done")
    /\ UNCHANGED <<clock, request, redis, queuedAt, held, matches, noted, expiries, faults>>

NoteStored(t) ==
    /\ t \in noting
    /\ noting' = noting \ {t}
    /\ noted' = noted \cup {t}
    /\ UNCHANGED <<clock, request, redis, pc, queuedAt, held, matches, told, expiries, faults>>

\* A failed INSERT is logged and forgotten.
NoteFails(t) ==
    /\ t \in noting
    /\ faults < MaxFaults /\ faults' = faults + 1
    /\ noting' = noting \ {t}
    /\ UNCHANGED <<clock, request, redis, pc, queuedAt, held, matches, told, noted, expiries>>

----------------------------------------------------------------------------
\* Mutant: a leave that deletes the key and keeps the member.
Leave_KeyOnly(p) ==
    /\ keys' = keys \ {p}
    /\ left' = left \cup {t \in queue : player[t] = p}
    /\ UNCHANGED <<clock, request, queue, dropped, accepted, entered, renewed, pc, queuedAt, held, matches,
                   notices, expiries, faults>>

\* POST /leave: ZREM and DEL in one MULTI.  It answers 200 when the member was
\* there and 404 otherwise; the DEL runs in both cases.
Leave(p) ==
    /\ queue' = {t \in queue : player[t] # p}
    /\ keys' = keys \ {p}
    /\ left' = left \cup {t \in queue : player[t] = p}
    /\ UNCHANGED <<clock, request, dropped, accepted, entered, renewed, pc, queuedAt, held, matches,
                   notices, expiries, faults>>

\* The metadata key reaches its TTL; the sorted set has none.
Expire(p) ==
    /\ expiries < MaxExpiries
    /\ p \in keys
    /\ keys' = keys \ {p}
    /\ expiries' = expiries + 1
    /\ UNCHANGED <<clock, request, queue, dropped, accepted, entered, left, renewed, pc, queuedAt, held,
                   matches, notices, faults>>

\* An instance dies with the requests it serves and the notifications it writes.
Crash(i) ==
    LET dying == {r \in Joins : inst[r] = i /\ pc[r] \in InFlight}
        mute  == {t \in noting : \E r \in Joins : inst[r] = i /\ t \in held[r]}
    IN  /\ faults < MaxFaults /\ faults' = faults + 1
        /\ dying \cup mute # {}
        /\ pc' = [r \in Joins |-> IF r \in dying THEN "failed" ELSE pc[r]]
        /\ noting' = noting \ mute
        /\ UNCHANGED <<clock, request, redis, queuedAt, held, matches, told, noted, expiries>>

Tick ==
    /\ clock < MaxClock
    /\ clock' = clock + 1
    /\ UNCHANGED <<request, redis, pc, queuedAt, held, matches, notices, expiries, faults>>

Step(r) == Enqueue(r) \/ AlreadyQueued(r) \/ Pop(r) \/ PopNone(r) \/ SaveMatch(r) \/ Announce(r)

Next ==
    \/ \E r \in Joins :
        \/ Receive(r) \/ Step(r)
        \/ EnqueueFails(r) \/ PopFails(r) \/ PopResent(r) \/ SaveFails(r)
    \/ \E t \in Joins : NoteStored(t) \/ NoteFails(t)
    \/ \E p \in Players : Leave(p) \/ Expire(p)
    \/ \E i \in Instances : Crash(i)
    \/ Tick

Spec == Init /\ [][Next]_vars

\* A request that was received runs on: Redis and PostgreSQL answer and the
\* event loop resumes the handler.  Nothing obliges a client to join or leave.
Fairness ==
    /\ \A r \in Joins : WF_vars(Step(r))
    /\ \A t \in Joins : WF_vars(NoteStored(t))

FairSpec == Spec /\ Fairness

----------------------------------------------------------------------------
\* Properties.

\* A join that entered the queue and whose entry was neither left, taken over,
\* nor committed to a match is in exactly one place.  The four ways out of the
\* queue exclude one another: nobody who left (200) is matched, no entry is
\* popped for two requests (popPlayers' guarantee (b)), no entry is both queued
\* and popped.
Custody ==
    /\ accepted = queue \cup left \cup renewed \cup Popped
    /\ queue \cap (left \cup renewed \cup Popped) = {}
    /\ left \cap (renewed \cup Popped) = {}
    /\ renewed \cap Popped = {}
    /\ \A r, s \in Joins : r # s => held[r] \cap held[s] = {}
    /\ \A r \in Joins : held[r] \cap dropped = {}

\* Every stored match seats exactly MatchSize different players, and a join is
\* seated in at most one match (the double-match race of the tests).
ProperMatches ==
    /\ \A m \in matches : /\ Cardinality(m.roster) = MatchSize
                          /\ Cardinality({player[t] : t \in m.roster}) = MatchSize
    /\ \A m, n \in matches : m # n => m.roster \cap n.roster = {}

\* A player whose status says inQueue is in the sorted set, and has one entry.
KeysQueued ==
    /\ keys \subseteq QueuedPlayers
    /\ \A t, u \in queue : player[t] = player[u] => t = u

\* The duplicate-join race is closed: a player gets a second 200 for a place
\* still in the queue only if the metadata key expired in between.
NoDuplicateJoin == Cardinality(renewed) <= expiries

\* Joins that entered the queue and still have to pop, and those that died
\* before they could.
Abandoned == {r \in accepted : pc[r] = "failed" /\ held[r] = {}}
Owing == Trying \cup Abandoned

\* However joins, leaves and failures interleave, every complete group of
\* MatchSize waiting players is owed a pop by a join of its own.
QuorumAccounted == Cardinality(queue) < MatchSize + Cardinality(Owing)

\* Players are told of a match only after it is committed, and notified only if they
\* were sent the event; a match whose players were not told is about to be announced,
\* or its request failed between the commit and the event.
ToldOfRealMatches ==
    /\ told \subseteq Matched
    /\ noting \cup noted \subseteq told
    /\ \A m \in matches : m.roster \subseteq told \/ pc[m.by] \in {"notify", "failed"}

\* "No player is lost": when the request that popped the players is past its
\* save, they are in a match, and every pop has a request that learns of it.
NoPlayerLost ==
    /\ \A r \in Joins : pc[r] \in {"notify", "done", "failed"} => held[r] \subseteq Matched
    /\ dropped \subseteq Matched

\* "If at least 2 players are waiting, a match is created immediately": a
\* waiting quorum always has a join that is about to pop it.
QuorumServed == Cardinality(queue) >= MatchSize => Trying # {}

\* The sorted set is authoritative: status answers inQueue for its members.
StatusTruthful == QueuedPlayers \subseteq keys

\* The queue keeps the order of real time, although a join is scored when it is received
\* and added later: none that was received after another had been added is popped before
\* it.  Only joins in flight together may be reordered.
NoLateOvertaking ==
    [][\A t \in queue \ queue', u \in queue \cap queue' :
            t \in Popped' => queuedAt[t] <= entered[u]]_vars

\* Whoever is popped gets the match, the event and the notification.
PoppedAreMatched == \A t \in Joins : t \in Popped ~> t \in Matched /\ t \in told /\ t \in noted

\* The abstract service this implements.  A popped join waits until its match is
\* committed, so a join that a crash loses is one that waits for ever.
Service == INSTANCE MatchService
    WITH Groups  <- {S \in SUBSET Joins : Cardinality(S) = MatchSize},
         waiting <- queue \cup (Popped \ Matched),
         rosters <- {m.roster : m \in matches}

\* Every step is a step of the abstract service or invisible to it, also under
\* crashes, failed calls and expirations.
ServiceSpec == Service!Spec

\* Without faults a quorum of waiting players is seated.
ServiceFairSpec == Service!FairSpec
============================================================================
