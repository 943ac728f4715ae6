------------------------------ MODULE Presence ------------------------------
(***************************************************************************)
(* Presence: the Redis store (src/src/modules/presence) and the Socket.IO  *)
(* gateway that drives it (src/src/realtime), on several instances.        *)
(*                                                                         *)
(* pipe[i] is the connection app.redis of instance i: Redis runs its       *)
(* commands in order, and those of different connections in any            *)
(* interleaving, also inside a pipeline.  The Socket.IO adapter publishes  *)
(* its requests and replies over the same connections.                     *)
(*                                                                         *)
(* When a socket disconnects, fetchSockets takes the sockets of its own    *)
(* instance at once and asks the other instances for theirs; the socket    *)
(* leaves its room in the same turn, after the handler's first part.       *)
(***************************************************************************)
EXTENDS Naturals, Sequences, FiniteSets

CONSTANTS
    Users, Instances,
    Sockets,      \* connections, each opened and closed once
    Calls,        \* HTTP requests, each a PUT or a GET of /presence
    MaxFaults     \* bound: crashes, failed writes, timeouts and keys that expire

ASSUME SetsAssumption == IsFiniteSet(Sockets) /\ Sockets \cap Calls = {}
ASSUME BoundsAssumption == MaxFaults \in Nat

VARIABLES
    owner,     \* owner[o]: the user of socket or call o
    at,        \* at[o]: the instance that serves it
    pc,        \* where the handlers of each socket and call are
    found,     \* found[s]: sockets that fetchSockets collected for s
    waiting,   \* waiting[s]: instances whose reply it has not got
    asked,     \* asked[s]: instances that have its request and did not answer
    seen,      \* seen[l]: members that the GET l has read from the set
    pipe,      \* pipe[i]: commands of instance i that Redis has not run
    keys,      \* users whose presence:user:{userId} key exists
    online,    \* presence:online
    manual,    \* history: users that set their own presence, until they connect again
    since,     \* since[s]: the sockets of its user when s disconnected
    raced,     \* history: users that connected while they were being removed
    expiries,  \* TTL expirations so far
    faults     \* faults so far

ops     == <<owner, at>>
store   == <<keys, online>>
fetch   == <<found, waiting, asked, since>>
history == <<manual, raced>>
bounds  == <<expiries, faults>>
vars    == <<ops, pc, fetch, seen, pipe, store, history, bounds>>

Ops == Sockets \cup Calls

Write   == [op : {"set", "sadd", "del", "srem"}, users : SUBSET Users]
Ask     == [op : {"ask"}, socket : Sockets]
Reply   == [op : {"reply"}, socket : Sockets, sockets : SUBSET Sockets]
Command == Write \cup Ask \cup Reply

TypeOK ==
    /\ owner \in [Ops -> Users] /\ at \in [Ops -> Instances]
    /\ pc \in [Ops -> {"new", "open", "counting", "closed", "checking"}]
    /\ found \in [Sockets -> SUBSET Sockets] /\ since \in [Sockets -> SUBSET Sockets]
    /\ waiting \in [Sockets -> SUBSET Instances] /\ asked \in [Sockets -> SUBSET Instances]
    /\ seen \in [Calls -> SUBSET Users]
    /\ pipe \in [Instances -> Seq(Command)]
    /\ keys \in SUBSET Users /\ online \in SUBSET Users
    /\ manual \in SUBSET Users /\ raced \in SUBSET Users
    /\ expiries \in Nat /\ faults \in Nat

Init ==
    /\ owner \in [Ops -> Users] /\ at \in [Ops -> Instances]
    /\ pc = [o \in Ops |-> "new"]
    /\ found = [s \in Sockets |-> {}] /\ since = [s \in Sockets |-> {}]
    /\ waiting = [s \in Sockets |-> {}] /\ asked = [s \in Sockets |-> {}]
    /\ seen = [l \in Calls |-> {}]
    /\ pipe = [i \in Instances |-> <<>>]
    /\ keys = {} /\ online = {}
    /\ manual = {} /\ raced = {}
    /\ expiries = 0 /\ faults = 0

Goto(o, stage) == pc' = [pc EXCEPT ![o] = stage]
Fault == expiries + faults < MaxFaults /\ faults' = faults + 1

Send(i, cmds) == pipe' = [pipe EXCEPT ![i] = @ \o cmds]

Pending(i) == {pipe[i][n] : n \in 1 .. Len(pipe[i])}

\* The sockets in the room of user u, and those of them on instance i.
Room(u) == {s \in Sockets : owner[s] = u /\ pc[s] = "open"}

\* Mutant: the name of the room instead of its sockets.
Local_RoomName(i, u) == {u}

Local(i, u) == {s \in Room(u) : at[s] = i}

\* Mutant: the default adapter, which knows its own instance only.
Others_None(i) == {}

Others(i) == Instances \ {i}

----------------------------------------------------------------------------
\* RedisPresenceStore.

SetOnline(u) == <<[op |-> "set", users |-> {u}], [op |-> "sadd", users |-> {u}]>>

SetOffline(u) == <<[op |-> "del", users |-> {u}], [op |-> "srem", users |-> {u}]>>

\* Redis runs the next command of instance i.
Dequeue(i) == pipe' = [pipe EXCEPT ![i] = Tail(@)]
HeadIs(i, kind) == pipe[i] # <<>> /\ Head(pipe[i]).op \in kind

RunWrite(i) ==
    /\ HeadIs(i, {"set", "sadd", "del", "srem"})
    /\ LET c == Head(pipe[i])
       IN  /\ keys' = (IF c.op = "set" THEN keys \cup c.users
                       ELSE IF c.op = "del" THEN keys \ c.users ELSE keys)
           /\ online' = (IF c.op = "sadd" THEN online \cup c.users
                         ELSE IF c.op = "srem" THEN online \ c.users ELSE online)
    /\ Dequeue(i)
    /\ UNCHANGED <<ops, pc, fetch, seen, history, bounds>>

\* One write of a pipeline fails: exec() resolves, and nobody reads its results.
WriteFails(i) ==
    /\ HeadIs(i, {"set", "sadd", "del", "srem"})
    /\ Fault
    /\ Dequeue(i)
    /\ UNCHANGED <<ops, pc, fetch, seen, store, history, expiries>>

\* The key reaches its TTL.
Expire(u) ==
    /\ u \in keys
    /\ expiries + faults < MaxFaults /\ expiries' = expiries + 1
    /\ keys' = keys \ {u}
    /\ UNCHANGED <<ops, pc, fetch, seen, pipe, online, history, faults>>

----------------------------------------------------------------------------
\* The gateway.

\* A step that may still remove u: a disconnecting handler, a removal on its way
\* to Redis, or a list that has u among the members it read.
Leaving(u) ==
    \/ \E s \in Sockets : owner[s] = u /\ pc[s] = "counting"
    \/ \E i \in Instances : \E c \in Pending(i) : c.op \in {"del", "srem"} /\ u \in c.users
    \/ \E l \in Calls : pc[l] = "checking" /\ u \in seen[l]

\* Nothing about u is on its way: no handler, no write, no list.
AtRest(u) ==
    /\ ~Leaving(u)
    /\ \A i \in Instances : \A c \in Pending(i) : c.op \in {"set", "sadd"} => u \notin c.users

\* The connection handler: the socket joins its room and setOnline is sent.
Connect(s) ==
    /\ pc[s] = "new"
    /\ Goto(s, "open")
    /\ Send(at[s], SetOnline(owner[s]))
    /\ raced' = raced \cup {u \in {owner[s]} : Leaving(u)}
    /\ manual' = manual \ {u \in {owner[s]} : AtRest(u) /\ (u \in keys <=> u \in online)}
    /\ UNCHANGED <<ops, fetch, seen, store, bounds>>

\* Mutant: the `disconnect` event, which comes after the socket has left.
Snapshot_AfterLeave(s) == Local(at[s], owner[s]) \ {s}

\* The sockets of its own instance, this one included.
Snapshot(s) == Local(at[s], owner[s])

\* The disconnecting handler up to its await.
Disconnect(s) ==
    /\ pc[s] = "open"
    /\ found' = [found EXCEPT ![s] = Snapshot(s)]
    /\ waiting' = [waiting EXCEPT ![s] = Others(at[s])]
    /\ since' = [since EXCEPT ![s] = Room(owner[s])]
    /\ Send(at[s], <<[op |-> "ask", socket |-> s]>>)
    /\ Goto(s, "counting")
    /\ UNCHANGED <<ops, asked, seen, store, history, bounds>>

\* The request is published to the other instances.
RunAsk(i) ==
    /\ HeadIs(i, {"ask"})
    /\ asked' = [asked EXCEPT ![Head(pipe[i]).socket] = Others(i)]
    /\ Dequeue(i)
    /\ UNCHANGED <<ops, pc, found, waiting, since, seen, store, history, bounds>>

\* Instance i answers with the sockets that it has in the room now.
Answer(i, s) ==
    /\ i \in asked[s]
    /\ asked' = [asked EXCEPT ![s] = @ \ {i}]
    /\ Send(i, <<[op |-> "reply", socket |-> s, sockets |-> Local(i, owner[s])]>>)
    /\ UNCHANGED <<ops, pc, found, waiting, since, seen, store, history, bounds>>

\* The reply is published and collected, if the request is still open.
RunReply(i) ==
    /\ HeadIs(i, {"reply"})
    /\ LET c == Head(pipe[i])
       IN  IF pc[c.socket] = "counting"
           THEN /\ found' = [found EXCEPT ![c.socket] = @ \cup c.sockets]
                /\ waiting' = [waiting EXCEPT ![c.socket] = @ \ {i}]
           ELSE UNCHANGED <<found, waiting>>
    /\ Dequeue(i)
    /\ UNCHANGED <<ops, pc, asked, since, seen, store, history, bounds>>

\* Mutant: sockets.length <= 2.
IsLast_OffByOne(s) == Cardinality(found[s]) <= 2

\* sockets.length === 1
IsLast(s) == Cardinality(found[s]) = 1

\* The promise of fetchSockets is settled and its handler ends.
Settle(s) ==
    /\ Goto(s, "closed")
    /\ found' = [found EXCEPT ![s] = {}]
    /\ waiting' = [waiting EXCEPT ![s] = {}]
    /\ since' = [since EXCEPT ![s] = {}]

\* Every reply is in: the last socket of the user sends setOffline.
Decide(s) ==
    /\ pc[s] = "counting" /\ waiting[s] = {}
    /\ Settle(s)
    /\ IF IsLast(s) THEN Send(at[s], SetOffline(owner[s])) ELSE UNCHANGED pipe
    /\ UNCHANGED <<ops, asked, seen, store, history, bounds>>

\* A reply that no step will bring: its instance crashed with the request.
ReplyLost(s) ==
    \E i \in waiting[s] :
        /\ i \notin asked[s]
        /\ \A j \in Instances : \A c \in Pending(j) :
            c.op \in {"ask", "reply"} => c.socket # s

\* requestsTimeout: fetchSockets rejects, and the handler logs it.
Timeout(s) ==
    /\ pc[s] = "counting" /\ waiting[s] # {}
    /\ Fault \/ (ReplyLost(s) /\ UNCHANGED faults)
    /\ Settle(s)
    /\ UNCHANGED <<ops, asked, seen, pipe, store, history, expiries>>

\* Instance i dies with its sockets and handlers, or closes its Redis connection
\* on shutdown before they are done, and starts again.  Of the commands it sent,
\* those that reached Redis are run.
Crash(i) ==
    /\ Fault
    /\ pc' = [o \in Ops |-> IF at[o] = i /\ pc[o] # "new" THEN "closed" ELSE pc[o]]
    /\ found' = [s \in Sockets |-> IF at[s] = i THEN {} ELSE found[s]]
    /\ waiting' = [s \in Sockets |-> IF at[s] = i THEN {} ELSE waiting[s]]
    /\ since' = [s \in Sockets |-> IF at[s] = i THEN {} ELSE since[s]]
    /\ seen' = [l \in Calls |-> IF at[l] = i THEN {} ELSE seen[l]]
    /\ \E n \in 0 .. Len(pipe[i]) : pipe' = [pipe EXCEPT ![i] = SubSeq(@, 1, n)]
    /\ asked' = [s \in Sockets |-> asked[s] \ {i}]
    /\ UNCHANGED <<ops, store, history, expiries>>

----------------------------------------------------------------------------
\* PUT /presence and GET /presence.

Put(p) ==
    /\ pc[p] = "new"
    /\ Goto(p, "closed")
    /\ \E cmds \in {SetOnline(owner[p]), SetOffline(owner[p])} : Send(at[p], cmds)
    /\ manual' = manual \cup {owner[p]}
    /\ UNCHANGED <<ops, fetch, seen, store, raced, bounds>>

\* getOnlineUsers: SMEMBERS.
ListMembers(l) ==
    /\ pc[l] = "new"
    /\ seen' = [seen EXCEPT ![l] = online]
    /\ Goto(l, "checking")
    /\ UNCHANGED <<ops, fetch, pipe, store, history, bounds>>

\* MGET; the members without a key are removed from the set, without an await.
ListPrune(l) ==
    LET stale == seen[l] \ keys
    IN  /\ pc[l] = "checking"
        /\ IF stale = {} THEN UNCHANGED pipe
           ELSE Send(at[l], <<[op |-> "srem", users |-> stale]>>)
        /\ Goto(l, "closed")
        /\ seen' = [seen EXCEPT ![l] = {}]
        /\ UNCHANGED <<ops, fetch, store, history, bounds>>

----------------------------------------------------------------------------
Next ==
    \/ \E s \in Sockets : Connect(s) \/ Disconnect(s) \/ Decide(s) \/ Timeout(s)
    \/ \E i \in Instances : RunWrite(i) \/ RunAsk(i) \/ RunReply(i) \/ WriteFails(i) \/ Crash(i)
    \/ \E i \in Instances, s \in Sockets : Answer(i, s)
    \/ \E c \in Calls : Put(c) \/ ListMembers(c) \/ ListPrune(c)
    \/ \E u \in Users : Expire(u)

Spec == Init /\ [][Next]_vars

----------------------------------------------------------------------------
\* Properties.

\* fetchSockets counts the connections across the cluster: when a handler finds
\* its socket to be the last, no other socket that was connected when it began
\* to count is connected still, whatever instance it is on.
LastMeansLast ==
    \A s \in Sockets :
        pc[s] = "counting" /\ waiting[s] = {} /\ IsLast(s) => since[s] \cap Room(owner[s]) = {}

\* Whoever has left is offline, in the key and in the set: of the sockets that
\* disconnect at the same time on different instances, one finds itself the last,
\* and its setOffline comes after every setOnline.
GoneAreOffline ==
    \A u \in Users :
        AtRest(u) /\ Room(u) = {} /\ u \notin manual /\ faults = 0 => u \notin keys \cup online

\* A connected user is online, in the key and in the set, unless they connected
\* while they were being removed.
OnlineWithoutRace ==
    \A u \in Users :
        AtRest(u) /\ Room(u) # {} /\ u \notin manual \cup raced /\ faults = 0 /\ expiries = 0
            => u \in keys \cap online

\* "This is the last socket for this user - mark offline."
ConnectedAreOnline ==
    \A u \in Users :
        AtRest(u) /\ Room(u) # {} /\ u \notin manual /\ faults = 0 /\ expiries = 0 => u \in keys
=============================================================================
