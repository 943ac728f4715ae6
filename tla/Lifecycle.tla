------------------------------ MODULE Lifecycle ------------------------------
(***************************************************************************)
(* The life of the API processes: docker-entrypoint.sh runs the migrations *)
(* (src/migrate.ts) and then the application (src/app.ts), which connects  *)
(* its plugins, listens, installs its signal handlers and, on a signal,    *)
(* closes (src/shared/shutdown.ts and the onClose hooks of the plugins).   *)
(* Several instances share one database, and docker restarts an instance   *)
(* that exits until it is stopped (restart: unless-stopped).               *)
(*                                                                         *)
(* A migration file is a number, its rank in the sorted directory.  Its    *)
(* SQL takes locks on the catalog or on its tables, or waits on the        *)
(* primary key of schema_migrations, so two transactions of one file are   *)
(* serialised and the later one fails: this is the statement order here.   *)
(***************************************************************************)
EXTENDS Naturals, FiniteSets

CONSTANTS
    Instances,
    NFiles,     \* migration files
    Requests,   \* HTTP requests
    Sockets,    \* WebSocket connections
    None,       \* no instance
    MaxFaults   \* bound: crashes, failed statements, failed connections

ASSUME BoundsAssumption == NFiles \in Nat /\ MaxFaults \in Nat
ASSUME NoneAssumption == None \notin Instances

Files   == 1 .. NFiles
Clients == Requests \cup Sockets

VARIABLES
    table,     \* schema_migrations exists
    schema,    \* files whose SQL is in effect
    recorded,  \* files in schema_migrations
    tx,        \* tx[i]: files whose transaction instance i has open, at most one
    applied,   \* applied[i]: the set of files its runner read
    wanted,    \* wanted[i]: docker keeps the instance running
    stage,     \* stage[i]
    open,      \* open[i]: connections the process holds
    ticking,   \* ticking[i]: a token cleanup holds a client of the pool
    state,     \* state[c] of a request or socket
    at,        \* at[c]: the instance that has it
    cut,       \* history: <<c, why>>, clients whose process exited
    faults

migrations == <<table, schema, recorded, tx, applied>>
clients    == <<state, at>>
vars       == <<migrations, wanted, stage, open, ticking, clients, cut, faults>>

\* "creating": CREATE TABLE IF NOT EXISTS found no table and is running.
\* "ran", "noted": the SQL of the open file has run, then its INSERT.
\* "listening": the server accepts requests and the signal handlers are not installed.
\* The closing stages are named for the step that app.close() is at.
Runner  == {"migrating", "creating", "reading", "files", "ran", "noted"}
Serving == {"listening", "serving"}
Closing == {"draining", "closeRedis", "closePool", "closed"}
Stage   == {"down", "connectPool", "connectRedis"} \cup Runner \cup Serving \cup Closing

ClientState == {"idle", "connected", "over"}
Causes == {"clean", "error", "forced", "killed"}

TypeOK ==
    /\ table \in BOOLEAN /\ schema \in SUBSET Files /\ recorded \in SUBSET Files
    /\ tx \in [Instances -> SUBSET Files] /\ applied \in [Instances -> SUBSET Files]
    /\ \A i \in Instances : Cardinality(tx[i]) = IF stage[i] \in {"ran", "noted"} THEN 1 ELSE 0
    /\ wanted \in [Instances -> BOOLEAN] /\ stage \in [Instances -> Stage]
    /\ open \in [Instances -> SUBSET {"pg", "redis"}] /\ ticking \in [Instances -> BOOLEAN]
    /\ state \in [Clients -> ClientState] /\ at \in [Clients -> Instances \cup {None}]
    /\ \A c \in Clients : state[c] = "connected" <=> at[c] # None
    /\ cut \in SUBSET (Clients \X Causes) /\ faults \in 0 .. MaxFaults

\* Any number of files may have been applied by earlier versions.
Init ==
    /\ \E n \in 0 .. NFiles : schema = 1 .. n
    /\ recorded = schema /\ table \in BOOLEAN /\ (recorded # {} => table)
    /\ tx = [i \in Instances |-> {}] /\ applied = [i \in Instances |-> {}]
    /\ wanted \in [Instances -> BOOLEAN] /\ stage = [i \in Instances |-> "down"]
    /\ open = [i \in Instances |-> {}] /\ ticking = [i \in Instances |-> FALSE]
    /\ state = [c \in Clients |-> "idle"] /\ at = [c \in Clients |-> None]
    /\ cut = {} /\ faults = 0

Goto(i, s) == stage' = [stage EXCEPT ![i] = s]

At(i) == {c \in Clients : at[c] = i}

Fault == faults < MaxFaults /\ faults' = faults + 1

\* The process exits: PostgreSQL rolls its transaction back, its connections are gone.
Exit(i, why) ==
    /\ Goto(i, "down")
    /\ tx' = [tx EXCEPT ![i] = {}]
    /\ applied' = [applied EXCEPT ![i] = {}]
    /\ open' = [open EXCEPT ![i] = {}]
    /\ ticking' = [ticking EXCEPT ![i] = FALSE]
    /\ state' = [c \in Clients |-> IF at[c] = i THEN "over" ELSE state[c]]
    /\ at' = [c \in Clients |-> IF at[c] = i THEN None ELSE at[c]]
    /\ cut' = cut \cup (At(i) \X {why})
    /\ UNCHANGED <<table, schema, recorded>>

----------------------------------------------------------------------------
\* src/migrate.ts.

\* docker starts the container, and the runner its first statement.
Start(i) ==
    /\ wanted[i] /\ stage[i] = "down"
    /\ Goto(i, IF table THEN "reading" ELSE "creating")
    /\ UNCHANGED <<migrations, wanted, open, ticking, clients, cut, faults>>

\* BOOTSTRAP.  If another runner has created the table since the statement began,
\* it fails on the catalog's unique index.
Create(i) ==
    /\ stage[i] = "creating" /\ ~table
    /\ table' = TRUE
    /\ Goto(i, "reading")
    /\ UNCHANGED <<schema, recorded, tx, applied, wanted, open, ticking, clients, cut, faults>>

CreateLoses(i) ==
    /\ stage[i] = "creating" /\ table
    /\ Exit(i, "error")
    /\ UNCHANGED <<wanted, faults>>

\* SELECT filename FROM schema_migrations.
ReadApplied(i) ==
    /\ stage[i] = "reading"
    /\ applied' = [applied EXCEPT ![i] = recorded]
    /\ Goto(i, "files")
    /\ UNCHANGED <<table, schema, recorded, tx, wanted, open, ticking, clients, cut, faults>>

\* The files the runner has not skipped or run yet; it takes the first.
Pending(i) == Files \ applied[i]
NextFile(i, f) == f \in Pending(i) /\ \A g \in Pending(i) : f <= g

\* BEGIN and the SQL of the next file, which waits for a transaction of the same file.
RunSql(i, f) ==
    /\ stage[i] = "files" /\ NextFile(i, f)
    /\ \A j \in Instances : f \notin tx[j]
    /\ f \notin recorded
    /\ tx' = [tx EXCEPT ![i] = {f}]
    /\ Goto(i, "ran")
    /\ UNCHANGED <<table, schema, recorded, applied, wanted, open, ticking, clients, cut, faults>>

\* Another runner has committed the file: the SQL or the INSERT fails, ROLLBACK,
\* process.exit(1).
FileTaken(i, f) ==
    /\ stage[i] = "files" /\ NextFile(i, f) /\ f \in recorded
    /\ Exit(i, "error")
    /\ UNCHANGED <<wanted, faults>>

RunFile(i) == \E f \in Files : RunSql(i, f) \/ FileTaken(i, f)

\* Mutant: without BEGIN and COMMIT, the SQL is in effect at once.
Note_AutoCommit(i) ==
    /\ stage[i] = "ran"
    /\ schema' = schema \cup tx[i]
    /\ Goto(i, "noted")
    /\ UNCHANGED <<table, recorded, tx, applied, wanted, open, ticking, clients, cut, faults>>

\* INSERT INTO schema_migrations, in the same transaction.
Note(i) ==
    /\ stage[i] = "ran"
    /\ Goto(i, "noted")
    /\ UNCHANGED <<migrations, wanted, open, ticking, clients, cut, faults>>

\* Mutant: the COMMIT is forgotten.
CommitFile_NoCommit(i) ==
    /\ stage[i] = "noted"
    /\ applied' = [applied EXCEPT ![i] = @ \cup tx[i]]
    /\ Goto(i, "files")
    /\ UNCHANGED <<table, schema, recorded, tx, wanted, open, ticking, clients, cut, faults>>

\* COMMIT.
CommitFile(i) ==
    /\ stage[i] = "noted"
    /\ schema' = schema \cup tx[i] /\ recorded' = recorded \cup tx[i]
    /\ applied' = [applied EXCEPT ![i] = @ \cup tx[i]]
    /\ tx' = [tx EXCEPT ![i] = {}]
    /\ Goto(i, "files")
    /\ UNCHANGED <<table, wanted, open, ticking, clients, cut, faults>>

\* The COMMIT runs and its reply is lost: the runner fails all the same.
CommitLost(i) ==
    /\ stage[i] = "noted" /\ Fault
    /\ Goto(i, "down")
    /\ schema' = schema \cup tx[i] /\ recorded' = recorded \cup tx[i]
    /\ tx' = [tx EXCEPT ![i] = {}]
    /\ applied' = [applied EXCEPT ![i] = {}]
    /\ UNCHANGED <<table, wanted, open, ticking, clients, cut>>

\* Mutant: the entrypoint without set -e starts the application all the same.
MigrationFails_Ignored(i) ==
    /\ stage[i] \in Runner /\ Fault
    /\ Goto(i, "connectPool")
    /\ tx' = [tx EXCEPT ![i] = {}]
    /\ UNCHANGED <<table, schema, recorded, applied, wanted, open, ticking, clients, cut>>

\* A statement or the connection fails: ROLLBACK, process.exit(1), and set -e ends
\* the entrypoint.
MigrationFails(i) ==
    /\ stage[i] \in Runner /\ Fault
    /\ Exit(i, "error")
    /\ UNCHANGED wanted

----------------------------------------------------------------------------
\* src/app.ts.

\* Every file is skipped or applied: the entrypoint goes on to dist/app.js.
Migrated(i) ==
    /\ stage[i] = "files" /\ Pending(i) = {}
    /\ Goto(i, "connectPool")
    /\ UNCHANGED <<migrations, wanted, open, ticking, clients, cut, faults>>

\* databasePlugin, then cleanupPlugin and redisPlugin, then the routes and listen.
ConnectPool(i) ==
    /\ stage[i] = "connectPool"
    /\ open' = [open EXCEPT ![i] = {"pg"}]
    /\ Goto(i, "connectRedis")
    /\ UNCHANGED <<migrations, wanted, ticking, clients, cut, faults>>

ConnectRedis(i) ==
    /\ stage[i] = "connectRedis"
    /\ open' = [open EXCEPT ![i] = {"pg", "redis"}]
    /\ Goto(i, "listening")
    /\ UNCHANGED <<migrations, wanted, ticking, clients, cut, faults>>

\* A plugin or listen throws: the process exits.
StartFails(i) ==
    /\ stage[i] \in {"connectPool", "connectRedis"} /\ Fault
    /\ Exit(i, "error")
    /\ UNCHANGED wanted

\* registerShutdown.
Register(i) ==
    /\ stage[i] = "listening"
    /\ Goto(i, "serving")
    /\ UNCHANGED <<migrations, wanted, open, ticking, clients, cut, faults>>

\* The interval of the cleanup job, and the end of a run of it.
Tick(i) ==
    /\ stage[i] \in Serving \cup {"draining", "closeRedis"} /\ ~ticking[i]
    /\ ticking' = [ticking EXCEPT ![i] = TRUE]
    /\ UNCHANGED <<migrations, wanted, stage, open, clients, cut, faults>>

TickDone(i) ==
    /\ ticking[i]
    /\ ticking' = [ticking EXCEPT ![i] = FALSE]
    /\ UNCHANGED <<migrations, wanted, stage, open, clients, cut, faults>>

\* A request or a WebSocket arrives.
Arrive(c, i) ==
    /\ state[c] = "idle" /\ stage[i] \in Serving
    /\ state' = [state EXCEPT ![c] = "connected"]
    /\ at' = [at EXCEPT ![c] = i]
    /\ UNCHANGED <<migrations, wanted, stage, open, ticking, cut, faults>>

\* The request is answered, or the client closes its WebSocket.
Depart(c) ==
    /\ state[c] = "connected"
    /\ state' = [state EXCEPT ![c] = "over"]
    /\ at' = [at EXCEPT ![c] = None]
    /\ UNCHANGED <<migrations, wanted, stage, open, ticking, cut, faults>>

----------------------------------------------------------------------------
\* src/shared/shutdown.ts.

\* docker stop: the handler stops the server from accepting and starts app.close().
Stop(i) ==
    /\ wanted[i] /\ stage[i] = "serving"
    /\ wanted' = [wanted EXCEPT ![i] = FALSE]
    /\ Goto(i, "draining")
    /\ UNCHANGED <<migrations, open, ticking, clients, cut, faults>>

\* docker stop before the handlers are installed: the process has none and is killed
\* (in a container, as process 1, only after the grace period).
StopEarly(i) ==
    /\ wanted[i] /\ stage[i] # "serving"
    /\ wanted' = [wanted EXCEPT ![i] = FALSE]
    /\ Exit(i, "killed")
    /\ UNCHANGED faults

\* A second signal of the same kind: process.once has removed the handler, and Node
\* ends the process, unless it is process 1.
StopAgain(i) ==
    /\ stage[i] \in Closing
    /\ Exit(i, "killed")
    /\ UNCHANGED <<wanted, faults>>

\* docker starts a stopped container again.
Wake(i) ==
    /\ ~wanted[i] /\ stage[i] = "down"
    /\ wanted' = [wanted EXCEPT ![i] = TRUE]
    /\ UNCHANGED <<migrations, stage, open, ticking, clients, cut, faults>>

\* Mutant: the hooks run while requests are in flight.
Drained_Early(i) ==
    /\ stage[i] = "draining"
    /\ Goto(i, "closeRedis")
    /\ UNCHANGED <<migrations, wanted, open, ticking, clients, cut, faults>>

\* The server is closed when its last connection ends, WebSockets included; then the
\* onClose hooks run.  The gateway's returns at once: the server no longer listens.
Drained(i) ==
    /\ stage[i] = "draining" /\ At(i) = {}
    /\ Goto(i, "closeRedis")
    /\ UNCHANGED <<migrations, wanted, open, ticking, clients, cut, faults>>

CloseRedis(i) ==
    /\ stage[i] = "closeRedis"
    /\ open' = [open EXCEPT ![i] = @ \ {"redis"}]
    /\ Goto(i, "closePool")
    /\ UNCHANGED <<migrations, wanted, ticking, clients, cut, faults>>

\* The interval is cleared (stage), and pool.end() waits for the clients in use.
ClosePool(i) ==
    /\ stage[i] = "closePool" /\ ~ticking[i]
    /\ open' = [open EXCEPT ![i] = @ \ {"pg"}]
    /\ Goto(i, "closed")
    /\ UNCHANGED <<migrations, wanted, ticking, clients, cut, faults>>

\* Mutant: app.close() is not awaited.
ExitClean_NoAwait(i) ==
    /\ stage[i] \in Closing
    /\ Exit(i, "clean")
    /\ UNCHANGED <<wanted, faults>>

\* process.exit(0).
ExitClean(i) ==
    /\ stage[i] = "closed"
    /\ Exit(i, "clean")
    /\ UNCHANGED <<wanted, faults>>

\* A hook rejects: process.exit(1).
CloseFails(i) ==
    /\ stage[i] \in {"closeRedis", "closePool"} /\ Fault
    /\ Exit(i, "error")
    /\ UNCHANGED wanted

\* What the close waits for.
Waits(i) ==
    \/ stage[i] = "draining" /\ At(i) # {}
    \/ stage[i] = "closePool" /\ ticking[i]

\* Mutant: the timer does nothing.
ForceExit_Never(i) == Waits(i) /\ UNCHANGED vars

\* The timer of 10 s: process.exit(1).  It matters only while the close waits.
ForceExit(i) ==
    /\ Waits(i)
    /\ Exit(i, "forced")
    /\ UNCHANGED <<wanted, faults>>

\* The process is killed; docker restarts it if it is wanted.
Crash(i) ==
    /\ stage[i] # "down" /\ Fault
    /\ Exit(i, "killed")
    /\ UNCHANGED wanted

----------------------------------------------------------------------------
\* The process goes on by itself.
Progress(i) ==
    \/ Start(i) \/ Create(i) \/ CreateLoses(i) \/ ReadApplied(i)
    \/ RunFile(i) \/ Note(i) \/ CommitFile(i)
    \/ Migrated(i) \/ ConnectPool(i) \/ ConnectRedis(i) \/ Register(i)
    \/ Drained(i) \/ CloseRedis(i) \/ ClosePool(i) \/ ExitClean(i) \/ ForceExit(i)

Next ==
    \/ \E i \in Instances :
        \/ Progress(i) \/ CommitLost(i) \/ MigrationFails(i) \/ StartFails(i)
        \/ Tick(i) \/ TickDone(i) \/ Stop(i) \/ StopEarly(i) \/ StopAgain(i)
        \/ Wake(i) \/ CloseFails(i) \/ Crash(i)
        \/ \E c \in Clients : Arrive(c, i)
    \/ \E c \in Clients : Depart(c)

Spec == Init /\ [][Next]_vars

\* A process that can go on does, its timer included; nothing obliges a client to
\* leave, a statement of the cleanup to end, or anybody to stop an instance.
\* PostgreSQL grants a lock in the order of arrival, so a runner that waits for a
\* file again and again gets its turn.
Fairness == \A i \in Instances : WF_vars(Progress(i)) /\ SF_vars(RunFile(i))

FairSpec == Spec /\ Fairness

----------------------------------------------------------------------------
\* Properties.

\* A request or a socket that a process has still has the connections it needs: the
\* hooks close none before the last client has left (the order of app.close()).  And
\* a close that runs to its end, or fails in a hook, has cut nobody off: only the
\* timer and a kill do.
CloseSparesClients ==
    /\ \A c \in Clients : at[c] # None => open[at[c]] = {"pg", "redis"}
    /\ \A c \in Clients : <<c, "clean">> \notin cut /\ <<c, "error">> \notin cut

\* A file is in effect exactly if it is recorded, the files before it are too, and an
\* instance serves only with all of them in effect: whatever runners race or crash.
ServesMigrated ==
    /\ schema = recorded
    /\ \A f \in recorded : 1 .. f \subseteq recorded
    /\ \A i \in Instances : stage[i] \in Serving \cup Closing => recorded = Files

\* A process that stays wanted serves in the end, and one that stays unwanted is down
\* in the end: no race of the runners and no client keeps it from it.
ProcessesSettle ==
    \A i \in Instances :
        /\ []<>(stage[i] = "serving" \/ ~wanted[i])
        /\ []<>(stage[i] = "down" \/ wanted[i])

\* docs/graceful-shutdown.md: "Socket.IO server <- io.close() disconnects all
\* WebSocket clients".  A forced exit would then find no WebSocket.
SocketsDisconnected == \A w \in Sockets : <<w, "forced">> \notin cut
=============================================================================
