-------------------------- MODULE LifecycleProofs --------------------------
(***************************************************************************)
(* What TLAPS proves about Lifecycle, for any number of instances,         *)
(* migration files, requests and sockets, and any number of faults.        *)
(***************************************************************************)
EXTENDS Lifecycle, FiniteSetTheorems, TLAPS

----------------------------------------------------------------------------
\* Types.

\* Every way for a process to exit leaves the same state behind.
LEMMA ExitType ==
  ASSUME TypeOK, NEW i \in Instances, NEW why \in Causes, Exit(i, why),
         wanted' \in [Instances -> BOOLEAN], faults' \in 0 .. MaxFaults
  PROVE  TypeOK'
<1> USE NoneAssumption DEF TypeOK, Exit, Stage, Goto, Clients, ClientState
<1>1. Cardinality({}) = 0
  BY FS_EmptySet
<1>2. \A j \in Instances : Cardinality(tx'[j]) = IF stage'[j] \in {"ran", "noted"} THEN 1 ELSE 0
  BY <1>1
<1>3. cut' \in SUBSET (Clients \X Causes)
  BY DEF At
<1> QED
  BY <1>2, <1>3

LEMMA InitType == Init => TypeOK
<1> SUFFICES ASSUME Init PROVE TypeOK
  OBVIOUS
<1>1. Cardinality({}) = 0
  BY FS_EmptySet
<1> QED
  BY <1>1, BoundsAssumption DEF Init, TypeOK, Stage, Clients, ClientState, Files

LEMMA NextType == TypeOK /\ [Next]_vars => TypeOK'
<1> SUFFICES ASSUME TypeOK, [Next]_vars PROVE TypeOK'
  OBVIOUS
<1> USE BoundsAssumption DEF Stage, Runner, Serving, Closing, ClientState, Causes, Fault, Goto, migrations, clients
<1>1. ASSUME NEW i \in Instances, Start(i) PROVE TypeOK'
  BY <1>1 DEF Start, TypeOK
<1>2. ASSUME NEW i \in Instances, Create(i) PROVE TypeOK'
  BY <1>2 DEF Create, TypeOK
<1>3. ASSUME NEW i \in Instances, CreateLoses(i) PROVE TypeOK'
  <2>1. wanted' \in [Instances -> BOOLEAN] /\ faults' \in 0 .. MaxFaults
    BY <1>3 DEF CreateLoses, TypeOK
  <2> QED
    BY <1>3, <2>1, ExitType DEF CreateLoses
<1>4. ASSUME NEW i \in Instances, ReadApplied(i) PROVE TypeOK'
  BY <1>4 DEF ReadApplied, TypeOK
<1>5. ASSUME NEW i \in Instances, NEW f \in Files, RunSql(i, f) PROVE TypeOK'
  <2>1. Cardinality({f}) = 1
    BY FS_Singleton
  <2> QED
    BY <1>5, <2>1 DEF RunSql, TypeOK
<1>6. ASSUME NEW i \in Instances, NEW f \in Files, FileTaken(i, f) PROVE TypeOK'
  <2>1. wanted' \in [Instances -> BOOLEAN] /\ faults' \in 0 .. MaxFaults
    BY <1>6 DEF FileTaken, TypeOK
  <2> QED
    BY <1>6, <2>1, ExitType DEF FileTaken
<1>7. ASSUME NEW i \in Instances, Note(i) PROVE TypeOK'
  BY <1>7 DEF Note, TypeOK
<1>8. ASSUME NEW i \in Instances, CommitFile(i) PROVE TypeOK'
  <2>1. tx' \in [Instances -> SUBSET Files] /\ applied' \in [Instances -> SUBSET Files]
    BY <1>8 DEF CommitFile, TypeOK
  <2>2. \A j \in Instances : Cardinality(tx'[j]) = IF stage'[j] \in {"ran", "noted"} THEN 1 ELSE 0
    BY <1>8, FS_EmptySet DEF CommitFile, TypeOK
  <2> QED
    BY <1>8, <2>1, <2>2 DEF CommitFile, TypeOK
<1>9. ASSUME NEW i \in Instances, CommitLost(i) PROVE TypeOK'
  <2>1. tx' \in [Instances -> SUBSET Files] /\ applied' \in [Instances -> SUBSET Files]
    BY <1>9 DEF CommitLost, TypeOK
  <2>2. \A j \in Instances : Cardinality(tx'[j]) = IF stage'[j] \in {"ran", "noted"} THEN 1 ELSE 0
    BY <1>9, FS_EmptySet DEF CommitLost, TypeOK
  <2>3. faults' \in 0 .. MaxFaults
    BY <1>9 DEF CommitLost, TypeOK
  <2> QED
    BY <1>9, <2>1, <2>2, <2>3 DEF CommitLost, TypeOK
<1>10. ASSUME NEW i \in Instances, MigrationFails(i) \/ StartFails(i) \/ CloseFails(i) PROVE TypeOK'
  <2>1. wanted' \in [Instances -> BOOLEAN] /\ faults' \in 0 .. MaxFaults
    BY <1>10 DEF MigrationFails, StartFails, CloseFails, TypeOK
  <2> QED
    BY <1>10, <2>1, ExitType DEF MigrationFails, StartFails, CloseFails
<1>11. ASSUME NEW i \in Instances, Migrated(i) \/ ConnectPool(i) \/ ConnectRedis(i) \/ Register(i)
      PROVE TypeOK'
  BY <1>11 DEF Migrated, ConnectPool, ConnectRedis, Register, TypeOK
<1>12. ASSUME NEW i \in Instances, Tick(i) \/ TickDone(i) PROVE TypeOK'
  BY <1>12 DEF Tick, TickDone, TypeOK
<1>13. ASSUME NEW c \in Clients, NEW i \in Instances, Arrive(c, i) PROVE TypeOK'
  BY <1>13, NoneAssumption DEF Arrive, TypeOK
<1>14. ASSUME NEW c \in Clients, Depart(c) PROVE TypeOK'
  BY <1>14 DEF Depart, TypeOK
<1>15. ASSUME NEW i \in Instances, Stop(i) \/ Wake(i) PROVE TypeOK'
  <2>1. wanted' \in [Instances -> BOOLEAN]
    BY <1>15 DEF Stop, Wake, TypeOK
  <2>2. CASE Stop(i)
    BY <2>1, <2>2 DEF Stop, TypeOK
  <2>3. CASE Wake(i)
    BY <2>1, <2>3 DEF Wake, TypeOK
  <2> QED
    BY <1>15, <2>2, <2>3
<1>16. ASSUME NEW i \in Instances, StopEarly(i) \/ StopAgain(i) \/ Crash(i) PROVE TypeOK'
  <2>1. wanted' \in [Instances -> BOOLEAN]
    BY <1>16 DEF StopEarly, StopAgain, Crash, TypeOK
  <2>2. faults' \in 0 .. MaxFaults
    BY <1>16 DEF StopEarly, StopAgain, Crash, TypeOK
  <2> QED
    BY <1>16, <2>1, <2>2, ExitType DEF StopEarly, StopAgain, Crash
<1>17. ASSUME NEW i \in Instances, Drained(i) \/ CloseRedis(i) \/ ClosePool(i) PROVE TypeOK'
  BY <1>17 DEF Drained, CloseRedis, ClosePool, TypeOK
<1>18. ASSUME NEW i \in Instances, ExitClean(i) \/ ForceExit(i) PROVE TypeOK'
  <2>1. wanted' \in [Instances -> BOOLEAN] /\ faults' \in 0 .. MaxFaults
    BY <1>18 DEF ExitClean, ForceExit, TypeOK
  <2> QED
    BY <1>18, <2>1, ExitType DEF ExitClean, ForceExit
<1>19. CASE UNCHANGED vars
  BY <1>19 DEF vars, TypeOK
<1> HIDE DEF Stage, Runner, Serving, Closing, ClientState, Causes, Fault, Goto, migrations, clients
<1>20. ASSUME NEW i \in Instances, RunFile(i) PROVE TypeOK'
  BY <1>5, <1>6, <1>20 DEF RunFile
<1>21. ASSUME NEW i \in Instances, Progress(i) PROVE TypeOK'
  BY <1>1, <1>2, <1>3, <1>4, <1>7, <1>8, <1>11, <1>17, <1>18, <1>20, <1>21 DEF Progress
<1> QED
  BY <1>9, <1>10, <1>12, <1>13, <1>14, <1>15, <1>16, <1>19, <1>21 DEF Next

\* Every variable keeps its type; a runner has a transaction open exactly while it is
\* in one, and a client is connected exactly while a process has it.
THEOREM TypeCorrect == Spec => []TypeOK
  BY InitType, NextType, PTL DEF Spec

----------------------------------------------------------------------------
\* Migrations.

\* The stages an instance reaches only after its runner has succeeded.
Started == {"connectPool", "connectRedis"} \cup Serving \cup Closing

\* What a runner has read or committed is recorded, and so are the files before the
\* one whose transaction it has open: it takes the least it has not skipped.
MigrateInv ==
    /\ schema = recorded
    /\ \A f \in recorded : 1 .. f \subseteq recorded
    /\ \A i \in Instances : applied[i] \subseteq recorded
    /\ \A i \in Instances : \A f \in tx[i] : 1 .. (f - 1) \subseteq recorded
    /\ \A i \in Instances : stage[i] \in Started => recorded = Files

\* A process that exits leaves what is committed as it is.
LEMMA ExitMigrate ==
  ASSUME TypeOK, MigrateInv, NEW i \in Instances, NEW why, Exit(i, why)
  PROVE  MigrateInv'
BY DEF Exit, Goto, TypeOK, MigrateInv, Started, Serving, Closing

\* A step that moves an instance between stages and commits nothing.
LEMMA MoveMigrate ==
  ASSUME TypeOK, MigrateInv, NEW i \in Instances, NEW s \in Stage, Goto(i, s),
         UNCHANGED <<schema, recorded, tx, applied>>,
         s \in Started => recorded = Files
  PROVE  MigrateInv'
BY DEF Goto, TypeOK, MigrateInv

\* The transaction of instance i is committed: its file, if any, is the next one.
LEMMA CommitMigrate ==
  ASSUME TypeOK, MigrateInv, NEW i \in Instances, NEW s \in {"files", "down"}, Goto(i, s),
         stage[i] = "noted",
         schema' = schema \cup tx[i], recorded' = recorded \cup tx[i],
         tx' = [tx EXCEPT ![i] = {}],
         applied' \in [Instances -> SUBSET Files],
         \A j \in Instances : applied'[j] \subseteq applied[j] \cup tx[i]
  PROVE  MigrateInv'
<1> USE DEF TypeOK, MigrateInv
<1>1. tx[i] \subseteq Files /\ recorded \subseteq Files
  OBVIOUS
<1>2. ASSUME NEW f \in recorded' PROVE 1 .. f \subseteq recorded'
  <2>1. CASE f \in recorded
    BY <2>1
  <2>2. CASE f \in tx[i]
    <3>1. f \in Nat /\ 1 .. (f - 1) \subseteq recorded
      BY <1>1, <2>2, BoundsAssumption DEF Files
    <3> QED
      BY <2>2, <3>1
  <2> QED
    BY <1>2, <2>1, <2>2
<1>3. \A j \in Instances : applied'[j] \subseteq recorded'
  OBVIOUS
<1>4. ASSUME NEW j \in Instances, NEW f \in tx'[j] PROVE 1 .. (f - 1) \subseteq recorded'
  BY <1>4
<1>5. ASSUME NEW j \in Instances, stage'[j] \in Started PROVE recorded' = Files
  <2>1. j # i /\ stage[j] \in Started
    BY <1>5 DEF Goto, Started, Serving, Closing
  <2> QED
    BY <1>1, <2>1
<1> QED
  BY <1>2, <1>3, <1>4, <1>5

LEMMA InitMigrate == Init => MigrateInv
BY BoundsAssumption DEF Init, MigrateInv, Started, Serving, Closing, Files

LEMMA NextMigrate == TypeOK /\ MigrateInv /\ [Next]_vars => MigrateInv'
<1> SUFFICES ASSUME TypeOK, MigrateInv, [Next]_vars PROVE MigrateInv'
  OBVIOUS
<1> USE DEF Stage, Runner, Serving, Closing, Started, migrations
<1>1. ASSUME NEW i \in Instances, Start(i) \/ Create(i) \/ Note(i) PROVE MigrateInv'
  <2>1. CASE Start(i)
    BY <2>1, MoveMigrate DEF Start
  <2>2. CASE Create(i)
    BY <2>2, MoveMigrate DEF Create
  <2>3. CASE Note(i)
    BY <2>3, MoveMigrate DEF Note
  <2> QED
    BY <1>1, <2>1, <2>2, <2>3
<1>2. ASSUME NEW i \in Instances, ReadApplied(i) PROVE MigrateInv'
  BY <1>2 DEF ReadApplied, Goto, TypeOK, MigrateInv
<1>3. ASSUME NEW i \in Instances, NEW f \in Files, RunSql(i, f) PROVE MigrateInv'
  <2>1. 1 .. (f - 1) \subseteq recorded
    <3>1. SUFFICES ASSUME NEW g \in 1 .. (f - 1) PROVE g \in applied[i]
      BY DEF MigrateInv
    <3>2. f \in Nat /\ g \in Files /\ ~(f <= g)
      BY BoundsAssumption DEF Files
    <3> QED
      BY <1>3, <3>2 DEF RunSql, NextFile, Pending
  <2> QED
    BY <1>3, <2>1 DEF RunSql, Goto, TypeOK, MigrateInv
<1>4. ASSUME NEW i \in Instances, CommitFile(i) PROVE MigrateInv'
  <2>1. /\ applied' \in [Instances -> SUBSET Files]
        /\ \A j \in Instances : applied'[j] \subseteq applied[j] \cup tx[i]
    BY <1>4 DEF CommitFile, TypeOK
  <2> QED
    BY <1>4, <2>1, CommitMigrate DEF CommitFile
<1>5. ASSUME NEW i \in Instances, CommitLost(i) PROVE MigrateInv'
  <2>1. /\ applied' \in [Instances -> SUBSET Files]
        /\ \A j \in Instances : applied'[j] \subseteq applied[j] \cup tx[i]
    BY <1>5 DEF CommitLost, TypeOK
  <2> QED
    BY <1>5, <2>1, CommitMigrate DEF CommitLost
<1>6. ASSUME NEW i \in Instances, Migrated(i) PROVE MigrateInv'
  <2>1. recorded = Files
    BY <1>6 DEF Migrated, Pending, TypeOK, MigrateInv
  <2> QED
    BY <1>6, <2>1, MoveMigrate DEF Migrated
<1>7. ASSUME NEW i \in Instances, NEW s \in Stage, stage[i] \in Started, Goto(i, s),
             UNCHANGED migrations
      PROVE MigrateInv'
  BY <1>7, MoveMigrate DEF MigrateInv
<1>8. ASSUME NEW i \in Instances,
             \/ ConnectPool(i) \/ ConnectRedis(i) \/ Register(i) \/ Stop(i)
             \/ Drained(i) \/ CloseRedis(i) \/ ClosePool(i)
      PROVE MigrateInv'
  <2>1. /\ stage[i] \in Started /\ UNCHANGED migrations
        /\ \E s \in {"connectRedis", "listening", "serving"} \cup Closing : Goto(i, s)
    BY <1>8 DEF ConnectPool, ConnectRedis, Register, Stop, Drained, CloseRedis, ClosePool
  <2> QED
    BY <1>7, <2>1
<1>9. ASSUME UNCHANGED <<migrations, stage>> PROVE MigrateInv'
  BY <1>9 DEF MigrateInv
<1>10. ASSUME NEW i \in Instances,
              \/ CreateLoses(i) \/ MigrationFails(i) \/ StartFails(i) \/ StopEarly(i)
              \/ StopAgain(i) \/ ExitClean(i) \/ CloseFails(i) \/ ForceExit(i) \/ Crash(i)
       PROVE MigrateInv'
  BY <1>10, ExitMigrate DEF CreateLoses, MigrationFails, StartFails, StopEarly, StopAgain,
     ExitClean, CloseFails, ForceExit, Crash
<1>11. ASSUME NEW i \in Instances, RunFile(i) PROVE MigrateInv'
  BY <1>3, <1>11, ExitMigrate DEF RunFile, FileTaken
<1> HIDE DEF Stage, Runner, Serving, Closing, Started, migrations
<1>12. ASSUME NEW i \in Instances, Progress(i) PROVE MigrateInv'
  BY <1>1, <1>2, <1>4, <1>6, <1>8, <1>10, <1>11, <1>12 DEF Progress
<1>13. ASSUME NEW i \in Instances, Tick(i) \/ TickDone(i) \/ Wake(i) PROVE MigrateInv'
  BY <1>9, <1>13 DEF Tick, TickDone, Wake
<1>14. ASSUME NEW c \in Clients, NEW i \in Instances, Arrive(c, i) PROVE MigrateInv'
  BY <1>9, <1>14 DEF Arrive
<1>15. ASSUME NEW c \in Clients, Depart(c) PROVE MigrateInv'
  BY <1>9, <1>15 DEF Depart
<1>16. CASE UNCHANGED vars
  BY <1>9, <1>16 DEF vars
<1> QED
  BY <1>5, <1>8, <1>10, <1>12, <1>13, <1>14, <1>15, <1>16 DEF Next

\* However many runners race, crash or lose a reply, a file is in effect exactly if it
\* is recorded, the files before it are too, and no instance serves or closes before
\* all of them are in effect (src/migrate.ts, docker-entrypoint.sh).
THEOREM MigratedBeforeServing == Spec => []ServesMigrated
<1>1. MigrateInv => ServesMigrated
  BY DEF MigrateInv, ServesMigrated, Started
<1> QED
  BY <1>1, InitType, NextType, InitMigrate, NextMigrate, PTL DEF Spec

----------------------------------------------------------------------------
\* The clients of a process that closes.

\* The stages in which a process may have clients.
Occupied == Serving \cup {"draining"}

\* The clients of a process are gone before the first hook runs, and the connections
\* are all there until then; it exits with their requests unanswered only by the
\* timer or by a kill.
ClientInv ==
    /\ \A c \in Clients : at[c] # None => stage[at[c]] \in Occupied
    /\ \A i \in Instances : stage[i] \in Occupied \cup {"closeRedis"} => open[i] = {"pg", "redis"}
    /\ \A c \in Clients : <<c, "clean">> \notin cut /\ <<c, "error">> \notin cut

\* A process exits with 0, or because something failed, only when it has no client.
LEMMA ExitClient ==
  ASSUME TypeOK, ClientInv, NEW i \in Instances, NEW why \in Causes, Exit(i, why),
         why \in {"clean", "error"} => stage[i] \notin Occupied
  PROVE  ClientInv'
<1> USE NoneAssumption DEF TypeOK, ClientInv, Exit, Goto
<1>1. ASSUME NEW c \in Clients, at'[c] # None PROVE stage'[at'[c]] \in Occupied
  <2>1. at[c] # i /\ at'[c] = at[c] /\ at[c] \in Instances
    BY <1>1
  <2> QED
    BY <1>1, <2>1
<1>2. ASSUME NEW j \in Instances, stage'[j] \in Occupied \cup {"closeRedis"}
      PROVE  open'[j] = {"pg", "redis"}
  BY <1>2 DEF Occupied, Serving
<1>3. ASSUME NEW c \in Clients, NEW x \in {"clean", "error"} PROVE <<c, x>> \notin cut'
  <2>1. <<c, x>> \notin At(i) \X {why}
    BY <1>3 DEF At
  <2> QED
    BY <1>3, <2>1
<1> QED
  BY <1>1, <1>2, <1>3

\* A step between two stages that have no clients and are not about to close.
LEMMA MoveClient ==
  ASSUME TypeOK, ClientInv, NEW i \in Instances, NEW s \in Stage, Goto(i, s),
         stage[i] \notin Occupied, s \notin Occupied \cup {"closeRedis"},
         open' \in [Instances -> SUBSET {"pg", "redis"}],
         \A j \in Instances \ {i} : open'[j] = open[j],
         UNCHANGED <<at, cut>>
  PROVE  ClientInv'
BY NoneAssumption DEF Goto, TypeOK, ClientInv, Occupied, Serving

LEMMA InitClient == Init => ClientInv
BY DEF Init, ClientInv, Occupied, Serving

LEMMA NextClient == TypeOK /\ ClientInv /\ [Next]_vars => ClientInv'
<1> SUFFICES ASSUME TypeOK, ClientInv, [Next]_vars PROVE ClientInv'
  OBVIOUS
<1> USE NoneAssumption DEF Stage, Runner, Serving, Closing, Occupied, Causes, migrations, clients
<1>1. ASSUME NEW i \in Instances, NEW s \in Runner \cup {"connectPool"}, Goto(i, s),
             stage[i] \in Runner \cup {"down"}, UNCHANGED <<open, at, cut>>
      PROVE  ClientInv'
  BY <1>1, MoveClient DEF TypeOK
<1>2. ASSUME NEW i \in Instances,
             Start(i) \/ Create(i) \/ ReadApplied(i) \/ Note(i) \/ CommitFile(i) \/ Migrated(i)
      PROVE  ClientInv'
  <2>1. /\ stage[i] \in Runner \cup {"down"} /\ UNCHANGED <<open, at, cut>>
        /\ \E s \in Runner \cup {"connectPool"} : Goto(i, s)
    BY <1>2 DEF Start, Create, ReadApplied, Note, CommitFile, Migrated
  <2> QED
    BY <1>1, <2>1
<1>3. ASSUME NEW i \in Instances, CommitLost(i) PROVE ClientInv'
  BY <1>3, MoveClient DEF CommitLost, TypeOK
<1>4. ASSUME NEW i \in Instances, RunFile(i) PROVE ClientInv'
  <2>1. PICK f \in Files : RunSql(i, f) \/ FileTaken(i, f)
    BY <1>4 DEF RunFile
  <2>2. CASE RunSql(i, f)
    BY <1>1, <2>2 DEF RunSql
  <2>3. CASE FileTaken(i, f)
    BY <2>3, ExitClient DEF FileTaken
  <2> QED
    BY <2>1, <2>2, <2>3
<1>5. ASSUME NEW i \in Instances, ConnectPool(i) PROVE ClientInv'
  BY <1>5, MoveClient DEF ConnectPool, TypeOK
<1>6. ASSUME NEW i \in Instances, ConnectRedis(i) PROVE ClientInv'
  <2>1. ASSUME NEW c \in Clients, at'[c] # None PROVE stage'[at'[c]] \in Occupied
    BY <1>6, <2>1 DEF ConnectRedis, Goto, TypeOK, ClientInv
  <2>2. ASSUME NEW j \in Instances, stage'[j] \in Occupied \cup {"closeRedis"}
        PROVE  open'[j] = {"pg", "redis"}
    BY <1>6, <2>2 DEF ConnectRedis, Goto, TypeOK, ClientInv
  <2> QED
    BY <1>6, <2>1, <2>2 DEF ConnectRedis, ClientInv
<1>7. ASSUME NEW i \in Instances, Register(i) \/ Stop(i) PROVE ClientInv'
  BY <1>7 DEF Register, Stop, Goto, TypeOK, ClientInv
<1>8. ASSUME NEW i \in Instances, Drained(i) PROVE ClientInv'
  <2>1. \A c \in Clients : at[c] # i
    BY <1>8 DEF Drained, At
  <2>2. ASSUME NEW c \in Clients, at'[c] # None PROVE stage'[at'[c]] \in Occupied
    BY <1>8, <2>1, <2>2 DEF Drained, Goto, TypeOK, ClientInv
  <2> QED
    BY <1>8, <2>2 DEF Drained, Goto, TypeOK, ClientInv
<1>9. ASSUME NEW i \in Instances, CloseRedis(i) \/ ClosePool(i) PROVE ClientInv'
  BY <1>9, MoveClient DEF CloseRedis, ClosePool, TypeOK
<1>10. ASSUME NEW i \in Instances,
              CreateLoses(i) \/ MigrationFails(i) \/ StartFails(i) \/ CloseFails(i) \/ ExitClean(i)
       PROVE  ClientInv'
  BY <1>10, ExitClient DEF CreateLoses, MigrationFails, StartFails, CloseFails, ExitClean
<1>11. ASSUME NEW i \in Instances, StopEarly(i) \/ StopAgain(i) \/ ForceExit(i) \/ Crash(i)
       PROVE  ClientInv'
  BY <1>11, ExitClient DEF StopEarly, StopAgain, ForceExit, Crash
<1>12. ASSUME NEW c \in Clients, NEW i \in Instances, Arrive(c, i) PROVE ClientInv'
  BY <1>12 DEF Arrive, TypeOK, ClientInv
<1>13. ASSUME NEW c \in Clients, Depart(c) PROVE ClientInv'
  BY <1>13 DEF Depart, TypeOK, ClientInv
<1>14. ASSUME UNCHANGED <<stage, open, at, cut>> PROVE ClientInv'
  BY <1>14 DEF ClientInv
<1> HIDE DEF Stage, Runner, Serving, Closing, Occupied, Causes, migrations, clients
<1>15. ASSUME NEW i \in Instances, Tick(i) \/ TickDone(i) \/ Wake(i) PROVE ClientInv'
  BY <1>14, <1>15 DEF Tick, TickDone, Wake, clients
<1>16. CASE UNCHANGED vars
  BY <1>14, <1>16 DEF vars, clients
<1>17. ASSUME NEW i \in Instances, Progress(i) PROVE ClientInv'
  BY <1>2, <1>4, <1>5, <1>6, <1>7, <1>8, <1>9, <1>10, <1>11, <1>17 DEF Progress
<1> QED
  BY <1>3, <1>7, <1>10, <1>11, <1>12, <1>13, <1>15, <1>16, <1>17 DEF Next

\* A request or a socket that a process has keeps the connections it needs, and a close
\* that runs to its end or fails in a hook cuts nobody off, with any number of clients
\* and however often processes are stopped, crash and start again (the order of
\* app.close() in src/shared/shutdown.ts).
THEOREM ClientsSpared == Spec => []CloseSparesClients
<1>1. TypeOK /\ ClientInv => CloseSparesClients
  BY DEF TypeOK, ClientInv, CloseSparesClients
<1> QED
  BY <1>1, InitType, NextType, InitClient, NextClient, PTL DEF Spec
=============================================================================
