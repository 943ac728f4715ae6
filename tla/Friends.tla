------------------------------ MODULE Friends ------------------------------
(***************************************************************************)
(* Friend requests and friendships: POST /friends/request, /accept and     *)
(* /reject and DELETE /friends/:friendId (src/src/modules/friends) over    *)
(* the tables friend_requests and friendships.                             *)
(*                                                                         *)
(* PostgreSQL runs at READ COMMITTED: every statement is a step that sees  *)
(* the rows committed when it starts.  An UPDATE or DELETE then waits for  *)
(* the transaction that has written its row, and an INSERT ... ON CONFLICT *)
(* DO NOTHING for the one that is inserting or deleting its key.           *)
(*                                                                         *)
(* A request row is named by (sender, receiver), which is UNIQUE and kept  *)
(* when the row is reactivated.  A friendship row remembers the accept     *)
(* that inserted it, so that a row inserted again is another row.          *)
(*                                                                         *)
(* The notification that a send or an accept issues before it answers is   *)
(* not awaited and touches neither table: it belongs to Notifications.     *)
(***************************************************************************)
EXTENDS Naturals, FiniteSets

CONSTANTS
    Users,
    Sends, Accepts, Rejects, Removes,  \* the requests of the clients
    MaxFaults                          \* bound: statements and replies that fail

ASSUME OpsAssumption ==
    /\ IsFiniteSet(Sends) /\ IsFiniteSet(Rejects)
    /\ Sends \cap (Accepts \cup Rejects \cup Removes) = {}
    /\ Accepts \cap (Rejects \cup Removes) = {}
    /\ Rejects \cap Removes = {}
ASSUME FaultsAssumption == MaxFaults \in Nat

Ops  == Sends \cup Accepts \cup Rejects \cup Removes
Txns == Accepts \cup Removes   \* the multi-statement transactions

\* (from, to) of two different users: friend_requests_no_self, and the service's checks.
Pairs  == {p \in Users \X Users : p[1] # p[2]}
Rev(p) == <<p[2], p[1]>>
Couple(p) == {p, Rev(p)}

VARIABLES
    pair,      \* pair[o]: (sender, receiver), or (user, friend) of a removal
    pc,        \* where each handler is
    status,    \* status[p]: of the committed request row p, "none" without one
    rows,      \* committed friendships
    adding,    \* adding[a]: friendships that accept a inserted and not committed
    victims,   \* victims[d]: row that the current DELETE of d found and has not reached
    deleting,  \* deleting[d]: rows that removal d deleted and not committed
    undercut,    \* history: accepts that were inserting when a removal of the couple committed
    unfriended,  \* history: couples (as pairs) that a removal committed for and no accept since
    clashed,     \* history: couples for which a removal and an accept overlapped
    faults       \* failures so far

locks == <<adding, victims, deleting>>
past  == <<undercut, unfriended, clashed>>
vars  == <<pair, pc, status, rows, adding, victims, deleting, undercut, unfriended, clashed, faults>>

SendStage   == {"idle", "check", "create", "sent", "lost", "refused", "failed"}
AcceptStage == {"idle", "update", "first", "second", "commit", "done", "lost", "denied", "failed"}
RejectStage == {"idle", "update", "done", "lost", "denied", "failed"}
RemoveStage == {"idle", "delete1", "delete2", "removed", "missing", "lost", "failed"}

Friendship == [key : Pairs, by : Accepts]
Keys == {r.key : r \in rows}

TypeOK ==
    /\ pair \in [Ops -> Pairs]
    /\ pc \in [Ops -> SendStage \cup AcceptStage \cup RejectStage \cup RemoveStage]
    /\ \A s \in Sends : pc[s] \in SendStage
    /\ \A a \in Accepts : pc[a] \in AcceptStage
    /\ \A r \in Rejects : pc[r] \in RejectStage
    /\ \A d \in Removes : pc[d] \in RemoveStage
    /\ status \in [Pairs -> {"none", "pending", "accepted", "rejected"}]
    /\ rows \in SUBSET Friendship
    /\ adding \in [Accepts -> SUBSET Friendship]
    /\ victims \in [Removes -> SUBSET Friendship]
    /\ deleting \in [Removes -> SUBSET Friendship]
    /\ undercut \in SUBSET Accepts /\ unfriended \in SUBSET Pairs /\ clashed \in SUBSET Pairs
    /\ faults \in Nat

Init ==
    /\ pair \in [Ops -> Pairs]
    /\ pc = [o \in Ops |-> "idle"]
    /\ status = [p \in Pairs |-> "none"]
    /\ rows = {}
    /\ adding = [a \in Accepts |-> {}]
    /\ victims = [d \in Removes |-> {}] /\ deleting = [d \in Removes |-> {}]
    /\ undercut = {} /\ unfriended = {} /\ clashed = {}
    /\ faults = 0

Goto(o, stage) == pc' = [pc EXCEPT ![o] = stage]
Fault == faults < MaxFaults /\ faults' = faults + 1

\* The operation succeeds at its reply, or succeeds and the reply is lost.
Answer(o, stage) == Goto(o, stage) /\ UNCHANGED faults
Lose(o) == Goto(o, "lost") /\ Fault

\* An accept holds the lock of its request row from its UPDATE to its end.
Holding(a) == pc[a] \in {"first", "second", "commit"}
RequestLocked(p) == \E a \in Accepts : pair[a] = p /\ Holding(a)

----------------------------------------------------------------------------
\* POST /friends/request.

\* isFriends
CheckFriends(s) ==
    /\ pc[s] = "idle"
    /\ Goto(s, IF pair[s] \in Keys THEN "refused" ELSE "check")
    /\ UNCHANGED <<pair, status, rows, locks, past, faults>>

\* findPendingBetween, in either direction
CheckPending(s) ==
    /\ pc[s] = "check"
    /\ Goto(s, IF \E p \in Couple(pair[s]) : status[p] = "pending" THEN "refused" ELSE "create")
    /\ UNCHANGED <<pair, status, rows, locks, past, faults>>

\* Mutant: DO UPDATE without its WHERE.
Creatable_Any(p) == TRUE

\* The INSERT finds no row, or DO UPDATE finds a rejected one.
Creatable(p) == status[p] \in {"none", "rejected"}

\* createRequest waits for the row and inserts or reactivates it.
Create(s) ==
    /\ pc[s] = "create"
    /\ ~RequestLocked(pair[s])
    /\ Creatable(pair[s])
    /\ status' = [status EXCEPT ![pair[s]] = "pending"]
    /\ Answer(s, "sent") \/ Lose(s)
    /\ UNCHANGED <<pair, rows, locks, past>>

\* createRequest returns null: 409.
Refuse(s) ==
    /\ pc[s] = "create"
    /\ ~RequestLocked(pair[s])
    /\ ~Creatable(pair[s])
    /\ Goto(s, "refused")
    /\ UNCHANGED <<pair, status, rows, locks, past, faults>>

----------------------------------------------------------------------------
\* POST /friends/accept and /friends/reject.

\* Mutant: a pending request in either direction.
Open_Between(p) == \E q \in Couple(p) : status[q] = "pending"

Open(p) == status[p] = "pending"

\* findPendingForReceiver
FindPending(o) ==
    /\ pc[o] = "idle"
    /\ Goto(o, IF Open(pair[o]) THEN "update" ELSE "denied")
    /\ UNCHANGED <<pair, status, rows, locks, past, faults>>

\* Mutant: no BEGIN, so the UPDATE commits by itself.
MarkAccepted_AutoCommit(a) ==
    /\ pc[a] = "update"
    /\ ~RequestLocked(pair[a])
    /\ status' = [status EXCEPT ![pair[a]] = "accepted"]
    /\ Goto(a, "first")
    /\ UNCHANGED <<pair, rows, locks, past, faults>>

\* BEGIN, and the UPDATE by id: whatever the status has become meanwhile.
MarkAccepted(a) ==
    /\ pc[a] = "update"
    /\ ~RequestLocked(pair[a])
    /\ Goto(a, "first")
    /\ UNCHANGED <<pair, status, rows, locks, past, faults>>

\* t is inserting or deleting the friendship with key k.
Writes(t, k) ==
    \/ t \in Accepts /\ \E r \in adding[t] : r.key = k
    \/ t \in Removes /\ \E r \in deleting[t] : r.key = k

\* One tuple of INSERT ... ON CONFLICT DO NOTHING.
InsertKey(a, k) ==
    /\ \A t \in Txns \ {a} : ~Writes(t, k)
    /\ adding' = [adding EXCEPT ![a] = @ \cup (IF k \in Keys THEN {} ELSE {[key |-> k, by |-> a]})]

InsertFirst(a) ==
    /\ pc[a] = "first"
    /\ InsertKey(a, pair[a])
    /\ Goto(a, "second")
    /\ UNCHANGED <<pair, status, rows, victims, deleting, past, faults>>

InsertSecond(a) ==
    /\ pc[a] = "second"
    /\ InsertKey(a, Rev(pair[a]))
    /\ Goto(a, "commit")
    /\ UNCHANGED <<pair, status, rows, victims, deleting, past, faults>>

\* A removal of the same two users is in its transaction.
Removing(p) == \E d \in Removes : pair[d] \in Couple(p) /\ pc[d] \in {"delete1", "delete2"}

\* Mutant: only the first tuple is inserted.
Befriend_OneWay(a) == rows' = rows \cup {r \in adding[a] : r.key = pair[a]}

Befriend(a) == rows' = rows \cup adding[a]

\* COMMIT.
CommitAccept(a) ==
    /\ pc[a] = "commit"
    /\ status' = [status EXCEPT ![pair[a]] = "accepted"]
    /\ Befriend(a)
    /\ adding' = [adding EXCEPT ![a] = {}]
    /\ unfriended' = IF a \in undercut THEN unfriended ELSE unfriended \ Couple(pair[a])
    /\ clashed' = clashed \cup (IF Removing(pair[a]) THEN Couple(pair[a]) ELSE {})
    /\ Answer(a, "done") \/ Lose(a)
    /\ UNCHANGED <<pair, victims, deleting, undercut>>

\* Mutant: a status that the table does not know.
Reject_Declined(r) ==
    /\ pc[r] = "update"
    /\ ~RequestLocked(pair[r])
    /\ status' = [status EXCEPT ![pair[r]] = "declined"]
    /\ Answer(r, "done") \/ Lose(r)
    /\ UNCHANGED <<pair, rows, locks, past>>

\* rejectRequest: one UPDATE by id, whatever the status has become meanwhile.
Reject(r) ==
    /\ pc[r] = "update"
    /\ ~RequestLocked(pair[r])
    /\ status' = [status EXCEPT ![pair[r]] = "rejected"]
    /\ Answer(r, "done") \/ Lose(r)
    /\ UNCHANGED <<pair, rows, locks, past>>

----------------------------------------------------------------------------
\* DELETE /friends/:friendId.

\* A DELETE finds the committed row with key k, if there is one.
FindRow(d, k) == victims' = [victims EXCEPT ![d] = {r \in rows \ deleting[d] : r.key = k}]

\* BEGIN and the first DELETE.
BeginRemove(d) ==
    /\ pc[d] = "idle"
    /\ FindRow(d, pair[d])
    /\ Goto(d, "delete1")
    /\ UNCHANGED <<pair, status, rows, adding, deleting, past, faults>>

\* It deletes the row, or finds that another removal did and committed.
DeleteRow(d) ==
    /\ \E r \in victims[d] :
        /\ \A e \in Removes : r \notin deleting[e]
        /\ deleting' = [deleting EXCEPT ![d] = @ \cup ({r} \cap rows)]
    /\ victims' = [victims EXCEPT ![d] = {}]
    /\ UNCHANGED <<pair, pc, status, rows, adding, past, faults>>

\* The second DELETE.
DeleteReverse(d) ==
    /\ pc[d] = "delete1" /\ victims[d] = {}
    /\ FindRow(d, Rev(pair[d]))
    /\ Goto(d, "delete2")
    /\ UNCHANGED <<pair, status, rows, adding, deleting, past, faults>>

\* The accepts of the same two users that are inserting.
Accepting(p) == {a \in Accepts : pair[a] \in Couple(p) /\ pc[a] \in {"second", "commit"}}

\* COMMIT: 204 if the first DELETE deleted its row, else 404.
CommitRemove(d) ==
    /\ pc[d] = "delete2" /\ victims[d] = {}
    /\ rows' = rows \ deleting[d]
    /\ deleting' = [deleting EXCEPT ![d] = {}]
    /\ undercut' = undercut \cup Accepting(pair[d])
    /\ unfriended' = unfriended \cup Couple(pair[d])
    /\ clashed' = clashed \cup (IF Accepting(pair[d]) # {} THEN Couple(pair[d]) ELSE {})
    /\ \/ Answer(d, IF Writes(d, pair[d]) THEN "removed" ELSE "missing")
       \/ Lose(d)
    /\ UNCHANGED <<pair, status, adding, victims>>

----------------------------------------------------------------------------
\* Failures.

\* Transactions that wait for one another; deadlock_timeout aborts one.
WaitsFor(t, u) ==
    /\ t # u
    /\ \/ t \in Accepts /\ pc[t] = "first" /\ Writes(u, pair[t])
       \/ t \in Accepts /\ pc[t] = "second" /\ Writes(u, Rev(pair[t]))
       \/ t \in Removes /\ u \in Removes /\ victims[t] \cap deleting[u] # {}
Deadlocked(t) ==
    \E C \in SUBSET Txns :
        /\ t \in C
        /\ \A u \in C : (\E v \in C : WaitsFor(u, v)) /\ (\E v \in C : WaitsFor(v, u))

\* Mutant: the transaction stays open.
AbortAccept_Leaks(a) ==
    /\ pc[a] \in {"update", "first", "second", "commit"}
    /\ Fault \/ (Deadlocked(a) /\ UNCHANGED faults)
    /\ Goto(a, "failed")
    /\ UNCHANGED <<pair, status, rows, locks, past>>

\* A statement fails, the instance dies or PostgreSQL breaks a deadlock: ROLLBACK, 500.
AbortAccept(a) ==
    /\ pc[a] \in {"update", "first", "second", "commit"}
    /\ Fault \/ (Deadlocked(a) /\ UNCHANGED faults)
    /\ adding' = [adding EXCEPT ![a] = {}]
    /\ Goto(a, "failed")
    /\ UNCHANGED <<pair, status, rows, victims, deleting, past>>

AbortRemove(d) ==
    /\ pc[d] \in {"delete1", "delete2"}
    /\ Fault \/ (Deadlocked(d) /\ UNCHANGED faults)
    /\ victims' = [victims EXCEPT ![d] = {}]
    /\ deleting' = [deleting EXCEPT ![d] = {}]
    /\ Goto(d, "failed")
    /\ UNCHANGED <<pair, status, rows, adding, past>>

\* A single statement fails without an effect.
Fail(o) ==
    /\ \/ o \in Sends /\ pc[o] \in {"check", "create"}
       \/ o \in Rejects /\ pc[o] = "update"
    /\ Fault
    /\ Goto(o, "failed")
    /\ UNCHANGED <<pair, status, rows, locks, past>>

----------------------------------------------------------------------------
SendRuns(s)   == CheckPending(s) \/ Create(s) \/ Refuse(s)
AcceptRuns(a) == MarkAccepted(a) \/ InsertFirst(a) \/ InsertSecond(a) \/ CommitAccept(a)
RemoveRuns(d) == DeleteRow(d) \/ DeleteReverse(d) \/ CommitRemove(d)

Next ==
    \/ \E s \in Sends : CheckFriends(s) \/ SendRuns(s)
    \/ \E a \in Accepts : AcceptRuns(a) \/ AbortAccept(a)
    \/ \E r \in Rejects : Reject(r)
    \/ \E o \in Accepts \cup Rejects : FindPending(o)
    \/ \E d \in Removes : BeginRemove(d) \/ RemoveRuns(d) \/ AbortRemove(d)
    \/ \E o \in Ops : Fail(o)

Spec == Init /\ [][Next]_vars

\* A transaction that began runs on.  Waiting for a row is fair: its waiters are
\* queued.  PostgreSQL aborts a member of a deadlock.
TxnRuns(o) ==
    \/ o \in Accepts /\ AcceptRuns(o)
    \/ o \in Accepts /\ Deadlocked(o) /\ AbortAccept(o)
    \/ o \in Removes /\ RemoveRuns(o)
    \/ o \in Removes /\ Deadlocked(o) /\ AbortRemove(o)

Fairness == \A o \in Accepts \cup Removes : SF_vars(TxnRuns(o))

FairSpec == Spec /\ Fairness

----------------------------------------------------------------------------
\* Properties.

\* A couple for which no removal overlapped an accept is stored both ways or not
\* at all, whatever crossing requests, double accepts and opposite removals do.
SymmetricWithoutRace ==
    \A k \in Pairs : k \notin clashed => (k \in Keys <=> Rev(k) \in Keys)

\* "Both (A,B) and (B,A) rows are stored."
Symmetric == \A k \in Pairs : k \in Keys => Rev(k) \in Keys

\* acceptAndCreateFriendship is atomic: a request that reads accepted has both
\* friendship rows, unless a removal of the two users has committed and no accept of
\* them has since begun to insert and committed.
AcceptedAreFriends ==
    \A p \in Pairs : status[p] = "accepted" /\ p \notin unfriended => Couple(p) \subseteq Keys

\* Nobody becomes a friend of a user who neither sent them a request nor
\* received one from them, and every friendship was accepted by the receiver of
\* a request that had been sent.
FriendsConsented ==
    \A r \in rows : /\ r.key \in Couple(pair[r.by])
                    /\ \E s \in Sends : pair[s] = pair[r.by] /\ pc[s] \in {"sent", "lost"}

\* Duplicate sends: at most one more POST /friends/request succeeds for a pair
\* than the receiver's rejections reopened, however the sends race.
SendsAccounted ==
    \A p \in Pairs :
        Cardinality({s \in Sends : pair[s] = p /\ pc[s] \in {"sent", "lost"}})
            <= 1 + Cardinality({r \in Rejects : pair[r] = p /\ pc[r] \in {"done", "lost"}})

\* The transaction of an accept or a removal is open.
InTransaction(o) ==
    \/ o \in Accepts /\ pc[o] \in {"update", "first", "second", "commit"}
    \/ o \in Removes /\ pc[o] \in {"delete1", "delete2"}
=============================================================================
