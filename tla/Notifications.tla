---------------------------- MODULE Notifications ----------------------------
(***************************************************************************)
(* The notification feed (src/modules/notifications): a handler of friends *)
(* or matchmaking starts an INSERT it does not wait for and emits          *)
(* notification:new when it is answered; the user lists the feed page by   *)
(* page, newest first, all of it or the unread part, and marks             *)
(* notifications as read.                                                  *)
(*                                                                         *)
(* created_at is NOW() of an INSERT, the time it starts, so the feed is    *)
(* ordered by the starts and a notification may appear below newer ones.   *)
(* Two INSERTs do not start in the same microsecond.  The COUNT beside a   *)
(* page changes nothing and no code under src/ pages by it: the reader     *)
(* goes on until a page is short.                                          *)
(***************************************************************************)
EXTENDS Naturals, FiniteSets, Sequences

CONSTANTS
    Notes,     \* notifications to create
    Marks,     \* POST /notifications/read
    Readers,   \* clients that list the feed from its first page to its last
    Users,
    Limit,     \* length of a page
    MaxFaults  \* bound: INSERTs that fail, crashes between INSERT and event

VARIABLES
    pc,
    owner,    \* owner[o]: whose note, mark or reader it is
    started,  \* notes in the order of created_at, not all committed
    rows,     \* committed rows
    read,     \* rows with read = TRUE
    told,     \* notes whose event the user has received
    unread,   \* unread[r]: unreadOnly of reader r
    pages,    \* pages[r]: pages that reader r has fetched
    seen,     \* seen[r]: notes they contained
    begun,    \* history: begun[r]: notes the user knew of when r began
    marked,   \* history: readers of the unread part that a mark of the user overlapped
    faults

table == <<started, rows, read, told>>
reads == <<pages, seen, begun, marked>>
vars  == <<pc, owner, table, unread, reads, faults>>

NoteStage   == {"idle", "inserting", "stored", "told", "failed"}
ReaderStage == {"idle", "reading", "done"}
MarkStage   == {"idle", "done"}

TypeOK ==
    /\ pc \in [Notes \cup Marks \cup Readers -> NoteStage \cup ReaderStage \cup MarkStage]
    /\ \A n \in Notes : pc[n] \in NoteStage
    /\ \A m \in Marks : pc[m] \in MarkStage
    /\ \A r \in Readers : pc[r] \in ReaderStage
    /\ owner \in [Notes \cup Marks \cup Readers -> Users] /\ unread \in [Readers -> BOOLEAN]
    /\ started \in Seq(Notes) /\ \A i \in DOMAIN started : pc[started[i]] # "idle"
    /\ rows \in SUBSET Notes /\ read \in SUBSET rows /\ told \in SUBSET Notes
    /\ pages \in [Readers -> Nat]
    /\ seen \in [Readers -> SUBSET rows] /\ begun \in [Readers -> SUBSET told]
    /\ marked \in SUBSET Readers /\ faults \in 0 .. MaxFaults

Init ==
    /\ pc = [o \in Notes \cup Marks \cup Readers |-> "idle"]
    /\ owner \in [Notes \cup Marks \cup Readers -> Users]
    /\ unread \in [Readers -> BOOLEAN]
    /\ started = <<>> /\ rows = {} /\ read = {} /\ told = {}
    /\ pages = [r \in Readers |-> 0] /\ seen = [r \in Readers |-> {}]
    /\ begun = [r \in Readers |-> {}] /\ marked = {} /\ faults = 0

Goto(o, s) == pc' = [pc EXCEPT ![o] = s]

Fault == faults < MaxFaults /\ faults' = faults + 1

----------------------------------------------------------------------------
\* create: the INSERT starts and takes its created_at.
Begin(n) ==
    /\ pc[n] = "idle"
    /\ started' = Append(started, n)
    /\ Goto(n, "inserting")
    /\ UNCHANGED <<owner, rows, read, told, unread, reads, faults>>

\* Its row is committed.
Store(n) ==
    /\ pc[n] = "inserting"
    /\ rows' = rows \cup {n}
    /\ Goto(n, "stored")
    /\ UNCHANGED <<owner, started, read, told, unread, reads, faults>>

\* Mutant: the event is emitted without waiting for the INSERT.
Tell_NoAwait(n) ==
    /\ pc[n] \in {"inserting", "stored"}
    /\ told' = told \cup {n}
    /\ UNCHANGED <<pc, owner, started, rows, read, unread, reads, faults>>

\* notification:new reaches the user's room.
Tell(n) ==
    /\ pc[n] = "stored"
    /\ told' = told \cup {n}
    /\ Goto(n, "told")
    /\ UNCHANGED <<owner, started, rows, read, unread, reads, faults>>

\* The INSERT fails, or its reply or the instance is lost: the error is logged.
CreateFails(n) ==
    /\ pc[n] \in {"inserting", "stored"}
    /\ Fault
    /\ Goto(n, "failed")
    /\ UNCHANGED <<owner, table, unread, reads>>

\* markRead: the ids may be of any notes, the UPDATE takes the user's own.
Mark(m, ids) ==
    /\ pc[m] = "idle"
    /\ read' = read \cup {n \in ids \cap rows : owner[n] = owner[m]}
    /\ marked' = marked \cup {r \in Readers : /\ pc[r] = "reading" /\ unread[r]
                                              /\ owner[r] = owner[m]}
    /\ Goto(m, "done")
    /\ UNCHANGED <<owner, started, rows, told, unread, pages, seen, begun, faults>>

\* WHERE user_id = $1 AND (NOT $2 OR read = FALSE).
Feed(r) == {n \in rows : owner[n] = owner[r] /\ (unread[r] => n \notin read)}

\* ORDER BY created_at DESC: m stands at or before n.
NotOlder(m, n) == \E i, j \in DOMAIN started : started[i] = m /\ started[j] = n /\ j <= i

\* The place of n in the feed, from 1.
Place(r, n) == Cardinality({m \in Feed(r) : NotOlder(m, n)})

\* Mutant: the first page is number 0.
Offset_FromZero(k) == k * Limit

\* OFFSET of page k.
Offset(k) == (k - 1) * Limit

\* The rows of page k: LIMIT from OFFSET on.
Page(r, k) == {n \in Feed(r) : Offset(k) < Place(r, n) /\ Place(r, n) <= Offset(k) + Limit}

\* The reader begins, knowing the events it has received and what it was shown.
StartReading(r) ==
    /\ pc[r] = "idle"
    /\ begun' = [begun EXCEPT ![r] = {n \in told : owner[n] = owner[r] /\ (unread[r] => n \notin read)}]
    /\ Goto(r, "reading")
    /\ UNCHANGED <<owner, table, unread, pages, seen, marked, faults>>

\* GET /notifications of the next page.
Fetch(r) ==
    /\ pc[r] = "reading"
    /\ pages' = [pages EXCEPT ![r] = @ + 1]
    /\ seen' = [seen EXCEPT ![r] = @ \cup Page(r, pages[r] + 1)]
    /\ Goto(r, IF Cardinality(Page(r, pages[r] + 1)) < Limit THEN "done" ELSE "reading")
    /\ UNCHANGED <<owner, table, unread, begun, marked, faults>>

Next ==
    \/ \E n \in Notes : Begin(n) \/ Store(n) \/ Tell(n) \/ CreateFails(n)
    \/ \E m \in Marks : \E ids \in SUBSET Notes : Mark(m, ids)
    \/ \E r \in Readers : StartReading(r) \/ Fetch(r)

Spec == Init /\ [][Next]_vars

----------------------------------------------------------------------------
\* Properties.

\* Who pages through the feed finds every notification whose event they had received:
\* those that arrive meanwhile, in any order, move the pages and may repeat one, but
\* hide none.  Only marking as read between two pages of the unread part hides some.
NothingHidden ==
    \A r \in Readers : pc[r] = "done" /\ r \notin marked => begun[r] \subseteq seen[r]
=============================================================================
