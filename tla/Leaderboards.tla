---------------------------- MODULE Leaderboards ----------------------------
(***************************************************************************)
(* Leaderboards (src/modules/leaderboards): creation, submitting a score,  *)
(* the rank that is read after it, and the paginated rankings.             *)
(*                                                                         *)
(* Each handler runs several statements, each with a snapshot of its own,  *)
(* while other instances submit.  A board is named by the request that     *)
(* creates it.                                                             *)
(***************************************************************************)
EXTENDS Integers, FiniteSets

CONSTANTS
    Boards,    \* POST /leaderboards: all of one name
    Players,
    Submits,   \* POST /leaderboards/:id/submit
    Listings,  \* GET /leaderboards/:id, first page
    Scores,    \* integers from 0
    Limit,     \* length of a page
    MaxFaults  \* bound: statements that fail, and replies that are lost

Requests == Boards \cup Submits \cup Listings

NoScore == -1

VARIABLES
    pc,
    board, player, score,  \* of each submit or listing
    created,  \* committed rows of leaderboards
    best,     \* best[b][p]: the score in leaderboard_scores, or NoScore
    answer,   \* answer[s]: [score, rank] read after the upsert
    page,     \* page[g]: players in the entries a listing read
    total,    \* total[g]: its COUNT(*)
    begun,    \* history: begun[g]: the scores of its board when the listing began
    faults

input == <<board, player, score>>
vars  == <<pc, input, created, best, answer, page, total, begun, faults>>

SubmitStage  == {"idle", "upsert", "rank", "done", "lost", "missing", "failed"}
ListingStage == {"idle", "queries", "paged", "counted", "done", "missing", "failed"}
BoardStage   == {"idle", "created", "conflict", "failed"}

TypeOK ==
    /\ pc \in [Requests -> SubmitStage \cup ListingStage \cup BoardStage]
    /\ \A b \in Boards : pc[b] \in BoardStage
    /\ \A s \in Submits : pc[s] \in SubmitStage
    /\ \A g \in Listings : pc[g] \in ListingStage
    /\ board \in [Submits \cup Listings -> Boards] /\ player \in [Submits -> Players]
    /\ score \in [Submits -> Scores] /\ created \in SUBSET Boards
    /\ best \in [Boards -> [Players -> Scores \cup {NoScore}]]
    /\ answer \in [Submits -> [score : Scores \cup {NoScore}, rank : Nat]]
    /\ \A s \in Submits : pc[s] = "done" => answer[s].score \in Scores /\ answer[s].rank # 0
    /\ page \in [Listings -> SUBSET Players] /\ total \in [Listings -> Nat]
    /\ begun \in [Listings -> [Players -> Scores \cup {NoScore}]]
    /\ faults \in 0 .. MaxFaults

Init ==
    /\ pc = [o \in Requests |-> "idle"]
    /\ board \in [Submits \cup Listings -> Boards]
    /\ player \in [Submits -> Players] /\ score \in [Submits -> Scores]
    /\ created = {} /\ best = [b \in Boards |-> [p \in Players |-> NoScore]]
    /\ answer = [s \in Submits |-> [score |-> NoScore, rank |-> 0]]
    /\ page = [g \in Listings |-> {}] /\ total = [g \in Listings |-> 0]
    /\ begun = [g \in Listings |-> [p \in Players |-> NoScore]]
    /\ faults = 0

Goto(o, s) == pc' = [pc EXCEPT ![o] = s]

Fault == faults < MaxFaults /\ faults' = faults + 1

Entries(b)  == {p \in Players : best[b][p] # NoScore}
Above(b, x) == Cardinality({p \in Players : best[b][p] > x})

\* Mutant: ranks count from 0.
Rank_FromZero(b, x) == Above(b, x)

\* RANK() of an entry with score x.
Rank(b, x) == 1 + Above(b, x)

----------------------------------------------------------------------------
\* INSERT INTO leaderboards; 23505 becomes a 409.
Create(b) ==
    /\ pc[b] = "idle"
    /\ IF created = {} THEN created' = {b} /\ Goto(b, "created")
                       ELSE UNCHANGED created /\ Goto(b, "conflict")
    /\ UNCHANGED <<input, best, answer, page, total, begun, faults>>

\* findById, in every handler.
Find(o, s) ==
    /\ pc[o] = "idle"
    /\ Goto(o, IF board[o] \in created THEN s ELSE "missing")
    /\ begun' = [g \in Listings |-> IF g = o THEN best[board[g]] ELSE begun[g]]
    /\ UNCHANGED <<input, created, best, answer, page, total, faults>>

\* Mutant: the last score is kept instead of the best.
Better_Last(old, new) == new

\* GREATEST; there is nothing to compare for a new row.
Better(old, new) == IF old > new THEN old ELSE new

\* The upsert.  A concurrent one of the same player is waited for and its row read
\* again, so the comparison is with the latest score.  Its reply may be lost.
Upsert(s) ==
    /\ pc[s] = "upsert"
    /\ best' = [best EXCEPT ![board[s]][player[s]] = Better(@, score[s])]
    /\ \/ Goto(s, "rank") /\ UNCHANGED faults
       \/ Goto(s, "lost") /\ Fault
    /\ UNCHANGED <<input, created, answer, page, total, begun>>

\* getPlayerRank after the upsert, a statement of its own.
ReadRank(s) ==
    /\ pc[s] = "rank"
    /\ LET x == best[board[s]][player[s]]
       IN answer' = [answer EXCEPT ![s] = [score |-> x, rank |-> Rank(board[s], x)]]
    /\ Goto(s, "done")
    /\ UNCHANGED <<input, created, best, page, total, begun, faults>>

\* The two queries of getRankings run in parallel on two connections: either may see
\* the earlier snapshot.  ORDER BY score leaves the order of ties open.
Queried(g, mine, other) ==
    \/ pc[g] = "queries" /\ Goto(g, mine)
    \/ pc[g] = other /\ Goto(g, "done")

\* Mutant: the page is ordered by ascending score.
Page_Ascending(b) ==
    {S \in SUBSET Entries(b) :
        /\ Cardinality(S) = IF Cardinality(Entries(b)) < Limit THEN Cardinality(Entries(b)) ELSE Limit
        /\ \A p \in S, q \in Entries(b) \ S : best[b][p] <= best[b][q]}

Page(b) ==
    {S \in SUBSET Entries(b) :
        /\ Cardinality(S) = IF Cardinality(Entries(b)) < Limit THEN Cardinality(Entries(b)) ELSE Limit
        /\ \A p \in S, q \in Entries(b) \ S : best[b][p] >= best[b][q]}

ReadPage(g) ==
    /\ Queried(g, "paged", "counted")
    /\ \E S \in Page(board[g]) : page' = [page EXCEPT ![g] = S]
    /\ UNCHANGED <<input, created, best, answer, total, begun, faults>>

Count(g) ==
    /\ Queried(g, "counted", "paged")
    /\ total' = [total EXCEPT ![g] = Cardinality(Entries(board[g]))]
    /\ UNCHANGED <<input, created, best, answer, page, begun, faults>>

\* A statement fails: 500.
Fails(o) ==
    /\ pc[o] \in {"idle", "upsert", "rank", "queries", "paged", "counted"}
    /\ Fault
    /\ Goto(o, IF pc[o] = "rank" THEN "lost" ELSE "failed")
    /\ UNCHANGED <<input, created, best, answer, page, total, begun>>

Next ==
    \/ \E b \in Boards : Create(b)
    \/ \E s \in Submits : Find(s, "upsert") \/ Upsert(s) \/ ReadRank(s)
    \/ \E g \in Listings : Find(g, "queries") \/ ReadPage(g) \/ Count(g)
    \/ \E o \in Requests : Fails(o)

Spec == Init /\ [][Next]_vars

----------------------------------------------------------------------------
\* Properties.

\* Submits whose upsert has run.
Applied(b, p) ==
    {s \in Submits : board[s] = b /\ player[s] = p /\ pc[s] \in {"rank", "done", "lost"}}

\* "Only the best (highest) score is kept": a player's entry is the best of the
\* scores whose upsert ran, in any order, answered or not, and there is none without.
BestKept ==
    \A b \in Boards, p \in Players :
        /\ \A s \in Applied(b, p) : best[b][p] >= score[s]
        /\ best[b][p] # NoScore => \E s \in Applied(b, p) : best[b][p] = score[s]

\* The answer to a submit is read later than its upsert: it never shows less than was
\* submitted, nor more than is stored, and a rank never worse than the one the stored
\* scores give the answered score.
AnswersHold ==
    \A s \in Submits : pc[s] = "done" =>
        /\ score[s] <= answer[s].score /\ answer[s].score <= best[board[s]][player[s]]
        /\ answer[s].rank <= Rank(board[s], answer[s].score)

\* A first page and its total come from two snapshots, yet no player who had a score
\* when the listing began is missing without cause: the total counts all of them, and
\* one who is not on the page is displaced by a full page of scores as good as theirs.
ListingsHold ==
    \A g \in Listings : pc[g] = "done" =>
        LET known == {p \in Players : begun[g][p] # NoScore} IN
        /\ Cardinality(known) <= total[g] /\ total[g] <= Cardinality(Entries(board[g]))
        /\ \A p \in known \ page[g] :
            /\ Cardinality(page[g]) = Limit
            /\ \A q \in page[g] : best[board[g]][q] >= begun[g][p]
=============================================================================
