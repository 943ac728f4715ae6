--------------------------- MODULE RecordsProofs ---------------------------
(***************************************************************************)
(* What TLAPS proves about Accounts and Leaderboards, in the composition   *)
(* that the run of MCRecords checks, and about the part of it that is the  *)
(* dashboard, from DashboardProofs: for any sets of requests, accounts,    *)
(* scores and tabs, any length of a page and any number of faults, and for *)
(* leaderboards any finite set of players.                                 *)
(***************************************************************************)
EXTENDS MCRecords, DashboardProofs, FiniteSetTheorems

----------------------------------------------------------------------------
\* The dashboard moves as Dashboard says.

DashboardInv ==
    active = "dashboard" => TypeOK /\ SecretInv /\ StoredIsCurrent /\ SoloInv /\ KeptWithoutRace

LEMMA InitDashboard == AllInit => DashboardInv
<1> SUFFICES ASSUME AllInit, active = "dashboard"
             PROVE  TypeOK /\ SecretInv /\ StoredIsCurrent /\ SoloInv /\ KeptWithoutRace
  BY DEF DashboardInv
<1>1. Init
  BY DEF AllInit
<1>2. StoredIsCurrent /\ SoloInv /\ KeptWithoutRace
  BY <1>1 DEF Init, Service!Init, StoredIsCurrent, SoloInv, KeptWithoutRace
<1> QED
  BY <1>1, <1>2, InitType, InitSecret

LEMMA NextDashboard ==
  DashboardInv /\ [AllNext]_<<active, vars, accountVars, scoreVars, noteVars, faults>> => DashboardInv'
<1> SUFFICES ASSUME DashboardInv, active' = "dashboard",
                    [AllNext]_<<active, vars, accountVars, scoreVars, noteVars, faults>>
             PROVE  (TypeOK /\ SecretInv /\ StoredIsCurrent /\ SoloInv /\ KeptWithoutRace)'
  BY DEF DashboardInv
<1>1. active = "dashboard" /\ [Next]_vars
  BY DEF AllNext
<1>2. TypeOK /\ SecretInv /\ StoredIsCurrent /\ SoloInv /\ KeptWithoutRace
  BY <1>1 DEF DashboardInv
<1> QED
  BY <1>1, <1>2, NextType, NextSecret, NextCurrent, NextSolo, NextKept

\* In the composition as well, the stored refresh token is current (CurrentTokenStored).
THEOREM StoredTokenCurrent == AllSpec => []StoredTokenIsCurrent
<1>1. DashboardInv => StoredTokenIsCurrent
  BY DEF DashboardInv, StoredTokenIsCurrent
<1> QED
  BY <1>1, InitDashboard, NextDashboard, PTL DEF AllSpec

\* In the composition as well, a live session is kept (LiveSessionKept).
THEOREM SessionsKept == AllSpec => []SessionKept
<1>1. DashboardInv => SessionKept
  BY DEF DashboardInv, SessionKept
<1> QED
  BY <1>1, InitDashboard, NextDashboard, PTL DEF AllSpec

----------------------------------------------------------------------------
\* Accounts.

LEMMA AccountsInitType == A!Init => A!TypeOK
BY BoundsAssumption DEF A!Init, A!TypeOK, A!CreateStage, A!LoginStage

LEMMA AccountsNextType == A!TypeOK /\ [A!Next]_A!vars => A!TypeOK'
<1> SUFFICES ASSUME A!TypeOK, [A!Next]_A!vars PROVE A!TypeOK'
  OBVIOUS
<1> USE BoundsAssumption, AccountsAssumption
    DEF A!TypeOK, A!Requests, A!CreateStage, A!LoginStage, A!Goto, A!Fault, A!input
<1>1. ASSUME NEW o \in A!Requests, A!CheckFree(o) \/ A!Violation(o) PROVE A!TypeOK'
  BY <1>1 DEF A!CheckFree, A!Violation
<1>2. ASSUME NEW o \in A!Requests, A!Insert(o) PROVE A!TypeOK'
  BY <1>2 DEF A!Insert
<1>3. ASSUME NEW o \in A!Requests, A!RequestFails(o) PROVE A!TypeOK'
  BY <1>3 DEF A!RequestFails
<1>4. ASSUME NEW l \in Logins, A!FindByEmail(l) PROVE A!TypeOK'
  BY <1>4 DEF A!FindByEmail
<1>5. ASSUME NEW l \in Logins, A!Compare(l) \/ A!LoginFails(l) PROVE A!TypeOK'
  BY <1>5 DEF A!Compare, A!LoginFails
<1>6. CASE UNCHANGED A!vars
  BY <1>6 DEF A!vars
<1> QED
  BY <1>1, <1>2, <1>3, <1>4, <1>5, <1>6 DEF A!Next

\* What a login found is an account with the email it asked for.
FoundInv ==
    \A l \in Logins : found[l] # None => found[l] \in accounts /\ email[found[l]] = login[l][1]

\* A login is welcome only if the password presented opens the account it found.
WelcomeInv == \A l \in Logins : apc[l] = "welcome" => A!Matches(l)

AccountsInv == A!TypeOK /\ A!AccountsExclusive /\ FoundInv /\ WelcomeInv

LEMMA InitAccounts == A!Init => AccountsInv
<1> SUFFICES ASSUME A!Init PROVE AccountsInv
  OBVIOUS
<1>1. A!TypeOK
  BY AccountsInitType
<1>2. A!AccountsExclusive
  BY DEF A!Init, A!AccountsExclusive, A!Holders
<1>3. \A l \in Logins : found[l] = None /\ apc[l] = "idle"
  BY DEF A!Init
<1> QED
  BY <1>1, <1>2, <1>3 DEF AccountsInv, FoundInv, WelcomeInv

LEMMA NextAccounts == AccountsInv /\ [A!Next]_A!vars => AccountsInv'
<1> SUFFICES ASSUME A!TypeOK, A!AccountsExclusive, FoundInv, WelcomeInv, [A!Next]_A!vars
             PROVE  (A!AccountsExclusive /\ FoundInv /\ WelcomeInv)'
  BY AccountsNextType DEF AccountsInv
<1> USE AccountsAssumption DEF A!Requests, A!input
<1>1. ASSUME NEW o \in A!Requests, A!Insert(o)
      PROVE  (A!AccountsExclusive /\ FoundInv /\ WelcomeInv)'
  <2>1. /\ accounts' = accounts \cup {o} /\ UNCHANGED <<name, email, login, found>>
        /\ A!Holders(o) = {} /\ o \notin accounts
        /\ apc'[o] \in {"created", "lost"}
        /\ \A p \in (A!Requests \cup Logins) \ {o} : apc'[p] = apc[p]
    BY <1>1 DEF A!Insert, A!Goto, A!TypeOK, A!AccountsExclusive
  <2>2. \A p \in A!Requests : A!Holders(p) \subseteq A!Holders(p)'
    BY <2>1 DEF A!Holders
  <2>3. ASSUME NEW r \in accounts' PROVE A!Holders(r)' = {}
    BY <2>1 DEF A!Holders, A!AccountsExclusive
  <2>4. A!AccountsExclusive'
    BY <2>1, <2>2, <2>3 DEF A!AccountsExclusive
  <2>5. FoundInv' /\ WelcomeInv'
    BY <2>1 DEF FoundInv, WelcomeInv, A!Matches, A!PasswordOf
  <2> QED
    BY <2>4, <2>5
<1>2. ASSUME NEW o \in A!Requests, NEW s \in {"conflict", "insert", "failed"},
             apc[o] \in {"idle", "insert"}, A!Goto(o, s), s = "conflict" => A!Holders(o) # {},
             UNCHANGED <<name, email, login, accounts, found>>
      PROVE  (A!AccountsExclusive /\ FoundInv /\ WelcomeInv)'
  <2>1. /\ apc'[o] = s /\ o \notin accounts
        /\ \A p \in (A!Requests \cup Logins) \ {o} : apc'[p] = apc[p]
    BY <1>2 DEF A!Goto, A!TypeOK, A!AccountsExclusive
  <2>2. A!AccountsExclusive'
    BY <1>2, <2>1 DEF A!AccountsExclusive, A!Holders
  <2> QED
    BY <1>2, <2>1, <2>2 DEF FoundInv, WelcomeInv, A!Matches, A!PasswordOf
<1>3. ASSUME NEW o \in A!Requests, A!CheckFree(o) \/ A!Violation(o) \/ A!RequestFails(o)
      PROVE  (A!AccountsExclusive /\ FoundInv /\ WelcomeInv)'
  BY <1>2, <1>3 DEF A!CheckFree, A!Violation, A!RequestFails
<1>4. ASSUME NEW l \in Logins, NEW s \in A!LoginStage, A!Goto(l, s),
             UNCHANGED <<name, email, login, accounts>>
      PROVE  A!AccountsExclusive'
  <2>1. \A o \in A!Requests : apc'[o] = apc[o]
    BY <1>4 DEF A!Goto, A!TypeOK
  <2> QED
    BY <1>4, <2>1 DEF A!AccountsExclusive, A!Holders
<1>5. ASSUME NEW l \in Logins, A!FindByEmail(l)
      PROVE  (A!AccountsExclusive /\ FoundInv /\ WelcomeInv)'
  <2>1. A!AccountsExclusive'
    BY <1>4, <1>5 DEF A!FindByEmail, A!LoginStage
  <2>2. FoundInv'
    BY <1>5 DEF A!FindByEmail, FoundInv, A!TypeOK
  <2>3. WelcomeInv'
    BY <1>5 DEF A!FindByEmail, A!Goto, WelcomeInv, A!Matches, A!PasswordOf, A!TypeOK
  <2> QED
    BY <2>1, <2>2, <2>3
<1>6. ASSUME NEW l \in Logins, A!Compare(l) \/ A!LoginFails(l)
      PROVE  (A!AccountsExclusive /\ FoundInv /\ WelcomeInv)'
  <2>1. A!AccountsExclusive'
    BY <1>4, <1>6 DEF A!Compare, A!LoginFails, A!LoginStage
  <2>2. FoundInv' /\ WelcomeInv'
    BY <1>6 DEF A!Compare, A!LoginFails, A!Goto, FoundInv, WelcomeInv, A!Matches, A!PasswordOf, A!TypeOK
  <2> QED
    BY <2>1, <2>2
<1>7. CASE UNCHANGED A!vars
  BY <1>7 DEF A!vars, A!AccountsExclusive, A!Holders, FoundInv, WelcomeInv, A!Matches, A!PasswordOf
<1> QED
  BY <1>1, <1>3, <1>5, <1>6, <1>7 DEF A!Next

\* However registrations and admin creations race, a name and an email belong to one
\* account, and a login is welcome only with the password registered with its email, or,
\* to an account of POST /users, with the password of DUMMY_HASH (the UNIQUE constraints
\* of users, AuthService.login).
THEOREM AccountsSafe == AllSpec => []AccountsKept
<1> DEFINE Inv == active = "accounts" => AccountsInv
<1>1. AllInit => Inv
  BY InitAccounts DEF AllInit
<1>2. Inv /\ [AllNext]_<<active, vars, accountVars, scoreVars, noteVars, faults>> => Inv'
  BY NextAccounts DEF AllNext, A!vars, A!input, accountVars
<1>3. AccountsInv => A!LoginsOwned
  BY AccountsAssumption DEF AccountsInv, FoundInv, WelcomeInv, A!Matches, A!PasswordOf, A!LoginsOwned
<1>4. Inv => AccountsKept
  BY <1>3 DEF AccountsInv, AccountsKept
<1> QED
  BY <1>1, <1>2, <1>4, PTL DEF AllSpec

----------------------------------------------------------------------------
\* Leaderboards.

\* Leaderboards counts as the library does.
LEMMA SameCount == \A S : L!Cardinality(S) = Cardinality(S)
  BY DEF L!Cardinality, Cardinality

\* Scores, stored or submitted, are integers from NoScore on.
LEMMA ScoreType ==
  ASSUME L!TypeOK
  PROVE  /\ \A b \in Boards, p \in Players : best[b][p] \in Int /\ best[b][p] >= L!NoScore
         /\ \A s \in Submits : score[s] \in Nat /\ board[s] \in Boards /\ player[s] \in Players
         /\ \A g \in Listings : board[g] \in Boards
         /\ \A g \in Listings, p \in Players : begun[g][p] \in Int
<1>1. best \in [Boards -> [Players -> Scores \cup {-1}]]
  BY DEF L!TypeOK, L!NoScore
<1>2. \A x \in Scores \cup {-1} : x \in Int /\ x >= -1
  BY ScoresAssumption
<1>3. ASSUME NEW b \in Boards, NEW p \in Players
      PROVE  best[b][p] \in Int /\ best[b][p] >= L!NoScore
  <2>1. best[b][p] \in Scores \cup {-1}
    BY <1>1
  <2> QED
    BY <1>2, <2>1 DEF L!NoScore
<1>4. \A s \in Submits : score[s] \in Nat /\ board[s] \in Boards /\ player[s] \in Players
  BY ScoresAssumption DEF L!TypeOK
<1>5. \A g \in Listings : board[g] \in Boards
  BY DEF L!TypeOK
<1>6. ASSUME NEW g \in Listings, NEW p \in Players PROVE begun[g][p] \in Int
  <2>1. begun[g][p] \in Scores \cup {-1}
    BY DEF L!TypeOK, L!NoScore
  <2> QED
    BY <1>2, <2>1
<1> QED
  BY <1>3, <1>4, <1>5, <1>6

\* The players above a score, and the entries, can be counted.
LEMMA CountType ==
  ASSUME NEW b, NEW x
  PROVE  /\ L!Above(b, x) \in Nat /\ L!Rank(b, x) \in Nat /\ L!Rank(b, x) # 0
         /\ IsFiniteSet(L!Entries(b)) /\ Cardinality(L!Entries(b)) \in Nat
<1>1. IsFiniteSet({p \in Players : best[b][p] > x})
  BY ScoresAssumption, FS_Subset
<1>2. IsFiniteSet(L!Entries(b))
  BY ScoresAssumption, FS_Subset DEF L!Entries
<1>3. L!Above(b, x) \in Nat
  BY <1>1, SameCount, FS_CardinalityType DEF L!Above
<1>4. Cardinality(L!Entries(b)) \in Nat
  BY <1>2, FS_CardinalityType
<1> QED
  BY <1>2, <1>3, <1>4 DEF L!Rank

\* A submit whose upsert has run left a score at least as good.
SubmittedInv ==
    \A s \in Submits : lpc[s] \in {"rank", "done", "lost"} => best[board[s]][player[s]] >= score[s]

LEMMA ScoresInitType == L!Init => L!TypeOK
BY BoundsAssumption, ScoresAssumption
DEF L!Init, L!TypeOK, L!Requests, L!SubmitStage, L!ListingStage, L!BoardStage

\* The parts of the type: where the requests are, and what they and the tables hold.
ScoresStages ==
    /\ lpc \in [L!Requests -> L!SubmitStage \cup L!ListingStage \cup L!BoardStage]
    /\ \A b \in Boards : lpc[b] \in L!BoardStage
    /\ \A s \in Submits : lpc[s] \in L!SubmitStage
    /\ \A g \in Listings : lpc[g] \in L!ListingStage

ScoresData ==
    /\ board \in [Submits \cup Listings -> Boards] /\ player \in [Submits -> Players]
    /\ score \in [Submits -> Scores] /\ created \in SUBSET Boards
    /\ best \in [Boards -> [Players -> Scores \cup {L!NoScore}]]
    /\ answer \in [Submits -> [score : Scores \cup {L!NoScore}, rank : Nat]]
    /\ page \in [Listings -> SUBSET Players] /\ total \in [Listings -> Nat]
    /\ begun \in [Listings -> [Players -> Scores \cup {L!NoScore}]]
    /\ faults \in 0 .. MaxFaults

Answered == \A s \in Submits : lpc[s] = "done" => answer[s].score \in Scores /\ answer[s].rank # 0

\* A request that moves to a stage of its own kind; the others stay where they are.
LEMMA GotoStage ==
  ASSUME ScoresStages, NEW o \in L!Requests, NEW x, L!Goto(o, x),
         o \in Boards => x \in L!BoardStage,
         o \in Submits => x \in L!SubmitStage,
         o \in Listings => x \in L!ListingStage
  PROVE  /\ ScoresStages'
         /\ lpc'[o] = x /\ \A p \in L!Requests \ {o} : lpc'[p] = lpc[p]
<1>1. lpc'[o] = x /\ \A p \in L!Requests \ {o} : lpc'[p] = lpc[p]
  BY DEF L!Goto, ScoresStages
<1>2. x \in L!SubmitStage \cup L!ListingStage \cup L!BoardStage
  BY DEF L!Requests
<1>3. lpc' \in [L!Requests -> L!SubmitStage \cup L!ListingStage \cup L!BoardStage]
  BY <1>2 DEF L!Goto, ScoresStages
<1> QED
  BY <1>1, <1>3 DEF ScoresStages, L!Requests

LEMMA ScoresNextType == L!TypeOK /\ SubmittedInv /\ [L!Next]_L!vars => L!TypeOK'
<1> SUFFICES ASSUME ScoresStages, ScoresData, Answered, SubmittedInv, [L!Next]_L!vars
             PROVE  (ScoresStages /\ ScoresData /\ Answered)'
  BY DEF L!TypeOK, ScoresStages, ScoresData, Answered
<1> USE ScoresAssumption DEF L!input
<1>1. ASSUME NEW o \in L!Requests, NEW x, L!Goto(o, x),
             o \in Boards => x \in L!BoardStage,
             o \in Submits => x \in L!SubmitStage \ {"done"},
             o \in Listings => x \in L!ListingStage,
             answer' = answer, ScoresData'
      PROVE  (ScoresStages /\ ScoresData /\ Answered)'
  <2>1. ScoresStages' /\ lpc'[o] = x /\ \A p \in L!Requests \ {o} : lpc'[p] = lpc[p]
    BY <1>1, GotoStage
  <2>2. Answered'
    BY <1>1, <2>1 DEF Answered, L!Requests
  <2> QED
    BY <1>1, <2>1, <2>2
<1>2. ASSUME NEW b \in Boards, L!Create(b) PROVE (ScoresStages /\ ScoresData /\ Answered)'
  <2>1. PICK x \in {"created", "conflict"} : L!Goto(b, x)
    BY <1>2 DEF L!Create
  <2>2. ScoresData' /\ answer' = answer
    BY <1>2 DEF L!Create, ScoresData
  <2> QED
    BY <1>1, <2>1, <2>2 DEF L!Requests, L!BoardStage
<1>3. ASSUME NEW o \in Submits \cup Listings, NEW x,
             o \in Submits => x = "upsert", o \in Listings => x = "queries", L!Find(o, x)
      PROVE  (ScoresStages /\ ScoresData /\ Answered)'
  <2>1. PICK y \in {x, "missing"} : L!Goto(o, y)
    BY <1>3 DEF L!Find
  <2>2. ScoresData' /\ answer' = answer
    BY <1>3 DEF L!Find, ScoresData
  <2> QED
    BY <1>1, <1>3, <2>1, <2>2 DEF L!Requests, L!SubmitStage, L!ListingStage
<1>4. ASSUME NEW s \in Submits, L!Upsert(s) PROVE (ScoresStages /\ ScoresData /\ Answered)'
  <2>1. PICK x \in {"rank", "lost"} : L!Goto(s, x)
    BY <1>4 DEF L!Upsert
  <2>2. faults' \in 0 .. MaxFaults
    BY <1>4, BoundsAssumption DEF L!Upsert, L!Fault, ScoresData
  <2>3. best' \in [Boards -> [Players -> Scores \cup {L!NoScore}]]
    BY <1>4 DEF L!Upsert, L!Better, ScoresData
  <2>4. ScoresData' /\ answer' = answer
    BY <1>4, <2>2, <2>3 DEF L!Upsert, ScoresData
  <2> QED
    BY <1>1, <2>1, <2>4 DEF L!Requests, L!SubmitStage
<1>5. ASSUME NEW s \in Submits, L!ReadRank(s) PROVE (ScoresStages /\ ScoresData /\ Answered)'
  <2> DEFINE x == best[board[s]][player[s]]
             n == L!Rank(board[s], x)
  <2>1. x \in Scores
    <3>1. x >= score[s]
      BY <1>5 DEF L!ReadRank, SubmittedInv
    <3>2. score[s] \in Nat /\ board[s] \in Boards /\ player[s] \in Players
      BY DEF ScoresData
    <3>3. x \in Scores \cup {-1}
      BY <3>2 DEF ScoresData, L!NoScore
    <3> QED
      BY <3>1, <3>2, <3>3
  <2>2. n \in Nat /\ n # 0
    BY CountType
  <2>3. L!Goto(s, "done") /\ answer' = [answer EXCEPT ![s] = [score |-> x, rank |-> n]]
    BY <1>5 DEF L!ReadRank
  <2> HIDE DEF x, n
  <2>4. ScoresData'
    BY <1>5, <2>1, <2>2, <2>3 DEF L!ReadRank, ScoresData
  <2>5. ScoresStages' /\ \A p \in L!Requests \ {s} : lpc'[p] = lpc[p]
    BY <2>3, GotoStage DEF L!Requests, L!SubmitStage
  <2>6. Answered'
    BY <2>1, <2>2, <2>3, <2>5 DEF Answered, ScoresData, L!Requests
  <2> QED
    BY <2>4, <2>5, <2>6
<1>6. ASSUME NEW g \in Listings, L!ReadPage(g) PROVE (ScoresStages /\ ScoresData /\ Answered)'
  <2>1. PICK S \in L!Page(board[g]) : page' = [page EXCEPT ![g] = S]
    BY <1>6 DEF L!ReadPage
  <2>2. S \in SUBSET Players
    BY DEF L!Page, L!Entries
  <2>3. ScoresData' /\ answer' = answer
    BY <1>6, <2>1, <2>2 DEF L!ReadPage, ScoresData
  <2>4. PICK x \in {"paged", "done"} : L!Goto(g, x)
    BY <1>6 DEF L!ReadPage, L!Queried
  <2> QED
    BY <1>1, <2>3, <2>4 DEF L!Requests, L!ListingStage
<1>7. ASSUME NEW g \in Listings, L!Count(g) PROVE (ScoresStages /\ ScoresData /\ Answered)'
  <2>1. L!Cardinality(L!Entries(board[g])) \in Nat
    BY CountType, SameCount
  <2>2. ScoresData' /\ answer' = answer
    BY <1>7, <2>1 DEF L!Count, ScoresData
  <2>3. PICK x \in {"counted", "done"} : L!Goto(g, x)
    BY <1>7 DEF L!Count, L!Queried
  <2> QED
    BY <1>1, <2>2, <2>3 DEF L!Requests, L!ListingStage
<1>8. ASSUME NEW o \in L!Requests, L!Fails(o) PROVE (ScoresStages /\ ScoresData /\ Answered)'
  <2>1. ScoresData' /\ answer' = answer
    BY <1>8, BoundsAssumption DEF L!Fails, L!Fault, ScoresData
  <2>2. PICK x \in {"lost", "failed"} : L!Goto(o, x) /\ (x = "lost" => lpc[o] = "rank")
    BY <1>8 DEF L!Fails
  <2> QED
    BY <1>1, <2>1, <2>2 DEF ScoresStages, L!Requests, L!SubmitStage, L!ListingStage, L!BoardStage
<1>9. CASE UNCHANGED L!vars
  BY <1>9 DEF L!vars, ScoresStages, ScoresData, Answered
<1> QED
  BY <1>2, <1>3, <1>4, <1>5, <1>6, <1>7, <1>8, <1>9 DEF L!Next

\* No step lowers a score, and none changes what was submitted or listed.
LEMMA ScoresGrow ==
  ASSUME L!TypeOK, [L!Next]_L!vars
  PROVE  /\ UNCHANGED <<board, player, score>>
         /\ \A b \in Boards, p \in Players : best'[b][p] \in Int /\ best'[b][p] >= best[b][p]
<1> USE ScoreType DEF L!input
<1>1. ASSUME NEW s \in Submits, L!Upsert(s)
      PROVE  \A b \in Boards, p \in Players :
               best'[b][p] \in Int /\ best'[b][p] >= best[b][p]
  BY <1>1 DEF L!Upsert, L!Better, L!TypeOK
<1>2. ASSUME UNCHANGED best
      PROVE  \A b \in Boards, p \in Players :
               best'[b][p] \in Int /\ best'[b][p] >= best[b][p]
  BY <1>2
<1>3. UNCHANGED <<board, player, score>>
  BY DEF L!Next, L!vars, L!Create, L!Find, L!Upsert, L!ReadRank, L!ReadPage, L!Count, L!Fails
<1>4. UNCHANGED best \/ \E s \in Submits : L!Upsert(s)
  BY DEF L!Next, L!vars, L!Create, L!Find, L!ReadRank, L!ReadPage, L!Count, L!Fails
<1> QED
  BY <1>1, <1>2, <1>3, <1>4

\* Where the requests are after one of them has moved.
LEMMA OthersStay ==
  ASSUME L!TypeOK, NEW o \in L!Requests, NEW x, L!Goto(o, x)
  PROVE  lpc'[o] = x /\ \A p \in L!Requests \ {o} : lpc'[p] = lpc[p]
BY DEF L!Goto, L!TypeOK

\* The submits whose upsert has run.
Ran == {s \in Submits : lpc[s] \in {"rank", "done", "lost"}}

\* Only an upsert stores a score, and only it is one more that has run.
LEMMA RanStep ==
  ASSUME L!TypeOK, [L!Next]_L!vars
  PROVE  \/ best' = best /\ Ran' = Ran
         \/ \E s \in Submits : L!Upsert(s) /\ Ran' = Ran \cup {s}
<1> USE ScoresAssumption DEF L!Requests, Ran
<1>1. ASSUME NEW o \in L!Requests, NEW x, L!Goto(o, x), best' = best,
             o \in Submits => (x \in {"rank", "done", "lost"} <=> o \in Ran)
      PROVE  best' = best /\ Ran' = Ran
  BY <1>1, OthersStay
<1>2. ASSUME NEW b \in Boards, L!Create(b) PROVE best' = best /\ Ran' = Ran
  BY <1>1, <1>2 DEF L!Create
<1>3. ASSUME NEW o \in Submits \cup Listings, NEW x \in {"upsert", "queries"}, L!Find(o, x)
      PROVE  best' = best /\ Ran' = Ran
  <2>1. PICK y \in {x, "missing"} : L!Goto(o, y)
    BY <1>3 DEF L!Find
  <2>2. lpc[o] = "idle" /\ best' = best
    BY <1>3 DEF L!Find
  <2> QED
    BY <1>1, <2>1, <2>2
<1>4. ASSUME NEW s \in Submits, L!Upsert(s) PROVE Ran' = Ran \cup {s}
  <2>1. PICK x \in {"rank", "lost"} : L!Goto(s, x)
    BY <1>4 DEF L!Upsert
  <2> QED
    BY <2>1, OthersStay
<1>5. ASSUME NEW s \in Submits, L!ReadRank(s) PROVE best' = best /\ Ran' = Ran
  BY <1>1, <1>5 DEF L!ReadRank
<1>6. ASSUME NEW g \in Listings, L!ReadPage(g) \/ L!Count(g) PROVE best' = best /\ Ran' = Ran
  <2>1. PICK x : L!Goto(g, x)
    BY <1>6 DEF L!ReadPage, L!Count, L!Queried
  <2>2. best' = best
    BY <1>6 DEF L!ReadPage, L!Count
  <2> QED
    BY <1>1, <2>1, <2>2
<1>7. ASSUME NEW o \in L!Requests, L!Fails(o) PROVE best' = best /\ Ran' = Ran
  <2>1. PICK x \in {"lost", "failed"} : L!Goto(o, x) /\ (x = "lost" <=> lpc[o] = "rank")
    BY <1>7 DEF L!Fails
  <2>2. lpc[o] \notin {"done", "lost"} /\ best' = best
    BY <1>7 DEF L!Fails
  <2> QED
    BY <1>1, <2>1, <2>2
<1>8. CASE UNCHANGED L!vars
  BY <1>8 DEF L!vars
<1> QED
  BY <1>2, <1>3, <1>4, <1>5, <1>6, <1>7, <1>8 DEF L!Next

\* The best score is kept (L!BestKept), in terms of Ran.
BestRan ==
    \A b \in Boards, p \in Players :
        /\ \A s \in Ran : board[s] = b /\ player[s] = p => best[b][p] >= score[s]
        /\ best[b][p] # L!NoScore =>
             \E s \in Ran : board[s] = b /\ player[s] = p /\ best[b][p] = score[s]

LEMMA NextBest == L!TypeOK /\ BestRan /\ [L!Next]_L!vars => BestRan'
<1> SUFFICES ASSUME L!TypeOK, BestRan, [L!Next]_L!vars PROVE BestRan'
  OBVIOUS
<1>1. UNCHANGED <<board, player, score>>
  BY ScoresGrow
<1>2. CASE best' = best /\ Ran' = Ran
  BY <1>1, <1>2 DEF BestRan
<1>3. ASSUME NEW s \in Submits, L!Upsert(s), Ran' = Ran \cup {s} PROVE BestRan'
  <2> DEFINE old == best[board[s]][player[s]]
  <2>1. /\ old \in Int /\ old >= L!NoScore /\ score[s] \in Nat
        /\ board[s] \in Boards /\ player[s] \in Players
    BY ScoreType
  <2>2. /\ best'[board[s]][player[s]] = IF old > score[s] THEN old ELSE score[s]
        /\ \A b \in Boards, p \in Players :
             b # board[s] \/ p # player[s] => best'[b][p] = best[b][p]
    BY <1>3, <2>1 DEF L!Upsert, L!Better, L!TypeOK
  <2>3. \A r \in Ran : r \in Submits /\ score[r] \in Nat
    BY ScoreType DEF Ran
  <2>4. ASSUME NEW b \in Boards, NEW p \in Players, b # board[s] \/ p # player[s]
        PROVE  /\ \A r \in Ran' : board[r] = b /\ player[r] = p => best'[b][p] >= score[r]
               /\ best'[b][p] # L!NoScore =>
                    \E r \in Ran' : board[r] = b /\ player[r] = p /\ best'[b][p] = score[r]
    BY <1>3, <2>2, <2>4 DEF BestRan
  <2>5. \A r \in Ran' : board[r] = board[s] /\ player[r] = player[s] =>
          best'[board[s]][player[s]] >= score[r]
    <3>1. SUFFICES ASSUME NEW r \in Ran, board[r] = board[s], player[r] = player[s]
                   PROVE  best'[board[s]][player[s]] >= score[r]
      BY <1>3, <2>1, <2>2
    <3>2. old >= score[r] /\ score[r] \in Nat
      BY <2>1, <2>3, <3>1 DEF BestRan
    <3> QED
      BY <2>1, <2>2, <3>2
  <2>6. \E r \in Ran' : /\ board[r] = board[s] /\ player[r] = player[s]
                        /\ best'[board[s]][player[s]] = score[r]
    <3>1. CASE old > score[s]
      <4>1. old # L!NoScore
        BY <2>1, <3>1 DEF L!NoScore
      <4> QED
        BY <1>3, <2>1, <2>2, <3>1, <4>1 DEF BestRan
    <3>2. CASE ~(old > score[s])
      BY <1>3, <2>2, <3>2
    <3> QED
      BY <3>1, <3>2
  <2> HIDE DEF old
  <2> QED
    BY <1>1, <2>4, <2>5, <2>6 DEF BestRan, L!NoScore
<1> QED
  BY <1>2, <1>3, RanStep

\* More players may have a better score than x after a step, but not fewer.
LEMMA AboveGrows ==
  ASSUME L!TypeOK, [L!Next]_L!vars, NEW b \in Boards, NEW x \in Int
  PROVE  L!Above(b, x) <= L!Above(b, x)' /\ L!Above(b, x) \in Nat /\ L!Above(b, x)' \in Nat
<1> DEFINE Old == {p \in Players : best[b][p] > x}
           New == {p \in Players : best'[b][p] > x}
<1>1. Old \subseteq New
  <2>1. SUFFICES ASSUME NEW p \in Players, best[b][p] > x PROVE best'[b][p] > x
    OBVIOUS
  <2>2. /\ best[b][p] \in Int
        /\ best'[b][p] \in Int /\ best'[b][p] >= best[b][p]
    BY ScoresGrow, ScoreType
  <2> QED
    BY <2>1, <2>2
<1>2. IsFiniteSet(New) /\ IsFiniteSet(Old)
  BY ScoresAssumption, FS_Subset
<1> HIDE DEF Old, New
<1>3. Cardinality(Old) <= Cardinality(New) /\ Cardinality(Old) \in Nat /\ Cardinality(New) \in Nat
  BY <1>1, <1>2, FS_Subset, FS_CardinalityType
<1>4. L!Above(b, x) = Cardinality(Old) /\ L!Above(b, x)' = Cardinality(New)
  BY SameCount DEF L!Above, Old, New
<1> QED
  BY <1>3, <1>4

\* A submit is answered by reading its rank, once, and its answer stays.
LEMMA AnswerStep ==
  ASSUME L!TypeOK, [L!Next]_L!vars, NEW s \in Submits, lpc'[s] = "done"
  PROVE  L!ReadRank(s) \/ (lpc[s] = "done" /\ answer'[s] = answer[s])
<1> USE ScoresAssumption DEF L!Requests
<1>1. ASSUME NEW r \in Submits \ {s}, L!ReadRank(r) PROVE lpc[s] = "done" /\ answer'[s] = answer[s]
  <2>1. lpc'[s] = lpc[s]
    BY <1>1, OthersStay DEF L!ReadRank
  <2> QED
    BY <1>1, <2>1 DEF L!ReadRank, L!TypeOK
<1>2. ASSUME NEW o \in L!Requests, NEW x, L!Goto(o, x), o \in Submits => x # "done", answer' = answer
      PROVE  lpc[s] = "done" /\ answer'[s] = answer[s]
  BY <1>2, OthersStay
<1>3. ASSUME NEW b \in Boards, L!Create(b) PROVE lpc[s] = "done" /\ answer'[s] = answer[s]
  BY <1>2, <1>3 DEF L!Create
<1>4. ASSUME NEW o \in Submits \cup Listings, NEW x \in {"upsert", "queries"}, L!Find(o, x)
      PROVE  lpc[s] = "done" /\ answer'[s] = answer[s]
  BY <1>2, <1>4 DEF L!Find
<1>5. ASSUME NEW r \in Submits, L!Upsert(r) PROVE lpc[s] = "done" /\ answer'[s] = answer[s]
  BY <1>2, <1>5 DEF L!Upsert
<1>6. ASSUME NEW g \in Listings, L!ReadPage(g) \/ L!Count(g)
      PROVE  lpc[s] = "done" /\ answer'[s] = answer[s]
  <2>1. (\E x : L!Goto(g, x)) /\ answer' = answer
    BY <1>6 DEF L!ReadPage, L!Count, L!Queried
  <2> QED
    BY <1>2, <2>1
<1>7. ASSUME NEW o \in L!Requests, L!Fails(o) PROVE lpc[s] = "done" /\ answer'[s] = answer[s]
  BY <1>2, <1>7 DEF L!Fails
<1>8. CASE UNCHANGED L!vars
  BY <1>8 DEF L!vars
<1> QED
  BY <1>1, <1>3, <1>4, <1>5, <1>6, <1>7, <1>8 DEF L!Next

LEMMA NextAnswers ==
  L!TypeOK /\ BestRan /\ L!AnswersHold /\ [L!Next]_L!vars => L!AnswersHold'
<1> SUFFICES ASSUME L!TypeOK, BestRan, L!AnswersHold, [L!Next]_L!vars,
                    NEW s \in Submits, lpc'[s] = "done"
             PROVE  /\ score'[s] <= answer'[s].score
                    /\ answer'[s].score <= best'[board'[s]][player'[s]]
                    /\ answer'[s].rank <=
                         1 + Cardinality({q \in Players : best'[board'[s]][q] > answer'[s].score})
  BY SameCount DEF L!AnswersHold, L!Rank, L!Above
<1>1. UNCHANGED <<board, player, score>>
  BY ScoresGrow
<1>2. PICK b \in Boards, p \in Players : b = board[s] /\ p = player[s]
  BY ScoreType
<1>3. best[b][p] \in Int /\ best'[b][p] \in Int /\ best'[b][p] >= best[b][p] /\ score[s] \in Nat
  BY ScoresGrow, ScoreType
<1>4. CASE L!ReadRank(s)
  <2>1. PICK x : x = best[b][p]
    OBVIOUS
  <2>2. answer'[s] = [score |-> x, rank |-> L!Rank(b, x)] /\ best' = best
    BY <1>2, <1>4, <2>1 DEF L!ReadRank, L!TypeOK
  <2>3. x >= score[s]
    BY <1>2, <1>4, <2>1 DEF L!ReadRank, BestRan, Ran
  <2>4. /\ L!Rank(b, x) = 1 + Cardinality({q \in Players : best'[b][q] > x})
        /\ L!Rank(b, x) \in Nat
    BY <2>2, SameCount, CountType DEF L!Rank, L!Above
  <2> QED
    BY <1>1, <1>2, <1>3, <2>1, <2>2, <2>3, <2>4
<1>5. CASE lpc[s] = "done" /\ answer'[s] = answer[s]
  <2>1. PICK x \in Int, n \in Nat : x = answer[s].score /\ n = answer[s].rank
    <3>1. answer[s] \in [score : Scores \cup {-1}, rank : Nat]
      BY DEF L!TypeOK, L!NoScore
    <3>2. answer[s].score \in Scores \cup {-1} /\ answer[s].rank \in Nat
      BY <3>1
    <3>3. \A y \in Scores \cup {-1} : y \in Int
      BY ScoresAssumption
    <3> QED
      BY <3>2, <3>3
  <2>2. score[s] <= x /\ x <= best[b][p] /\ n <= L!Rank(b, x)
    BY <1>2, <1>5, <2>1 DEF L!AnswersHold
  <2>3. n <= 1 + Cardinality({q \in Players : best'[b][q] > x})
    <3>1. L!Above(b, x) <= L!Above(b, x)' /\ L!Above(b, x) \in Nat /\ L!Above(b, x)' \in Nat
      BY AboveGrows
    <3>2. L!Above(b, x)' = Cardinality({q \in Players : best'[b][q] > x})
      BY SameCount DEF L!Above
    <3> QED
      BY <2>2, <3>1, <3>2 DEF L!Rank
  <2> QED
    BY <1>1, <1>2, <1>3, <1>5, <2>1, <2>2, <2>3
<1> QED
  BY <1>4, <1>5, AnswerStep

\* A listing under way: who had a score when it began has one at least as good, the
\* total counts them all, and the page has left nobody out without cause.
Known(g) == {p \in Players : begun[g][p] # L!NoScore}

BegunInv ==
    \A g \in Listings : lpc[g] \in {"queries", "paged", "counted", "done"} =>
        \A p \in Players : begun[g][p] <= best[board[g]][p]

CountedInv ==
    \A g \in Listings : lpc[g] \in {"counted", "done"} =>
        /\ Cardinality(Known(g)) <= total[g]
        /\ total[g] <= Cardinality(L!Entries(board[g]))

PagedInv ==
    \A g \in Listings : lpc[g] \in {"paged", "done"} =>
        \A p \in Known(g) \ page[g] :
            /\ Cardinality(page[g]) = Limit
            /\ \A q \in page[g] : best[board[g]][q] >= begun[g][p]

\* What can happen to a listing that is under way afterwards.
LEMMA ListingStep ==
  ASSUME L!TypeOK, [L!Next]_L!vars, NEW g \in Listings,
         lpc'[g] \in {"queries", "paged", "counted", "done"}
  PROVE  \/ lpc'[g] = lpc[g] /\ begun'[g] = begun[g] /\ page'[g] = page[g] /\ total'[g] = total[g]
         \/ L!Find(g, "queries") \/ L!ReadPage(g) \/ L!Count(g)
<1> USE ScoresAssumption DEF L!Requests
<1> DEFINE Stays == /\ lpc'[g] = lpc[g] /\ begun'[g] = begun[g]
                    /\ page'[g] = page[g] /\ total'[g] = total[g]
<1>1. ASSUME NEW o \in L!Requests \ {g}, NEW x, L!Goto(o, x),
             begun'[g] = begun[g], page'[g] = page[g], total'[g] = total[g]
      PROVE  Stays
  BY <1>1, OthersStay
<1>2. ASSUME NEW b \in Boards, L!Create(b) PROVE Stays
  <2>1. (\E x : L!Goto(b, x)) /\ UNCHANGED <<begun, page, total>>
    BY <1>2 DEF L!Create
  <2> QED
    BY <1>1, <2>1
<1>3. ASSUME NEW o \in (Submits \cup Listings) \ {g}, NEW x, L!Find(o, x) PROVE Stays
  <2>1. (\E y : L!Goto(o, y)) /\ begun'[g] = begun[g] /\ UNCHANGED <<page, total>>
    BY <1>3 DEF L!Find
  <2> QED
    BY <1>1, <2>1
<1>4. ASSUME NEW s \in Submits, L!Upsert(s) \/ L!ReadRank(s) PROVE Stays
  <2>1. (\E y : L!Goto(s, y)) /\ UNCHANGED <<begun, page, total>>
    BY <1>4 DEF L!Upsert, L!ReadRank
  <2> QED
    BY <1>1, <2>1
<1>5. ASSUME NEW h \in Listings \ {g}, L!ReadPage(h) \/ L!Count(h) PROVE Stays
  <2>1. (\E y : L!Goto(h, y)) /\ begun' = begun
    BY <1>5 DEF L!ReadPage, L!Count, L!Queried
  <2>2. page'[g] = page[g] /\ total'[g] = total[g]
    BY <1>5 DEF L!ReadPage, L!Count, L!TypeOK
  <2> QED
    BY <1>1, <2>1, <2>2
<1>6. ASSUME NEW o \in L!Requests, L!Fails(o) PROVE Stays
  <2>1. PICK y \in {"lost", "failed"} : L!Goto(o, y)
    BY <1>6 DEF L!Fails
  <2>2. o # g
    BY <2>1, OthersStay
  <2> QED
    BY <1>1, <1>6, <2>1, <2>2 DEF L!Fails
<1>7. ASSUME UNCHANGED L!vars PROVE Stays
  BY <1>7 DEF L!vars
<1> HIDE DEF Stays, L!Requests
<1>8. ASSUME NEW s \in Submits, L!Find(s, "upsert") \/ L!Upsert(s) \/ L!ReadRank(s) PROVE Stays
  BY <1>3, <1>4, <1>8
<1>9. ASSUME NEW h \in Listings, L!Find(h, "queries") \/ L!ReadPage(h) \/ L!Count(h)
      PROVE  Stays \/ L!Find(g, "queries") \/ L!ReadPage(g) \/ L!Count(g)
  BY <1>3, <1>5, <1>9
<1>10. Stays \/ L!Find(g, "queries") \/ L!ReadPage(g) \/ L!Count(g)
  BY <1>2, <1>6, <1>7, <1>8, <1>9 DEF L!Next
<1> QED
  BY <1>10 DEF Stays

LEMMA NextBegun == L!TypeOK /\ BegunInv /\ [L!Next]_L!vars => BegunInv'
<1> SUFFICES ASSUME L!TypeOK, BegunInv, [L!Next]_L!vars,
                    NEW g \in Listings, lpc'[g] \in {"queries", "paged", "counted", "done"},
                    NEW p \in Players
             PROVE  begun'[g][p] <= best'[board'[g]][p]
  BY DEF BegunInv
<1>1. PICK b \in Boards : b = board[g] /\ board'[g] = b
  BY ScoreType, ScoresGrow
<1>2. best[b][p] \in Int /\ best'[b][p] \in Int /\ best'[b][p] >= best[b][p]
  BY ScoresGrow, ScoreType
<1>3. begun[g][p] \in Int
  BY ScoreType
<1>4. CASE lpc'[g] = lpc[g] /\ begun'[g] = begun[g]
  BY <1>1, <1>2, <1>3, <1>4 DEF BegunInv
<1>5. CASE L!Find(g, "queries")
  BY <1>1, <1>2, <1>5 DEF L!Find
<1>6. CASE L!ReadPage(g) \/ L!Count(g)
  <2>1. begun' = begun /\ lpc[g] \in {"queries", "paged", "counted"}
    BY <1>6 DEF L!ReadPage, L!Count, L!Queried
  <2> QED
    BY <1>1, <1>2, <1>3, <2>1 DEF BegunInv
<1> QED
  BY <1>4, <1>5, <1>6, ListingStep

\* Who had a score when the listing began has an entry.
LEMMA KnownEntries ==
  ASSUME L!TypeOK, BegunInv, NEW g \in Listings,
         lpc[g] \in {"queries", "paged", "counted", "done"}
  PROVE  Known(g) \subseteq L!Entries(board[g])
<1> SUFFICES ASSUME NEW p \in Players, begun[g][p] # L!NoScore
             PROVE  best[board[g]][p] # L!NoScore
  BY DEF Known, L!Entries
<1>1. begun[g][p] \in Scores \cup {-1} /\ begun[g][p] # -1
  BY DEF L!TypeOK, L!NoScore
<1>2. begun[g][p] \in Nat
  BY <1>1, ScoresAssumption
<1>3. begun[g][p] <= best[board[g]][p]
  BY DEF BegunInv
<1> QED
  BY <1>2, <1>3 DEF L!NoScore

LEMMA NextCounted == L!TypeOK /\ BegunInv /\ CountedInv /\ [L!Next]_L!vars => CountedInv'
<1> SUFFICES ASSUME L!TypeOK, BegunInv, CountedInv, [L!Next]_L!vars,
                    NEW g \in Listings, lpc'[g] \in {"counted", "done"}
             PROVE  /\ Cardinality(Known(g)') <= total'[g]
                    /\ total'[g] <= Cardinality({p \in Players : best'[board'[g]][p] # L!NoScore})
  BY DEF CountedInv, L!Entries
<1>1. PICK b \in Boards : b = board[g] /\ board'[g] = b
  BY ScoreType, ScoresGrow
<1> DEFINE Old == {p \in Players : best[b][p] # L!NoScore}
           New == {p \in Players : best'[b][p] # L!NoScore}
<1>2. Old \subseteq New
  <2>1. SUFFICES ASSUME NEW p \in Players, best[b][p] # L!NoScore PROVE best'[b][p] # L!NoScore
    OBVIOUS
  <2>2. /\ best[b][p] \in Int /\ best[b][p] >= L!NoScore
        /\ best'[b][p] \in Int /\ best'[b][p] >= best[b][p]
    BY ScoresGrow, ScoreType
  <2> QED
    BY <2>1, <2>2 DEF L!NoScore
<1>3. IsFiniteSet(New) /\ IsFiniteSet(Old)
  BY ScoresAssumption, FS_Subset
<1>4. L!Entries(board[g]) = Old
  BY <1>1 DEF L!Entries
<1> HIDE DEF Old, New
<1>5. Cardinality(Old) <= Cardinality(New) /\ Cardinality(Old) \in Nat /\ Cardinality(New) \in Nat
  BY <1>2, <1>3, FS_Subset, FS_CardinalityType
<1>6. IsFiniteSet(Known(g)) /\ Cardinality(Known(g)) \in Nat
  BY ScoresAssumption, FS_Subset, FS_CardinalityType DEF Known
<1>7. total[g] \in Nat
  BY DEF L!TypeOK
<1>8. CASE lpc'[g] = lpc[g] /\ begun'[g] = begun[g] /\ total'[g] = total[g]
  <2>1. Known(g)' = Known(g)
    BY <1>8 DEF Known
  <2>2. Cardinality(Known(g)) <= total[g] /\ total[g] <= Cardinality(Old)
    BY <1>4, <1>8 DEF CountedInv
  <2> QED
    BY <1>1, <1>5, <1>6, <1>7, <1>8, <2>1, <2>2 DEF New
<1>9. CASE L!ReadPage(g)
  <2>1. lpc[g] = "counted" /\ begun' = begun /\ total' = total
    BY <1>9, OthersStay DEF L!ReadPage, L!Queried, L!Requests
  <2>2. Known(g)' = Known(g)
    BY <2>1 DEF Known
  <2>3. Cardinality(Known(g)) <= total[g] /\ total[g] <= Cardinality(Old)
    BY <1>4, <2>1 DEF CountedInv
  <2> QED
    BY <1>1, <1>5, <1>6, <1>7, <2>1, <2>2, <2>3 DEF New
<1>10. CASE L!Count(g)
  <2>1. /\ lpc[g] \in {"queries", "paged"} /\ begun' = begun /\ best' = best
        /\ total'[g] = Cardinality(Old)
    BY <1>4, <1>10, SameCount DEF L!Count, L!Queried, L!TypeOK
  <2>2. Known(g)' = Known(g) /\ New = Old
    BY <2>1 DEF Known, New, Old
  <2>3. Known(g) \subseteq Old
    BY <1>4, <2>1, KnownEntries
  <2>4. Cardinality(Known(g)) <= Cardinality(Old)
    BY <1>3, <2>3, FS_Subset
  <2> QED
    BY <1>1, <1>5, <2>1, <2>2, <2>4 DEF New
<1>11. ~L!Find(g, "queries")
  BY ScoresAssumption, OthersStay DEF L!Find, L!Requests
<1> QED
  BY <1>8, <1>9, <1>10, <1>11, ListingStep

LEMMA NextPaged == L!TypeOK /\ BegunInv /\ PagedInv /\ [L!Next]_L!vars => PagedInv'
<1> SUFFICES ASSUME L!TypeOK, BegunInv, PagedInv, [L!Next]_L!vars,
                    NEW g \in Listings, lpc'[g] \in {"paged", "done"},
                    NEW p \in Players, begun'[g][p] # L!NoScore, p \notin page'[g]
             PROVE  /\ Cardinality(page'[g]) = Limit
                    /\ \A q \in page'[g] : best'[board'[g]][q] >= begun'[g][p]
  BY DEF PagedInv, Known
<1>1. PICK b \in Boards : b = board[g] /\ board'[g] = b
  BY ScoreType, ScoresGrow
<1>2. \A q \in Players : /\ best[b][q] \in Int
                         /\ best'[b][q] \in Int /\ best'[b][q] >= best[b][q]
  BY ScoresGrow, ScoreType
<1>3. begun[g][p] \in Int
  BY ScoreType
<1>4. ASSUME lpc[g] \in {"paged", "done"}, begun'[g] = begun[g], page'[g] = page[g]
      PROVE  /\ Cardinality(page'[g]) = Limit
             /\ \A q \in page'[g] : best'[board'[g]][q] >= begun'[g][p]
  <2>1. p \in Known(g) \ page[g] /\ page[g] \subseteq Players
    BY <1>4 DEF Known, L!TypeOK
  <2>2. /\ Cardinality(page[g]) = Limit
        /\ \A q \in page[g] : best[b][q] >= begun[g][p]
    BY <1>1, <1>4, <2>1 DEF PagedInv
  <2> QED
    BY <1>1, <1>2, <1>3, <1>4, <2>1, <2>2
<1>5. CASE lpc'[g] = lpc[g] /\ begun'[g] = begun[g] /\ page'[g] = page[g]
  BY <1>4, <1>5
<1>6. CASE L!Count(g)
  <2>1. lpc[g] = "paged" /\ begun' = begun /\ page' = page
    BY <1>6, OthersStay DEF L!Count, L!Queried, L!Requests
  <2> QED
    BY <1>4, <2>1
<1>7. CASE L!ReadPage(g)
  <2>1. lpc[g] \in {"queries", "counted"} /\ begun' = begun /\ best' = best
    BY <1>7 DEF L!ReadPage, L!Queried
  <2>2. PICK S \in L!Page(b) : page'[g] = S
    BY <1>1, <1>7 DEF L!ReadPage, L!TypeOK
  <2>3. PICK E : E = L!Entries(b)
    OBVIOUS
  <2>4. /\ S \subseteq E /\ E \subseteq Players
        /\ Cardinality(S) = IF Cardinality(E) < Limit THEN Cardinality(E) ELSE Limit
        /\ \A q \in S, r \in E \ S : best[b][q] >= best[b][r]
    BY <2>2, <2>3, SameCount DEF L!Page, L!Entries
  <2>5. p \in E
    BY <1>1, <2>1, <2>3, KnownEntries DEF Known
  <2>6. Cardinality(S) # Cardinality(E)
    <3>1. IsFiniteSet(E)
      BY <2>3, CountType
    <3> QED
      BY <2>2, <2>4, <2>5, <3>1, FS_Subset
  <2>7. begun[g][p] <= best[b][p]
    BY <1>1, <2>1 DEF BegunInv
  <2>8. ASSUME NEW q \in S PROVE best[b][q] >= begun[g][p]
    <3>1. best[b][q] >= best[b][p] /\ q \in Players
      BY <2>2, <2>4, <2>5
    <3> QED
      BY <1>2, <1>3, <2>7, <3>1
  <2> QED
    BY <1>1, <2>1, <2>2, <2>4, <2>6, <2>8
<1>8. ~L!Find(g, "queries")
  BY ScoresAssumption, OthersStay DEF L!Find, L!Requests
<1> QED
  BY <1>5, <1>6, <1>7, <1>8, ListingStep

ScoresInv ==
    L!TypeOK /\ BestRan /\ L!AnswersHold /\ BegunInv /\ CountedInv /\ PagedInv

LEMMA InitScores == L!Init => ScoresInv
<1> SUFFICES ASSUME L!Init PROVE ScoresInv
  OBVIOUS
<1>1. L!TypeOK
  BY ScoresInitType
<1>2. \A o \in L!Requests : lpc[o] = "idle"
  BY DEF L!Init
<1>3. \A b \in Boards, p \in Players : best[b][p] = L!NoScore
  BY DEF L!Init
<1> QED
  BY <1>1, <1>2, <1>3
  DEF ScoresInv, BestRan, Ran, L!AnswersHold, BegunInv, CountedInv, PagedInv, L!Requests

LEMMA NextScores == ScoresInv /\ [L!Next]_L!vars => ScoresInv'
<1> SUFFICES ASSUME ScoresInv, [L!Next]_L!vars PROVE ScoresInv'
  OBVIOUS
<1>1. SubmittedInv
  <2>1. \A s \in Submits : board[s] \in Boards /\ player[s] \in Players
    BY ScoreType DEF ScoresInv
  <2> QED
    BY <2>1 DEF ScoresInv, BestRan, Ran, SubmittedInv
<1> QED
  BY <1>1, ScoresNextType, NextBest, NextAnswers, NextBegun, NextCounted, NextPaged DEF ScoresInv

\* However submits and listings interleave, and whichever statements fail, a player's
\* entry is the best of the submitted scores, an answer shows no worse a score or rank
\* than the stored ones, and a first page with its total leaves nobody out without
\* cause (submitScore, getPlayerRank and getRankings of LeaderboardsRepository).
THEOREM ScoresSafe == AllSpec => []ScoresKept
<1> DEFINE Inv == active = "leaderboards" => ScoresInv
<1>1. AllInit => Inv
  BY InitScores DEF AllInit
<1>2. Inv /\ [AllNext]_<<active, vars, accountVars, scoreVars, noteVars, faults>> => Inv'
  BY NextScores DEF AllNext, L!vars, L!input, scoreVars
<1>3. ScoresInv => L!BestKept /\ L!AnswersHold /\ L!ListingsHold
  <2>1. BestRan => L!BestKept
    BY DEF BestRan, Ran, L!BestKept, L!Applied
  <2>2. CountedInv /\ PagedInv => L!ListingsHold
    BY SameCount DEF CountedInv, PagedInv, Known, L!ListingsHold
  <2> QED
    BY <2>1, <2>2 DEF ScoresInv
<1>4. Inv => ScoresKept
  BY <1>3 DEF ScoresKept
<1> QED
  BY <1>1, <1>2, <1>4, PTL DEF AllSpec
=============================================================================
