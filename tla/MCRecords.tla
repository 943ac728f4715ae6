----------------------------- MODULE MCRecords -----------------------------
(***************************************************************************)
(* Four parts that share no state, checked side by side: the session of    *)
(* the dashboard (Dashboard), accounts (Accounts), leaderboards            *)
(* (Leaderboards) and the notification feed (Notifications).  A behaviour  *)
(* is one of one part, chosen initially; the variables of the others are   *)
(* None.  The parts use the same names for their actors, so that one small *)
(* symmetry set serves all.                                                *)
(***************************************************************************)
EXTENDS Dashboard, TLC

CONSTANTS
    Registers, Creates, Names, Emails, Guard,          \* Accounts
    Boards, Players, Submits, Listings, Scores,        \* Leaderboards
    Notes, Marks, Readers, Users,                      \* Notifications
    Limit                                              \* length of a page

\* Requests of different routes are different requests.
ASSUME AccountsAssumption ==
    /\ Logins \cap (Registers \cup Creates) = {} /\ None \notin Registers \cup Creates
    /\ Registers \cap Creates = {} /\ Guard \notin Registers \cup {None}
ASSUME ScoresAssumption ==
    /\ Boards \cap Submits = {} /\ Boards \cap Listings = {} /\ Submits \cap Listings = {}
    /\ Scores \subseteq Nat /\ Limit \in Nat /\ IsFiniteSet(Players)
ASSUME NotesAssumption ==
    /\ Notes \cap Marks = {} /\ Notes \cap Readers = {} /\ Marks \cap Readers = {}
    /\ IsFiniteSet(Notes)

VARIABLES
    active,
    apc, name, email, accounts, login, found,
    lpc, board, player, score, created, best, answer, page, total, begun,
    npc, owner, started, notes, read, told, unread, pages, seen, known, marked,
    faults

accountVars == <<apc, name, email, accounts, login, found>>
scoreVars   == <<lpc, board, player, score, created, best, answer, page, total, begun>>
noteVars    == <<npc, owner, started, notes, read, told, unread, pages, seen, known, marked>>

A == INSTANCE Accounts WITH pc <- apc, rows <- accounts
L == INSTANCE Leaderboards WITH pc <- lpc
N == INSTANCE Notifications WITH pc <- npc, rows <- notes, begun <- known

\* The variables of a part that does not move.
IdleDashboard ==
    /\ issued = None /\ live = None /\ exchanged = None /\ fresh = None /\ access = None
    /\ refresh = None /\ react = None /\ stage = None /\ pc = None /\ tab = None /\ sent = None
    /\ presented = None /\ raced = None /\ faulted = None /\ dropped = None /\ orphaned = None

IdleAccounts ==
    /\ apc = None /\ name = None /\ email = None /\ accounts = None /\ login = None /\ found = None

IdleScores ==
    /\ lpc = None /\ board = None /\ player = None /\ score = None /\ created = None
    /\ best = None /\ answer = None /\ page = None /\ total = None /\ begun = None

IdleNotes ==
    /\ npc = None /\ owner = None /\ started = None /\ notes = None /\ read = None /\ told = None
    /\ unread = None /\ pages = None /\ seen = None /\ known = None /\ marked = None

AllInit ==
    \/ active = "dashboard" /\ Init /\ faults = 0 /\ IdleAccounts /\ IdleScores /\ IdleNotes
    \/ active = "accounts" /\ A!Init /\ IdleDashboard /\ IdleScores /\ IdleNotes
    \/ active = "leaderboards" /\ L!Init /\ IdleDashboard /\ IdleAccounts /\ IdleNotes
    \/ active = "notifications" /\ N!Init /\ IdleDashboard /\ IdleAccounts /\ IdleScores

AllNext ==
    /\ UNCHANGED active
    /\ \/ active = "dashboard" /\ Next /\ UNCHANGED <<accountVars, scoreVars, noteVars, faults>>
       \/ active = "accounts" /\ A!Next /\ UNCHANGED <<vars, scoreVars, noteVars>>
       \/ active = "leaderboards" /\ L!Next /\ UNCHANGED <<vars, accountVars, noteVars>>
       \/ active = "notifications" /\ N!Next /\ UNCHANGED <<vars, accountVars, scoreVars>>

AllSpec == AllInit /\ [][AllNext]_<<active, vars, accountVars, scoreVars, noteVars, faults>>

Symmetry == Permutations(Tabs) \cup Permutations(Queries) \cup Permutations(Notes)

----------------------------------------------------------------------------
\* The state of the part that moves has its type.
RecordsTypeOK ==
    /\ active = "dashboard" => TypeOK
    /\ active = "accounts" => A!TypeOK
    /\ active = "leaderboards" => L!TypeOK
    /\ active = "notifications" => N!TypeOK

\* The dashboard never puts a used refresh token back (Dashboard).
StoredTokenIsCurrent == active = "dashboard" => StoredIsCurrent

\* The dashboard keeps a session that is alive, races and faults apart (Dashboard).
SessionKept == active = "dashboard" => KeptWithoutRace

\* A name and an email have one account, and a login is welcome only with the password
\* of its account, or that of DUMMY_HASH for an account without one (Accounts).
AccountsKept == active = "accounts" => A!AccountsExclusive /\ A!LoginsOwned

\* The best score is kept, and answers made of several statements hold (Leaderboards).
ScoresKept == active = "leaderboards" => L!BestKept /\ L!AnswersHold /\ L!ListingsHold

\* Paging the feed hides nothing the user had been told of (Notifications).
FeedComplete == active = "notifications" => N!NothingHidden
=============================================================================
