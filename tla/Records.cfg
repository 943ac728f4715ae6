\* Two tabs with two queries and a login; two registrations and an admin creation that
\* share names and emails; three submits of two players; three notifications of two
\* users on pages of one, of which a reader is marked meanwhile.
CONSTANTS
    Tabs = {x1, x2}
    Queries = {y1, y2}
    Logins = {l1}
    Demo = Demo
    None = None
    MaxFaults = 1
    Registers = {x1, x2}
    Creates = {c1}
    Guard = Guard
    Names = {y1, y2}
    Emails = {e1, e2}
    Boards = {x1, x2}
    Players = {y1, y2}
    Submits = {w1, w2, w3}
    Listings = {g1}
    Scores = {0, 1, 2}
    Notes = {w1, w2, w3}
    Marks = {m1}
    Readers = {r1}
    Users = {x1, x2}
    Limit = 1
SPECIFICATION AllSpec
INVARIANTS
    RecordsTypeOK
    StoredTokenIsCurrent
    SessionKept
    AccountsKept
    ScoresKept
    FeedComplete
SYMMETRY Symmetry
CHECK_DEADLOCK FALSE
