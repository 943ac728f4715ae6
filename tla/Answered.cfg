\* Two instances and two migration files; two crossing requests accepted while a
\* removal runs; three logins of a player with the cleanup.
CONSTANTS
    Instances = {o1, o2}
    NFiles = 2
    Requests = {r1}
    Sockets = {w1}
    None = None
    MaxFaults = 1
    Friend1 = u1
    Friend2 = u2
    Sends = {s1, s2}
    Accepts = {o1, o2}
    Removes = {o3}
    Player = p1
    Logins = {o1, o2, o3}
    Cleaners = {o4}
SPECIFICATION AllSpec
INVARIANTS
    TypeOK
    CloseSparesClients
    ServesMigrated
PROPERTIES
    ProcessesSettle
    TransactionsAnswered
CHECK_DEADLOCK FALSE
