\* Two logins of one user that evict at the same time.
CONSTANTS
    Users = {u1}
    Logins = {l1, l2, l3}
    Refreshes = {f1}
    Cleaners = {c1}
    MaxSessions = 2
    Batch = 1
    TTL = 1
    MaxClock = 1
    MaxFaults = 0
SPECIFICATION Spec
SYMMETRY Symmetry
INVARIANTS
    SessionLimit
