\* Sessions under concurrent logins, refreshes, logouts and cleanups.
CONSTANTS
    Users = {u1}
    Logins = {l1, l2}
    Refreshes = {f1, f2}
    Cleaners = {c1, c2}
    MaxSessions = 1
    Batch = 1
    TTL = 2
    MaxClock = 3
    MaxFaults = 1
SPECIFICATION Spec
SYMMETRY Symmetry
INVARIANTS
    TypeOK
    SingleUse
    DeadTokens
    LiveSessionsKept
PROPERTIES
    LimitWithoutRace
    TokenServiceSpec
