\* Three sockets of one user on two instances, a PUT or a GET, a fault or an expiry.
CONSTANTS
    Users = {u1}
    Instances = {i1, i2}
    Sockets = {s1, s2, s3}
    Calls = {c1}
    MaxFaults = 1
SPECIFICATION Spec
SYMMETRY Symmetry
INVARIANTS
    TypeOK
    LastMeansLast
    GoneAreOffline
    OnlineWithoutRace
CHECK_DEADLOCK FALSE
