\* A user who connects again while the handler of the last socket counts.
CONSTANTS
    Users = {u1}
    Instances = {i1, i2}
    Sockets = {s1, s2}
    Calls = {}
    MaxFaults = 0
SPECIFICATION Spec
INVARIANTS
    ConnectedAreOnline
CHECK_DEADLOCK FALSE
