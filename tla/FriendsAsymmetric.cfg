\* A removal that runs at the same time as an accept.
CONSTANTS
    Users = {u1, u2}
    Sends = {s1}
    Accepts = {a1}
    Rejects = {}
    Removes = {d1}
    MaxFaults = 0
SPECIFICATION Spec
INVARIANTS
    Symmetric
CHECK_DEADLOCK FALSE
