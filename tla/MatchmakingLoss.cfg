\* A request that dies between the pop and the commit loses the players it popped.
CONSTANTS
    Players = {p1, p2, p3}
    Joins = {j1, j2, j3}
    Instances = {i1, i2}
    MatchSize = 2
    MaxClock = 0
    MaxExpiries = 0
    MaxFaults = 1
SPECIFICATION Spec
SYMMETRY Symmetry
INVARIANTS
    NoPlayerLost
