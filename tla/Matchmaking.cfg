\* Every safety property, under crashes, failed calls and TTL expiry.
CONSTANTS
    Players = {p1, p2, p3}
    Joins = {j1, j2, j3}
    Instances = {i1, i2}
    MatchSize = 2
    MaxClock = 1
    MaxExpiries = 1
    MaxFaults = 1
SPECIFICATION Spec
SYMMETRY Symmetry
INVARIANTS
    TypeOK
    Custody
    ProperMatches
    KeysQueued
    NoDuplicateJoin
    QuorumAccounted
    ToldOfRealMatches
PROPERTIES
    NoLateOvertaking
    ServiceSpec
