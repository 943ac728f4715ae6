\* What holds, and must eventually happen, when nothing fails and no key expires.
CONSTANTS
    Players = {p1, p2}
    Joins = {j1, j2, j3, j4}
    Instances = {i1}
    MatchSize = 2
    MaxClock = 0
    MaxExpiries = 0
    MaxFaults = 0
SPECIFICATION FairSpec
INVARIANTS
    NoPlayerLost
    QuorumServed
    StatusTruthful
PROPERTIES
    PoppedAreMatched
    ServiceFairSpec
