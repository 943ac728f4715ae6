\* Crossing requests, double decisions and removals of two users.
CONSTANTS
    Users = {u1, u2}
    Sends = {s1, s2}
    Accepts = {a1, a2}
    Rejects = {r1}
    Removes = {d1, d2}
    MaxFaults = 1
SPECIFICATION Spec
SYMMETRY Symmetry
INVARIANTS
    TypeOK
    SymmetricWithoutRace
    AcceptedAreFriends
    FriendsConsented
    SendsAccounted
CHECK_DEADLOCK FALSE
