\* Two instances, a request and a WebSocket, no faults.
CONSTANTS
    Instances = {i1, i2}
    NFiles = 1
    Requests = {r1}
    Sockets = {w1}
    None = None
    MaxFaults = 0
SPECIFICATION Spec
INVARIANTS
    SocketsDisconnected
CHECK_DEADLOCK FALSE
