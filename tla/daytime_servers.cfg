SPECIFICATION Spec
CONSTANTS
    Clients = {k1, k2}
    Peers = {p1, p2}
    Connections = {c1, c2, c3, c4}
    Pieces = 2
    MaxRequests = 2
    MaxFaults = 2
    None = None
INVARIANTS
    TypeOK
    OneAccept
    NoUseAfterFree
    RepliesMatch
PROPERTIES
    Served
    AllAnswered
CHECK_DEADLOCK FALSE
