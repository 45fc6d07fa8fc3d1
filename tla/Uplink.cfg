SPECIFICATION FairSpec
CONSTANTS
    Socks = {1, 2}
    s_max_attempts = 2
    AlwaysReconnect = {TRUE, FALSE}
    MaxOps = 3
    Ids = {1, 2}
INVARIANTS
    WaitsOnOne
    NoLateCallback
    HandshakeAccepted
    PacketsInOrder
PROPERTIES
    ImplementsService
    Settles
CHECK_DEADLOCK FALSE
