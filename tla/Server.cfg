\* Three peers for two slots, callbacks that panic, peers that stall.
SPECIFICATION FairSpec
CONSTANTS
    p1 = p1
    p2 = p2
    p3 = p3
    Peers <- ThreePeers
    MaxConnections = 2
    Sites = {"here", "there"}
    AnyOrigin = AnyOrigin
    Policy <- OneAllowed
    Principals = {"alice", "bob"}
    None = None
    HeaderLists <- Lists
    Panics = {"authorize", "on_connect", "serving", "on_disconnect"}
CHECK_DEADLOCK FALSE
INVARIANTS
    TypeOK
    SlotsExact
    Admission
    OriginsEnforced
PROPERTIES
    HandshakeReturnsSlot
    AcceptPrompt
