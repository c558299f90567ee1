\* on_message panics: the slot is free, the connection is still there.
SPECIFICATION Spec
CONSTANTS
    p1 = p1
    p2 = p2
    p3 = p3
    Peers <- ThreePeers
    MaxConnections = 2
    Sites = {"here", "there"}
    AnyOrigin = AnyOrigin
    Policy = AnyOrigin
    Principals = {"alice"}
    None = None
    HeaderLists <- Opaque
    Panics = {"serving"}
INVARIANT ConnectionsBounded
