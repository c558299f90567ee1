\* A foreign task, a queue of one, the verdict after two pings.
SPECIFICATION FairSpec
CONSTANTS
    s1 = s1
    conn = conn
    Senders = {s1}
    Callers <- BothCallers
    ConnTask = conn
    Capacity = 1
    MaxMissed = 2
INVARIANTS
    TypeOK
    CloseRequestNotLost
    LateOnce
    NothingAfterClose
PROPERTIES
    HeartbeatVerdict
    EvictionTornDown
    ClosingTornDown
    SilentPeerDetected
    TeardownStopsWriter
