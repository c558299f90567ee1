\* One task calls, one frame each way in transit.
SPECIFICATION SSpec
CONSTANTS
    a1 = a1
    Callers = {a1}
    InboundCapacity = 1
    MaxOut = 2
    MaxFrames = 2
    MaxTransit = 1
CHECK_DEADLOCK FALSE
PROPERTIES
    CloseEndsSession
    ServerCloseShows
    CloseEndsWriter
    DropFreesReader
