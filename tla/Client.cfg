\* Two tasks call, an inbound queue of one, three things read.
CONSTANTS
    a1 = a1
    a2 = a2
    Callers <- TwoTasks
    InboundCapacity = 1
    MaxOut = 2
    MaxFrames = 2
SPECIFICATION Spec
SYMMETRY Symmetry
CHECK_DEADLOCK FALSE
INVARIANTS
    TypeOK
    OneClose
    LateOnce
    EndImpliesClosed
PROPERTY InboundStream
