\* Every order of the calls, every configuration at the bounds.
SPECIFICATION Spec
CONSTANTS
    WriteBufferSize = 2
    MaxPermits = 3
    MaxInstant = 4
CHECK_DEADLOCK FALSE
INVARIANTS
    Startable
    WarningsTrue
