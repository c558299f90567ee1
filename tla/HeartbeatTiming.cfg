\* Six proportions of the times; the verdict after three pings.
SPECIFICATION Spec
CONSTANTS
    Settings <- SixSettings
    MaxMissed = 3
    MaxUnread = 2
    MaxTicks = 5
CHECK_DEADLOCK FALSE
INVARIANTS
    TypeOK
    ResponsivePeerKept
    DetectedInTime
    IdleJustified
    NoEarlyVerdict
