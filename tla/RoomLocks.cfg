\* Any four calls of the crate at once.  Each is made once.
SPECIFICATION Spec
CONSTANTS
    t1 = t1
    t2 = t2
    t3 = t3
    t4 = t4
    Tasks <- FourTasks
    Calls <- CrateCalls
SYMMETRY Symmetry
INVARIANT NoStandstill
CHECK_DEADLOCK FALSE
