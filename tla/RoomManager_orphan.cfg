\* A joined connection is not in the room (room.rs:393), own tasks only.
SPECIFICATION Spec
CONSTANTS
    c1 = c1
    c2 = c2
    a1 = a1
    r1 = r1
    r2 = r2
    o1 = o1
    o2 = o2
    o3 = o3
    o4 = o4
    None = None
    Conns <- TwoConns
    Admins <- NoAdmin
    Rooms <- OneRoom
    Objs <- FourObjs
    AdminOps = {}
SYMMETRY RoomSymmetry
INVARIANT IndexedReachable
CHECK_DEADLOCK FALSE
