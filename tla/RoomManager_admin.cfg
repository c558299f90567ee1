\* Two connections in one room, and an admin that joins, removes and deletes.
SPECIFICATION Spec
CONSTANTS
    c1 = c1
    c2 = c2
    a1 = a1
    r1 = r1
    r2 = r2
    o1 = o1
    o2 = o2
    o3 = o3
    o4 = o4
    None = None
    Conns <- TwoConns
    Admins <- OneAdmin
    Rooms <- OneRoom
    Objs <- FourObjs
    AdminOps = {"join", "leave", "delete"}
SYMMETRY RoomSymmetry
INVARIANTS
    TypeOK
    IndexWithinConnections
    NoEmptyRoomLeak
PROPERTY OnlyLeaversLeave
