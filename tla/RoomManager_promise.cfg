\* Two connections in two rooms, each served by its own task.
\* Once both are unregistered nothing is left to do.
SPECIFICATION Spec
CONSTANTS
    c1 = c1
    c2 = c2
    a1 = a1
    r1 = r1
    r2 = r2
    o1 = o1
    o2 = o2
    o3 = o3
    o4 = o4
    None = None
    Conns <- TwoConns
    Admins <- NoAdmin
    Rooms <- TwoRooms
    Objs <- FourObjs
    AdminOps = {}
SYMMETRY RoomSymmetry
INVARIANT MemberIndexed
PROPERTY Membership
CHECK_DEADLOCK FALSE
