\* One broadcast among two connections, each joining and leaving by itself.
\* Once all are unregistered and the broadcast is over nothing is left to do.
SPECIFICATION BSpec
CONSTANTS
    c1 = c1
    c2 = c2
    b1 = b1
    r1 = r1
    o1 = o1
    o2 = o2
    o3 = o3
    None = None
    Conns <- TwoConns
    Admins = {}
    Rooms = {r1}
    Objs <- ThreeObjs
    AdminOps = {}
    Broadcasters = {b1}
SYMMETRY Symmetry
INVARIANT AllMembersOffered
PROPERTY OnlyMembersGet
CHECK_DEADLOCK FALSE
