\* /join and /leave never call the router's LeaveRoom.
SPECIFICATION Spec
CONSTANTS
    Conns = {c1, c2}
    Users = {u1}
    Rooms = {general, other}
    DefaultRoom = general
    MaxConns = 2
    NoConn = NoConn
    NoUser = NoUser
    Faults = {}
SYMMETRY Symmetry
INVARIANT LeftRoomIsLeft
CHECK_DEADLOCK FALSE
