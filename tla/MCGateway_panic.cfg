\* A failing messaging service.
SPECIFICATION Spec
CONSTANTS
    Conns = {c1, c2}
    Users = {u1}
    Rooms = {general, other}
    DefaultRoom = general
    MaxConns = 2
    NoConn = NoConn
    NoUser = NoUser
    Faults = {"messaging"}
SYMMETRY Symmetry
INVARIANT NoPanic
CHECK_DEADLOCK FALSE
