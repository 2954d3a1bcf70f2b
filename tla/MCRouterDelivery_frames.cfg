\* A handler's own reply, written without the mutex, and a broadcast.
SPECIFICATION DeliverySpec
CONSTANTS
    c1 = c1
    c2 = c2
    u1 = u1
    u2 = u2
    Conns = {c1, c2}
    Users = {u1, u2}
    Rooms = {general}
    DefaultRoom = general
    Owner <- OneEach
    Messages = {m1, m2}
    NoConn = NoConn
    NoMessage = NoMessage
INVARIANT FramesAreWhole
CHECK_DEADLOCK FALSE
