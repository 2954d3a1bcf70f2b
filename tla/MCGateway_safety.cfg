\* No party fails: three connections, two accounts, two rooms, and one slot
\* fewer than connections, so that the server is full and overlaps happen.
SPECIFICATION Spec
CONSTANTS
    Conns = {c1, c2, c3}
    Users = {u1, u2}
    Rooms = {general, other}
    DefaultRoom = general
    MaxConns = 2
    NoConn = NoConn
    NoUser = NoUser
    Faults = {}
SYMMETRY Symmetry
INVARIANTS
    TypeOK
    HandlersBounded
    RouterHoldsLiveSessions
    PresenceHoldsLiveSessions
    LoneSessionIsPresent
    LoneSessionIsRouted
    LoneSessionHasRoomID
    WhoIsAccurate
PROPERTIES
    OverlapIsARace
CHECK_DEADLOCK FALSE
