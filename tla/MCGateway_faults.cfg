\* Every party may fail, at any point of two handlers.
SPECIFICATION Spec
CONSTANTS
    Conns = {c1, c2}
    Users = {u1, u2}
    Rooms = {general, other}
    DefaultRoom = general
    MaxConns = 2
    NoConn = NoConn
    NoUser = NoUser
    Faults = {"gateway", "messaging", "presence", "nats", "db", "auth"}
SYMMETRY Symmetry
INVARIANTS
    RouterHoldsLiveSessions
    PresenceHoldsLiveSessions
    LoneSessionIsRouted
CHECK_DEADLOCK FALSE
