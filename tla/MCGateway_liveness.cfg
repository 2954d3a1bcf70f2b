\* Teardown, the end of authentication and /who; one slot per connection.
SPECIFICATION FairSpec
CONSTANTS
    Conns = {c1, c2}
    Users = {u1}
    Rooms = {general, other}
    DefaultRoom = general
    MaxConns = 2
    NoConn = NoConn
    NoUser = NoUser
    Faults = {"auth"}
PROPERTIES
    GoneIsForgotten
    AuthEnds
    WhoForgets
CHECK_DEADLOCK FALSE
