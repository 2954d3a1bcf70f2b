\* Two handlers and one room; two messages, whose orders can differ.
SPECIFICATION FairDelivery
CONSTANTS
    c1 = c1
    c2 = c2
    u1 = u1
    u2 = u2
    Conns = {c1, c2}
    Users = {u1, u2}
    Rooms = {general}
    DefaultRoom = general
    Owner <- OneEach
    Messages = {m1, m2}
    NoConn = NoConn
    NoMessage = NoMessage
INVARIANTS
    DeliveryTypeOK
    NoGhostRooms
    MembersAreRoutable
    SameOrder
    TornOnlyByOwnReply
PROPERTIES
    DeliversToAll
    CallsReturn
CHECK_DEADLOCK FALSE
