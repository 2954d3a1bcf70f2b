\* Two handlers that come and go, one message more than a history holds, and an
\* id for each handler: a third id reaches no further state.
SPECIFICATION Spec
CONSTANTS
    Handlers = {h1, h2}
    Messages = {m1, m2, m3}
    HistoryLimit = 2
    Ids = {i1, i2}
    NoId = NoId
    NoMessage = NoMessage
    NoHandler = NoHandler
SYMMETRY Symmetry
INVARIANTS
    TypeOK
    IdIsStable
    RouterFindsRow
    SaidIsStored
    NothingElseIsMissed
