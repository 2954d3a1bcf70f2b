----------------------------- MODULE RoomHistory -----------------------------
(***************************************************************************)
(* One room across the gateway, the messaging service and the database:    *)
(* how it gets its id, how a message is broadcast and then stored, and     *)
(* what a handler that joins gets to see.                                  *)
(*                                                                         *)
(* Both processes look a room up and insert it when it has no entry in     *)
(* their memory, each under its own mutex: the messaging service for       *)
(* GetRoomID, the gateway's router for broadcasts.  rooms.name is UNIQUE.  *)
(*                                                                         *)
(* The room is the default one, which every handler enters when it logs    *)
(* in, and may re-enter by /leave; of the behaviours here any other room   *)
(* has those in which nobody returns.                                      *)
(*                                                                         *)
(* Every handler has a user of its own.  Only the newest HistoryLimit      *)
(* messages are shown on joining.  A GetRoomID call that fails ends the    *)
(* gateway (Gateway!Panic), here as GatewayStops.                          *)
(***************************************************************************)
EXTENDS Naturals, Sequences, FiniteSets

CONSTANTS Handlers,      \* handlers of the gateway
          Messages,      \* what they say, each once
          HistoryLimit,  \* 20
          Ids,           \* what uuid.New draws for a room
          NoId,          \* "", the id of no room
          NoMessage,
          NoHandler

ASSUME HistoryLimitAssumption == HistoryLimit \in Nat
ASSUME NoIdAssumption == NoId \notin Ids
ASSUME NoMessageAssumption == NoMessage \notin Messages
ASSUME NoHandlerAssumption == NoHandler \notin Handlers

VARIABLES
    row,            \* rooms: the id of the room's row, or NoId
    storeId,        \* the messaging service's entry: its id, or NoId
    storeMembers,   \* ... and its members
    storeLock,      \* rs.mu: the handler whose JoinRoom holds it
    routerId,       \* the router's RoomSession: its Room.ID, or NoId
    routerMembers,  \* ... and its Members
    routerLock,     \* mr.mu: the handler whose JoinRoom holds it
    pc,             \* pc[h]: what the handler does next
    id,             \* id[h]: the room id it has been given
    saying,         \* saying[h]: the message it is sending
    stamps,         \* messages in the order of their created_at
    stored,         \* messages: the rows of the room
    live,           \* live[h]: messages broadcast to h since it asked to join
    shown,          \* shown[h]: the history it was sent
    returning,      \* handlers in the re-entry of a /leave
    under,          \* history: under[h] is what was neither broadcast to h nor
                    \* stored while it joined
    expired,        \* history: what the cleanup worker has deleted
    failed          \* history: a call has failed or a process stopped

directory == <<row, storeId, storeMembers, storeLock, routerId, routerMembers,
               routerLock>>
log  == <<stamps, stored, expired>>
view == <<live, shown, under, returning>>
vars == <<directory, log, view, pc, id, saying, failed>>

\* In the room, as far as the handler goes.
InLoop == {"loop", "stamp", "insert"}

TypeOK ==
    /\ row \in Ids \cup {NoId}
    /\ storeId \in Ids \cup {NoId}
    /\ storeMembers \in SUBSET Handlers
    /\ storeLock \in Handlers \cup {NoHandler}
    /\ routerId \in Ids \cup {NoId}
    /\ routerMembers \in SUBSET Handlers
    /\ routerLock \in Handlers \cup {NoHandler}
    /\ pc \in [Handlers -> InLoop \cup {"out", "away", "storeFind", "storeCreate",
                "routerFind", "routerCreate", "getId", "list"}]
    /\ id \in [Handlers -> Ids \cup {NoId}]
    /\ saying \in [Handlers -> Messages \cup {NoMessage}]
    /\ stamps \in Seq(Messages)
    /\ stored \in SUBSET Messages
    /\ live \in [Handlers -> SUBSET Messages]
    /\ shown \in [Handlers -> SUBSET Messages]
    /\ under \in [Handlers -> SUBSET Messages]
    /\ returning \in SUBSET Handlers
    /\ expired \in SUBSET Messages
    /\ failed \in BOOLEAN

\* The room may have a row from before.
Init ==
    /\ row \in Ids \cup {NoId}
    /\ storeId = NoId /\ storeMembers = {} /\ storeLock = NoHandler
    /\ routerId = NoId /\ routerMembers = {} /\ routerLock = NoHandler
    /\ pc = [h \in Handlers |-> "out"]
    /\ id = [h \in Handlers |-> NoId]
    /\ saying = [h \in Handlers |-> NoMessage]
    /\ stamps = <<>> /\ stored = {} /\ expired = {}
    /\ live = [h \in Handlers |-> {}]
    /\ shown = [h \in Handlers |-> {}]
    /\ under = [h \in Handlers |-> {}]
    /\ returning = {}
    /\ failed = FALSE

Goto(h, a, b) == pc[h] = a /\ pc' = [pc EXCEPT ![h] = b]

\* Broadcast, and not yet stored or given up.
InFlight == {saying[h] : h \in Handlers} \ {NoMessage}

\* Every message anybody has broadcast.
Said == InFlight \cup {stamps[i] : i \in 1 .. Len(stamps)}
------------------------------------------------------------------------------
(***************************************************************************)
(* Joining: messageClient.JoinRoom, then router.JoinRoom.                  *)
(***************************************************************************)

\* h asks to join, when its user has logged in or by a /join from another room;
\* its view of the room starts empty.
Join(h) ==
    /\ Goto(h, "out", "storeFind") \/ Goto(h, "away", "storeFind")
    /\ live' = [live EXCEPT ![h] = {}]
    /\ shown' = [shown EXCEPT ![h] = {}]
    /\ under' = [under EXCEPT ![h] = {}]
    /\ UNCHANGED <<directory, log, returning, id, saying, failed>>

\* /leave brings h back to the room: both JoinRooms, and no history.  Its client
\* has what it was sent before.
Return(h) ==
    /\ Goto(h, "away", "storeFind")
    /\ returning' = returning \cup {h}
    /\ UNCHANGED <<directory, log, live, shown, under, id, saying, failed>>

\* The service has the room in memory or finds its row.
StoreFind(h) ==
    /\ Goto(h, "storeFind", "routerFind")
    /\ storeLock = NoHandler
    /\ storeId # NoId \/ row # NoId
    /\ storeId' = IF storeId # NoId THEN storeId ELSE row
    /\ storeMembers' = storeMembers \cup {h}
    /\ UNCHANGED <<row, storeLock, routerId, routerMembers, routerLock, log,
                   view, id, saying, failed>>

\* It finds neither and turns to Create, its mutex held, with a new id.
StoreMisses(h, i) ==
    /\ Goto(h, "storeFind", "storeCreate")
    /\ storeLock = NoHandler /\ storeId = NoId /\ row = NoId
    /\ storeLock' = h
    /\ id' = [id EXCEPT ![h] = i]
    /\ UNCHANGED <<row, storeId, storeMembers, routerId, routerMembers,
                   routerLock, log, view, saying, failed>>

\* A Create that is forgotten.
StoreCreateForgotten(h) ==
    /\ Goto(h, "storeCreate", "routerFind")
    /\ storeId' = id[h]
    /\ storeMembers' = storeMembers \cup {h}
    /\ storeLock' = NoHandler
    /\ UNCHANGED <<row, routerId, routerMembers, routerLock, log, view, id,
                   saying, failed>>

\* Create: a row of that name is an error, and JoinRoom fails with it.
StoreCreate(h) ==
    /\ Goto(h, "storeCreate", "routerFind")
    /\ IF row = NoId
         THEN /\ row' = id[h] /\ storeId' = id[h]
              /\ storeMembers' = storeMembers \cup {h}
         ELSE UNCHANGED <<row, storeId, storeMembers>>
    /\ storeLock' = NoHandler
    /\ UNCHANGED <<routerId, routerMembers, routerLock, log, view, id, saying,
                   failed>>

\* The handler is in the router from here on; what is in flight now has been
\* broadcast without it, unless it was in the router all along.
Routed(h) ==
    /\ routerMembers' = routerMembers \cup {h}
    /\ under' = IF h \in returning THEN under
                ELSE [under EXCEPT ![h] = InFlight \ live[h]]

\* The end of router.JoinRoom: the history is next, but for a /leave.
JoinedRouter(h, from) ==
    /\ Goto(h, from, IF h \in returning THEN "loop" ELSE "getId")
    /\ returning' = returning \ {h}

RouterFind(h) ==
    /\ JoinedRouter(h, "routerFind")
    /\ routerLock = NoHandler
    /\ routerId # NoId \/ row # NoId
    /\ routerId' = IF routerId # NoId THEN routerId ELSE row
    /\ Routed(h)
    /\ UNCHANGED <<row, storeId, storeMembers, storeLock, routerLock, log, live,
                   shown, id, saying, failed>>

RouterMisses(h, i) ==
    /\ Goto(h, "routerFind", "routerCreate")
    /\ routerLock = NoHandler /\ routerId = NoId /\ row = NoId
    /\ routerLock' = h
    /\ id' = [id EXCEPT ![h] = i]
    /\ UNCHANGED <<row, storeId, storeMembers, storeLock, routerId,
                   routerMembers, log, view, saying, failed>>

\* An insert that does nothing on a conflict, as ON CONFLICT DO NOTHING would.
RouterCreateAnyway(h) ==
    /\ JoinedRouter(h, "routerCreate")
    /\ row' = IF row = NoId THEN id[h] ELSE row
    /\ routerId' = id[h]
    /\ Routed(h)
    /\ routerLock' = NoHandler
    /\ UNCHANGED <<storeId, storeMembers, storeLock, log, live, shown, id,
                   saying, failed>>

RouterCreate(h) ==
    /\ JoinedRouter(h, "routerCreate")
    /\ IF row = NoId
         THEN row' = id[h] /\ routerId' = id[h] /\ Routed(h)
         ELSE UNCHANGED <<row, routerId, routerMembers, under>>
    /\ routerLock' = NoHandler
    /\ UNCHANGED <<storeId, storeMembers, storeLock, log, live, shown, id,
                   saying, failed>>
------------------------------------------------------------------------------
(***************************************************************************)
(* The history.                                                            *)
(***************************************************************************)

\* GetRoomID
GetId(h) ==
    /\ Goto(h, "getId", "list")
    /\ storeLock = NoHandler
    /\ id' = [id EXCEPT ![h] = storeId]
    /\ UNCHANGED <<directory, log, view, saying, failed>>

\* m was created before n.
Before(m, n) ==
    \E i, j \in 1 .. Len(stamps) : i < j /\ stamps[i] = m /\ stamps[j] = n

\* The oldest HistoryLimit messages.
OldestStored(n) == {m \in stored : Cardinality({k \in stored : Before(k, m)}) < n}

\* ListByRoom: ORDER BY created_at DESC LIMIT n.
NewestStored(n) == {m \in stored : Cardinality({k \in stored : Before(m, k)}) < n}

\* ListByRoom and its lines to the client.  "" is no UUID and the query fails.
List(h) ==
    /\ Goto(h, "list", "loop")
    /\ shown' = [shown EXCEPT ![h] =
                    IF id[h] = NoId THEN {} ELSE NewestStored(HistoryLimit)]
    /\ under' = [under EXCEPT ![h] = @ \cap InFlight]
    /\ UNCHANGED <<directory, log, live, returning, id, saying, failed>>
------------------------------------------------------------------------------
(***************************************************************************)
(* Sending: broadcast, GetRoomID, NewMessage, Create.                      *)
(***************************************************************************)

\* BroadcastRoom reaches the router's members, those included who have left the
\* room only in the messaging service; without a RoomSession it fails, and the
\* handler goes on.
Broadcast(h, m) ==
    /\ Goto(h, "loop", "stamp")
    /\ routerLock = NoHandler
    /\ m \notin Said
    /\ saying' = [saying EXCEPT ![h] = m]
    /\ live' = [g \in Handlers |-> IF g \in routerMembers THEN live[g] \cup {m}
                                                          ELSE live[g]]
    /\ UNCHANGED <<directory, log, shown, under, returning, id, failed>>

\* GetRoomID, and domain.NewMessage with the time.
Stamp(h) ==
    /\ Goto(h, "stamp", "insert")
    /\ storeLock = NoHandler
    /\ id' = [id EXCEPT ![h] = storeId]
    /\ stamps' = Append(stamps, saying[h])
    /\ UNCHANGED <<directory, stored, expired, view, saying, failed>>

\* An Insert that clears the message before it stores it.
InsertCleared(h) ==
    /\ Goto(h, "insert", "loop")
    /\ saying' = [saying EXCEPT ![h] = NoMessage]
    /\ stored' = IF id[h] = NoId THEN stored ELSE stored \cup {saying'[h]}
    /\ UNCHANGED <<directory, stamps, expired, view, id, failed>>

\* messageRepo.Create; a room_id of "" is an error, which is logged.
Insert(h) ==
    /\ Goto(h, "insert", "loop")
    /\ stored' = IF id[h] = NoId THEN stored ELSE stored \cup {saying[h]}
    /\ saying' = [saying EXCEPT ![h] = NoMessage]
    /\ UNCHANGED <<directory, stamps, expired, view, id, failed>>
------------------------------------------------------------------------------
(***************************************************************************)
(* Leaving and cleaning up.                                                *)
(***************************************************************************)

\* A LeaveRoom that deletes the entry whoever is left in it.
LeaveDropsEntry(h) ==
    /\ Goto(h, "loop", "away")
    /\ storeLock = NoHandler
    /\ storeMembers' = {}
    /\ storeId' = NoId
    /\ UNCHANGED <<row, storeLock, routerId, routerMembers, routerLock, log,
                   view, id, saying, failed>>

\* A /join or a /leave begins: LeaveRoom of the messaging service, which deletes
\* the entry with its last member; the router keeps h.
Leave(h) ==
    /\ Goto(h, "loop", "away")
    /\ storeLock = NoHandler
    /\ storeMembers' = storeMembers \ {h}
    /\ storeId' = IF storeMembers' = {} THEN NoId ELSE storeId
    /\ UNCHANGED <<row, storeLock, routerId, routerMembers, routerLock, log,
                   view, id, saying, failed>>

\* The connection ends, in this room or in another: router.Disconnect takes h out
\* of both, and the messaging service keeps it where it is.
Disconnect(h) ==
    /\ Goto(h, "loop", "out") \/ Goto(h, "away", "out")
    /\ routerLock = NoHandler
    /\ routerMembers' = routerMembers \ {h}
    /\ routerId' = IF routerMembers' = {} THEN NoId ELSE routerId
    /\ UNCHANGED <<row, storeId, storeMembers, storeLock, routerLock, log, view,
                   id, saying, failed>>

\* runCleanup deletes the messages created before some moment, here the first n.
\* No room has a deleted_at, so it deletes no row of rooms.
Cleanup(n) ==
    LET old == {stamps[i] : i \in 1 .. n}
    IN  /\ old \cap stored # {}
        /\ stored' = stored \ old
        /\ expired' = expired \cup (old \cap stored)
        /\ UNCHANGED <<directory, stamps, view, pc, id, saying, failed>>
------------------------------------------------------------------------------
(***************************************************************************)
(* Failures.                                                               *)
(***************************************************************************)

\* messageClient.JoinRoom fails, with the database or with its service, before
\* it has changed anything; the handler goes on to the router.
StoreJoinFails(h) ==
    /\ pc[h] \in {"storeFind", "storeCreate"}
    /\ pc' = [pc EXCEPT ![h] = "routerFind"]
    /\ storeLock' = IF storeLock = h THEN NoHandler ELSE storeLock
    /\ failed' = TRUE
    /\ UNCHANGED <<row, storeId, storeMembers, routerId, routerMembers,
                   routerLock, log, view, id, saying>>

\* router.JoinRoom fails, and its error is ignored too.
RouterJoinFails(h) ==
    /\ \/ /\ JoinedRouter(h, "routerFind")
          /\ routerLock = NoHandler /\ routerId = NoId
       \/ JoinedRouter(h, "routerCreate")
    /\ routerLock' = NoHandler
    /\ failed' = TRUE
    /\ UNCHANGED <<row, storeId, storeMembers, storeLock, routerId,
                   routerMembers, log, live, shown, under, id, saying>>

\* messageClient.LeaveRoom fails with its service, and the handler goes on.
LeaveFails(h) ==
    /\ Goto(h, "loop", "away")
    /\ failed' = TRUE
    /\ UNCHANGED <<directory, log, view, id, saying>>

\* messageRepo.ListByRoom or Create fails.
ListFails(h) ==
    /\ Goto(h, "list", "loop")
    /\ failed' = TRUE
    /\ UNCHANGED <<directory, log, view, id, saying>>

InsertFails(h) ==
    /\ Goto(h, "insert", "loop")
    /\ saying' = [saying EXCEPT ![h] = NoMessage]
    /\ failed' = TRUE
    /\ UNCHANGED <<directory, log, view, id>>

\* The messaging service starts again; a JoinRoom under way has failed.
RestartMessaging ==
    /\ storeId' = NoId /\ storeMembers' = {} /\ storeLock' = NoHandler
    /\ pc' = [h \in Handlers |-> IF pc[h] = "storeCreate" THEN "routerFind"
                                                          ELSE pc[h]]
    /\ failed' = TRUE
    /\ UNCHANGED <<row, routerId, routerMembers, routerLock, log, view, id,
                   saying>>

\* The gateway stops, or panics: handlers are gone between any two steps, and
\* with them what they had broadcast and not yet stored.  A JoinRoom the service
\* is in the middle of goes on without them, as if they had stopped after it.
GatewayStops ==
    /\ storeLock = NoHandler
    /\ routerId' = NoId /\ routerMembers' = {} /\ routerLock' = NoHandler
    /\ pc' = [h \in Handlers |-> "out"]
    /\ saying' = [h \in Handlers |-> NoMessage]
    /\ returning' = {}
    /\ failed' = TRUE
    /\ UNCHANGED <<row, storeId, storeMembers, storeLock, log, live, shown, under,
                   id>>
------------------------------------------------------------------------------
Next ==
    \/ \E h \in Handlers :
        \/ Join(h) \/ Return(h)
        \/ StoreFind(h) \/ StoreCreate(h) \/ RouterFind(h) \/ RouterCreate(h)
        \/ \E i \in Ids \ ({row} \cup {id[g] : g \in Handlers}) :
              StoreMisses(h, i) \/ RouterMisses(h, i)
        \/ GetId(h) \/ List(h)
        \/ \E m \in Messages : Broadcast(h, m)
        \/ Stamp(h) \/ Insert(h)
        \/ Leave(h) \/ Disconnect(h)
        \/ StoreJoinFails(h) \/ RouterJoinFails(h)
        \/ LeaveFails(h) \/ ListFails(h) \/ InsertFails(h)
    \/ \E n \in 1 .. Len(stamps) : Cleanup(n)
    \/ RestartMessaging \/ GatewayStops

Spec == Init /\ [][Next]_vars
------------------------------------------------------------------------------
\* "GetRoomID returns the stable ID for roomName" (room_store.go:27): both
\* processes have the id of the row, whoever inserted it, through races,
\* failures, restarts and emptied rooms; no message is stored under another.
IdIsStable ==
    /\ storeId \in {NoId, row}
    /\ routerId \in {NoId, row}
    /\ \A h \in Handlers : pc[h] \in {"list", "insert"} => id[h] \in {NoId, row}

\* While nothing fails the router finds the row of a room that JoinRoom of the
\* messaging service has made: it never inserts one itself, and so never loses
\* the race for it and leaves a handler unrouted.
RouterFindsRow == ~failed => routerLock = NoHandler

\* While nothing fails, what a handler has said is stored once it reads its next
\* command, however the others come and go.
SaidIsStored ==
    ~failed => Said \subseteq stored \cup InFlight \cup expired

\* While nothing fails, a handler that has joined misses only what was broadcast
\* before it was routed and stored after it had listed the history, what is
\* older than a full history, and what has been cleaned up: joining the router
\* comes before reading the history, and broadcasting before storing.  A handler
\* that comes back by /leave is shown no history (main.go:511-526) and misses no
\* more for it, because the router has kept it, and written to it, all along.
NothingElseIsMissed ==
    ~failed =>
        \A h \in Handlers : pc[h] \in InLoop =>
            \A m \in Said \ (live[h] \cup shown[h] \cup under[h] \cup expired) :
                /\ Cardinality(shown[h]) = HistoryLimit
                /\ \A n \in shown[h] : Before(m, n)
==============================================================================
