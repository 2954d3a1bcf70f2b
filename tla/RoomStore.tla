------------------------------ MODULE RoomStore ------------------------------
(***************************************************************************)
(* InMemoryRoomStore (internal/messaging/room_store.go), the state of the  *)
(* messaging service: which rooms have an entry and which usernames each   *)
(* entry lists.  Every method runs under rs.mu and is one action.          *)
(*                                                                         *)
(* A room's id is fixed by its name (rooms.name is UNIQUE), so an entry is *)
(* all that GetRoomID depends on: without one it answers "".               *)
(***************************************************************************)
CONSTANTS Users, Rooms

VARIABLES rooms,    \* keys of rs.rooms
          members   \* members[r]: keys of rs.rooms[r].members

\* NewInMemoryRoomStore
Init ==
    /\ rooms = {}
    /\ members = [r \in Rooms |-> {}]

\* JoinRoom with the room in memory, or found in or created by the repository.
JoinRoom(r, u) ==
    /\ rooms' = rooms \cup {r}
    /\ members' = [members EXCEPT ![r] = @ \cup {u}]

\* JoinRoom returning early: the room has no entry and the repository fails.
JoinRoomFails(r) ==
    /\ r \notin rooms
    /\ UNCHANGED <<rooms, members>>

\* A LeaveRoom that drops the entry whoever is left in it.
LeaveRoomDropsEntry(r, u) ==
    /\ members' = [members EXCEPT ![r] = {}]
    /\ rooms' = rooms \ {r}

\* LeaveRoom; for a room with no entry it is an error and changes nothing.
LeaveRoom(r, u) ==
    /\ members' = [members EXCEPT ![r] = @ \ {u}]
    /\ rooms' = IF members[r] \subseteq {u} THEN rooms \ {r} ELSE rooms

\* GetRoomID(r) # "": the id messages are persisted and listed under.
HasRoomID(r) == r \in rooms

\* The process starts again with an empty store.
Restart ==
    /\ rooms' = {}
    /\ members' = [r \in Rooms |-> {}]
==============================================================================
