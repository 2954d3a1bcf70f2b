---------------------------- MODULE MessageRouter ----------------------------
(***************************************************************************)
(* InMemoryMessageRouter (internal/messaging/messaging.go): the gateway's  *)
(* table of active rooms and their members, and its table of routable      *)
(* users.  Every method holds mr.mu from its first to its last access, so  *)
(* each one is a single action.                                            *)
(*                                                                         *)
(* A Go map is a total function with NoConn for an absent key.  The keys   *)
(* of mr.rooms are kept apart, in rooms: the code deletes a room from the  *)
(* map by hand, when its last member goes.                                 *)
(***************************************************************************)
CONSTANTS Conns,    \* connection objects (net.Conn)
          Users,    \* usernames
          Rooms,    \* room names
          NoConn    \* "no such key"

ASSUME NoConnAssumption == NoConn \notin Conns

VARIABLES rooms,    \* keys of mr.rooms
          members,  \* members[r][u]: mr.rooms[r].Members[u]
          users     \* users[u]: mr.users[u]

vars == <<rooms, members, users>>

NoMembers == [u \in Users |-> NoConn]

TypeOK ==
    /\ rooms \in SUBSET Rooms
    /\ members \in [Rooms -> [Users -> Conns \cup {NoConn}]]
    /\ users \in [Users -> Conns \cup {NoConn}]

\* NewInMemoryMessageRouter
Init ==
    /\ rooms = {}
    /\ members = [r \in Rooms |-> NoMembers]
    /\ users = NoMembers

\* A JoinRoom that stores the username for the connection.
JoinRoomStoresName(r, u, c) ==
    /\ rooms' = rooms \cup {r}
    /\ members' = [members EXCEPT ![r][u] = u]
    /\ users' = [users EXCEPT ![u] = c]

\* A JoinRoom that does not register the user for direct messages.
JoinRoomForgetsUser(r, u, c) ==
    /\ rooms' = rooms \cup {r}
    /\ members' = [members EXCEPT ![r][u] = c]
    /\ UNCHANGED users

\* JoinRoom with the room active, or found in or created by the repository.
JoinRoom(r, u, c) ==
    /\ rooms' = rooms \cup {r}
    /\ members' = [members EXCEPT ![r][u] = c]
    /\ users' = [users EXCEPT ![u] = c]

\* JoinRoom returning early: the room is not active and the repository fails.
JoinRoomFails(r) ==
    /\ r \notin rooms
    /\ UNCHANGED vars

\* A LeaveRoom that forgets to delete the emptied room.
LeaveRoomKeepsRoom(r, u) ==
    /\ r \in rooms
    /\ members' = [members EXCEPT ![r][u] = NoConn]
    /\ UNCHANGED <<rooms, users>>

\* LeaveRoom.  The gateway has no call to it.
LeaveRoom(r, u) ==
    /\ r \in rooms
    /\ members' = [members EXCEPT ![r][u] = NoConn]
    /\ rooms' = IF members'[r] = NoMembers THEN rooms \ {r} ELSE rooms
    /\ UNCHANGED users

\* Disconnect: by username, out of every room and out of the user map.
Disconnect(u) ==
    /\ members' = [r \in Rooms |-> [members[r] EXCEPT ![u] = NoConn]]
    /\ rooms' = {r \in rooms : members'[r] # NoMembers}
    /\ users' = [users EXCEPT ![u] = NoConn]

\* The connections BroadcastRoom(r, _) writes to.
Recipients(r) == {members[r][u] : u \in Users} \ {NoConn}

\* ListRoomMembers
ListRoomMembers(r) == {u \in Users : members[r][u] # NoConn}
------------------------------------------------------------------------------
(***************************************************************************)
(* The router on its own, called in any order its interface permits.       *)
(***************************************************************************)
Next ==
    \/ \E r \in Rooms, u \in Users, c \in Conns : JoinRoom(r, u, c)
    \/ \E r \in Rooms : JoinRoomFails(r)
    \/ \E r \in Rooms, u \in Users : LeaveRoom(r, u)
    \/ \E u \in Users : Disconnect(u)

Spec == Init /\ [][Next]_vars

\* An active room has a member and a room with a member is active: neither
\* LeaveRoom nor Disconnect leaves a ghost room behind ("Clean up empty rooms
\* to avoid accumulating ghost rooms in memory", messaging.go:130), and no
\* member is out of BroadcastRoom's reach.
NoGhostRooms == \A r \in Rooms : r \in rooms <=> ListRoomMembers(r) # {}

\* SendTo reaches every user that is a member of some room: JoinRoom and
\* Disconnect keep mr.users in step with the rooms.
MembersAreRoutable ==
    \A r \in Rooms : \A u \in ListRoomMembers(r) : users[u] # NoConn
==============================================================================
