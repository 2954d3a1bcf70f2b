------------------------- MODULE MessageRouterProofs -------------------------
(***************************************************************************)
(* Proofs about the router called in any order, for any number of          *)
(* connections, users and rooms.                                           *)
(***************************************************************************)
EXTENDS MessageRouter, TLAPS

(***************************************************************************)
(* The three invariants are inductive together: a room is deleted when its *)
(* member map is empty, and only then.                                     *)
(***************************************************************************)
IInv == TypeOK /\ NoGhostRooms /\ MembersAreRoutable

\* A member map is NoMembers when it has no key.
LEMMA EmptyMembers ==
    ASSUME NEW m \in [Users -> Conns \cup {NoConn}]
    PROVE  m = NoMembers <=> \A u \in Users : m[u] = NoConn
  BY DEF NoMembers

LEMMA InitInv == Init => IInv
  BY DEF Init, IInv, TypeOK, NoGhostRooms, MembersAreRoutable, ListRoomMembers,
         NoMembers

LEMMA NextInv == IInv /\ [Next]_vars => IInv'
  <1> SUFFICES ASSUME IInv, [Next]_vars PROVE IInv'
    OBVIOUS
  <1> USE DEF IInv, TypeOK, NoGhostRooms, MembersAreRoutable, ListRoomMembers
  <1>1. ASSUME NEW r \in Rooms, NEW u \in Users, NEW c \in Conns,
               JoinRoom(r, u, c)
        PROVE  IInv'
    BY <1>1, NoConnAssumption DEF JoinRoom
  <1>2. ASSUME NEW r \in Rooms, JoinRoomFails(r)
        PROVE  IInv'
    BY <1>2 DEF JoinRoomFails, vars
  <1>3. ASSUME NEW r \in Rooms, NEW u \in Users, LeaveRoom(r, u)
        PROVE  IInv'
    <2>1. members'[r] \in [Users -> Conns \cup {NoConn}]
      BY <1>3 DEF LeaveRoom
    <2>2. members'[r] = NoMembers <=> \A v \in Users : members'[r][v] = NoConn
      BY <2>1, EmptyMembers
    <2> QED
      BY <1>3, <2>2 DEF LeaveRoom
  <1>4. ASSUME NEW u \in Users, Disconnect(u)
        PROVE  IInv'
    <2>1. \A r \in Rooms : members'[r] \in [Users -> Conns \cup {NoConn}]
      BY <1>4 DEF Disconnect
    <2>2. \A r \in Rooms :
            members'[r] = NoMembers <=> \A v \in Users : members'[r][v] = NoConn
      BY <2>1, EmptyMembers
    <2> QED
      BY <1>4, <2>1, <2>2 DEF Disconnect
  <1>5. CASE UNCHANGED vars
    BY <1>5 DEF vars
  <1> QED
    BY <1>1, <1>2, <1>3, <1>4, <1>5 DEF Next

LEMMA RouterInv == Spec => []IInv
  BY InitInv, NextInv, PTL DEF Spec

\* The tables of InMemoryMessageRouter keep their types.
THEOREM TypeCorrect == Spec => []TypeOK
  BY RouterInv, PTL DEF IInv

\* JoinRoom, LeaveRoom and Disconnect leave neither an active room without
\* members nor a member in a room that is not active.
THEOREM NoGhosts == Spec => []NoGhostRooms
  BY RouterInv, PTL DEF IInv

\* Every member of a room is in mr.users, where SendTo looks.
THEOREM Routable == Spec => []MembersAreRoutable
  BY RouterInv, PTL DEF IInv
==============================================================================
