---------------------------- MODULE RoomBroadcast ----------------------------
(***************************************************************************)
(* What the message router promises of its deliveries: BroadcastRoom puts  *)
(* a message at the end of the inbox of every member of the room, in one   *)
(* step, and leaves out nobody but broken connections.                     *)
(***************************************************************************)
EXTENDS MessageRouter, Sequences

CONSTANT Messages

VARIABLES inbox,    \* inbox[c]: the messages the router has brought to c
          answered, \* messages whose call has returned
          dead      \* connections that take no more

tables == <<rooms, members, users>>

\* Everyone in to gets m, but for some whose connection is dead.
Deliver(to, m) ==
    /\ m \notin answered
    /\ answered' = answered \cup {m}
    /\ \E got \in SUBSET to :
        /\ to \ dead \subseteq got
        /\ inbox' = [c \in Conns |-> IF c \in got THEN Append(inbox[c], m)
                                                  ELSE inbox[c]]
    /\ UNCHANGED <<tables, dead>>

Broadcast(r, m) == r \in rooms /\ Deliver(Recipients(r), m)

\* There is no such room.
Refuse(r, m) == r \notin rooms /\ Deliver({}, m)

Break(c) ==
    /\ dead' = dead \cup {c}
    /\ UNCHANGED <<tables, inbox, answered>>

\* A method of the router that writes nothing.
Manage == Next /\ UNCHANGED <<inbox, answered, dead>>

BroadcastInit ==
    /\ Init
    /\ inbox = [c \in Conns |-> <<>>]
    /\ answered = {}
    /\ dead = {}

BroadcastNext ==
    \/ Manage
    \/ \E r \in Rooms, m \in Messages : Broadcast(r, m) \/ Refuse(r, m)
    \/ \E c \in Conns : Break(c)

BroadcastSpec ==
    BroadcastInit /\ [][BroadcastNext]_<<tables, inbox, answered, dead>>
==============================================================================
