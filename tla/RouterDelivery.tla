---------------------------- MODULE RouterDelivery ---------------------------
(***************************************************************************)
(* The message router at the grain of its mutex and of single writes.      *)
(*                                                                         *)
(* BroadcastRoom and PrintRooms hold mr.mu while they write, and           *)
(* protocol.WriteMessage writes a frame in two parts, its header and its   *)
(* body.  A write to a client that has stopped reading blocks until the    *)
(* connection's deadline passes.  Handlers write their own replies without *)
(* the mutex.                                                              *)
(*                                                                         *)
(* There is one handler per connection, and it calls the router's methods  *)
(* for its own user in any order; Gateway has the order of each command.   *)
(* The methods that write to nobody take the mutex and give it back in one *)
(* step.  SendTo, which writes one frame under the mutex and has no        *)
(* caller, is left out.                                                    *)
(***************************************************************************)
EXTENDS MessageRouter, Naturals, Sequences

CONSTANTS Owner,        \* Owner[c]: the user of the handler of c
          DefaultRoom,  \* the room a handler joins first
          Messages,     \* what BroadcastRoom carries, each once
          NoMessage     \* the text of a reply

ASSUME OwnerAssumption == Owner \in [Conns -> Users]
ASSUME DefaultRoomAssumption == DefaultRoom \in Rooms
ASSUME MessagesAssumption == NoMessage \notin Messages

VARIABLES
    mu,        \* who holds mr.mu, or NoConn
    pc,        \* pc[c]: what the handler of c does next
    call,      \* call[c]: the call it is in (a reply when in none)
    todo,      \* todo[c]: the frames it has still to write
    half,      \* half[c]: the connection it has written only a header to
    done,      \* done[c]: the connections that have its call's whole frame
    received,  \* received[c]: the router's messages that c has got whole
    stalled,   \* connections whose client has stopped reading
    dead,      \* connections past their deadline, or that have hung up
    unsent     \* messages nobody has sent yet

handlerVars == <<mu, pc, call, todo, half, done>>
deliveryVars == <<vars, handlerVars, received, stalled, dead, unsent>>

\* The calls of a handler.  A reply is a WriteMessage of its own.
Call(kind, r, m) == [kind |-> kind, room |-> r, text |-> m]
Joining(r)   == Call("JoinRoom", r, NoMessage)
Leaving(r)   == Call("LeaveRoom", r, NoMessage)
Disconnecting == Call("Disconnect", DefaultRoom, NoMessage)
Printing     == Call("PrintRooms", DefaultRoom, NoMessage)
Saying(r, m) == Call("BroadcastRoom", r, m)
Replying     == Call("reply", DefaultRoom, NoMessage)

Calls == [kind : {"JoinRoom", "LeaveRoom", "Disconnect", "PrintRooms",
                  "BroadcastRoom", "reply"},
          room : Rooms, text : Messages \cup {NoMessage}]

\* A frame to be written: the connection, and which line it is of the call.
Frames == [to : Conns, line : Rooms]

DeliveryTypeOK ==
    /\ TypeOK
    /\ mu \in Conns \cup {NoConn}
    /\ pc \in [Conns -> {"new", "loop", "call", "write", "gone"}]
    /\ call \in [Conns -> Calls]
    /\ todo \in [Conns -> SUBSET Frames]
    /\ half \in [Conns -> Conns \cup {NoConn}]
    /\ done \in [Conns -> SUBSET Conns]
    /\ received \in [Conns -> Seq(Messages)]
    /\ stalled \in SUBSET Conns
    /\ dead \in SUBSET Conns
    /\ unsent \in SUBSET Messages

DeliveryInit ==
    /\ Init
    /\ mu = NoConn
    /\ pc = [c \in Conns |-> "new"]
    /\ call = [c \in Conns |-> Replying]
    /\ todo = [c \in Conns |-> {}]
    /\ half = [c \in Conns |-> NoConn]
    /\ done = [c \in Conns |-> {}]
    /\ received = [c \in Conns |-> <<>>]
    /\ stalled = {}
    /\ dead = {}
    /\ unsent = Messages
------------------------------------------------------------------------------
(***************************************************************************)
(* The client's side of a connection.                                      *)
(***************************************************************************)

\* The client stops reading and the buffers between fill up.  One that reads
\* again has only been slow, so this is for good.
Stall(c) ==
    /\ pc[c] # "gone" /\ c \notin dead
    /\ stalled' = stalled \cup {c}
    /\ UNCHANGED <<vars, handlerVars, received, dead, unsent>>

\* The deadline of SetDeadline passes, or the client hangs up: reads and
\* writes fail from now on.
Expire(c) ==
    /\ pc[c] # "gone" /\ c \notin dead
    /\ dead' = dead \cup {c}
    /\ UNCHANGED <<vars, handlerVars, received, stalled, unsent>>
------------------------------------------------------------------------------
(***************************************************************************)
(* The handler between two calls.                                          *)
(***************************************************************************)

\* The handler of c turns to k.
Begin(c, k) ==
    /\ call' = [call EXCEPT ![c] = k]
    /\ unsent' = unsent \ {k.text}
    /\ UNCHANGED <<vars, mu, half, done, received, stalled, dead>>

\* runCommandLoop starts, with the default room.
Enter(c) ==
    /\ pc[c] = "new"
    /\ pc' = [pc EXCEPT ![c] = "call"]
    /\ Begin(c, Joining(DefaultRoom)) /\ UNCHANGED todo

\* A command that calls the router.  ReadMessage and the SetDeadline behind it
\* are one step: a deadline that passes between the two is left out.
Read(c, k) ==
    /\ pc[c] = "loop" /\ c \notin dead
    /\ pc' = [pc EXCEPT ![c] = "call"]
    /\ Begin(c, k) /\ UNCHANGED todo

\* The handler writes a line of its own to its client: a usage, a refusal, the
\* answer to /help or /who, a line of history.
Reply(c) ==
    /\ pc[c] = "loop" /\ c \notin dead
    /\ pc' = [pc EXCEPT ![c] = "write"]
    /\ todo' = [todo EXCEPT ![c] = {[to |-> c, line |-> DefaultRoom]}]
    /\ Begin(c, Replying)

\* ReadMessage fails: the handler is left with its deferred Disconnect.
ReadError(c) ==
    /\ pc[c] = "loop" /\ c \in dead
    /\ pc' = [pc EXCEPT ![c] = "call"]
    /\ Begin(c, Disconnecting) /\ UNCHANGED todo

\* The calls a client can ask for; the gateway itself has none to LeaveRoom.
Commands ==
    {Joining(r) : r \in Rooms} \cup {Leaving(r) : r \in Rooms} \cup {Printing}
        \cup {Saying(r, m) : r \in Rooms, m \in unsent}
------------------------------------------------------------------------------
(***************************************************************************)
(* Calls that write to nobody.                                             *)
(***************************************************************************)

\* The handler of c, in call k, has the mutex.
Enters(c, kind) ==
    /\ pc[c] = "call" /\ mu = NoConn /\ call[c].kind = kind

\* A call of c is over without a write.
Returns(c, label) ==
    /\ pc' = [pc EXCEPT ![c] = label]
    /\ call' = [call EXCEPT ![c] = Replying]
    /\ UNCHANGED <<mu, todo, half, done, received, stalled, dead, unsent>>

DoJoin(c) ==
    /\ Enters(c, "JoinRoom")
    /\ \/ JoinRoom(call[c].room, Owner[c], c)
       \/ JoinRoomFails(call[c].room)
    /\ Returns(c, "loop")

DoLeave(c) ==
    /\ Enters(c, "LeaveRoom")
    /\ \/ LeaveRoom(call[c].room, Owner[c])
       \/ call[c].room \notin rooms /\ UNCHANGED vars
    /\ Returns(c, "loop")

DoDisconnect(c) ==
    /\ Enters(c, "Disconnect")
    /\ Disconnect(Owner[c])
    /\ Returns(c, "gone")
------------------------------------------------------------------------------
(***************************************************************************)
(* Calls that write.                                                       *)
(***************************************************************************)

\* The frames of c's call: one for each member, or one for each room or for "no
\* active rooms".
FramesOf(c) ==
    IF call[c].kind = "BroadcastRoom"
      THEN {[to |-> d, line |-> DefaultRoom] : d \in Recipients(call[c].room)}
      ELSE {[to |-> c, line |-> r] :
               r \in IF rooms = {} THEN {DefaultRoom} ELSE rooms}

\* The early return: no such room.
Unknown(c) == call[c].kind = "BroadcastRoom" /\ call[c].room \notin rooms

Writing == {"BroadcastRoom", "PrintRooms"}

\* A router that copies the members and unlocks before it writes to them.
LockCopies(c) ==
    /\ \E kind \in Writing : Enters(c, kind)
    /\ ~Unknown(c)
    /\ pc' = [pc EXCEPT ![c] = "write"]
    /\ todo' = [todo EXCEPT ![c] = FramesOf(c)]
    /\ UNCHANGED <<vars, mu, call, half, done, received, stalled, dead, unsent>>

Lock(c) ==
    /\ \E kind \in Writing : Enters(c, kind)
    /\ ~Unknown(c)
    /\ mu' = c
    /\ pc' = [pc EXCEPT ![c] = "write"]
    /\ todo' = [todo EXCEPT ![c] = FramesOf(c)]
    /\ UNCHANGED <<vars, call, half, done, received, stalled, dead, unsent>>

\* The error goes back to the client: "you must be in a room to send messages".
Refuse(c) ==
    /\ \E kind \in Writing : Enters(c, kind)
    /\ Unknown(c)
    /\ pc' = [pc EXCEPT ![c] = "write"]
    /\ todo' = [todo EXCEPT ![c] = {[to |-> c, line |-> DefaultRoom]}]
    /\ call' = [call EXCEPT ![c] = Replying]
    /\ UNCHANGED <<vars, mu, half, done, received, stalled, dead, unsent>>

\* WriteMessage, its first conn.Write
WriteHeader(c, f) ==
    /\ pc[c] = "write" /\ half[c] = NoConn
    /\ f \in todo[c] /\ f.to \notin stalled \cup dead
    /\ half' = [half EXCEPT ![c] = f.to]
    /\ todo' = [todo EXCEPT ![c] = @ \ {f}]
    /\ UNCHANGED <<vars, mu, pc, call, done, received, stalled, dead, unsent>>

\* Its second one.
WriteBody(c) ==
    /\ half[c] # NoConn /\ half[c] \notin stalled \cup dead
    /\ half' = [half EXCEPT ![c] = NoConn]
    /\ IF call[c].text \in Messages
         THEN /\ received' = [received EXCEPT ![half[c]] = Append(@, call[c].text)]
              /\ done' = [done EXCEPT ![c] = @ \cup {half[c]}]
         ELSE UNCHANGED <<received, done>>
    /\ UNCHANGED <<vars, mu, pc, call, todo, stalled, dead, unsent>>

\* A broadcast that gives up at the first bad connection.
HeaderFailsStops(c, f) ==
    /\ pc[c] = "write" /\ half[c] = NoConn
    /\ f \in todo[c] /\ f.to \in dead
    /\ todo' = [todo EXCEPT ![c] = {}]
    /\ UNCHANGED <<vars, mu, pc, call, half, done, received, stalled, dead, unsent>>

\* Either write fails; the failure is logged and the frame skipped.
HeaderFails(c, f) ==
    /\ pc[c] = "write" /\ half[c] = NoConn
    /\ f \in todo[c] /\ f.to \in dead
    /\ todo' = [todo EXCEPT ![c] = @ \ {f}]
    /\ UNCHANGED <<vars, mu, pc, call, half, done, received, stalled, dead, unsent>>

BodyFails(c) ==
    /\ half[c] # NoConn /\ half[c] \in dead
    /\ half' = [half EXCEPT ![c] = NoConn]
    /\ UNCHANGED <<vars, mu, pc, call, todo, done, received, stalled, dead, unsent>>

\* A router that does not give the mutex back.
FinishLocked(c) ==
    /\ pc[c] = "write" /\ todo[c] = {} /\ half[c] = NoConn
    /\ pc' = [pc EXCEPT ![c] = "loop"]
    /\ call' = [call EXCEPT ![c] = Replying]
    /\ done' = [done EXCEPT ![c] = {}]
    /\ UNCHANGED <<vars, mu, todo, half, received, stalled, dead, unsent>>

\* All frames are written; the deferred Unlock.
Finish(c) ==
    /\ pc[c] = "write" /\ todo[c] = {} /\ half[c] = NoConn
    /\ pc' = [pc EXCEPT ![c] = "loop"]
    /\ mu' = IF mu = c THEN NoConn ELSE mu
    /\ call' = [call EXCEPT ![c] = Replying]
    /\ done' = [done EXCEPT ![c] = {}]
    /\ UNCHANGED <<vars, todo, half, received, stalled, dead, unsent>>
------------------------------------------------------------------------------
\* A step of a handler that waits for the mutex.
Acquire(c) == DoJoin(c) \/ DoLeave(c) \/ DoDisconnect(c) \/ Lock(c) \/ Refuse(c)

\* A step of a handler that needs no other handler.
Advance(c) ==
    \/ Enter(c) \/ ReadError(c)
    \/ \E f \in todo[c] : WriteHeader(c, f) \/ HeaderFails(c, f)
    \/ WriteBody(c) \/ BodyFails(c) \/ Finish(c)

DeliveryNext ==
    \E c \in Conns :
        \/ Acquire(c) \/ Advance(c)
        \/ \E k \in Commands : Read(c, k)
        \/ Reply(c)
        \/ Stall(c) \/ Expire(c)

DeliverySpec == DeliveryInit /\ [][DeliveryNext]_deliveryVars

(***************************************************************************)
(* Fairness.  The scheduler runs every handler that can run; sync.Mutex    *)
(* hands itself to the longest waiter once that one has starved, hence the *)
(* strong fairness.  A client that has stopped reading and sends nothing   *)
(* either runs into its deadline (five minutes after the last SetDeadline, *)
(* main.go:429).  The deadline is renewed whenever the handler reads a     *)
(* frame, pending writes included, so this takes for granted that a client *)
(* which has stopped reading has stopped sending as well.                  *)
(***************************************************************************)
Deadline(c) == c \in stalled \ dead /\ Expire(c)

FairDelivery ==
    /\ DeliverySpec
    /\ \A c \in Conns : /\ SF_deliveryVars(Acquire(c))
                        /\ WF_deliveryVars(Advance(c))
                        /\ WF_deliveryVars(Deadline(c))
------------------------------------------------------------------------------
\* BroadcastRoom calls of all handlers reach their readers in one order: no two
\* connections see two messages in different orders, whoever sent them and
\* whichever writes failed.
SameOrder ==
    \A c, d \in Conns :
        \A i, j \in 1 .. Len(received[c]) : \A k, l \in 1 .. Len(received[d]) :
            /\ i < j
            /\ received[c][i] = received[d][k] /\ received[c][j] = received[d][l]
            => k < l

\* Two frames get into each other on a connection only if one of them is a
\* reply of that connection's own handler: what the router writes is never torn
\* by the router.
TornOnlyByOwnReply ==
    \A c, d \in Conns :
        c # d /\ half[c] = half[d] /\ half[c] # NoConn =>
            \E e \in {c, d} : e = half[c] /\ call[e].kind = "reply"

\* The inboxes of RoomBroadcast: what is there of the broadcast under way does
\* not count yet.
Inbox == [c \in Conns |->
            IF mu # NoConn /\ c \in done[mu]
              THEN SubSeq(received[c], 1, Len(received[c]) - 1)
              ELSE received[c]]

\* Messages nobody is calling the router with any more.
Answered == Messages \ (unsent \cup {call[c].text : c \in Conns})

Promise == INSTANCE RoomBroadcast WITH inbox <- Inbox, answered <- Answered

\* The router keeps its promise: "Failed deliveries are logged and skipped, a
\* bad connection does not interrupt delivery to other members"
\* (messaging.go:139).  Each broadcast is one step that leaves out nobody but
\* dead connections.
DeliversToAll == Promise!BroadcastSpec

\* Every call of a handler returns, its deferred Disconnect included, whoever
\* has stopped reading: mr.mu is always given back, nobody waits for it for
\* ever, and no circle of handlers blocks on one another's clients.
CallsReturn ==
    \A c \in Conns : pc[c] \in {"call", "write"} ~> pc[c] \in {"loop", "gone"}
------------------------------------------------------------------------------
\* "WriteMessage writes data to conn as a length-prefixed message. It sends a
\* 4-byte big-endian length header followed by the payload bytes."
\* (protocol.go:42): what follows a header on a connection is its payload, so
\* no two writers are between the two at once.
FramesAreWhole ==
    \A c, d \in Conns : c # d /\ half[c] = half[d] => half[c] = NoConn
==============================================================================
